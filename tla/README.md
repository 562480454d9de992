# Verification of heqiuyu-api

heqiuyu-api is a gateway in front of language-model providers. A user pays in
*quota*; every request takes quota in advance, is sent to a *channel* (an
account at a provider), and is charged for what it used. The gateway runs as
one or several processes over one database, and most of its hard code moves
quota: between requests that run at the same time, goroutines of one request,
polling loops of several processes, and calls that fail half-way. That is what
these modules model first. Around it they model the state of the channels that
requests go to, the loop that chooses one after another, and the two parts of
the web front end in which several things happen at once.

1. [Inventory](#inventory)
2. [Modules](#modules)
3. [How the modules correspond to the code](#how-the-modules-correspond-to-the-code)
4. [Runs](#runs)
5. [Fairness](#fairness)
6. [Proofs](#proofs)
7. [Disagreements found](#disagreements-found)
8. [Not modelled](#not-modelled)

Paths below are relative to the repository's root.

## Inventory

### Where the quota is

| component | state | operations | interacts with |
|---|---|---|---|
| **Billing session** (`service/billing_session.go`, `funding_source.go`, `billing.go`) | one struct per request, in memory: amounts held, flags `fundingSettled`, `settled`, `refunded` | pre-consume, `Reserve`, `Settle`, `Refund` (in a goroutine, with retries), overspend guard | the rows below; the handler of the request |
| **Quota rows** (`model/user.go`, `model/token.go`) | `users.quota`, `tokens.remain_quota`, `tokens.status` | relative updates, guarded decrements, disabling | everything that charges |
| **Subscriptions** (`model/subscription.go`, `service/subscription_reset_task.go`) | rows of subscriptions and of pre-consume records, the user's group | grant, pre-consume, settle, refund, reset, expire, cancel, delete; a maintenance loop per master process | billing sessions, administrators |
| **Realtime sessions** (`relay/channel/openai/relay-openai.go`, `relay/websocket.go`, `service/quota.go`) | three counters shared by three goroutines without a lock, `errChan`, two connections | rounds charged as they end, a flush, a settlement | wallet directly, and its billing session |
| **Asynchronous tasks** (`service/task_polling.go`, `task_billing.go`, `model/task.go`, `relay/relay_task.go`) | a row per task | submission, polling, timeout sweep, bulk failure, repricing, refund, realtime query | wallet or subscription; the provider |
| **Midjourney proxy** (`controller/midjourney.go`) | a row per task | a polling loop with refunds | wallet |
| **Redemption, check-in** (`model/redemption.go`, `checkin.go`) | codes, one check-in per day | claim and credit | wallet |
| **Quota caches** (`model/user_cache.go`, `token_cache.go`, `common/redis.go`) | Redis copies of the rows | asynchronous fills and relative updates | whoever reads a balance |
| **Batch updater** (`model/utils.go`) | statistics collected in memory | add, take, write | statistics in the rows |

### Where a request goes

| component | state | hard behaviour |
|---|---|---|
| **Channel state and cache** (`model/channel.go`, `channel_cache.go`, `ability.go`) | status of a channel in its row and its abilities; the keys of a channel, with statuses by position; an in-memory index per process, rebuilt periodically | failing requests, administrators and the test of all channels write at once; a rebuild publishes rows read earlier; positions move |
| **Channel selection and retry** (`controller/relay.go`, `service/channel_select.go`, `middleware/distributor.go`) | retry counter, a flag that holds it back, group index, billed group, the snapshot of a tiered price | counters that are reset and clamped while channels come and go |
| **Rate limiters**, **stream scanner** | windows, timers, goroutines | boundaries, teardown |

### What the browser keeps

| component | state | hard behaviour |
|---|---|---|
| **Playground** (`web/default/src/features/playground`) | the conversation, one reference to a stream, what was rendered | events of several streams go to the last message; clicks act on what was rendered |
| **Settings forms** (`web/default/src/features/system-settings/hooks`, `lib/api.ts`) | the form, its baseline, the options fetched, the request in flight | a save key by key, while every key makes the options be fetched again and the form be reset |

The rest (adaptors of the providers' formats, pricing arithmetic, accounts and
sign-in, logs, the other pages, the desktop shell, model deployment) has no
concurrent state of its own or is outside the path of the quota; `PROJECT.json`
lists each part with the reason it is left out.

### What makes each part correct

* **Billing session.** A settled request has paid its price, exactly and once;
  a request that did not settle gets everything back, and never more than it
  gave, whatever fails, crashes or is tried again; holds alone never overdraw a
  balance; every hold is in the end resolved.
* **Subscriptions.** No more is paid from a subscription than its total for
  each period; a period is not granted twice, and a late refund does not add to
  the new one; the user is in the upgraded group exactly while an upgraded
  subscription lasts; due rows are handled in the end.
* **Realtime.** What the provider reported is charged; nothing is charged
  twice; nobody blocks on `errChan`; the session always tears down.
* **Tasks.** One outcome per task, final, and paid for: the price on success,
  nothing on failure; no more refunds than the task has ended times; with a
  timeout, no task stays on the list of the loops.
* **Channels.** Only a key that failed is disabled automatically; a process that
  has disabled a channel does not choose it again by itself; abilities and
  caches come to agree with the row.
* **Retry.** Every group is tried as often as it should be, in order, and no
  group more often, so that the request ends; the group that is billed is the
  group that is asked, or one that was.
* **Balance and caches.** No change of a balance is undone by another write; the
  cache in the end shows the row or nothing; statistics are counted once.
* **Front end.** An answer goes to the message it was asked for, an answer under
  way can be stopped, an error stays; what was submitted is saved, and nothing
  passes for saved that was not stored, but for an update the server has refused and
  a field left empty.

`PROJECT.json` lists under `hazards` the places in the code that endanger
these, each with the properties that watch over it.

## Modules

| module | what it is |
|---|---|
| `BillingSession` | several requests of one user on one wallet, one subscription and one token |
| `Escrow` | the abstract promise of `relay/common/billing.go`: an account per request, open, then charged once and for good, or released |
| `MCBillingSession` | model values, symmetry and the properties TLC checks over sums |
| `BillingSessionProofs` | proofs about `BillingSession` and the sums of `MCBillingSession`, and that it implements `Escrow` |
| `Subscription` | the subscriptions of one user, and the maintenance loops |
| `MCSubscription` | catalogues of plans |
| `SubscriptionProofs` | proofs about `Subscription` |
| `RealtimeBilling`, `RealtimeBillingProofs` | one realtime request with its goroutines |
| `TaskBilling`, `TaskBillingProofs` | one task with its loops and queries |
| `MCTask` | which kind of task meets which trouble, for one run |
| `ChannelStatus`, `ChannelStatusProofs` | one channel in its row, its abilities and the cache of each process |
| `MCChannelStatus` | the keys of the channel |
| `ChannelRetry`, `ChannelRetryProofs` | one request on its way through the groups |
| `QuotaStore`, `QuotaStoreProofs` | the row of a user, its hash in Redis, the statistics in memory |
| `Playground` | the conversation of the playground |
| `SettingsForm` | a form of system settings |
| `MCFrontEnd` | either page of the front end, and `INSTANCE SettingsForm` |
| `FrontEndProofs` | proofs about both |

Each component module takes its environment as CONSTANTS with named
assumptions, has one action per database call or per step between two points
where another actor may run, and keeps its properties at the end. Definitions
marked "Mutant" next to a definition are plausible mistakes in it; the
mutations listed in `PROJECT.json` use them to show that each property notices
a wrong implementation. They are not part of any specification.

## How the modules correspond to the code

### BillingSession

`pc[s]` is the point the handler (or the refund goroutine) of request `s` has
reached; `ses[s]` is the Go struct; `wallet`, `subUsed`, `record`,
`tokenRemain`, `tokenEnabled` are columns. `paid[s]`, `tok[s]` (net quota taken
from source and token) and `harmed` (requests an error or crash has hit) are
history and never guard a step.

`NewBillingSession` is `Start`, `ReadQuota`, `TokenPre`, `FundPre` and
`Rollback`, with `NextSource` for the preference order; `Reserve`, `Settle` and
`Refund` are one action for the part under the mutex before the first database
call, and one for each call after that. The `…Fails` actions are the error
returns; an error of the database is a call without effect, with one exception:
the transaction that refunds a subscription may commit and still report an
error, the case its three attempts (`refundWithRetry`) must survive. `Crash` is
the death of the process; sessions are not recovered from the database, so a
hold it interrupts stays taken. `TopUp` credits a redeemed code. A request whose model
is free creates no session in the code and is not in `Sessions`.

`Reserve` is part of the interface and is called by the repository's tests, but
by no handler of this commit; it is modelled because `Settle` and `Refund`
handle what it leaves. The token's cached quota is merged with the guarded
decrement that follows it. `StaleQuotas` are balances that a cache may still
return: the model says what a stale balance does, not how it arises.

### Subscription

A row is a record of `sub`; `hold` are the pre-consume records; `job[m]` is the
maintenance loop of master process `m`, whose time and list of due rows are
read in a step before the transactions that use them. `buyer[b]` is a grant
between its unlocked reads (the number of purchases, the user's group) and its
insert. With `Serial` a grant is one step: SQLite runs writing transactions one
after the other, and one that had read stale data fails with "busy". Without it
the reads are not repeated, as on MySQL and PostgreSQL. The purchase limit is
therefore not a property of the code: what is checked and proved
(`OversoldByOverlapOnly`) is by how much overlapping grants may pass it. `Batch` stands for the
300 rows of a batch; plan edits change the reset period.

The handlers of `controller/subscription.go` are modelled as the source exports
them. The router of this commit registers none of them, so grants,
cancellations and plan edits reach a deployment of exactly this commit only
through rows an earlier version wrote; pre-consume, settlement, refund and the
maintenance loop (`main.go:120`) are live. Not modelled: orders (see the plan),
the removal of pre-consume records after seven days, the cache of groups, and
the time a request waits between reading the clock and opening its transaction.

### RealtimeBilling

`pc` has the three goroutines: the client reader, the target reader, the
handler. The three counters are variables that any of them may replace, so the
two readers and the flush interleave as they do in Go; a lost update of a shared
counter is a choice (`AddLocal`, `ResponseDone`). The handler's flush passes a
counter by its pointer: `Take` is the call, after which the target reader may
replace the counter while the handler goes on with the old one (`held`). `errs`, `closed` and `open`
are the buffered channel, the closed channels and the connections. The rounds'
charges (`PreWssConsumeQuota`) are `Check`, `CheckRefuses` and `Charge`;
`PostWssConsumeQuota` is `Settle`. A token costs one unit. Left out: the ping
goroutine, tiered pricing, and the token's row, which moves with the wallet. The request's
context is never done (gin's `ContextWithFallback` is off), so the handler ends
only when a reader reports or closes.

### TaskBilling

`row` is the task's row, `copy[a]` what a loop or query has read of it, `seen[a]` the
provider's answer it is working on. `Store` writes the row; `Wins` is the condition of
`UpdateWithStatus`. `Poll` is one round of `TaskPollingLoop`: the sweep, the listing,
then per task the query, the conditional update, and repricing or refund as steps of
their own, so that a crash (`Abort`) can fall between them. Progress is a column of
its own (`done`): an answer "complete" is one of a task in progress at 100%, which
`GetAllUnFinishSyncTasks` and the sweep then pass over. Suno tasks refund and save in
the opposite order. `Fetch` is the query of a user that asks the provider directly
(Gemini and Vertex channels: `kind` is "realtime"). `reopened` counts how often the
row had ended and was unfinished again, `lapsed` says that the timeout or an answer
without a status has ended it; both are history. The three statuses before a task
starts are merged, they are handled alike. One task with a charge; tasks older than
the refund feature and the provider's rate-limit answers (no usable answer) are not
distinguished. `GetUpstreamTaskID` falls back to the task's own id, which `InitTask`
always sets, so the branch for tasks without one cannot be reached by rows this code
inserts and is not modelled.

`MCTask` restricts the steps (the action constraint `Bounded`): a video task meets
two loops, timeouts, errors, crashes and every answer, but keeps its channel; a task its
users query meets two loops, the timeout and the deletion of its channel, but no
error; a Suno task meets all of it, and its row is reopened once at most. What a property
does not promise of these kinds is in [Disagreements found](#disagreements-found).

### ChannelStatus

`row` and `ability` are what the database has of the channel, `cache[n]` and
`listed[n]` what the memory of process `n` has: the channel itself
(`channelsIDM`) and whether it is in the lists requests choose from
(`group2model2channels`). `off` is `MultiKeyStatusList`, a function on
positions. `upd[n]` is the update that holds `channelStatusLock`: `UpdateCache`,
`UpdateRead`, `UpdateSave` and the deferred `UpdateAbility` are
`UpdateChannelStatus` between two database calls. `reb` are rebuilds
(`InitChannelCache`), which read before they lock; the loop of each process runs
one, and an administrator's request ends with another. `adm` is a request of an
administrator: `AdminRead`, then one of `AdminKeys`, `AdminDeleteKeys` (the
actions of `ManageMultiKeys`) or `AdminForm` (`UpdateChannel`), then
`AdminReload` and `AdminAbilities` (`Channel.Update`); `AdminTag` changes a
whole tag. `Select` and `RequestFails` follow requests that will fail, `TestStart`
and `TestEnds` the test of all channels. `PollRead`, `PollSave` and `TestPolls` are one
writer more: without a memory cache, a channel whose keys are used in turn has its whole
`channel_info` written back by every request (`SaveChannelInfo`). `failed`, `blind`, `behind` and
`tangled` are history and say of what the properties make an exception.

Only one request of an administrator is under way at a time. A channel has one
key or the keys of `InitialKeys`, and stays so. It is in a list once: its groups and
models do not repeat a name, so that the `break` of `CacheUpdateChannelStatus`
(`channel_cache.go:238-243`) after the first occurrence makes no difference. The
reasons and times beside the statuses and the weights are left out; of keys used in turn any
enabled one may be next.

### ChannelRetry

`retry`, `held` and `index` are `RetryParam.Retry`, `resetNextTry` and
`ContextKeyAutoGroupIndex`. `Chosen(i, r)` is what
`CacheGetRandomSatisfiedChannel` chooses from group `i` on with the counter at
`r`, with what becomes of the three. `FromAffinity`, `AffinityDisabled` and
`FromGroups` are the distributor, `Fail` the end of an attempt with `shouldRetry`
and `IncreaseRetry`, `Pick` the next `getChannel`, which also sets the group
that is billed. `billed` is the group of `PriceData.GroupRatioInfo`, which every later
attempt sets anew (`relay.go:301`), and `frozen` the group of the snapshot that
a tiered price takes before the first attempt and never again
(`price.go:276-290`); `Settled` is the one the settlement multiplies with
(`TryTieredSettle`). `level[g]` is the number of priorities of group `g`; which of the
channels of one priority is taken makes no difference to the rest.
`CacheChanges` changes the channels between two attempts. `token.stay` says that
a matching rule of the affinity cache forbids retries: the code then retries
nothing, also when the rule found no channel (`channel_affinity.go:621`).
A token bound to one channel is not modelled; it is the case without retries.

### QuotaStore

`row` is the user, `hash` the user in Redis, with `NoHash` when the key does not exist
and the status "missing" when a single field came back after it expired. `job[p]` is a
goroutine between two calls: reading the time to live and writing the field are two
(`CacheTtl`, `CacheWrite`), and `next` is where the caller goes on.
`IncreaseUserQuota` and `DecreaseUserQuota` are `Change`, the two calls of Redis and
`ChangeRow`, which changes the hash back when the row cannot be written; `Hold` is the
guarded decrement; `Read` and `Fill` are `GetUserCache` and its goroutine, which a
failing call of Redis starts too; `Edit`, `Columns`, `Reread`, `Fill` and `Drop` are
`ManageUser` and `UpdateSetting` through `updateColumns`. `store`, `batch` and `total`
are `batchUpdate` for the two statistics of a user; balances are not collected
(`model/user.go:1060`). A restart (`Crash`) loses the goroutines and the stores, not
the row or Redis.

### Playground

`messages` is the conversation as `updateMessages` stores it, `requests` the
streams (or pending answers) ever opened, `source` and `complete` the two refs
of `useStreamRequest`. A message keeps the requests whose content it has
(`parts`). `view` is what React has rendered: clicks read it, events do not, and
`Render` brings it up to date at any time. `Chunk`, `Done`, `Fails` and
`EndsQuietly` are the listeners of a stream, `Answers` the answer without
streaming. `Stop`, `Submit`, `Suggest`, `Regenerate`, `Edit`, `Save`, `Delete`
and `Reload` are clicks, with the guards of the buttons that offer them.
`overlap` is history: something was sent or saved while an answer was under way.

### SettingsForm

`form` and `baseline` are the values of the form and what it was last reset to,
`options` the data of the query, `get` the one GET that `api.ts` lets be in
flight, `save` the loop of `onSubmit`. `Put` is the update on the server, whose
answer may be a refusal or be lost; `PutReturns` and `PutThrows` are what the
page makes of it. `Effect` is the effect that resets the form to the options. The
page makes its default values anew with every rendering, and `GetOptions` ranges over a
Go map, so that the effect also runs, and resets a form that was just saved, when
nothing has changed on the server; the model lets it run whenever options and
baseline differ. `Optional` are fields that may be left empty: the loop of
`pricing-section.tsx:94` skips them. One administrator, two fields; a form
validates its fields before `Submit`.

### Bounds

Every bound is a constant: `MaxFaults`, `MaxTopUps`, `MaxSubs`, `MaxTime`,
`MaxEvents`, `MaxFetches`,
`MaxChanges`, `MaxOps`, `MaxCrashes`, `MaxRequests`, `MaxClicks`, `MaxEdits`,
`MaxFocus`. Deadlock checking is off in every configuration:
requests, sessions and tasks end, and a bounded number of them leaves nothing to
do. That nothing stops *early* is what the liveness properties say.

## Runs

### Runs that hold

| run | instance | shows |
|---|---|---|
| `BillingFaults` | 2 requests, one without a token, 1 error or crash; 1 request alone with 4 errors (the action constraint `FaultsMeetOne`) | exact charges, full returns, the subscription's balance, finality, no quota given back twice though every one of the three refund attempts may fail (committed or not), the refinement of `Escrow`, and under fairness that every hold is resolved. Two requests are what it takes to compete for a row; there are prices on both sides of the hold and of its raise |
| `BillingRace` | 3 requests (two must hold, one may be trusted), stale balances, a redeemed code | holds never overdraw, only a settlement above its hold may; an overdraft beyond the tolerance ends with the tokens disabled. Three requests, because the balance is crossed in several steps |
| `SubscriptionPeriods` | 1 subscription with 2 requests and 2 loops, a calendar plan and a plan that gets its period while owned, costs above and below the hold; or up to 3 subscriptions of a plan limited to 1, with 2 grants that overlap (the action constraint `OneSubject`) | no period pays more than the total, though two loops with times of their own and the requests reset the same row; grants that overlap pass the limit by one and no more, however often they are repeated |
| `SubscriptionLoops` | two upgrading plans, one that may be owned once and one renewed at will, batch of 1 | no upgraded user is downgraded, and every ending gives the group back, unless one upgrade was bought on top of another; every due row is reset, every ended row marked, though several passes are needed (plans are not edited meanwhile: `SubscriptionSpins`) |
| `RealtimeMain` | 3 events, 1 error, a wallet that does not cover all rounds; a counter may be replaced while the flush has it | no reader blocks, rounds cover the usage, the settlement does too, the session tears down. 323,861 states |
| `Tasks` | 2 loops, timeout, 2 queries, 2 errors or crashes, a channel that may go, answers without a status and at 100%, of all of which each kind of task meets what `Bounded` says | a refund for every time a task has ended and no more, reopened only by a query and after the timeout or an answer without a status (or, of a Suno task, one for every loop and error); a video task has one outcome, final and paid, and leaves the list. 1,646,495 states; two loops, because the second must find what the first has ended |
| `ChannelStatus` | 2 processes, 1 key or 2, with and without the cache, 2 events (failing requests, keys used in turn, administrators, tests), 1 error | only failed keys are disabled, a disabled channel leaves the lists, the abilities follow the row, and the caches converge. Two events overlap two writers, or a writer and a rebuild. 1,122,806 states |
| `ChannelRetry` | 3 groups of 0 to 2 priorities, 0 to 2 retries, every kind of token and price, 2 changes of the channels | every group tried enough and in order, none too often; billed as asked, or for a tiered price at the group that was asked first. Three groups, so that an empty one lies between two others |
| `QuotaStore` | 2 goroutines, 3 operations, 1 failing call, 1 restart | no change of the balance is undone, the statistics are counted once, the cache converges. 650,023 states |
| `FrontEnd` | 3 requests and 5 clicks, streamed or not; or a form of 2 fields, one of them optional, with 4 entries and 1 focus of the window | answers go to their own messages, can be stopped (after overlapping answers not all: `PlaygroundStuck`), and errors stay; what was submitted is saved, and what was not stored does not pass for saved unless it was refused or is empty. 1,203,658 states |

The bounds cover the smallest instance in which the interesting case can
happen, and one more of what competes where that is affordable. Two actors
suffice for a race on a row, since every update is relative or conditional on
the row itself. The proofs remove the bounds for the properties listed below.

Most properties make exceptions, and each has its reason in the code: harmed
requests have lost what a crash loses, overlapping writers may leave the
abilities of the earlier one, keys that moved have lost their positions. A
configuration named under [Disagreements found](#disagreements-found) shows what
happens there, where a text of the repository says otherwise.

### Runs that are violated

`RealtimePaidOnce` and `SettingsStale` check one statement of a comment each, and TLC
shows a behaviour of the code that contradicts it. Further configurations of the same
kind are kept beside them and run in the same way (`tlc -config X.cfg M`):
`RealtimeSummedOnce` (module `RealtimeBilling`); `TaskSunoSave`, `TaskComplete`,
`TaskQueryUnbilled`, `TaskQueryRevives`, `TaskBulk` (`TaskBilling`); `TaskSunoLoops`
(`MCTask`); `SubscriptionRenewal`, `SubscriptionUpgradeRace`, `SubscriptionLimitRace`,
`SubscriptionSpins` (`MCSubscription`); `ChannelDeletedKeys`, `ChannelTestStuck`,
`ChannelPolling` (`MCChannelStatus`); `ChannelExhausted`, `ChannelTiered`
(`ChannelRetry`); `SettingsCleared` (`SettingsForm`); `QuotaBan` (`QuotaStore`);
`PlaygroundStuck` (`Playground`). They are not in `PROJECT.json`, which lists the runs
to repeat after every change. See [Disagreements found](#disagreements-found).

## Fairness

* `BillingSession`: weak fairness of a method in progress (a goroutine that
  runs is scheduled, a database call returns), strong fairness of the handler's
  end. `Reserve` and `Settle` could be called in turns for ever in the model,
  which no handler does. Nothing makes a request start.
* `RealtimeBilling`: weak fairness of each goroutine. An open connection need
  never deliver anything; a read on a closed one returns.
* `TaskBilling`: weak fairness of each polling loop, which runs every 15 seconds
  on master processes (`main.go:128-136`), and of the clock. Nothing about the
  provider. A crash ends a round, not the loop: the process is started again.
* `Subscription`: weak fairness of the loop of each master process, started by
  a ticker every minute. Administrators and users need not act.
* `ChannelStatus`: weak fairness of an update that has begun, of a request of an
  administrator and of a running test, and of the loop of each process
  (`SyncChannelCache`, started in `main.go`). Nothing about requests or new
  changes: `CachesConverge` says what happens once they end.
* `QuotaStore`: weak fairness of goroutines that are under way, of the loop of
  `batchUpdate`, and of the expiry of a key that has a time to live. Without the
  expiry nothing would correct a stale hash, which is what the code relies on.
* `ChannelRetry`, `Playground`, `SettingsForm`: none. That a request ends is a
  bound on its attempts (`TriesBounded`), not a matter of fairness; the
  properties of the front end are about every step.

## Proofs

All theorems hold for every value of the constants that satisfies the named
assumptions: any number of requests, tokens and amounts, loops, errors,
crashes.

**`BillingSessionProofs`.** `TypeCorrect`, and `Invariant`: `IInv`. None of the safety
properties is inductive by itself: that a settlement leaves exactly the price
depends on what the fields said before it.
`IInv` relates the three views of a request: the fields among themselves and to
the program counter (`FieldsOK`), the fields to the quota taken from the source
(`PaidOK`) and to the token's (`TokOK`), exactly when nothing has failed and as
a lower bound otherwise. It speaks of one request at a time, and every step
changes the fields of one, so the proof has one lemma per action and a frame
lemma for the other requests. From it follow `NoQuotaForFree`, `ExactCharge`,
`FullReturn`, the action property `SettlementIsFinal`, and
`SessionImplementsEscrow`: every step of a session is a step of `Escrow` or
leaves its variables alone.

Three properties relate the shared rows to all requests at once.
`SubscriptionIsBalanced` and `OverdraftIsSettlement` compare rows with sums over
the requests, which the theorems therefore take to be finitely many (the model does
not say so by itself). Their invariant `Balanced` has the three sums and that
a request has taken nothing before its source is charged; a step moves a row by at
most what it moves its own term (`FundFair`, `TokenFair`), and `TotalChange` carries
that to the sum. The library's sum is a recursive function over chosen elements, and
no induction theorem of the library can be instantiated, so the facts about sums are proved by
minimality instead: of the parts of a finite set for which a fact would fail, one
has no smaller such part (`Smallest`, from the well-foundedness of strict subsets).
`OverspendIsStopped` is inductive only with which request is on its way to the guard
and why (`Guarding`: it settles above its hold from the wallet; or it was hit by an
error; or the guard skips it), since the disjunction of `OverspendStopsTokens` could be true because
of a request that will find nothing to do.

**`RealtimeBillingProofs`.** `Invariant` relates the room left in `errChan`
to the errors still to come, and the tokens charged or refused to where the
target reader is; `NoSenderBlocks` and `EveryRoundCovered` follow. `SettlesUsage`
needs `TotalCovers`: until main flushes, and afterwards if the target reader had
ended by then, no addition to the total is lost. The capacity
2 of the channel is an assumption with a name.

**`TaskBillingProofs`.** `Invariant`, of a task of a video platform: at most one loop
has won the conditional update that ends the task, it alone may bill, and until the
task ends it is paid for in full. `VideoRefundedAtMostOnce` follows whatever becomes
of the channel; `VideoIsPaid` and `VideoOutcomeIsFinal` hold while the channel exists,
because the bulk update that fails the tasks of a deleted channel neither bills nor
looks at the status it overwrites (`TaskBulk`). `RefundsAreBounded` is about all
kinds, with the timeout, any answers, errors and crashes and any finite number of
loops. For a task its users query the invariant says that a copy somebody is about to
write over the row is at the status of the row, or the write is refused: each refund
has an end of its own, and a row that has ended is reopened only if the timeout or an
answer without a status has ended it. For a Suno task every loop owes at most one
refund for the row it has read; what a loop still owes, the refunds made, the errors
and the reopenings are counted together.

**`SubscriptionProofs`.** `TypeCorrect` (a used amount never negative, whatever the
order of resets and refunds) and `UpgradeIsHeld`, with serial transactions
(`SubscriptionUpgradeRace` shows why). The invariant adds that the times the loops
work with are not ahead of the clock. `GroupIsRestored` has a larger one, also with
serial transactions: the rows up to the number bought are the ones that exist, with
their spans, and the user is in his own group or some upgraded row decides which one.
`OversoldByOverlap` needs no serial transactions: the grants that have counted and not
yet inserted are at most the buyers, and with those counted in, a plan is over its
limit by fewer than there are buyers. `BudgetIsKept` needs no serial transactions:
`BudgetInv` bounds what a row has been paid by the resets it has had, in the row and
in every copy about to be written. Its one hypothesis, `PeriodStays`, is that no
administrator edits a period a plan already has: the number of periods that have begun
is counted with the period of the plan, and an edit changes it for the past as well.
Setting a period on a plan without one is allowed.

**`ChannelStatusProofs`.** `TypeCorrect`; then `ListsCorrect` and `KeysCorrect`,
from the invariant that `ListsKept` and `KeysKept` add to the two properties:
neither is inductive, because what is written was read earlier. It says of each
copy on its way (a request's key, a pending update, the row an update or an
administrator is about to write, a snapshot of a rebuild, the row a test works
on) what the row itself satisfied when it was read: the disabled keys have
failed, the keys are the original ones, a snapshot that is not old has the
status of the row, and a process about to write "disabled" has delisted the
channel. `Inductive` is their conjunction. `AbilitiesCorrect` has an invariant of
its own, `AbilitiesInTime`: while writers do not overlap, who is to write the row has
it as it is, who is to write the abilities will write what the row says, and otherwise they
say it already. It rests on the statuses of a row being those of its keys, however keys
are deleted and appended. A key used in turn is saved with the statuses read before, for which
all of these hold as well; that it changes no status of the channel is why the abilities are safe
from it.

**`ChannelRetryProofs`.** `RetriesBounded`, `GroupsExhausted` and
`BilledCorrectly`. The invariant counts the attempts of the group at the index
against the counter, one more while an attempt is under way, none when the flag
holds the counter back; groups before the index have had all theirs, groups after
it none, up to the one attempt the affinity channel may have had. That is why the
counter, though set back on the way, bounds the loop. `BilledCorrectly` adds that the
snapshot of a tiered price names the first group asked, and `PriceData` the one in use.

**`QuotaStoreProofs`.** `BalanceCorrect`, from the types of the row and the jobs;
the proof goes through because every write of the row is relative or of another
column. `CountsCorrect`, by counting the batch in hand with the stores.

**`FrontEndProofs`.** Of the playground `AnswersAreOwn`, `UnsettledCanStop` and
`FailuresStay`. Their invariant, for conversations of any length: while no
click has overlapped an answer, what every message shows, in the state and in what the page
has rendered, came with requests sent for it; only the last request
can be open, its message is the last one, and a stream that is open is the one the hook
holds; and only the last message can wait. Of the settings `BaselinesWereStored` and
`SubmittedAreSaved`, for any number of fields: every answer to a query, every
cached copy and the baseline of the form have been on the server field by field,
unless a field is empty or an update was refused, and of a save the keys done have the
values submitted. A lemma takes both components from
`MCSpec`, the specification TLC runs.

**Only model-checked.** Liveness (`HoldIsResolved`, `SessionTearsDown`,
`TaskEnds`, `DueIsReset`, `EndIsMarked`, `CachesConverge`, `CacheConverges`), which
the prover does not reach. Every safety property of a run that passes is a theorem,
under the hypotheses named above.

## Disagreements found

Each is a configuration TLC refutes. Two of them (`RealtimePaidOnce`,
`SettingsStale`) are listed in `PROJECT.json` with the line and the text it
contradicts.

* *A realtime request pays its rounds twice* (`RealtimePaidOnce`): each round is
  taken from the balance outside the session when it ends, and the session is
  then settled with the total of the same rounds. A refused round is summed a
  second time by the final flush (`RealtimeSummedOnce`).
* *A tiered price keeps the ratio of the first group* (`ChannelTiered`): after a retry in
  another group the answer is settled with the snapshot of the first
  (`pkg/billingexpr/settle.go:26`), although `relay_info.go:92` says of the group in use
  that it changes on a retry across groups.
* *A Suno task may be refunded repeatedly* (`TaskSunoSave`, and by two loops
  `TaskSunoLoops`): the refund precedes
  an unconditional save whose failure is only logged (`model/task.go:434` asks for
  the conditional update when billing is involved).
* *A user's query ends a task without billing* (`TaskQueryUnbilled`), *or
  reopens one the timeout has ended and refunded* (`TaskQueryRevives`).
* *A task in progress at 100% is never decided* (`TaskComplete`): its progress is the
  provider's (`task_polling.go:459`), and neither the listing nor the sweep
  looks at tasks of 100%.
* *Tasks of a deleted channel are failed without a refund* (`TaskBulk`), with a
  bulk update whose comment (`model/task.go:432`) forbids that use.
* *Renewal before the end keeps the upgraded group for ever*
  (`SubscriptionRenewal`): the renewal's row remembers no previous group
  (`model/subscription.go:490`), and `ExpireDueSubscriptions` looks at the last
  row only (line 894), although it means to "downgrade to previous group if
  needed" (line 882).
* *A grant races an expiry* (`SubscriptionUpgradeRace`) *or another grant*
  (`SubscriptionLimitRace`) on databases that do not serialise transactions.
* *The reset loop spins* (`SubscriptionSpins`) on a full batch of rows whose
  plan was edited to never restart, and nothing expires any more.
* *A setting that was saved is shown with its old value* (`SettingsStale`): the
  refresh after the second key is answered by the GET sent after the first
  (`lib/api.ts:42`), and resets the form.
* *A setting that was cleared passes for saved* (`SettingsCleared`): the loop skips an
  empty rate, and the form is reset to it though the server keeps the old one. An update the
  server refuses (`success: false`) passes for saved in the same way
  (`use-settings-form.ts:246-252`).
* *Choosing the next key enables a key that was just disabled* (`ChannelPolling`): without
  a memory cache `GetNextEnabledKey` saves the statuses of a row that was read before its
  lock was taken ("Use channel-specific lock to ensure thread-safe polling",
  `model/channel.go:154`), and a status update saves its own after the lock is released.
* *Deleting the disabled keys enables them* (`ChannelDeletedKeys`): when all keys
  are disabled, `delete_disabled_keys` clears their statuses but cannot write the
  empty list of keys, so all of them stay and are usable again.
* *The test of all channels never runs again* (`ChannelTestStuck`) when the
  channels could not be read after the flag was set (`channel-test.go:884`).
* *A group is left after `RetryTimes` + 1 attempts, not when its priorities are
  used up* (`ChannelExhausted`), as the example in the comment of
  `CacheGetRandomSatisfiedChannel` has it.
* *A ban does not take effect at once* (`QuotaBan`): a goroutine that read the row
  before fills the cache after it was dropped; the old status is served until the
  key expires.
* *A reload leaves a message waiting* (`PlaygroundStuck`): only the last of
  several unfinished answers is settled.

The four about subscriptions need a grant or a plan edit, whose handlers this
commit does not route (see above); the code of the loop and of the grant is as
described.

## Not modelled

* **Most of the front end.** The greater part of the repository's lines are
  pages, dialogs, tables and generated routes of `web/default`. They show what one
  request has brought and send what was filled in; nothing but the two parts above
  has several actors on one state. A model of them would restate assignments, so
  the mapped share of the repository stays small.
* **Midjourney proxy.** The loop of `controller/midjourney.go` is the shape of
  `TaskBilling` on another table: a conditional update ends a task, and the winner
  refunds it (line 176).
* **Payment orders** (`model/topup.go`, the first half of
  `model/subscription.go`): the functions that complete, expire or confirm an
  order have no caller in this repository.
* **Check-in on SQLite** (`model/checkin.go:132`): two statements and a
  compensation without a competing actor. The claim of a redemption code is one
  transaction with a row lock; `TopUp` of `BillingSession` is its effect.
* **Removal of pre-consume records** after seven days: no request is open that
  long.
* **The violation fee** (`controller/relay.go:173`) may be charged while the refund
  of the same request is running; both are relative updates of the same rows and
  commute.
* **The limit of the batch updater's backlog** (`model/utils.go:122`): only balance
  deltas are put back, and no caller collects any.
* **Rate limiters and stream scanner**: their meaning is in real time, and in
  channels, timers and cancellation of the Go runtime.
* **Pricing and protocol adaptors**: pure computation on decimals and formats.
* **Authentication, logs, deployment of models, desktop shell**: outside the
  path of the quota.
* **The cache of tokens** (`model/token_cache.go`), **the affinity cache itself**,
  **the retry of task submissions** (`RelayTask`), and **channels created, copied
  or deleted** while requests use them.
