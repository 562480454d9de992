---------------------------- MODULE Subscription ----------------------------
(***************************************************************************)
(* The subscriptions of one user: model/subscription.go and the            *)
(* maintenance loop of service/subscription_reset_task.go.                 *)
(*                                                                         *)
(* A subscription is bought from a plan, holds and charges the quota of    *)
(* requests until its used amount reaches the total, starts again at the   *)
(* boundaries of the plan's reset period, and puts the user into the       *)
(* plan's group while it lasts.  Operations are database transactions that *)
(* lock the rows they change, hence single steps; what the code reads      *)
(* before its transaction, or without a lock, is read in a step of its own.*)
(***************************************************************************)
EXTENDS Integers, FiniteSets, FiniteSetsExt

CONSTANTS
    Catalog,    \* plan |-> what the plan grants
    MaxSubs,    \* bound on the subscriptions ever granted
    Requests,   \* requests billed to the user's subscriptions
    Amounts,    \* quota a request pre-consumes
    Actuals,    \* quota a request turns out to cost
    Base,       \* the user's group without a subscription
    NoGroup,    \* the empty group
    Buyers,     \* transactions that grant a subscription
    Serial,     \* transactions run one after the other (SQLite)
    Edits,      \* reset periods the administrator may give a plan
    Masters,    \* processes that run the maintenance loop
    Batch,      \* subscriptionResetBatchSize
    MaxTime     \* bound on the time

Plans == DOMAIN Catalog
Subs == 1 .. MaxSubs
UpgradeGroups == {Catalog[p].upgrade : p \in Plans} \ {NoGroup}
Groups == {Base} \cup UpgradeGroups

ASSUME SubscriptionAssumption ==
    /\ MaxSubs \in Nat
    /\ Amounts \subseteq Nat \ {0} /\ Actuals \subseteq Nat
    /\ Edits \subseteq Nat
    /\ Batch \in Nat \ {0} /\ MaxTime \in Nat \ {0}
    /\ Serial \in BOOLEAN
    /\ Base # NoGroup
    /\ Plans # {}
    /\ \A p \in Plans :
         /\ Catalog[p].total \in Nat      \* TotalAmount, 0 is unlimited
         /\ Catalog[p].duration \in Nat \ {0}
         /\ Catalog[p].period \in Nat     \* QuotaResetPeriod, 0 is never
         /\ Catalog[p].aligned \in BOOLEAN \* to the calendar, or custom seconds
         /\ Catalog[p].upgrade # Base
         /\ Catalog[p].limit \in Nat      \* MaxPurchasePerUser, 0 is unlimited

VARIABLES
    now,
    period,    \* the reset period of every plan
    sub,       \* rows of user_subscriptions
    bought,    \* number of rows created, the last id
    group,     \* the user's group
    hold,      \* rows of subscription_pre_consume_records, by request
    buyer,     \* what a granting transaction has read
    job,       \* where the maintenance loop of a master is
    spent      \* history: quota each subscription has paid, net

vars == <<now, period, sub, bought, group, hold, buyer, job, spent>>

None == [status |-> "none", plan |-> CHOOSE p \in Plans : TRUE, start |-> 0, end |-> 0,
         used |-> 0, last |-> 0, next |-> 0, prev |-> NoGroup]

Idle == [at |-> "idle", now |-> 0, due |-> {}, count |-> 0]

Init ==
    /\ now = 1
    /\ period = [p \in Plans |-> Catalog[p].period]
    /\ sub = [s \in Subs |-> None]
    /\ bought = 0
    /\ group = Base
    /\ hold = [r \in Requests |-> [status |-> "none", sub |-> 0, amount |-> 0]]
    /\ buyer = [b \in Buyers |-> [at |-> "idle", row |-> None]]
    /\ job = [m \in Masters |-> Idle]
    /\ spent = [s \in Subs |-> 0]

quotas == <<hold, spent>>
loops == <<buyer, job>>

Active(s) == sub[s].status = "active"
Upgrades(s) == Catalog[sub[s].plan].upgrade # NoGroup

\* s comes before t when candidates are ordered by end_time, id.
Earlier(s, t) == \/ sub[s].end < sub[t].end
                 \/ sub[s].end = sub[t].end /\ s < t

IsLatest(s, S) == s \in S /\ \A t \in S : t = s \/ Earlier(t, s)

-----------------------------------------------------------------------------
(* Reset periods. *)

\* calcNextResetTime: the boundary that follows base, on the calendar or one period
\* later; 0 when it is after the end.
NextReset(p, base, end) ==
    LET next == base + period[p] - (IF Catalog[p].aligned THEN base % period[p] ELSE 0)
    IN  IF period[p] = 0 \/ next > end THEN 0 ELSE next

ResetBase(x) == IF x.last <= 0 THEN x.start ELSE x.last

\* The last boundary the loop of maybeResetUserSubscriptionWithPlanTx reaches.
LastReset(x, t) ==
    LET end == IF t < x.end THEN t ELSE x.end
        first == NextReset(x.plan, ResetBase(x), x.end)
    IN  end - ((end - first) % period[x.plan])

\* Mutant: last_reset_time is not moved.
MaybeResetKeepsLast(x, t) ==
    LET first == NextReset(x.plan, ResetBase(x), x.end)
    IN  IF x.next > t \/ period[x.plan] = 0 \/ first = 0 \/ first > t THEN x
        ELSE [x EXCEPT !.used = 0, !.next = NextReset(x.plan, LastReset(x, t), x.end)]

\* Mutant: next_reset_time is not moved.
MaybeResetKeepsNext(x, t) ==
    IF x.next > t \/ period[x.plan] = 0 \/ x.next = 0 THEN x
    ELSE [x EXCEPT !.used = 0, !.last = x.next]

\* maybeResetUserSubscriptionWithPlanTx: row x as it is at time t.  Only a row that
\* had no next reset gets one without being reset.
MaybeReset(x, t) ==
    LET first == NextReset(x.plan, ResetBase(x), x.end)
    IN  IF x.next > t \/ period[x.plan] = 0
        THEN x
        ELSE IF first > 0 /\ first <= t
        THEN [x EXCEPT !.used = 0, !.last = LastReset(x, t),
                       !.next = NextReset(x.plan, LastReset(x, t), x.end)]
        ELSE IF x.next = 0 /\ first > 0
        THEN [x EXCEPT !.next = first, !.last = ResetBase(x)]
        ELSE x

Affords(x, amount) ==
    Catalog[x.plan].total > 0 => Catalog[x.plan].total - x.used >= amount

-----------------------------------------------------------------------------
(* The environment. *)

Tick ==
    /\ now < MaxTime
    /\ now' = now + 1
    /\ UNCHANGED <<period, sub, bought, group, quotas, loops>>

\* AdminUpdateSubscriptionPlan.
EditPlan(p) ==
    /\ \E n \in Edits \ {period[p]} : period' = [period EXCEPT ![p] = n]
    /\ UNCHANGED <<now, sub, bought, group, quotas, loops>>

-----------------------------------------------------------------------------
(* CreateUserSubscriptionFromPlanTx, by an administrator                   *)
(* (AdminBindSubscription). CompleteSubscriptionOrder calls it in the same  *)
(* way for a paid order, but has no caller in this repository.              *)

\* The purchases of plan p, which are counted whatever has become of them.
Owned(p) == {s \in Subs : sub[s].plan = p /\ sub[s].status \notin {"none", "deleted"}}

\* Mutant: one purchase too many.
PermittedOneMore(p) ==
    Catalog[p].limit > 0 =>
        Cardinality({s \in Subs : sub[s].plan = p /\ sub[s].status = "active"}) <= Catalog[p].limit

Permitted(p) == Catalog[p].limit > 0 => Cardinality(Owned(p)) < Catalog[p].limit

\* The row for plan p bought now by a user of group g.
NewRow(p, g) ==
    LET end == now + Catalog[p].duration
        next == NextReset(p, now, end)
        upgrade == Catalog[p].upgrade
    IN  [status |-> "active", plan |-> p, start |-> now, end |-> end, used |-> 0,
         last |-> IF next > 0 THEN now ELSE 0, next |-> next,
         prev |-> IF upgrade # NoGroup /\ g # upgrade THEN g ELSE NoGroup]

\* The group is written only when the one read was another.
Insert(x) ==
    /\ bought + 1 \in Subs
    /\ bought' = bought + 1
    /\ sub' = [sub EXCEPT ![bought + 1] = x]
    /\ group' = IF x.prev # NoGroup THEN Catalog[x.plan].upgrade ELSE group
    /\ UNCHANGED <<now, period, quotas, job>>

Buy(p) ==
    /\ Serial
    /\ Permitted(p) /\ Insert(NewRow(p, group))
    /\ UNCHANGED buyer

\* The count and the group are read without a lock.
BuyRead(b, p) ==
    /\ ~Serial /\ buyer[b].at = "idle"
    /\ Permitted(p)
    /\ buyer' = [buyer EXCEPT ![b] = [at |-> "read", row |-> NewRow(p, group)]]
    /\ UNCHANGED <<now, period, sub, bought, group, quotas, job>>

BuyWrite(b) ==
    /\ buyer[b].at = "read"
    /\ Insert(buyer[b].row)
    /\ buyer' = [buyer EXCEPT ![b] = [at |-> "idle", row |-> None]]

-----------------------------------------------------------------------------
(* Requests. *)

\* The order in which PreConsumeUserSubscription tries the subscriptions.
Candidates == {s \in Subs : Active(s) /\ sub[s].end > now}

\* PreConsumeUserSubscription: the first candidate that can pay, every candidate
\* before it being reset on the way; nothing is kept when none can.
PreConsume(r, amount) ==
    /\ hold[r].status = "none"
    /\ \E s \in Candidates :
         LET pays(t) == Affords(MaybeReset(sub[t], now), amount)
             tried(t) == t \in Candidates /\ (t = s \/ Earlier(t, s))
         IN  /\ pays(s)
             /\ \A t \in Candidates : Earlier(t, s) => ~pays(t)
             /\ sub' = [t \in Subs |->
                         LET x == MaybeReset(sub[t], now)
                         IN  IF t = s THEN [x EXCEPT !.used = @ + amount]
                             ELSE IF tried(t) THEN x ELSE sub[t]]
             /\ hold' = [hold EXCEPT ![r] = [status |-> "consumed", sub |-> s, amount |-> amount]]
             /\ spent' = [spent EXCEPT ![s] = @ + amount]
    /\ UNCHANGED <<now, period, bought, group, loops>>

Exists(s) == sub[s].status # "deleted"

\* Mutant: a refund may leave a negative used amount.
UsedAfterPlain(s, delta) == sub[s].used + delta

\* Mutant: a settlement may go over the total.
FitsAlways(s, delta) == Exists(s)

\* postConsumeUserSubscriptionDeltaTx: never below zero, an error above the total.
UsedAfter(s, delta) == IF sub[s].used + delta < 0 THEN 0 ELSE sub[s].used + delta

Fits(s, delta) ==
    /\ Exists(s)
    /\ Catalog[sub[s].plan].total > 0 => UsedAfter(s, delta) <= Catalog[sub[s].plan].total

ChangeUsed(s, delta) ==
    /\ Fits(s, delta)
    /\ sub' = [sub EXCEPT ![s].used = UsedAfter(s, delta)]
    /\ spent' = [spent EXCEPT ![s] = @ + delta]

\* RefundSubscriptionPreConsume.
Refund(r) ==
    /\ hold[r].status = "consumed"
    /\ ChangeUsed(hold[r].sub, -hold[r].amount)
    /\ hold' = [hold EXCEPT ![r].status = "refunded"]
    /\ UNCHANGED <<now, period, bought, group, loops>>

\* PostConsumeUserSubscriptionDelta; a request settles once, and its hold stands
\* as the price when the difference does not fit.
Settle(r) ==
    /\ hold[r].status = "consumed"
    /\ \E actual \in Actuals :
         LET delta == actual - hold[r].amount
         IN  \/ delta # 0 /\ ChangeUsed(hold[r].sub, delta)
             \/ /\ delta = 0 \/ ~Fits(hold[r].sub, delta)
                /\ UNCHANGED <<sub, spent>>
    /\ hold' = [hold EXCEPT ![r].status = "settled"]
    /\ UNCHANGED <<now, period, bought, group, loops>>

-----------------------------------------------------------------------------
(* The end of a subscription. *)

OtherUpgrades(S, t) == {s \in S : Active(s) /\ sub[s].end > t /\ Upgrades(s)}

\* Mutant: other subscriptions are not looked at.
DowngradedAnyway(s, t) ==
    IF Upgrades(s) /\ group = Catalog[sub[s].plan].upgrade /\ sub[s].prev # NoGroup
    THEN sub[s].prev ELSE group

\* downgradeUserGroupForSubscriptionTx.
Downgraded(s, t) ==
    IF /\ Upgrades(s) /\ group = Catalog[sub[s].plan].upgrade
       /\ OtherUpgrades(Subs \ {s}, t) = {}
       /\ sub[s].prev # NoGroup
    THEN sub[s].prev ELSE group

AdminInvalidate(s) ==
    /\ sub[s].status \notin {"none", "deleted"}
    /\ sub' = [sub EXCEPT ![s].status = "cancelled", ![s].end = now]
    /\ group' = Downgraded(s, now)
    /\ UNCHANGED <<now, period, bought, quotas, loops>>

\* Mutant: the group is not given back.
AdminDeleteKeepsGroup(s) ==
    /\ sub[s].status \notin {"none", "deleted"}
    /\ sub' = [sub EXCEPT ![s].status = "deleted"]
    /\ UNCHANGED <<now, period, bought, group, quotas, loops>>

AdminDelete(s) ==
    /\ sub[s].status \notin {"none", "deleted"}
    /\ group' = Downgraded(s, now)
    /\ sub' = [sub EXCEPT ![s].status = "deleted"]
    /\ UNCHANGED <<now, period, bought, quotas, loops>>

-----------------------------------------------------------------------------
(* runSubscriptionQuotaResetOnce. *)

Ended(t) == {s \in Subs : Active(s) /\ sub[s].end <= t}
ResetDue(t) == {s \in Subs : Active(s) /\ sub[s].next > 0 /\ sub[s].next <= t}

StartRun(m) ==
    /\ job[m].at = "idle"
    /\ job' = [job EXCEPT ![m].at = "expire"]
    /\ UNCHANGED <<now, period, sub, bought, group, quotas, buyer>>

\* Mutant: only subscriptions that changed the group are looked for.
ExpireReadChanged(m) ==
    /\ job[m].at = "expire"
    /\ job' = [job EXCEPT ![m] = IF {s \in Ended(now) : sub[s].prev # NoGroup} = {}
                                  THEN [Idle EXCEPT !.at = "reset"]
                                  ELSE [Idle EXCEPT !.at = "user", !.now = now]]
    /\ UNCHANGED <<now, period, sub, bought, group, quotas, buyer>>

\* ExpireDueSubscriptions finds the users with an ended subscription.
ExpireRead(m) ==
    /\ job[m].at = "expire"
    /\ job' = [job EXCEPT ![m] = IF Ended(now) = {} THEN [Idle EXCEPT !.at = "reset"]
                                  ELSE [Idle EXCEPT !.at = "user", !.now = now]]
    /\ UNCHANGED <<now, period, sub, bought, group, quotas, buyer>>

\* The transaction of one user: his subscriptions expire and, unless another
\* upgraded one is active, the last one that expired gives the group back.
ExpireUser(m) ==
    LET t == job[m].now
        expired == [s \in Subs |-> IF s \in Ended(t) THEN [sub[s] EXCEPT !.status = "expired"]
                                   ELSE sub[s]]
        past == {s \in Subs : expired[s].status = "expired" /\ Upgrades(s)}
    IN  /\ job[m].at = "user"
        /\ sub' = expired
        /\ \/ /\ past = {} \/ OtherUpgrades(Subs, t) # {}
              /\ UNCHANGED group
           \/ \E s \in past :
                /\ IsLatest(s, past) /\ OtherUpgrades(Subs, t) = {}
                /\ group' = IF sub[s].prev # NoGroup /\ group = Catalog[sub[s].plan].upgrade
                            THEN sub[s].prev ELSE group
        /\ job' = [job EXCEPT ![m] =
                [Idle EXCEPT !.at = IF Cardinality(Ended(t)) >= Batch THEN "expire" ELSE "reset"]]
        /\ UNCHANGED <<now, period, bought, quotas, buyer>>

\* ResetDueSubscriptions takes the first Batch due rows by next_reset_time.
ResetRead(m) ==
    /\ job[m].at = "reset"
    /\ \E L \in SUBSET ResetDue(now) :
         /\ Cardinality(L) = Min({Batch, Cardinality(ResetDue(now))})
         /\ \A s \in L, t \in ResetDue(now) \ L : sub[s].next <= sub[t].next
         /\ job' = [job EXCEPT ![m] =
                IF L = {} THEN Idle ELSE [at |-> "rows", now |-> now, due |-> L, count |-> 0]]
    /\ UNCHANGED <<now, period, sub, bought, group, quotas, buyer>>

\* A row that is still due is reset under its lock, and counted whether or not
\* the reset has changed it.
ResetRow(m, s) ==
    LET t == job[m].now
        due == Exists(s) /\ sub[s].next > 0 /\ sub[s].next <= t
        counted == job[m].count + IF due THEN 1 ELSE 0
        rest == job[m].due \ {s}
    IN  /\ job[m].at = "rows" /\ s \in job[m].due
        /\ sub' = IF due THEN [sub EXCEPT ![s] = MaybeReset(@, t)] ELSE sub
        /\ job' = [job EXCEPT ![m] =
                IF rest # {} THEN [@ EXCEPT !.due = rest, !.count = counted]
                ELSE [Idle EXCEPT !.at = IF counted >= Batch THEN "reset" ELSE "idle"]]
        /\ UNCHANGED <<now, period, bought, group, quotas, buyer>>

Maintain(m) ==
    \/ StartRun(m) \/ ExpireRead(m) \/ ExpireUser(m) \/ ResetRead(m)
    \/ \E s \in Subs : ResetRow(m, s)

Next ==
    \/ Tick
    \/ \E p \in Plans : EditPlan(p)
    \/ \E p \in Plans : Buy(p)
    \/ \E b \in Buyers, p \in Plans : BuyRead(b, p)
    \/ \E b \in Buyers : BuyWrite(b)
    \/ \E r \in Requests, amount \in Amounts : PreConsume(r, amount)
    \/ \E r \in Requests : Refund(r) \/ Settle(r)
    \/ \E s \in Subs : AdminInvalidate(s) \/ AdminDelete(s)
    \/ \E m \in Masters : Maintain(m)

Spec == Init /\ [][Next]_vars

\* The ticker starts the loop every minute, and a started run goes on.
LiveSpec == Spec /\ \A m \in Masters : WF_vars(Maintain(m))

-----------------------------------------------------------------------------
(* Properties. *)

SubRow == [status : {"none", "active", "expired", "cancelled", "deleted"}, plan : Plans,
           start : Nat, end : Nat, used : Nat, last : Nat, next : Nat,
           prev : Groups \cup {NoGroup}]

\* The variables have their types.
TypeOK ==
    /\ now \in 1 .. MaxTime
    /\ period \in [Plans -> Nat]
    /\ bought \in 0 .. MaxSubs
    /\ group \in Groups
    /\ sub \in [Subs -> SubRow]
    /\ hold \in [Requests -> [status : {"none", "consumed", "settled", "refunded"},
                              sub : Subs \cup {0}, amount : Nat]]
    /\ buyer \in [Buyers -> [at : {"idle", "read"}, row : SubRow]]
    /\ job \in [Masters -> [at : {"idle", "expire", "user", "reset", "rows"}, now : Nat,
                            due : SUBSET Subs, count : Nat]]
    /\ spent \in [Subs -> Int]

\* Boundaries of plan p after base: the multiples of the period on the calendar,
\* else counted from base.
IsBoundary(p, base, t) ==
    /\ period[p] > 0 /\ t > base
    /\ (IF Catalog[p].aligned THEN t ELSE t - base) % period[p] = 0

\* The periods that have begun for row x, the first included.
PeriodsBegun(x) ==
    1 + Cardinality({b \in (x.start + 1) .. Min({now, x.end}) : IsBoundary(x.plan, x.start, b)})

\* A subscription never pays more than its total for each period that has begun,
\* whatever the order of resets, settlements and refunds: a period is not reset
\* twice, by a request and by the loop or by two masters with an old time, and a
\* refund that comes after a reset gives back at most what was paid before it
\* (maybeResetUserSubscriptionWithPlanTx, postConsumeUserSubscriptionDeltaTx).
PeriodBudget ==
    \A s \in Subs :
        Catalog[sub[s].plan].total > 0 =>
            spent[s] <= Catalog[sub[s].plan].total * PeriodsBegun(sub[s])

\* While an upgraded subscription is active and has not ended, the user is in a
\* group it was upgraded to ("If there's an active upgraded subscription, keep
\* current group.", ExpireDueSubscriptions).
UpgradeHeld ==
    OtherUpgrades(Subs, now) # {} => group \in UpgradeGroups

\* When no upgraded subscription is active any more, the user is back in the group
\* he had before ("No active upgraded subscription, downgrade to previous group if
\* needed.", ExpireDueSubscriptions), provided no upgrade was bought on top of
\* another: each of them remembers the group before any upgrade.
GroupRestored ==
    /\ \A s \in Subs : Active(s) => ~Upgrades(s)
    /\ \A s \in 1 .. bought : Upgrades(s) => sub[s].prev = Base
    => group = Base

\* A user whose upgraded subscriptions have all simply expired is back in his
\* group, in whatever order they were bought (the same comment).
ExpiryRestoresGroup ==
    (\A s \in Subs : sub[s].status \in {"none", "expired"}) => group = Base

\* A user never owns more subscriptions of a plan than its limit ("Max purchases
\* per user", SubscriptionPlan).  It is not so where grants overlap.
PurchaseLimit ==
    \A p \in Plans : Catalog[p].limit > 0 => Cardinality(Owned(p)) <= Catalog[p].limit

\* What the count that is read without a lock can cost: a plan is owned above its limit
\* by fewer subscriptions than there are grants open at once, however often they are
\* repeated and whatever is deleted or ends between a count and its insert; not at all
\* where transactions run one after the other (CreateUserSubscriptionFromPlanTx).
OversoldByOverlapOnly ==
    \A p \in Plans :
        Catalog[p].limit > 0 =>
            Cardinality(Owned(p)) <=
                Catalog[p].limit + IF Serial THEN 0 ELSE Cardinality(Buyers) - 1

\* A subscription whose reset time has passed is reset in the end, or ends
\* ("resets subscriptions whose next_reset_time has passed", ResetDueSubscriptions).
DueIsReset ==
    \A s \in Subs : (Active(s) /\ sub[s].next > 0 /\ sub[s].next <= now)
                    ~> ~(Active(s) /\ sub[s].next > 0 /\ sub[s].next <= now)

\* A subscription whose end has passed is marked in the end ("marks expired
\* subscriptions and handles group downgrade", ExpireDueSubscriptions).
EndIsMarked ==
    \A s \in Subs : (Active(s) /\ sub[s].end <= now) ~> ~(Active(s) /\ sub[s].end <= now)
=============================================================================
