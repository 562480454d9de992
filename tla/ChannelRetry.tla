---------------------------- MODULE ChannelRetry ----------------------------
(***************************************************************************)
(* How one request goes from channel to channel: the distributor chooses   *)
(* the first, and the loop of Relay another after each failure, by the     *)
(* priorities of a group and, for a token of the group "auto", from group  *)
(* to group.  Where the request is in its groups is spread over a retry    *)
(* counter, a flag that holds the counter back once, and the index of the  *)
(* group in the request's context; the group that is billed is set on the  *)
(* way, but a model with tiered prices keeps the group that was first      *)
(* asked.  Which channels there are may change between two attempts.       *)
(***************************************************************************)
EXTENDS Integers, FiniteSets

CONSTANTS
    Last,       \* the groups of the user, in their order, are 1 .. Last
    Retries,    \* values of RetryTimes
    Levels,     \* numbers of priorities a group may have channels of
    MaxChanges  \* bound: changes of the channels while the request goes on

ASSUME RetryAssumption ==
    /\ Last \in Nat \ {0} /\ Retries \subseteq Nat /\ Levels \subseteq Nat /\ MaxChanges \in Nat

VARIABLES
    token,    \* [auto, cross, times, stay, tiered]: the group "auto", cross-group retry,
              \* RetryTimes, a rule of the affinity cache matches that forbids retries, and
              \* the model is billed by an expression (tiered_expr)
    level,    \* the number of priorities of each group; 0 is a group without channels
    at,       \* where the request is
    retry,    \* RetryParam.Retry
    held,     \* RetryParam.resetNextTry
    index,    \* ContextKeyAutoGroupIndex, from 1; 1 when it is not set
    channel,  \* the group and the priority of the channel in use
    billed,   \* the group of PriceData.GroupRatioInfo
    frozen,   \* the group of TieredBillingSnapshot.GroupRatio; 0 without a snapshot
    affine,   \* history: the first channel came from the affinity cache
    tries,    \* history: attempts in each group
    inOrder,  \* history: no group was tried after a later one
    changes   \* history: changes of the channels

vars == <<token, level, at, retry, held, index, channel, billed, frozen, affine, tries,
          inOrder, changes>>

Groups == 1 .. Last
NoChannel == [group |-> 0, priority |-> 0]

Init ==
    /\ token \in [auto : BOOLEAN, cross : BOOLEAN, times : Retries, stay : BOOLEAN,
                 tiered : BOOLEAN]
    /\ level \in [Groups -> Levels]
    /\ at = "start" /\ retry = 0 /\ held = FALSE /\ index = 1
    /\ channel = NoChannel /\ billed = 0 /\ frozen = 0
    /\ affine = FALSE /\ tries = [g \in Groups |-> 0] /\ inOrder = TRUE /\ changes = 0

-----------------------------------------------------------------------------
(* CacheGetRandomSatisfiedChannel. *)

\* GetRandomSatisfiedChannel: a retry past the last priority stays there.
Priority(g, r) == IF r >= level[g] THEN level[g] - 1 ELSE r

\* The first group with channels from i on.
FirstWith(i) == {g \in i .. Last : level[g] > 0 /\ \A h \in i .. g - 1 : level[h] = 0}

\* No group that is left has a channel.
NoneFrom(i) == IF token.auto THEN \A g \in i .. Last : level[g] = 0 ELSE level[1] = 0

\* Mutant: an exhausted group does not hold the counter back.
ChosenUnheld(i, r) ==
    IF ~token.auto
    THEN IF level[1] = 0 THEN {} ELSE {[g |-> 1, p |-> Priority(1, r), i |-> i, r |-> r, h |-> FALSE]}
    ELSE {LET q == IF g > i THEN 0 ELSE r
          IN  IF token.cross /\ q >= token.times
              THEN [g |-> g, p |-> Priority(g, q), i |-> g + 1, r |-> r, h |-> FALSE]
              ELSE [g |-> g, p |-> Priority(g, q), i |-> g, r |-> q, h |-> FALSE] :
          g \in FirstWith(i)}

\* What is chosen from index i with the counter at r, and what becomes of them: empty
\* groups are passed with the counter at 0; a group whose attempts are used up is
\* left for the next attempt, which the counter does not count.
Chosen(i, r) ==
    IF ~token.auto
    THEN IF level[1] = 0 THEN {} ELSE {[g |-> 1, p |-> Priority(1, r), i |-> i, r |-> r, h |-> FALSE]}
    ELSE {LET q == IF g > i THEN 0 ELSE r
          IN  IF token.cross /\ q >= token.times
              THEN [g |-> g, p |-> Priority(g, q), i |-> g + 1, r |-> 0, h |-> TRUE]
              ELSE [g |-> g, p |-> Priority(g, q), i |-> g, r |-> q, h |-> FALSE] :
          g \in FirstWith(i)}

Use(g, p) ==
    /\ channel' = [group |-> g, priority |-> p]
    /\ tries' = [tries EXCEPT ![g] = @ + 1]
    /\ inOrder' = (inOrder /\ (channel.group <= g \/ (affine /\ tries[channel.group] = 1)))

\* ModelPriceHelper, once, between the first channel and the first attempt: the ratio of
\* the group at that time, and for a tiered price a snapshot with it.
SetPrice(g) ==
    /\ billed' = g
    /\ frozen' = IF token.tiered THEN g ELSE 0

\* The group whose ratio the settlement multiplies with: TryTieredSettle takes it from
\* the snapshot, the other prices from PriceData.
Settled == IF token.tiered THEN frozen ELSE billed

-----------------------------------------------------------------------------

\* Distribute takes the channel of the affinity cache, which sets the group alone ...
FromAffinity ==
    /\ at = "start"
    /\ \E g \in IF token.auto THEN Groups ELSE {1} :
         /\ level[g] > 0
         /\ \E p \in 0 .. level[g] - 1 : Use(g, p)
         /\ SetPrice(g)
    /\ affine' = TRUE /\ at' = "try"
    /\ UNCHANGED <<token, level, retry, held, index, changes>>

\* ... or chooses with a counter of its own, of which only the index remains.
FromGroups ==
    /\ at = "start"
    /\ \/ \E c \in Chosen(1, 0) :
            Use(c.g, c.p) /\ SetPrice(c.g) /\ index' = c.i /\ at' = "try"
       \/ /\ NoneFrom(1) /\ at' = "refused"
          /\ UNCHANGED <<channel, tries, inOrder, billed, frozen, index>>
    /\ UNCHANGED <<token, level, retry, held, affine, changes>>

\* A disabled channel of the affinity cache ends the request when the rule forbids
\* retries; otherwise FromGroups goes on.
AffinityDisabled ==
    /\ at = "start" /\ token.stay /\ at' = "refused"
    /\ UNCHANGED <<token, level, retry, held, index, channel, billed, frozen, affine, tries,
                   inOrder, changes>>

Succeed ==
    /\ at = "try" /\ at' = "answered"
    /\ UNCHANGED <<token, level, retry, held, index, channel, billed, frozen, affine, tries,
                   inOrder, changes>>

\* shouldRetry: an error of the channel is retried whatever the counter says.  A rule
\* that forbids retries does so whether or not it has found the channel.
ShouldRetry(kind) ==
    /\ ~token.stay
    /\ \/ kind = "channel"
       \/ kind = "retryable" /\ token.times - retry > 0

\* IncreaseRetry and the condition of the loop.
Counted == IF held THEN retry ELSE retry + 1

\* Mutant: the flag stays set, and no further attempt is counted.
FailHeld(kind) ==
    /\ at = "try"
    /\ IF ShouldRetry(kind)
       THEN /\ retry' = Counted /\ UNCHANGED held
            /\ at' = IF Counted <= token.times THEN "pick" ELSE "failed"
       ELSE at' = (IF kind = "final" THEN "refused" ELSE "failed") /\ UNCHANGED <<retry, held>>
    /\ UNCHANGED <<token, level, index, channel, billed, frozen, affine, tries,
                   inOrder, changes>>

Fail(kind) ==
    /\ at = "try"
    /\ IF ShouldRetry(kind)
       THEN /\ retry' = Counted /\ held' = FALSE
            /\ at' = IF Counted <= token.times THEN "pick" ELSE "failed"
       ELSE at' = (IF kind = "final" THEN "refused" ELSE "failed") /\ UNCHANGED <<retry, held>>
    /\ UNCHANGED <<token, level, index, channel, billed, frozen, affine, tries,
                   inOrder, changes>>

\* Mutant: the ratio of the group is not computed again.
PickSamePrice ==
    /\ at = "pick"
    /\ \/ \E c \in Chosen(index, retry) :
            /\ Use(c.g, c.p) /\ index' = c.i /\ retry' = c.r /\ held' = (held \/ c.h)
            /\ at' \in {"try", "refused"}
       \/ /\ NoneFrom(index) /\ at' = "failed"
          /\ retry' = IF token.auto THEN 0 ELSE retry
          /\ index' = IF token.auto THEN Last + 1 ELSE index
          /\ UNCHANGED <<held, channel, tries, inOrder>>
    /\ UNCHANGED <<token, level, affine, changes, billed, frozen>>

\* getChannel of a later attempt; a channel without an enabled key ends the request.  It
\* sets the ratio of PriceData anew, the snapshot stays as it is.
Pick ==
    /\ at = "pick"
    /\ \/ \E c \in Chosen(index, retry) :
            /\ Use(c.g, c.p) /\ billed' = c.g
            /\ index' = c.i /\ retry' = c.r /\ held' = (held \/ c.h)
            /\ at' \in {"try", "refused"}
       \/ /\ NoneFrom(index) /\ at' = "failed"
          /\ retry' = IF token.auto THEN 0 ELSE retry
          /\ index' = IF token.auto THEN Last + 1 ELSE index
          /\ UNCHANGED <<held, channel, billed, tries, inOrder>>
    /\ UNCHANGED <<token, level, affine, changes, frozen>>

\* The cache of the channels is rebuilt between two attempts.
CacheChanges ==
    /\ at = "try" /\ changes < MaxChanges
    /\ \E g \in Groups : \E l \in Levels \ {level[g]} : level' = [level EXCEPT ![g] = l]
    /\ changes' = changes + 1
    /\ UNCHANGED <<token, at, retry, held, index, channel, billed, frozen, affine, tries, inOrder>>

Next ==
    \/ FromAffinity \/ AffinityDisabled \/ FromGroups \/ Succeed \/ Pick \/ CacheChanges
    \/ \E kind \in {"channel", "retryable", "final"} : Fail(kind)

Spec == Init /\ [][Next]_vars

-----------------------------------------------------------------------------
(* Properties. *)

\* With cross-group retry, a request that errors worth a retry have ended has been sent
\* RetryTimes + 1 times to every group that has channels, and the groups came in their
\* order.  After a channel of the affinity cache the first group has one attempt less;
\* the channels must not change on the way (CacheGetRandomSatisfiedChannel: "each group
\* will exhaust ... before moving to the next group").
EveryGroupTried ==
    (/\ at = "failed" /\ token.auto /\ token.cross /\ token.times > 0 /\ changes = 0
     /\ ~token.stay)
    => /\ inOrder
       /\ \A g \in Groups : level[g] > 0 =>
            tries[g] >= IF affine /\ FirstWith(1) = {g} THEN token.times ELSE token.times + 1

\* A request ends whatever errors its channels give and however their number changes,
\* though the counter is set back on the way (RetryParam.SetRetry, resetNextTry): no
\* group is used more than RetryTimes + 1 times, beside the affinity channel.
TriesBounded ==
    \A g \in Groups : tries[g] <= token.times + 1 + (IF affine THEN 1 ELSE 0)

\* What an answer is settled with, after any number of moves between groups: the ratio of
\* the group of the channel that is asked, set anew by every attempt (getChannel and
\* HandleGroupRatio); for a tiered price the ratio of a group that was asked, the first of
\* them but for that of the affinity cache, however far the request has moved since
\* (modelPriceHelperTiered, ComputeTieredQuotaWithRequest).
BilledAsAsked ==
    at \in {"try", "answered"} =>
        IF token.tiered
        THEN /\ Settled \in Groups /\ tries[Settled] > 0
             /\ ~affine => \A g \in Groups : tries[g] > 0 => Settled <= g
        ELSE Settled = channel.group

\* "UsingGroup ... changes on a cross-group retry of auto": every answer is settled with
\* the ratio of the group that has given it.  It is not so for a tiered price.
AnsweringGroupBilled == at = "answered" => Settled = channel.group

\* A group is left when its priorities have been used up ("Retry=2: GroupA exhausted ->
\* GroupB, priority0").
ExhaustedGroupIsLeft ==
    token.auto /\ token.cross /\ ~affine /\ changes = 0 =>
        \A g \in Groups : tries[g] <= level[g]
=============================================================================
