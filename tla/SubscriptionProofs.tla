------------------------- MODULE SubscriptionProofs -------------------------
(* Types, the user's group, what exceeds a limit, and the budget of a period in *)
(* Subscription, for every catalogue of plans.                               *)
EXTENDS Subscription, FiniteSetTheorems, TLAPS

USE SubscriptionAssumption

LEMMA SomePlan == (CHOOSE p \in Plans : TRUE) \in Plans
OBVIOUS

LEMMA NextResetType ==
    ASSUME TypeOK, NEW p \in Plans, NEW base \in Nat, NEW end \in Nat
    PROVE  NextReset(p, base, end) \in Nat
<1>1. period[p] \in Nat
  BY DEF TypeOK
<1>2. CASE period[p] = 0
  BY <1>2 DEF NextReset
<1>3. CASE period[p] > 0
  <2>1. base % period[p] \in 0 .. (period[p] - 1)
    BY <1>1, <1>3
  <2> QED BY <1>1, <2>1 DEF NextReset
<1> QED BY <1>1, <1>2, <1>3

\* What a reset or a charge of row x leaves alone.
SameTerms(x, y) ==
    /\ x.status = y.status /\ x.plan = y.plan /\ x.prev = y.prev
    /\ x.start = y.start /\ x.end = y.end

\* A reset leaves the terms alone.
LEMMA MaybeResetRow ==
    ASSUME TypeOK, NEW x \in SubRow, NEW t \in Nat
    PROVE  /\ MaybeReset(x, t) \in SubRow
           /\ SameTerms(MaybeReset(x, t), x)
<1> DEFINE base == ResetBase(x)
           first == NextReset(x.plan, base, x.end)
           last == LastReset(x, t)
<1>1. x.plan \in Plans /\ base \in Nat /\ x.end \in Nat /\ period[x.plan] \in Nat
  BY DEF SubRow, ResetBase, TypeOK
<1>2. first \in Nat
  BY <1>1, NextResetType
<1>3. ASSUME period[x.plan] # 0, first > 0, first <= t
      PROVE  last \in Nat /\ NextReset(x.plan, last, x.end) \in Nat
  <2>1. first <= x.end
    BY <1>1, <1>2, <1>3 DEF NextReset
  <2> DEFINE end == IF t < x.end THEN t ELSE x.end
  <2>2. end \in Nat /\ end - first \in Nat
    BY <1>1, <1>2, <1>3, <2>1
  <2>3. (end - first) % period[x.plan] \in 0 .. (end - first)
    <3> DEFINE a == end - first
    <3>1. a \in Nat /\ period[x.plan] \in Nat /\ period[x.plan] > 0
      BY <1>1, <1>3, <2>2
    <3> HIDE DEF a, end
    <3>2. a % period[x.plan] \in Nat /\ a % period[x.plan] <= a
      BY <3>1, Z3
    <3> QED BY <3>1, <3>2 DEF a
  <2>4. last = end - ((end - first) % period[x.plan])
    BY DEF LastReset
  <2>5. last \in Nat
    <3> HIDE DEF end, first, last
    <3> QED BY <1>2, <2>2, <2>3, <2>4
  <2> QED BY <1>1, <2>5, NextResetType
<1>4. x \in SubRow
  OBVIOUS
<1> HIDE DEF base, first, last
<1>5. MaybeReset(x, t) =
        IF x.next > t \/ period[x.plan] = 0 THEN x
        ELSE IF first > 0 /\ first <= t
        THEN [x EXCEPT !.used = 0, !.last = last, !.next = NextReset(x.plan, last, x.end)]
        ELSE IF x.next = 0 /\ first > 0 THEN [x EXCEPT !.next = first, !.last = base]
        ELSE x
  BY DEF MaybeReset, base, first, last
<1>6. CASE MaybeReset(x, t) = x
  BY <1>6 DEF SameTerms
<1>7. CASE /\ period[x.plan] # 0 /\ first > 0 /\ first <= t
           /\ MaybeReset(x, t) =
                [x EXCEPT !.used = 0, !.last = last, !.next = NextReset(x.plan, last, x.end)]
  <2> DEFINE next == NextReset(x.plan, last, x.end)
  <2>1. last \in Nat /\ next \in Nat
    BY <1>3, <1>7
  <2> HIDE DEF next
  <2>2. MaybeReset(x, t) = [x EXCEPT !.used = 0, !.last = last, !.next = next]
    BY <1>7 DEF next
  <2> DEFINE y == [x EXCEPT !.used = 0, !.last = last]
  <2>3. y \in SubRow /\ SameTerms(y, x)
    BY <2>1 DEF SubRow, SameTerms
  <2>4. MaybeReset(x, t) = [y EXCEPT !.next = next]
    BY <2>2
  <2> HIDE DEF y
  <2> QED BY <2>1, <2>3, <2>4 DEF SubRow, SameTerms
<1>8. CASE MaybeReset(x, t) = [x EXCEPT !.next = first, !.last = base]
  BY <1>1, <1>2, <1>8 DEF SubRow, SameTerms
<1> QED BY <1>5, <1>6, <1>7, <1>8

LEMMA NoneRow == None \in SubRow
BY SomePlan DEF None, SubRow

LEMMA InitTypeOK == Init => TypeOK
<1> SUFFICES ASSUME Init PROVE TypeOK
  OBVIOUS
<1>1. sub \in [Subs -> SubRow] /\ buyer \in [Buyers -> [at : {"idle", "read"}, row : SubRow]]
  BY NoneRow DEF Init
<1>2. period \in [Plans -> Nat] /\ now \in 1 .. MaxTime /\ group \in Groups
  BY DEF Init, Groups
<1>3. bought \in 0 .. MaxSubs /\ spent \in [Subs -> Int]
  BY DEF Init, Subs
<1>4. hold \in [Requests -> [status : {"none", "consumed", "settled", "refunded"},
                             sub : Subs \cup {0}, amount : Nat]]
  BY DEF Init
<1>5. job \in [Masters -> [at : {"idle", "expire", "user", "reset", "rows"}, now : Nat,
                           due : SUBSET Subs, count : Nat]]
  BY DEF Init, Idle
<1> QED BY <1>1, <1>2, <1>3, <1>4, <1>5 DEF TypeOK

\* The row a purchase creates.
LEMMA NewRowType ==
    ASSUME TypeOK, NEW p \in Plans
    PROVE  /\ NewRow(p, group) \in SubRow
           /\ NewRow(p, group).plan = p
           /\ Catalog[p].upgrade # NoGroup =>
                NewRow(p, group).prev # NoGroup \/ group = Catalog[p].upgrade
           /\ NewRow(p, group).prev # NoGroup => Catalog[p].upgrade # NoGroup
<1>1. /\ now \in Nat /\ Catalog[p].duration \in Nat /\ group \in Groups
      /\ now + Catalog[p].duration \in Nat
  BY DEF TypeOK
<1>2. NextReset(p, now, now + Catalog[p].duration) \in Nat
  BY <1>1, NextResetType
<1> QED BY <1>1, <1>2 DEF NewRow, SubRow, Groups, UpgradeGroups

Holds == [Requests -> [status : {"none", "consumed", "settled", "refunded"},
                       sub : Subs \cup {0}, amount : Nat]]
Reads == [Buyers -> [at : {"idle", "read"}, row : SubRow]]
Runs == [Masters -> [at : {"idle", "expire", "user", "reset", "rows"}, now : Nat,
                     due : SUBSET Subs, count : Nat]]

\* Types written as the steps below use them.
LEMMA Types ==
    TypeOK <=> /\ now \in 1 .. MaxTime /\ period \in [Plans -> Nat]
               /\ bought \in 0 .. MaxSubs /\ group \in Groups
               /\ sub \in [Subs -> SubRow] /\ hold \in Holds
               /\ buyer \in Reads /\ job \in Runs /\ spent \in [Subs -> Int]
BY DEF TypeOK, Holds, Reads, Runs

LEMMA InsertType ==
    ASSUME TypeOK, NEW x \in SubRow, Insert(x),
           x.prev # NoGroup => Catalog[x.plan].upgrade # NoGroup
    PROVE  /\ now' \in 1 .. MaxTime /\ period' \in [Plans -> Nat]
           /\ bought' \in 0 .. MaxSubs /\ group' \in Groups
           /\ sub' \in [Subs -> SubRow] /\ hold' \in Holds
           /\ job' \in Runs /\ spent' \in [Subs -> Int]
<1>1. x.plan \in Plans
  BY DEF SubRow
<1>2. group' \in Groups
  BY <1>1, Types DEF Insert, Groups, UpgradeGroups
<1> QED BY <1>2, Types DEF Insert, Subs, quotas

\* A purchase that has only been read is a row NewRow has made.
ReadsAreRows ==
    \A b \in Buyers : buyer[b].row.prev # NoGroup =>
                          Catalog[buyer[b].row.plan].upgrade # NoGroup

LEMMA ChangeUsedType ==
    ASSUME TypeOK, NEW s \in Subs, NEW delta \in Int, ChangeUsed(s, delta)
    PROVE  sub' \in [Subs -> SubRow] /\ spent' \in [Subs -> Int]
<1>1. sub[s] \in SubRow /\ spent[s] \in Int /\ sub[s].used \in Nat
  BY Types DEF SubRow
<1>2. UsedAfter(s, delta) \in Nat
  BY <1>1 DEF UsedAfter
<1>3. [sub[s] EXCEPT !.used = UsedAfter(s, delta)] \in SubRow
  BY <1>1, <1>2 DEF SubRow
<1> QED BY <1>1, <1>3, Types DEF ChangeUsed

LEMMA PreConsumeRows ==
    ASSUME TypeOK, NEW r \in Requests, NEW amount \in Amounts, PreConsume(r, amount)
    PROVE  /\ sub' \in [Subs -> SubRow] /\ hold' \in Holds /\ spent' \in [Subs -> Int]
           /\ \A t \in Subs : SameTerms(sub'[t], sub[t])
<1> DEFINE x(t) == MaybeReset(sub[t], now)
<1>1. /\ amount \in Nat /\ now \in Nat
      /\ \A t \in Subs : sub[t] \in SubRow
  <2>1. amount \in Nat
    OBVIOUS
  <2>2. now \in Nat
    BY Types
  <2>3. \A t \in Subs : sub[t] \in SubRow
    BY Types
  <2> QED BY <2>1, <2>2, <2>3
<1>2. \A t \in Subs : x(t) \in SubRow /\ SameTerms(x(t), sub[t])
  BY <1>1, MaybeResetRow
<1> HIDE DEF x
<1>3. PICK s \in Subs :
        /\ \A t \in Subs : \/ t = s /\ sub'[t] = [x(t) EXCEPT !.used = @ + amount]
                           \/ sub'[t] = x(t)
                           \/ sub'[t] = sub[t]
        /\ sub' = [t \in Subs |-> sub'[t]]
        /\ hold' = [hold EXCEPT ![r] = [status |-> "consumed", sub |-> s, amount |-> amount]]
        /\ spent' = [spent EXCEPT ![s] = @ + amount]
  BY DEF PreConsume, Candidates, x
<1>4. \A t \in Subs : /\ [x(t) EXCEPT !.used = @ + amount] \in SubRow
                      /\ SameTerms([x(t) EXCEPT !.used = @ + amount], x(t))
  BY <1>1, <1>2 DEF SubRow, SameTerms
<1>5. \A t \in Subs : sub'[t] \in SubRow
  BY <1>1, <1>2, <1>3, <1>4
<1>6. sub' \in [Subs -> SubRow]
  BY <1>3, <1>5
<1>7. ASSUME NEW t \in Subs PROVE SameTerms(sub'[t], sub[t])
  <2> DEFINE y == [x(t) EXCEPT !.used = @ + amount]
  <2>1. SameTerms(x(t), sub[t]) /\ SameTerms(y, x(t))
    BY <1>2, <1>4
  <2>2. SameTerms(y, sub[t]) /\ SameTerms(sub[t], sub[t])
    BY <2>1 DEF SameTerms
  <2>3. sub'[t] \in {y, x(t), sub[t]}
    BY <1>3
  <2> HIDE DEF y
  <2> QED BY <2>1, <2>2, <2>3
<1>8. hold' \in Holds /\ spent' \in [Subs -> Int]
  BY <1>1, <1>3, Types DEF Holds
<1> QED BY <1>6, <1>7, <1>8

\* A refund or a settlement changes the amount used and nothing else of a row.
LEMMA QuotaRows ==
    ASSUME TypeOK, NEW r \in Requests, Refund(r) \/ Settle(r)
    PROVE  \A s \in Subs : SameTerms(sub'[s], sub[s])
<1>1. sub' = sub \/ \E delta : ChangeUsed(hold[r].sub, delta)
  BY Zenon DEF Refund, Settle
<1>2. sub \in [Subs -> SubRow]
  BY Types
<1>3. CASE sub' = sub
  BY <1>3 DEF SameTerms
<1>4. ASSUME NEW delta, ChangeUsed(hold[r].sub, delta)
      PROVE  \A s \in Subs : SameTerms(sub'[s], sub[s])
  <2>1. PICK q, u : sub' = [sub EXCEPT ![q].used = u]
    BY <1>4, Zenon DEF ChangeUsed
  <2> QED BY <1>2, <2>1 DEF SubRow, SameTerms
<1> QED BY <1>1, <1>3, <1>4

LEMMA ResetRowRows ==
    ASSUME TypeOK, NEW m \in Masters, NEW s \in Subs, ResetRow(m, s)
    PROVE  /\ sub' \in [Subs -> SubRow]
           /\ \A t \in Subs : SameTerms(sub'[t], sub[t])
<1>1. job[m].now \in Nat /\ \A t \in Subs : sub[t] \in SubRow
  BY Types DEF Runs
<1>2. /\ MaybeReset(sub[s], job[m].now) \in SubRow
      /\ SameTerms(MaybeReset(sub[s], job[m].now), sub[s])
  BY <1>1, MaybeResetRow
<1>3. sub' = sub \/ sub' = [sub EXCEPT ![s] = MaybeReset(sub[s], job[m].now)]
  BY DEF ResetRow
<1> QED BY <1>1, <1>2, <1>3, Types DEF SameTerms


Typed == TypeOK /\ ReadsAreRows

LEMMA NextTyped ==
    ASSUME Typed, [Next]_vars
    PROVE  Typed'
<1>0. /\ now \in 1 .. MaxTime /\ period \in [Plans -> Nat]
      /\ bought \in 0 .. MaxSubs /\ group \in Groups
      /\ sub \in [Subs -> SubRow] /\ hold \in Holds
      /\ buyer \in Reads /\ job \in Runs /\ spent \in [Subs -> Int]
      /\ TypeOK /\ ReadsAreRows
  BY Types DEF Typed
<1>P. Typed' <=>
      /\ now' \in 1 .. MaxTime /\ period' \in [Plans -> Nat]
      /\ bought' \in 0 .. MaxSubs /\ group' \in Groups
      /\ sub' \in [Subs -> SubRow] /\ hold' \in Holds
      /\ buyer' \in Reads /\ job' \in Runs /\ spent' \in [Subs -> Int]
      /\ ReadsAreRows'
  BY DEF Typed, TypeOK, Holds, Reads, Runs
<1> USE DEF quotas, loops
<1>1. CASE Tick
  BY <1>0, <1>P, <1>1 DEF Tick, ReadsAreRows
<1>2. ASSUME NEW p \in Plans, EditPlan(p) PROVE Typed'
  BY <1>0, <1>P, <1>2 DEF EditPlan, ReadsAreRows
<1>3. ASSUME NEW p \in Plans, Buy(p) PROVE Typed'
  <2>1. ReadsAreRows' /\ buyer' = buyer
    BY <1>0, <1>3 DEF Buy, ReadsAreRows
  <2>2. Insert(NewRow(p, group)) /\ NewRow(p, group).plan = p
    BY <1>0, <1>3, NewRowType DEF Buy
  <2> QED BY <1>0, <1>P, <2>1, <2>2, NewRowType, InsertType
<1>4. ASSUME NEW b \in Buyers, NEW p \in Plans, BuyRead(b, p) PROVE Typed'
  <2> DEFINE x == NewRow(p, group)
  <2>1. /\ x \in SubRow /\ x.plan = p
        /\ x.prev # NoGroup => Catalog[p].upgrade # NoGroup
    BY <1>0, NewRowType
  <2> HIDE DEF x
  <2>2. /\ buyer' = [buyer EXCEPT ![b] = [at |-> "read", row |-> x]]
        /\ UNCHANGED <<now, period, sub, bought, group, hold, spent, job>>
    BY <1>4 DEF BuyRead, x
  <2>3. buyer' \in Reads
    BY <1>0, <2>1, <2>2 DEF Reads
  <2>4. ReadsAreRows'
    BY <1>0, <2>1, <2>2 DEF ReadsAreRows, Reads
  <2> QED BY <1>0, <1>P, <2>2, <2>3, <2>4
<1>5. ASSUME NEW b \in Buyers, BuyWrite(b) PROVE Typed'
  <2>1. buyer[b].row \in SubRow /\ Insert(buyer[b].row)
    BY <1>0, <1>5 DEF BuyWrite, Reads
  <2>2. buyer' = [buyer EXCEPT ![b] = [at |-> "idle", row |-> None]]
    BY <1>5 DEF BuyWrite
  <2>3. buyer' \in Reads
    BY <1>0, <2>2, NoneRow DEF Reads
  <2>4. ReadsAreRows'
    BY <1>0, <2>2 DEF ReadsAreRows, Reads, None
  <2> QED BY <1>0, <1>P, <2>1, <2>3, <2>4, InsertType DEF ReadsAreRows
<1>6. ASSUME NEW r \in Requests, NEW amount \in Amounts, PreConsume(r, amount) PROVE Typed'
  <2>1. UNCHANGED <<now, period, bought, group, buyer, job>>
    BY <1>6 DEF PreConsume
  <2> QED BY <1>0, <1>P, <1>6, <2>1, PreConsumeRows DEF ReadsAreRows
<1>7. ASSUME NEW r \in Requests, Refund(r) \/ Settle(r) PROVE Typed'
  <2>1. UNCHANGED <<now, period, bought, group, buyer, job>>
    BY <1>7 DEF Refund, Settle
  <2>2. hold' \in Holds
    BY <1>0, <1>7 DEF Refund, Settle, Holds
  <2>3. PICK delta \in Int : \/ ChangeUsed(hold[r].sub, delta)
                             \/ UNCHANGED <<sub, spent>>
    BY <1>0, <1>7 DEF Refund, Settle, Holds
  <2>4. sub' \in [Subs -> SubRow] /\ spent' \in [Subs -> Int]
    <3>1. CASE hold[r].sub \in Subs
      BY <1>0, <2>3, <3>1, ChangeUsedType
    <3>2. CASE hold[r].sub \notin Subs
      BY <1>0, <2>3, <3>2 DEF ChangeUsed
    <3> QED BY <3>1, <3>2
  <2> QED BY <1>0, <1>P, <2>1, <2>2, <2>4 DEF ReadsAreRows
<1>8. ASSUME NEW s \in Subs, AdminInvalidate(s) \/ AdminDelete(s) PROVE Typed'
  <2>1. UNCHANGED <<now, period, bought, hold, spent, buyer, job>>
    BY <1>8 DEF AdminInvalidate, AdminDelete
  <2>2. Downgraded(s, now) \in Groups
    BY <1>0 DEF Downgraded, SubRow
  <2>3. sub' \in [Subs -> SubRow]
    <3>1. \A e \in Nat : /\ [sub[s] EXCEPT !.status = "cancelled", !.end = e] \in SubRow
                         /\ [sub[s] EXCEPT !.status = "deleted"] \in SubRow
      BY <1>0 DEF SubRow
    <3>2. \/ sub' = [sub EXCEPT ![s] = [sub[s] EXCEPT !.status = "cancelled", !.end = now]]
          \/ sub' = [sub EXCEPT ![s] = [sub[s] EXCEPT !.status = "deleted"]]
      BY <1>0, <1>8 DEF AdminInvalidate, AdminDelete
    <3>3. now \in Nat
      BY <1>0
    <3> QED BY <1>0, <3>1, <3>2, <3>3
  <2>4. group' = Downgraded(s, now)
    BY <1>8 DEF AdminInvalidate, AdminDelete
  <2> QED BY <1>0, <1>P, <2>1, <2>2, <2>3, <2>4 DEF ReadsAreRows
<1>9. ASSUME NEW m \in Masters, StartRun(m) \/ ExpireRead(m) \/ ResetRead(m) PROVE Typed'
  <2>1. UNCHANGED <<now, period, sub, bought, group, hold, spent, buyer>>
    BY <1>9 DEF StartRun, ExpireRead, ResetRead
  <2>2. job' \in Runs
    <3>1. ResetDue(now) \subseteq Subs /\ now \in Nat
      BY <1>0 DEF ResetDue
    <3>2. CASE StartRun(m)
      BY <1>0, <3>2 DEF StartRun, Runs
    <3>3. CASE ExpireRead(m)
      BY <1>0, <3>1, <3>3 DEF ExpireRead, Runs, Idle
    <3>4. CASE ResetRead(m)
      <4>1. PICK L \in SUBSET Subs :
              job' = [job EXCEPT ![m] = IF L = {} THEN Idle
                        ELSE [at |-> "rows", now |-> now, due |-> L, count |-> 0]]
        BY <3>1, <3>4 DEF ResetRead
      <4> QED BY <1>0, <3>1, <4>1 DEF Runs, Idle
    <3> QED BY <1>9, <3>2, <3>3, <3>4
  <2> QED BY <1>0, <1>P, <2>1, <2>2 DEF ReadsAreRows
<1>10. ASSUME NEW m \in Masters, ExpireUser(m) PROVE Typed'
  <2>1. UNCHANGED <<now, period, bought, hold, spent, buyer>>
    BY <1>10 DEF ExpireUser
  <2>2. job' \in Runs
    BY <1>0, <1>10 DEF ExpireUser, Runs, Idle
  <2>3. sub' \in [Subs -> SubRow]
    <3>1. \A s \in Subs : [sub[s] EXCEPT !.status = "expired"] \in SubRow
      BY <1>0 DEF SubRow
    <3> QED BY <1>0, <1>10, <3>1 DEF ExpireUser
  <2>4. group' \in Groups
    BY <1>0, <1>10 DEF ExpireUser, SubRow
  <2> QED BY <1>0, <1>P, <2>1, <2>2, <2>3, <2>4 DEF ReadsAreRows
<1>11. ASSUME NEW m \in Masters, NEW s \in Subs, ResetRow(m, s) PROVE Typed'
  <2>1. UNCHANGED <<now, period, bought, group, hold, spent, buyer>>
    BY <1>11 DEF ResetRow
  <2>2. job' \in Runs
    <3> DEFINE t == job[m].now
               due == sub[s].status # "deleted" /\ sub[s].next > 0 /\ sub[s].next <= t
               count == job[m].count + IF due THEN 1 ELSE 0
               rest == job[m].due \ {s}
               x == [job[m] EXCEPT !.due = rest, !.count = count]
               at == IF count >= Batch THEN "reset" ELSE "idle"
               y == [Idle EXCEPT !.at = at]
    <3>1. job' = [job EXCEPT ![m] = IF rest # {} THEN x ELSE y]
      BY <1>0, <1>11 DEF ResetRow, Exists, Runs
    <3>2. rest \in SUBSET Subs /\ count \in Nat
      BY <1>0 DEF Runs
    <3> HIDE DEF rest, count
    <3>3. x \in [at : {"idle", "expire", "user", "reset", "rows"}, now : Nat,
                 due : SUBSET Subs, count : Nat]
      BY <1>0, <3>2 DEF Runs
    <3>4. y \in [at : {"idle", "expire", "user", "reset", "rows"}, now : Nat,
                 due : SUBSET Subs, count : Nat]
      BY DEF Idle
    <3> HIDE DEF x, y
    <3> QED BY <1>0, <3>1, <3>3, <3>4 DEF Runs
  <2> QED BY <1>0, <1>P, <1>11, <2>1, <2>2, ResetRowRows DEF ReadsAreRows
<1>12. CASE UNCHANGED vars
  BY <1>0, <1>P, <1>12 DEF vars, ReadsAreRows
<1> QED BY <1>1, <1>2, <1>3, <1>4, <1>5, <1>6, <1>7, <1>8, <1>9, <1>10, <1>11, <1>12
        DEF Next, Maintain

-----------------------------------------------------------------------------
(* The user's group. *)

\* A run of the loop works with a time that has been.
StaleTime == \A m \in Masters : job[m].now <= now

\* What holds when transactions run one after the other.
IInv ==
    /\ Typed /\ StaleTime
    /\ \A b \in Buyers : buyer[b].at = "idle"
    /\ UpgradeHeld

LEMMA InitIInv == Init => IInv
<1> SUFFICES ASSUME Init PROVE IInv
  OBVIOUS
<1>1. Typed
  BY InitTypeOK DEF Typed, ReadsAreRows, Init, None
<1>2. StaleTime
  BY DEF Init, StaleTime, Idle
<1>3. OtherUpgrades(Subs, now) = {}
  BY DEF Init, OtherUpgrades, Active, None
<1> QED BY <1>1, <1>2, <1>3 DEF IInv, UpgradeHeld, Init

\* A step that leaves the status, the plan and the end of every row, and the group.
LEMMA GroupKept ==
    ASSUME Typed, UpgradeHeld, group' = group, now' = now,
           \A s \in Subs : SameTerms(sub'[s], sub[s])
    PROVE  UpgradeHeld'
BY DEF UpgradeHeld, OtherUpgrades, Active, Upgrades, SameTerms

LEMMA NextStaleTime ==
    ASSUME Typed, StaleTime, [Next]_vars
    PROVE  StaleTime'
<1>0. Typed /\ StaleTime /\ now \in Nat /\ job \in Runs
  BY Types DEF Typed
<1> USE DEF quotas, loops
<1>1. CASE Tick
  BY <1>0, <1>1 DEF Tick, StaleTime, Runs
<1>2. CASE now' = now /\ job' = job
  BY <1>0, <1>2 DEF StaleTime
<1>3. ASSUME NEW m \in Masters, Maintain(m) PROVE StaleTime'
  <2>1. now' = now
    BY <1>3 DEF Maintain, StartRun, ExpireRead, ExpireUser, ResetRead, ResetRow
  <2>2. \A k \in Masters : job'[k].now \in {0, now, job[k].now}
    <3>1. CASE StartRun(m)
      BY <1>0, <3>1 DEF StartRun, Runs
    <3>2. CASE ExpireRead(m)
      BY <1>0, <3>2 DEF ExpireRead, Runs, Idle
    <3>3. CASE ExpireUser(m)
      BY <1>0, <3>3 DEF ExpireUser, Runs, Idle
    <3>4. CASE ResetRead(m)
      BY <1>0, <3>4 DEF ResetRead, Runs, Idle
    <3>5. ASSUME NEW s \in Subs, ResetRow(m, s)
          PROVE  \A k \in Masters : job'[k].now \in {0, now, job[k].now}
      BY <1>0, <3>5 DEF ResetRow, Runs, Idle
    <3> QED BY <1>3, <3>1, <3>2, <3>3, <3>4, <3>5 DEF Maintain
  <2> QED BY <1>0, <2>1, <2>2 DEF StaleTime, Runs
<1> QED
  BY <1>1, <1>2, <1>3 DEF Next, vars, EditPlan, Buy, BuyRead, BuyWrite, Insert, PreConsume,
     Refund, Settle, AdminInvalidate, AdminDelete

LEMMA NextIInv ==
    ASSUME Serial, IInv, [Next]_vars
    PROVE  IInv'
<1>0. /\ Typed /\ TypeOK /\ StaleTime /\ UpgradeHeld
      /\ \A b \in Buyers : buyer[b].at = "idle"
  BY DEF IInv, Typed
<1>T. /\ now \in Nat /\ group \in Groups /\ sub \in [Subs -> SubRow] /\ job \in Runs
      /\ bought \in Nat
  BY <1>0, Types
<1>1. Typed'
  BY <1>0, NextTyped
<1> USE DEF quotas, loops
<1>2. StaleTime'
  BY <1>0, NextStaleTime
<1>3. \A b \in Buyers : buyer'[b].at = "idle"
  BY <1>0 DEF Next, vars, Tick, EditPlan, Buy, BuyRead, BuyWrite, Insert, PreConsume,
     Refund, Settle, AdminInvalidate, AdminDelete, Maintain, StartRun, ExpireRead, ExpireUser,
     ResetRead, ResetRow
<1>4. UpgradeHeld'
  <2>1. CASE Tick
    BY <1>0, <1>T, <2>1 DEF Tick, UpgradeHeld, OtherUpgrades, Active, Upgrades, SubRow
  <2>2. ASSUME NEW p \in Plans, EditPlan(p) PROVE UpgradeHeld'
    BY <1>0, <2>2, GroupKept DEF EditPlan, SameTerms
  <2>3. ASSUME NEW p \in Plans, Buy(p) PROVE UpgradeHeld'
    <3> DEFINE x == NewRow(p, group)
    <3>1. /\ x.plan = p
          /\ Catalog[p].upgrade # NoGroup => x.prev # NoGroup \/ group = Catalog[p].upgrade
          /\ x.prev # NoGroup => Catalog[p].upgrade # NoGroup
      BY <1>0, NewRowType
    <3> HIDE DEF x
    <3>2. /\ sub' = [sub EXCEPT ![bought + 1] = x] /\ now' = now
          /\ group' = IF x.prev # NoGroup THEN Catalog[p].upgrade ELSE group
      BY <2>3, <3>1 DEF Buy, Insert, x
    <3>3. CASE Catalog[p].upgrade # NoGroup
      BY <3>1, <3>2, <3>3 DEF UpgradeHeld, UpgradeGroups
    <3>4. CASE Catalog[p].upgrade = NoGroup
      <4>1. OtherUpgrades(Subs, now)' \subseteq OtherUpgrades(Subs, now)
        BY <1>T, <3>1, <3>2, <3>4 DEF OtherUpgrades, Active, Upgrades
      <4> QED BY <1>0, <3>1, <3>2, <3>4, <4>1 DEF UpgradeHeld
    <3> QED BY <3>3, <3>4
  <2>4. ASSUME NEW b \in Buyers, NEW p \in Plans, BuyRead(b, p) \/ BuyWrite(b) PROVE UpgradeHeld'
    BY <1>0, <2>4 DEF BuyRead, BuyWrite
  <2>5. ASSUME NEW r \in Requests, NEW amount \in Amounts, PreConsume(r, amount)
        PROVE  UpgradeHeld'
    <3>1. \A s \in Subs : SameTerms(sub'[s], sub[s])
      BY <1>0, <1>T, <2>5, PreConsumeRows DEF Typed
    <3>2. group' = group /\ now' = now
      BY <2>5, Zenon DEF PreConsume
    <3> QED BY <1>0, <3>1, <3>2, GroupKept
  <2>6. ASSUME NEW r \in Requests, Refund(r) \/ Settle(r) PROVE UpgradeHeld'
    <3>1. \A s \in Subs : SameTerms(sub'[s], sub[s])
      BY <1>0, <1>T, <2>6, QuotaRows DEF Typed
    <3>2. group' = group /\ now' = now
      BY <2>6, Zenon DEF Refund, Settle
    <3> QED BY <1>0, <3>1, <3>2, GroupKept
  <2>7. ASSUME NEW s \in Subs, AdminInvalidate(s) \/ AdminDelete(s) PROVE UpgradeHeld'
    <3>1. \A t \in Subs \ {s} : sub'[t] = sub[t]
      BY <1>T, <2>7 DEF AdminInvalidate, AdminDelete
    <3>2. sub'[s].status # "active"
      BY <1>T, <2>7 DEF AdminInvalidate, AdminDelete, SubRow
    <3>3. now' = now /\ group' = Downgraded(s, now)
      BY <2>7 DEF AdminInvalidate, AdminDelete
    <3>4. OtherUpgrades(Subs, now)' \subseteq OtherUpgrades(Subs \ {s}, now)
      BY <3>1, <3>2, <3>3 DEF OtherUpgrades, Active, Upgrades
    <3> QED BY <1>0, <3>3, <3>4 DEF UpgradeHeld, Downgraded, OtherUpgrades
  <2>8. ASSUME NEW m \in Masters, StartRun(m) \/ ExpireRead(m) \/ ResetRead(m) PROVE UpgradeHeld'
    BY <1>0, <2>8, GroupKept DEF StartRun, ExpireRead, ResetRead, SameTerms
  <2>9. ASSUME NEW m \in Masters, ExpireUser(m) PROVE UpgradeHeld'
    <3> DEFINE t == job[m].now
    <3>1. t \in Nat /\ t <= now /\ now' = now
      BY <1>0, <1>T, <2>9 DEF StaleTime, Runs, ExpireUser
    <3>2. \A s \in Subs : /\ sub'[s].status = "active" => sub[s].status = "active"
                          /\ sub'[s].plan = sub[s].plan /\ sub'[s].end = sub[s].end
      BY <1>T, <2>9 DEF ExpireUser, SubRow
    <3>3. OtherUpgrades(Subs, now)' \subseteq OtherUpgrades(Subs, now)
      BY <3>1, <3>2 DEF OtherUpgrades, Active, Upgrades
    <3>4. OtherUpgrades(Subs, now) \subseteq OtherUpgrades(Subs, t)
      BY <1>T, <3>1 DEF OtherUpgrades, SubRow
    <3>5. group' = group \/ OtherUpgrades(Subs, t) = {}
      BY <2>9 DEF ExpireUser
    <3> QED BY <1>0, <3>3, <3>4, <3>5 DEF UpgradeHeld
  <2>10. ASSUME NEW m \in Masters, NEW s \in Subs, ResetRow(m, s) PROVE UpgradeHeld'
    BY <1>0, <2>10, ResetRowRows, GroupKept DEF ResetRow
  <2>11. CASE UNCHANGED vars
    BY <1>0, <2>11, GroupKept DEF vars, SameTerms
  <2> QED BY <2>1, <2>2, <2>3, <2>4, <2>5, <2>6, <2>7, <2>8, <2>9, <2>10, <2>11
          DEF Next, Maintain
<1> QED BY <1>1, <1>2, <1>3, <1>4 DEF IInv

-----------------------------------------------------------------------------
(* The group a user gets back. *)

\* A step that neither creates nor ends a row.
TermsKept ==
    /\ group' = group /\ bought' = bought
    /\ \A t \in Subs : SameTerms(sub'[t], sub[t])

LEMMA Steps ==
    ASSUME Typed, [Next]_vars
    PROVE  \/ TermsKept /\ now' \in {now, now + 1}
           \/ \E p \in Plans : Buy(p)
           \/ \E b \in Buyers : BuyWrite(b)
           \/ \E s \in Subs : AdminInvalidate(s) \/ AdminDelete(s)
           \/ \E m \in Masters : ExpireUser(m)
<1>0. TypeOK /\ sub \in [Subs -> SubRow] /\ hold \in Holds
  BY Types DEF Typed
<1> USE DEF TermsKept, loops, quotas
<1>1. CASE UNCHANGED <<sub, group, bought>> /\ now' \in {now, now + 1}
  BY <1>1 DEF SameTerms
<1>2. ASSUME NEW r \in Requests, NEW amount \in Amounts, PreConsume(r, amount)
      PROVE  TermsKept /\ now' = now
  BY <1>0, <1>2, PreConsumeRows DEF PreConsume
<1>3. ASSUME NEW r \in Requests, Refund(r) \/ Settle(r)
      PROVE  TermsKept /\ now' = now
  <2>1. \A s \in Subs : SameTerms(sub'[s], sub[s])
    BY <1>0, <1>3, QuotaRows
  <2> QED BY <1>3, <2>1 DEF Refund, Settle
<1>4. ASSUME NEW m \in Masters, NEW s \in Subs, ResetRow(m, s)
      PROVE  TermsKept /\ now' = now
  BY <1>0, <1>4, ResetRowRows DEF ResetRow
<1> QED
  BY <1>1, <1>2, <1>3, <1>4 DEF Next, vars, Tick, EditPlan, BuyRead, Maintain, StartRun,
     ExpireRead, ResetRead

\* Rows are created one after the other and never vanish.
RowsBought == \A s \in Subs : sub[s].status = "none" <=> s > bought

\* A row starts before it ends, and before now; one that expired has ended.
Spans ==
    \A s \in Subs :
        /\ sub[s].status # "none" => sub[s].start <= now
        /\ sub[s].status = "active" => sub[s].start < sub[s].end
        /\ sub[s].status = "expired" => sub[s].end <= now

\* No upgrade was bought on top of another.
Clean == \A s \in 1 .. bought : Upgrades(s) => sub[s].prev = Base

\* s is the upgrade the user's group comes from: all others had ended when it began.
Decides(s) ==
    /\ s \in Subs /\ Active(s) /\ Upgrades(s) /\ group = Catalog[sub[s].plan].upgrade
    /\ \A t \in Subs \ {s} :
          Upgrades(t) /\ sub[t].status \in {"active", "expired"} => sub[t].end <= sub[s].start

GroupDecided == Clean => group = Base \/ \E s \in Subs : Decides(s)

RowInv == RowsBought /\ Spans

GInv == IInv /\ RowInv /\ GroupDecided

\* What a purchase writes.
LEMMA BuyRow ==
    ASSUME Typed, NEW p \in Plans, Buy(p)
    PROVE  \E x \in SubRow :
             /\ x = NewRow(p, group)
             /\ bought + 1 \in Subs /\ bought' = bought + 1
             /\ sub' = [sub EXCEPT ![bought + 1] = x] /\ now' = now
             /\ x.status = "active" /\ x.plan = p /\ x.start = now /\ x.end > now
             /\ Catalog[p].upgrade # NoGroup =>
                  /\ x.prev = IF group # Catalog[p].upgrade THEN group ELSE NoGroup
                  /\ x.prev # NoGroup => group' = Catalog[p].upgrade
             /\ Catalog[p].upgrade = NoGroup => group' = group
<1> DEFINE x == NewRow(p, group)
<1>1. x \in SubRow /\ TypeOK
  BY NewRowType DEF Typed
<1>2. now \in Nat /\ Catalog[p].duration \in Nat \ {0}
  BY <1>1, Types
<1>3. /\ x.status = "active" /\ x.plan = p /\ x.start = now /\ x.end > now
      /\ x.prev = IF Catalog[p].upgrade # NoGroup /\ group # Catalog[p].upgrade THEN group ELSE NoGroup
  BY <1>2 DEF NewRow
<1>4. /\ bought + 1 \in Subs /\ bought' = bought + 1
      /\ sub' = [sub EXCEPT ![bought + 1] = x] /\ now' = now
      /\ group' = IF x.prev # NoGroup THEN Catalog[x.plan].upgrade ELSE group
  BY DEF Buy, Insert
<1> HIDE DEF x
<1> QED BY <1>1, <1>3, <1>4 DEF x

\* What an administrator ends.
LEMMA AdminRow ==
    ASSUME Typed, NEW s \in Subs, AdminInvalidate(s) \/ AdminDelete(s)
    PROVE  /\ bought' = bought /\ now' = now /\ group' = Downgraded(s, now)
           /\ \A t \in Subs \ {s} : sub'[t] = sub[t]
           /\ sub[s].status \notin {"none", "deleted"} /\ sub'[s].status \in {"cancelled", "deleted"}
           /\ sub'[s].plan = sub[s].plan /\ sub'[s].prev = sub[s].prev
           /\ sub'[s].start = sub[s].start /\ sub'[s].end \in {now, sub[s].end}
<1>1. sub \in [Subs -> SubRow]
  BY Types DEF Typed
<1> QED BY <1>1 DEF AdminInvalidate, AdminDelete, SubRow

\* What an expiry ends.
LEMMA ExpireRows ==
    ASSUME Typed, NEW m \in Masters, ExpireUser(m)
    PROVE  /\ bought' = bought /\ now' = now
           /\ \A t \in Subs :
                /\ sub'[t].plan = sub[t].plan /\ sub'[t].prev = sub[t].prev
                /\ sub'[t].start = sub[t].start /\ sub'[t].end = sub[t].end
                /\ sub'[t].status = IF sub[t].status = "active" /\ sub[t].end <= job[m].now
                                    THEN "expired" ELSE sub[t].status
<1>1. sub \in [Subs -> SubRow]
  BY Types DEF Typed
<1> QED BY <1>1 DEF ExpireUser, Ended, Active, SubRow

LEMMA NextRowInv ==
    ASSUME Serial, IInv, RowInv, [Next]_vars
    PROVE  RowInv'
<1>0. /\ Typed /\ now \in Nat /\ bought \in Nat /\ sub \in [Subs -> SubRow]
      /\ \A b \in Buyers : buyer[b].at = "idle"
      /\ \A m \in Masters : job[m].now \in Nat /\ job[m].now <= now
  BY Types DEF IInv, Typed, StaleTime, Runs
<1> USE DEF RowInv, RowsBought, Spans
<1>1. CASE TermsKept /\ now' \in {now, now + 1}
  BY <1>0, <1>1 DEF TermsKept, SameTerms, SubRow
<1>2. ASSUME NEW p \in Plans, Buy(p) PROVE RowInv'
  <2>1. PICK x \in SubRow :
             /\ bought + 1 \in Subs /\ bought' = bought + 1
             /\ sub' = [sub EXCEPT ![bought + 1] = x] /\ now' = now
             /\ x.status = "active" /\ x.plan = p /\ x.start = now /\ x.end > now
    BY <1>0, <1>2, BuyRow
  <2>2. \A s \in Subs : s # bought + 1 => sub'[s] = sub[s]
    BY <1>0, <2>1
  <2>3. sub'[bought + 1] = x
    BY <1>0, <2>1
  <2>4. x.start \in Nat /\ x.end \in Nat
    BY DEF SubRow
  <2>5. ASSUME NEW s \in Subs
        PROVE  /\ sub'[s].status = "none" <=> s > bought'
               /\ sub'[s].status # "none" => sub'[s].start <= now'
               /\ sub'[s].status = "active" => sub'[s].start < sub'[s].end
               /\ sub'[s].status = "expired" => sub'[s].end <= now'
    <3>1. CASE s = bought + 1
      BY <1>0, <2>1, <2>3, <2>4, <3>1
    <3>2. CASE s # bought + 1
      <4>1. s \in Nat
        BY DEF Subs
      <4> QED BY <1>0, <2>1, <2>2, <3>2, <4>1
    <3> QED BY <3>1, <3>2
  <2> QED BY <2>5
<1>3. ASSUME NEW b \in Buyers, BuyWrite(b) PROVE RowInv'
  BY <1>0, <1>3 DEF BuyWrite
<1>4. ASSUME NEW s \in Subs, AdminInvalidate(s) \/ AdminDelete(s) PROVE RowInv'
  BY <1>0, <1>4, AdminRow
<1>5. ASSUME NEW m \in Masters, ExpireUser(m) PROVE RowInv'
  BY <1>0, <1>5, ExpireRows DEF SubRow
<1> QED BY <1>0, <1>1, <1>2, <1>3, <1>4, <1>5, Steps

LEMMA BaseIsNoUpgrade ==
    /\ Base \notin UpgradeGroups
    /\ \A s \in Subs : sub[s] \in SubRow /\ Upgrades(s) => Catalog[sub[s].plan].upgrade \in UpgradeGroups
BY DEF UpgradeGroups, Upgrades, SubRow

LEMMA CleanBefore ==
    ASSUME bought \in Nat, bought' \in Nat, bought <= bought', bought <= MaxSubs,
           \A s \in Subs : s <= bought => sub'[s].plan = sub[s].plan /\ sub'[s].prev = sub[s].prev
    PROVE  Clean' => Clean
<1> SUFFICES ASSUME Clean', NEW s \in 1 .. bought, Upgrades(s) PROVE sub[s].prev = Base
  BY DEF Clean
<1>1. s \in Subs /\ s <= bought /\ s \in 1 .. bought'
  BY DEF Subs
<1>2. Upgrades(s)'
  BY <1>1 DEF Upgrades
<1> QED BY <1>1, <1>2 DEF Clean

LEMMA NextGroupDecided ==
    ASSUME Serial, IInv, RowInv, GroupDecided, [Next]_vars
    PROVE  GroupDecided'
<1>0. /\ Typed /\ UpgradeHeld /\ now \in Nat /\ sub \in [Subs -> SubRow]
      /\ bought \in Nat /\ bought <= MaxSubs /\ bought' \in Nat
      /\ \A b \in Buyers : buyer[b].at = "idle"
      /\ \A m \in Masters : job[m].now \in Nat /\ job[m].now <= now
      /\ \A s \in Subs : sub[s].start \in Nat /\ sub[s].end \in Nat
  <2>1. TypeOK /\ TypeOK'
    BY NextTyped DEF IInv, Typed
  <2> QED BY <2>1, Types DEF IInv, StaleTime, Runs, SubRow, TypeOK
<1>1. CASE TermsKept
  <2>1. Clean' => Clean
    BY <1>0, <1>1, CleanBefore DEF TermsKept, SameTerms
  <2>2. ASSUME NEW s \in Subs, Decides(s) PROVE Decides(s)'
    BY <1>1, <2>2 DEF TermsKept, SameTerms, Decides, Active, Upgrades
  <2> QED BY <1>1, <2>1, <2>2 DEF GroupDecided, TermsKept
<1>2. ASSUME NEW p \in Plans, Buy(p), Clean' PROVE group' = Base \/ \E s \in Subs : Decides(s)'
  <2> DEFINE n == bought + 1
  <2>1. PICK x \in SubRow :
             /\ n \in Subs /\ bought' = n
             /\ sub' = [sub EXCEPT ![n] = x]
             /\ x.status = "active" /\ x.plan = p /\ x.start = now /\ x.end > now
             /\ Catalog[p].upgrade # NoGroup =>
                  /\ x.prev = IF group # Catalog[p].upgrade THEN group ELSE NoGroup
                  /\ x.prev # NoGroup => group' = Catalog[p].upgrade
             /\ Catalog[p].upgrade = NoGroup => group' = group
    BY <1>0, <1>2, BuyRow
  <2>2. sub'[n] = x /\ \A s \in Subs \ {n} : sub'[s] = sub[s]
    BY <1>0, <2>1
  <2>3. Clean
    <3>1. \A s \in Subs : s <= bought => s # n
      BY <1>0
    <3> QED BY <1>0, <1>2, <2>1, <2>2, <3>1, CleanBefore
  <2>4. CASE Catalog[p].upgrade = NoGroup
    <3>1. ASSUME NEW s \in Subs, Decides(s) PROVE Decides(s)'
      <4>1. s # n
        BY <1>0, <3>1 DEF Decides, Active, RowInv, RowsBought
      <4> QED BY <2>1, <2>2, <2>4, <3>1, <4>1 DEF Decides, Active, Upgrades
    <3> QED BY <2>1, <2>3, <2>4, <3>1 DEF GroupDecided
  <2>5. CASE Catalog[p].upgrade # NoGroup
    <3>1. x.prev = Base
      <4>1. n \in 1 .. bought'
        BY <1>0, <2>1
      <4>2. Catalog[sub'[n].plan].upgrade # NoGroup
        BY <2>1, <2>2, <2>5
      <4> QED BY <1>2, <2>2, <4>1, <4>2 DEF Clean, Upgrades
    <3>2. group = Base /\ group' = Catalog[p].upgrade
      BY <2>1, <2>5, <3>1
    <3>3. OtherUpgrades(Subs, now) = {}
      BY <1>0, <3>2, BaseIsNoUpgrade DEF UpgradeHeld
    <3>4. \A t \in Subs : Upgrades(t) /\ sub[t].status \in {"active", "expired"} => sub[t].end <= now
      BY <1>0, <3>3 DEF OtherUpgrades, Active, RowInv, Spans
    <3>5. /\ sub'[n].status = "active" /\ Catalog[sub'[n].plan].upgrade # NoGroup
          /\ group' = Catalog[sub'[n].plan].upgrade
          /\ \A t \in Subs \ {n} :
                Catalog[sub'[t].plan].upgrade # NoGroup /\ sub'[t].status \in {"active", "expired"}
                  => sub'[t].end <= sub'[n].start
      BY <2>1, <2>2, <2>5, <3>2, <3>4 DEF Upgrades
    <3> HIDE DEF n
    <3> QED BY <2>1, <3>5 DEF Decides, Active, Upgrades
  <2> QED BY <2>4, <2>5
<1>3. ASSUME NEW b \in Buyers, BuyWrite(b) PROVE GroupDecided'
  BY <1>0, <1>3 DEF BuyWrite
<1>4. ASSUME NEW s \in Subs, AdminInvalidate(s) \/ AdminDelete(s), Clean'
      PROVE  group' = Base \/ \E w \in Subs : Decides(w)'
  <2>1. /\ bought' = bought /\ now' = now /\ group' = Downgraded(s, now)
        /\ \A t \in Subs \ {s} : sub'[t] = sub[t]
        /\ sub[s].status \notin {"none", "deleted"} /\ sub'[s].status \in {"cancelled", "deleted"}
        /\ sub'[s].plan = sub[s].plan /\ sub'[s].prev = sub[s].prev
    BY <1>0, <1>4, AdminRow
  <2>2. Clean
    BY <1>0, <1>4, <2>1, CleanBefore
  <2>3. s \in 1 .. bought
    BY <1>0, <2>1 DEF RowInv, RowsBought, Subs
  <2>4. group' = group \/ group' = Base
    BY <2>1, <2>2, <2>3 DEF Downgraded, Clean
  <2>5. CASE group = Base
    BY <2>4, <2>5
  <2>6. ASSUME NEW w \in Subs, Decides(w), group' = group, w # s
        PROVE  Decides(w)'
    BY <2>1, <2>6 DEF Decides, Active, Upgrades
  <2>7. CASE Decides(s)
    <3>1. OtherUpgrades(Subs \ {s}, now) = {}
      <4> SUFFICES ASSUME NEW t \in Subs \ {s}, Active(t), Upgrades(t) PROVE sub[t].end <= now
        BY <1>0 DEF OtherUpgrades
      <4>1. sub[t].end <= sub[s].start /\ sub[s].start <= now
        BY <2>1, <2>7 DEF Decides, Active, RowInv, Spans
      <4> QED BY <1>0, <4>1
    <3>2. sub[s].prev = Base
      BY <2>2, <2>3, <2>7 DEF Clean, Decides
    <3> QED BY <2>1, <2>7, <3>1, <3>2 DEF Downgraded, Decides
  <2> QED BY <2>2, <2>4, <2>5, <2>6, <2>7 DEF GroupDecided
<1>5. ASSUME NEW m \in Masters, ExpireUser(m), Clean'
      PROVE  group' = Base \/ \E w \in Subs : Decides(w)'
  <2> DEFINE t == job[m].now
             past == {s \in Subs : sub'[s].status = "expired" /\ Upgrades(s)}
  <2>1. /\ bought' = bought /\ now' = now
        /\ \A s \in Subs :
                /\ sub'[s].plan = sub[s].plan /\ sub'[s].prev = sub[s].prev
                /\ sub'[s].start = sub[s].start /\ sub'[s].end = sub[s].end
                /\ sub'[s].status = IF sub[s].status = "active" /\ sub[s].end <= t
                                    THEN "expired" ELSE sub[s].status
    BY <1>0, <1>5, ExpireRows
  <2>2. \/ (past = {} \/ OtherUpgrades(Subs, t) # {}) /\ group' = group
        \/ \E s \in past :
             /\ IsLatest(s, past) /\ OtherUpgrades(Subs, t) = {}
             /\ group' = IF sub[s].prev # NoGroup /\ group = Catalog[sub[s].plan].upgrade
                         THEN sub[s].prev ELSE group
    BY <1>5 DEF ExpireUser
  <2>3. Clean
    BY <1>0, <1>5, <2>1, CleanBefore
  <2>4. \A s \in past : sub[s].prev = Base
    BY <1>0, <2>1, <2>3 DEF Clean, RowInv, RowsBought, Subs
  <2>5. group' = group \/ group' = Base
    BY <2>2, <2>4
  <2>6. CASE group = Base
    BY <2>5, <2>6
  <2>7. ASSUME NEW w \in Subs, Decides(w)
        PROVE  group' = Base \/ Decides(w)'
    <3>0. \A s \in Subs \ {w} :
             Upgrades(s) /\ sub[s].status \in {"active", "expired"} => sub[s].end <= sub[w].start
      BY <2>7 DEF Decides
    <3>1. CASE sub[w].end > t
      <4>1. w \in OtherUpgrades(Subs, t)
        BY <2>7, <3>1 DEF Decides, OtherUpgrades
      <4>2. group' = group
        BY <2>2, <4>1
      <4>3. sub'[w].status = "active"
        BY <1>0, <2>1, <2>7, <3>1 DEF Decides, Active
      <4> QED BY <2>1, <2>7, <3>0, <4>2, <4>3 DEF Decides, Active, Upgrades
    <3>2. CASE sub[w].end <= t
      <4>1. w \in past /\ sub[w].start < sub[w].end
        BY <2>1, <2>7, <3>2 DEF Decides, Active, RowInv, Spans
      <4>2. OtherUpgrades(Subs, t) = {}
        <5> SUFFICES ASSUME NEW s \in Subs, Active(s), Upgrades(s) PROVE sub[s].end <= t
          BY <1>0 DEF OtherUpgrades
        <5>1. CASE s = w
          BY <3>2, <5>1
        <5>2. CASE s # w
          BY <1>0, <3>0, <3>2, <4>1, <5>2 DEF Active
        <5> QED BY <5>1, <5>2
      <4>3. PICK s \in past :
               /\ IsLatest(s, past)
               /\ group' = IF sub[s].prev # NoGroup /\ group = Catalog[sub[s].plan].upgrade
                           THEN sub[s].prev ELSE group
        BY <2>2, <4>1, <4>2
      <4>4. s = w
        <5> SUFFICES ASSUME s # w PROVE FALSE
          OBVIOUS
        <5>1. sub[w].end < sub[s].end \/ sub[w].end = sub[s].end
          BY <4>1, <4>3 DEF IsLatest, Earlier
        <5>2. sub[s].end <= sub[w].start
          BY <2>1, <3>0
        <5> QED BY <1>0, <4>1, <5>1, <5>2
      <4> QED BY <2>4, <2>7, <4>3, <4>4 DEF Decides
    <3> QED BY <1>0, <3>1, <3>2
  <2> QED BY <2>3, <2>6, <2>7 DEF GroupDecided
<1> QED BY <1>0, <1>1, <1>2, <1>3, <1>4, <1>5, Steps DEF GroupDecided

LEMMA InitGInv == Init => GInv
<1> SUFFICES ASSUME Init PROVE GInv
  OBVIOUS
<1>1. IInv
  BY InitIInv
<1>2. RowInv
  BY DEF Init, RowInv, RowsBought, Spans, None, Subs
<1>3. GroupDecided
  BY DEF Init, GroupDecided
<1> QED BY <1>1, <1>2, <1>3 DEF GInv

LEMMA NextGInv ==
    ASSUME Serial, GInv, [Next]_vars
    PROVE  GInv'
<1>1. IInv' /\ RowInv' /\ GroupDecided'
  BY NextIInv, NextRowInv, NextGroupDecided DEF GInv
<1> QED BY <1>1 DEF GInv

-----------------------------------------------------------------------------
(* The number of subscriptions he owns. *)

\* The grants that have counted the purchases of plan p and not inserted theirs.
Reading(p) == {b \in Buyers : buyer[b].at = "read" /\ buyer[b].row.plan = p}

Overlap == IF Serial THEN 0 ELSE Cardinality(Buyers) - 1

\* What is owned and what is about to be: a grant that has counted takes its place
\* before it inserts.
OverlapInv ==
    /\ Typed
    /\ Serial => \A b \in Buyers : buyer[b].at = "idle"
    /\ \A p \in Plans :
         Catalog[p].limit > 0 =>
             Cardinality(Owned(p)) + Cardinality(Reading(p)) <= Catalog[p].limit + Overlap

LEMMA OwnedFinite ==
    ASSUME NEW p
    PROVE  IsFiniteSet(Owned(p)) /\ Cardinality(Owned(p)) \in Nat
<1>1. IsFiniteSet(Subs)
  BY FS_Interval DEF Subs
<1>2. IsFiniteSet(Owned(p))
  BY <1>1, FS_Subset DEF Owned
<1> QED BY <1>2, FS_CardinalityType

LEMMA ReadingFinite ==
    ASSUME IsFiniteSet(Buyers), NEW p
    PROVE  /\ IsFiniteSet(Reading(p)) /\ Cardinality(Reading(p)) \in Nat
           /\ Cardinality(Buyers) \in Nat /\ Cardinality(Reading(p)) <= Cardinality(Buyers)
<1>1. Reading(p) \subseteq Buyers
  BY DEF Reading
<1> QED BY <1>1, FS_Subset, FS_CardinalityType

\* A set that has become no larger, or larger by one member.
LEMMA GrowsByOne ==
    ASSUME NEW S, IsFiniteSet(S), NEW T, NEW x, T \subseteq S \cup {x}
    PROVE  /\ Cardinality(S) \in Nat /\ Cardinality(T) \in Nat
           /\ Cardinality(T) <= Cardinality(S) + 1
           /\ T \subseteq S => Cardinality(T) <= Cardinality(S)
<1>1. IsFiniteSet(S \cup {x}) /\ Cardinality(S) \in Nat
  BY FS_AddElement, FS_CardinalityType
<1>2. Cardinality(S \cup {x}) \in Nat /\ Cardinality(S \cup {x}) <= Cardinality(S) + 1
  <2>1. \/ Cardinality(S \cup {x}) = Cardinality(S)
        \/ Cardinality(S \cup {x}) = Cardinality(S) + 1
    BY FS_AddElement
  <2> QED BY <1>1, <2>1
<1>3. Cardinality(T) \in Nat /\ Cardinality(T) <= Cardinality(S \cup {x})
  BY <1>1, FS_Subset, FS_CardinalityType
<1>4. T \subseteq S => Cardinality(T) <= Cardinality(S)
  BY FS_Subset
<1> QED BY <1>1, <1>2, <1>3, <1>4

\* A step creates a row by a purchase in one step or by a grant that has read; else the
\* purchases that count are those before, or fewer.
LEMMA OwnedKept ==
    ASSUME Typed, [Next]_vars, NEW p \in Plans,
           ~ \E q \in Plans : Buy(q), ~ \E b \in Buyers : BuyWrite(b)
    PROVE  Owned(p)' \subseteq Owned(p)
<1>0. sub \in [Subs -> SubRow]
  BY Types DEF Typed
<1>1. CASE TermsKept
  BY <1>1 DEF TermsKept, SameTerms, Owned
<1>2. ASSUME NEW s \in Subs, AdminInvalidate(s) \/ AdminDelete(s) PROVE Owned(p)' \subseteq Owned(p)
  BY <1>0, <1>2, AdminRow DEF Owned
<1>3. ASSUME NEW m \in Masters, ExpireUser(m) PROVE Owned(p)' \subseteq Owned(p)
  BY <1>0, <1>3, ExpireRows DEF Owned
<1> QED BY <1>1, <1>2, <1>3, Steps

LEMMA NextOverlapInv ==
    ASSUME IsFiniteSet(Buyers), OverlapInv, [Next]_vars
    PROVE  OverlapInv'
<1>0. /\ Typed /\ sub \in [Subs -> SubRow] /\ bought \in Nat /\ buyer \in Reads
  BY Types DEF OverlapInv, Typed
<1>1. Typed'
  BY <1>0, NextTyped
<1>2. \/ buyer' = buyer
      \/ \E b \in Buyers, q \in Plans : BuyRead(b, q)
      \/ \E b \in Buyers : BuyWrite(b)
  BY DEF Next, vars, Tick, EditPlan, Buy, PreConsume, Refund, Settle, AdminInvalidate, AdminDelete,
     Maintain, StartRun, ExpireRead, ExpireUser, ResetRead, ResetRow, loops
<1>3. Serial => \A b \in Buyers : buyer'[b].at = "idle"
  BY <1>2 DEF OverlapInv, BuyRead, BuyWrite
<1>4. SUFFICES ASSUME NEW p \in Plans, Catalog[p].limit > 0
               PROVE  Cardinality(Owned(p)') + Cardinality(Reading(p)') <= Catalog[p].limit + Overlap
  BY <1>1, <1>3 DEF OverlapInv, Overlap
<1> DEFINE o == Cardinality(Owned(p))
           w == Cardinality(Reading(p))
           n == Cardinality(Buyers)
<1>5. /\ Catalog[p].limit \in Nat /\ o \in Nat /\ w \in Nat /\ n \in Nat /\ Overlap \in Int
      /\ o + w <= Catalog[p].limit + Overlap
      /\ IsFiniteSet(Owned(p)) /\ IsFiniteSet(Reading(p))
      /\ Cardinality(Reading(p)') \in Nat /\ Cardinality(Reading(p)') <= n
      /\ ~Serial => Overlap = n - 1
  <2>1. IsFiniteSet(Reading(p)') /\ Reading(p)' \subseteq Buyers
    BY FS_Subset DEF Reading
  <2>2. Cardinality(Reading(p)') \in Nat /\ Cardinality(Reading(p)') <= n /\ n \in Nat
    BY <2>1, FS_Subset, FS_CardinalityType
  <2> QED BY <1>4, <2>2, OwnedFinite, ReadingFinite DEF OverlapInv, Overlap
<1> HIDE DEF o, w, n
<1>6. ASSUME NEW x, Owned(p)' \subseteq Owned(p) \cup {x}
      PROVE  /\ Cardinality(Owned(p)') \in Nat /\ Cardinality(Owned(p)') <= o + 1
             /\ Owned(p)' \subseteq Owned(p) => Cardinality(Owned(p)') <= o
  BY <1>5, <1>6, GrowsByOne DEF o
<1>7. ASSUME NEW q \in Plans, Buy(q) PROVE Cardinality(Owned(p)') + Cardinality(Reading(p)') <= Catalog[p].limit + Overlap
  <2>1. PICK x \in SubRow : /\ bought + 1 \in Subs /\ sub' = [sub EXCEPT ![bought + 1] = x]
                            /\ x.plan = q
    BY <1>0, <1>7, BuyRow
  <2>2. Reading(p)' = Reading(p) /\ Reading(p) = {} /\ Overlap = 0
    BY <1>7 DEF Buy, Reading, OverlapInv, Overlap
  <2>3. Cardinality(Reading(p)') = 0 /\ w = 0
    BY <2>2, FS_EmptySet DEF w
  <2>4. CASE p # q
    <3>1. Owned(p)' \subseteq Owned(p)
      BY <1>0, <2>1, <2>4 DEF Owned
    <3> QED BY <1>5, <1>6, <2>2, <2>3, <3>1
  <2>5. CASE p = q
    <3>1. o < Catalog[p].limit
      BY <1>4, <1>7, <2>5 DEF Buy, Permitted, o
    <3>2. Owned(p)' \subseteq Owned(p) \cup {bought + 1}
      BY <1>0, <2>1 DEF Owned
    <3> QED BY <1>5, <1>6, <2>2, <2>3, <3>1, <3>2
  <2> QED BY <2>4, <2>5
<1>8. ASSUME NEW b \in Buyers, NEW q \in Plans, BuyRead(b, q)
      PROVE  Cardinality(Owned(p)') + Cardinality(Reading(p)') <= Catalog[p].limit + Overlap
  <2>1. Owned(p)' = Owned(p) /\ ~Serial
    BY <1>8 DEF BuyRead, Owned
  <2>2. CASE p = q
    <3>1. o < Catalog[p].limit /\ Cardinality(Owned(p)') = o
      BY <1>4, <1>8, <2>1, <2>2 DEF BuyRead, Permitted, o
    <3> QED BY <1>5, <2>1, <3>1
  <2>3. CASE p # q
    <3>1. NewRow(q, group).plan = q
      BY DEF NewRow
    <3>2. buyer' = [buyer EXCEPT ![b] = [at |-> "read", row |-> NewRow(q, group)]]
      BY <1>8 DEF BuyRead
    <3>3. Reading(p)' \subseteq Reading(p)
      BY <1>0, <2>3, <3>1, <3>2 DEF Reading, Reads
    <3>4. Cardinality(Reading(p)') <= w /\ Cardinality(Owned(p)') = o
      BY <1>5, <2>1, <3>3, FS_Subset DEF w, o
    <3> QED BY <1>5, <3>4
  <2> QED BY <2>2, <2>3
<1>9. ASSUME NEW b \in Buyers, BuyWrite(b)
      PROVE  Cardinality(Owned(p)') + Cardinality(Reading(p)') <= Catalog[p].limit + Overlap
  <2>1. /\ buyer[b].at = "read" /\ buyer' = [buyer EXCEPT ![b] = [at |-> "idle", row |-> None]]
        /\ sub' = [sub EXCEPT ![bought + 1] = buyer[b].row]
    BY <1>9 DEF BuyWrite, Insert
  <2>2. Reading(p)' = Reading(p) \ {b}
    BY <1>0, <2>1 DEF Reading, Reads
  <2>3. CASE buyer[b].row.plan = p
    <3>1. b \in Reading(p)
      BY <2>1, <2>3 DEF Reading
    <3>2. Cardinality(Reading(p)') = w - 1
      BY <1>5, <2>2, <3>1, FS_RemoveElement DEF w
    <3>3. Owned(p)' \subseteq Owned(p) \cup {bought + 1}
      BY <1>0, <2>1 DEF Owned
    <3> QED BY <1>5, <1>6, <3>2, <3>3
  <2>4. CASE buyer[b].row.plan # p
    <3>1. Owned(p)' \subseteq Owned(p)
      BY <1>0, <2>1, <2>4 DEF Owned
    <3>2. Cardinality(Reading(p)') <= w
      BY <1>5, <2>2, FS_Subset DEF w
    <3> QED BY <1>5, <1>6, <3>1, <3>2
  <2> QED BY <2>3, <2>4
<1>10. ASSUME buyer' = buyer, ~ \E q \in Plans : Buy(q), ~ \E b \in Buyers : BuyWrite(b)
       PROVE  Cardinality(Owned(p)') + Cardinality(Reading(p)') <= Catalog[p].limit + Overlap
  <2>1. Owned(p)' \subseteq Owned(p) /\ Reading(p)' = Reading(p)
    BY <1>0, <1>10, OwnedKept DEF Reading
  <2>2. Cardinality(Reading(p)') = w
    BY <2>1 DEF w
  <2> QED BY <1>5, <1>6, <2>1, <2>2
<1> QED BY <1>2, <1>7, <1>8, <1>9, <1>10

LEMMA InitOverlapInv ==
    ASSUME IsFiniteSet(Buyers), Init
    PROVE  OverlapInv
<1>1. Typed
  BY InitTypeOK DEF Typed, ReadsAreRows, Init, None
<1>2. ASSUME NEW p \in Plans PROVE Owned(p) = {} /\ Reading(p) = {}
  BY DEF Init, Owned, None, Reading
<1>3. \A p \in Plans : Cardinality(Owned(p)) = 0 /\ Cardinality(Reading(p)) = 0
  BY <1>2, FS_EmptySet
<1>4. Overlap >= -1 /\ Overlap \in Int
  BY FS_CardinalityType DEF Overlap
<1> QED BY <1>1, <1>3, <1>4 DEF OverlapInv, Init

-----------------------------------------------------------------------------
(* What a subscription pays in its periods. *)

LEMMA ModuloSum ==
    ASSUME NEW P \in Nat \ {0}, NEW a \in Int, NEW b \in Int, a % P = 0, b % P = 0
    PROVE  (a + b) % P = 0
<1>1. /\ a = P * (a \div P) /\ a \div P \in Int
      /\ b = P * (b \div P) /\ b \div P \in Int
  BY Z3
<1>2. PICK q \in Int, r \in Int : a = P * q /\ b = P * r
  BY <1>1
<1>3. a + b = P * (q + r) /\ q + r \in Int
  BY <1>2
<1>4. \A k \in Int : (P * k) % P = 0
  BY Z3
<1> QED BY <1>3, <1>4

LEMMA ModuloDown ==
    ASSUME NEW P \in Nat \ {0}, NEW a \in Nat
    PROVE  /\ a % P \in Nat /\ a % P <= a /\ a % P < P
           /\ (a - (a % P)) % P = 0 /\ P % P = 0 /\ 0 % P = 0
<1>1. a % P \in Nat /\ a % P <= a /\ a % P < P
  BY Z3
<1>2. (a - (a % P)) % P = 0
  <2>1. a = P * (a \div P) + (a % P) /\ a \div P \in Int
    BY Z3
  <2>2. PICK q \in Int : a - (a % P) = P * q
    BY <1>1, <2>1
  <2>3. \A k \in Int : (P * k) % P = 0
    BY Z3
  <2> QED BY <2>2, <2>3
<1>3. P % P = 0 /\ 0 % P = 0
  BY Z3
<1> QED BY <1>1, <1>2, <1>3

LEMMA ProductGrows ==
    ASSUME NEW k \in Nat, NEW a \in Nat, NEW b \in Nat, a + 1 <= b
    PROVE  k + k * a <= k * b
<1>1. PICK d \in Nat : b = a + 1 + d
  <2>1. b - (a + 1) \in Nat /\ b = a + 1 + (b - (a + 1))
    OBVIOUS
  <2> QED BY <2>1
<1>2. k * b = k * a + k + k * d
  BY <1>1
<1>3. k * d \in Nat /\ k * a \in Nat
  OBVIOUS
<1> QED BY <1>2, <1>3

\* The boundaries of row x up to b, the periods being per.
Begun(x, b, per) ==
    {t \in (x.start + 1) .. b :
        /\ per[x.plan] > 0
        /\ (IF Catalog[x.plan].aligned THEN t ELSE t - x.start) % per[x.plan] = 0}

\* Row x has paid sp by time n: what it has used since the last boundary it was reset
\* at, and at most its total for each period before.
Paid(x, sp, n, per) ==
    /\ x.start <= ResetBase(x) /\ ResetBase(x) <= n /\ ResetBase(x) <= x.end
    /\ per[x.plan] = 0 => ResetBase(x) = x.start
    /\ per[x.plan] > 0 /\ ~Catalog[x.plan].aligned =>
          (ResetBase(x) - x.start) % per[x.plan] = 0
    /\ Catalog[x.plan].total > 0 =>
          /\ x.used <= Catalog[x.plan].total
          /\ sp <= x.used + Catalog[x.plan].total * Cardinality(Begun(x, ResetBase(x), per))

LEMMA BegunFinite ==
    ASSUME NEW x \in SubRow, NEW b \in Nat, NEW per
    PROVE  IsFiniteSet(Begun(x, b, per)) /\ Cardinality(Begun(x, b, per)) \in Nat
<1>1. x.start + 1 \in Int
  BY DEF SubRow
<1>2. IsFiniteSet((x.start + 1) .. b)
  BY <1>1, FS_Interval
<1>3. IsFiniteSet(Begun(x, b, per))
  BY <1>2, FS_Subset DEF Begun
<1> QED BY <1>3, FS_CardinalityType

\* The first boundary after base.
LEMMA FirstBoundary ==
    ASSUME TypeOK, NEW x \in SubRow, NEW base \in Nat,
           period[x.plan] > 0, x.start <= base,
           ~Catalog[x.plan].aligned => (base - x.start) % period[x.plan] = 0,
           NextReset(x.plan, base, x.end) > 0
    PROVE  /\ base < NextReset(x.plan, base, x.end)
           /\ NextReset(x.plan, base, x.end) <= x.end
           /\ (IF Catalog[x.plan].aligned THEN NextReset(x.plan, base, x.end)
               ELSE NextReset(x.plan, base, x.end) - x.start) % period[x.plan] = 0
<1> DEFINE P == period[x.plan]
           first == NextReset(x.plan, base, x.end)
<1>1. P \in Nat \ {0} /\ x.start \in Nat /\ x.end \in Nat
  BY Types DEF SubRow
<1>2. /\ first = base + P - (IF Catalog[x.plan].aligned THEN base % P ELSE 0)
      /\ first <= x.end
  BY <1>1 DEF NextReset
<1> HIDE DEF P, first
<1>3. /\ base % P \in Nat /\ base % P < P
      /\ (base - (base % P)) % P = 0 /\ P % P = 0
  BY <1>1, ModuloDown
<1>4. base < first
  BY <1>1, <1>2, <1>3
<1>5. CASE Catalog[x.plan].aligned
  <2>1. first = (base - (base % P)) + P /\ base - (base % P) \in Int /\ P \in Int
    BY <1>1, <1>2, <1>3, <1>5
  <2>2. first % P = 0
    BY <1>1, <1>3, <2>1, ModuloSum
  <2> QED BY <1>2, <1>4, <1>5, <2>2 DEF P, first
<1>6. CASE ~Catalog[x.plan].aligned
  <2>1. first - x.start = (base - x.start) + P /\ base - x.start \in Int /\ P \in Int
    BY <1>1, <1>2, <1>6
  <2>2. (base - x.start) % P = 0
    BY <1>6 DEF P
  <2>3. (first - x.start) % P = 0
    BY <1>1, <1>3, <2>1, <2>2, ModuloSum
  <2> QED BY <1>2, <1>4, <1>6, <2>3 DEF P, first
<1> QED BY <1>5, <1>6

\* The boundary a reset at time t goes to.
LEMMA LastBoundary ==
    ASSUME TypeOK, NEW x \in SubRow, NEW t \in Nat,
           period[x.plan] > 0, x.start <= ResetBase(x),
           ~Catalog[x.plan].aligned => (ResetBase(x) - x.start) % period[x.plan] = 0,
           NextReset(x.plan, ResetBase(x), x.end) > 0,
           NextReset(x.plan, ResetBase(x), x.end) <= t
    PROVE  /\ LastReset(x, t) \in Nat
           /\ ResetBase(x) < LastReset(x, t)
           /\ LastReset(x, t) <= t /\ LastReset(x, t) <= x.end
           /\ (IF Catalog[x.plan].aligned THEN LastReset(x, t) ELSE LastReset(x, t) - x.start)
                % period[x.plan] = 0
<1> DEFINE P == period[x.plan]
           base == ResetBase(x)
           first == NextReset(x.plan, base, x.end)
           end == IF t < x.end THEN t ELSE x.end
           last == LastReset(x, t)
           d == end - first
<1>1. P \in Nat \ {0} /\ x.start \in Nat /\ x.end \in Nat /\ base \in Nat
  BY Types DEF SubRow, ResetBase
<1>2. /\ base < first /\ first <= x.end
      /\ (IF Catalog[x.plan].aligned THEN first ELSE first - x.start) % P = 0
  BY <1>1, FirstBoundary
<1>3. first \in Nat
  BY <1>1, NextResetType DEF SubRow
<1>4. d \in Nat /\ end <= t /\ end <= x.end /\ end \in Nat
  BY <1>1, <1>2, <1>3
<1>5. last = end - (d % P)
  BY DEF LastReset
<1>6. first <= t
  OBVIOUS
<1> HIDE DEF P, base, first, end, last, d
<1>7. d % P \in Nat /\ d % P <= d /\ (d - (d % P)) % P = 0
  BY <1>1, <1>4, ModuloDown
<1>8. last = first + (d - (d % P)) /\ d - (d % P) \in Nat
  BY <1>3, <1>4, <1>5, <1>7 DEF d
<1>9. last \in Nat /\ base < last /\ last <= t /\ last <= x.end
  BY <1>1, <1>2, <1>3, <1>4, <1>5, <1>7, <1>8
<1>10. (IF Catalog[x.plan].aligned THEN last ELSE last - x.start) % P = 0
  <2> DEFINE f == IF Catalog[x.plan].aligned THEN first ELSE first - x.start
  <2>1. f \in Int /\ f % P = 0
    BY <1>1, <1>2, <1>3
  <2>2. (IF Catalog[x.plan].aligned THEN last ELSE last - x.start) = f + (d - (d % P))
    BY <1>1, <1>3, <1>8
  <2> HIDE DEF f
  <2> QED BY <1>1, <1>7, <1>8, <2>1, <2>2, ModuloSum
<1> QED BY <1>9, <1>10 DEF P, base, last

\* A reset gives a new total only for a period that has begun.
LEMMA ResetPays ==
    ASSUME TypeOK, NEW x \in SubRow, NEW sp \in Int, NEW t \in Nat, t <= now,
           Paid(x, sp, now, period)
    PROVE  Paid(MaybeReset(x, t), sp, now, period)
<1> DEFINE base == ResetBase(x)
           P == period[x.plan]
           first == NextReset(x.plan, base, x.end)
           last == LastReset(x, t)
<1>1. /\ P \in Nat /\ x.plan \in Plans /\ x.start \in Nat /\ x.end \in Nat /\ base \in Nat
      /\ now \in Nat /\ Catalog[x.plan].total \in Nat /\ x.used \in Nat
  BY Types DEF SubRow, ResetBase
<1>2. CASE MaybeReset(x, t) = x
  BY <1>2
<1>3. CASE /\ P # 0 /\ first > 0 /\ first <= t
           /\ MaybeReset(x, t) =
                [x EXCEPT !.used = 0, !.last = last, !.next = NextReset(x.plan, last, x.end)]
  <2> DEFINE y == MaybeReset(x, t)
             total == Catalog[x.plan].total
             c == Cardinality(Begun(x, base, period))
             d == Cardinality(Begun(x, last, period))
  <2>1. /\ last \in Nat /\ base < last /\ last <= t /\ last <= x.end
        /\ (IF Catalog[x.plan].aligned THEN last ELSE last - x.start) % P = 0
    BY <1>1, <1>3, LastBoundary DEF Paid
  <2>2. /\ y.plan = x.plan /\ y.start = x.start /\ y.end = x.end /\ y.used = 0 /\ y.last = last
    BY <1>3 DEF SubRow
  <2>3. ResetBase(y) = last
    BY <1>1, <2>1, <2>2 DEF ResetBase
  <2>4. Begun(y, last, period) = Begun(x, last, period)
    BY <2>2 DEF Begun
  <2>5. c \in Nat /\ d \in Nat /\ c + 1 <= d
    <3> DEFINE B == Begun(x, base, period)
    <3>1. IsFiniteSet(B) /\ c \in Nat /\ IsFiniteSet(Begun(x, last, period)) /\ d \in Nat
      BY <1>1, <2>1, BegunFinite
    <3>2. last \notin B /\ x.start <= base
      BY <1>1, <2>1 DEF Begun, Paid
    <3>3. B \cup {last} \subseteq Begun(x, last, period)
      BY <1>1, <1>3, <2>1, <3>2 DEF Begun
    <3>4. Cardinality(B \cup {last}) = c + 1
      BY <3>1, <3>2, FS_AddElement
    <3>5. Cardinality(B \cup {last}) <= d
      BY <3>1, <3>3, FS_Subset
    <3> QED BY <3>1, <3>4, <3>5
  <2>6. total > 0 => sp <= x.used + total * c /\ x.used <= total
    BY DEF Paid
  <2>7. total > 0 => sp <= 0 + total * d
    <3>1. total \in Nat /\ total + total * c <= total * d /\ total * c \in Nat /\ total * d \in Nat
      BY <1>1, <2>5, ProductGrows
    <3> HIDE DEF total, c, d
    <3> QED BY <1>1, <2>6, <3>1
  <2> HIDE DEF y, c, d, last
  <2>8. ResetBase(y) <= now /\ x.start <= ResetBase(y)
    BY <1>1, <2>1, <2>3 DEF Paid
  <2> QED BY <1>1, <1>3, <2>1, <2>2, <2>3, <2>4, <2>7, <2>8 DEF Paid, y, d
<1>4. CASE P # 0 /\ MaybeReset(x, t) = [x EXCEPT !.next = first, !.last = base]
  <2> DEFINE y == MaybeReset(x, t)
  <2>1. /\ y.plan = x.plan /\ y.start = x.start /\ y.end = x.end /\ y.used = x.used
        /\ y.last = base
    BY <1>4 DEF SubRow
  <2>2. x.start <= base
    BY DEF Paid
  <2>3. ResetBase(y) = base
    <3> HIDE DEF y, base
    <3> QED BY <1>1, <2>1, <2>2 DEF ResetBase
  <2>4. Begun(y, base, period) = Begun(x, base, period)
    BY <2>1 DEF Begun
  <2> HIDE DEF y
  <2> QED BY <2>1, <2>3, <2>4 DEF Paid, y
<1>5. \/ MaybeReset(x, t) = x
      \/ /\ P # 0 /\ first > 0 /\ first <= t
         /\ MaybeReset(x, t) =
              [x EXCEPT !.used = 0, !.last = last, !.next = NextReset(x.plan, last, x.end)]
      \/ P # 0 /\ MaybeReset(x, t) = [x EXCEPT !.next = first, !.last = base]
  <2> HIDE DEF last
  <2> QED BY DEF MaybeReset, last
<1> QED BY <1>2, <1>3, <1>4, <1>5

\* Paid is kept by what changes neither the quota nor the last reset.
LEMMA PaidKept ==
    ASSUME NEW x \in SubRow, NEW y \in SubRow, NEW sp \in Int, NEW n \in Nat, NEW m \in Nat,
           NEW per, Paid(x, sp, n, per), n <= m,
           y.plan = x.plan, y.start = x.start, y.used = x.used, y.last = x.last,
           y.end = x.end \/ y.end = n
    PROVE  Paid(y, sp, m, per)
<1>1. ResetBase(y) = ResetBase(x) /\ ResetBase(x) \in Nat /\ x.start \in Nat /\ x.end \in Nat
  BY DEF ResetBase, SubRow
<1>2. \A b : Begun(y, b, per) = Begun(x, b, per)
  BY DEF Begun
<1> QED BY <1>1, <1>2 DEF Paid

\* A charge or a repayment of d.
LEMMA PaidCharged ==
    ASSUME NEW x \in SubRow, NEW sp \in Int, NEW n \in Nat, NEW per, Paid(x, sp, n, per),
           NEW used \in Nat, NEW d \in Int, x.used + d <= used,
           Catalog[x.plan].total > 0 => used <= Catalog[x.plan].total
    PROVE  Paid([x EXCEPT !.used = used], sp + d, n, per)
<1> DEFINE y == [x EXCEPT !.used = used]
           base == ResetBase(x)
           c == Cardinality(Begun(x, base, per))
           total == Catalog[x.plan].total
<1>1. /\ base \in Nat /\ total \in Nat /\ x.used \in Nat
      /\ y.plan = x.plan /\ y.start = x.start /\ y.used = used /\ y.last = x.last
      /\ y.end = x.end
  BY DEF ResetBase, SubRow
<1>2. ResetBase(y) = base /\ Begun(y, base, per) = Begun(x, base, per)
  BY <1>1 DEF ResetBase, Begun
<1>3. c \in Nat
  BY <1>1, BegunFinite
<1>4. total > 0 => sp + d <= used + total * c
  <2>1. total > 0 => sp <= x.used + total * c
    BY DEF Paid
  <2>2. total * c \in Nat
    BY <1>1, <1>3
  <2> HIDE DEF c, total
  <2> QED BY <1>1, <2>1, <2>2
<1> HIDE DEF y
<1> QED BY <1>1, <1>2, <1>4 DEF Paid, y

\* The first period an administrator gives a plan has no boundary yet.
LEMMA PaidEdited ==
    ASSUME NEW x \in SubRow, NEW sp \in Int, NEW n \in Nat,
           NEW per \in [Plans -> Nat], NEW next \in [Plans -> Nat], Paid(x, sp, n, per),
           per[x.plan] # 0 => next[x.plan] = per[x.plan]
    PROVE  Paid(x, sp, n, next)
<1>1. /\ x.plan \in Plans /\ per[x.plan] \in Nat /\ next[x.plan] \in Nat
      /\ x.start \in Nat /\ ResetBase(x) \in Nat
  BY DEF SubRow, ResetBase
<1>2. CASE next[x.plan] = per[x.plan]
  BY <1>2 DEF Paid, Begun
<1>3. CASE per[x.plan] = 0
  <2>1. ResetBase(x) = x.start
    BY <1>3 DEF Paid
  <2>2. Begun(x, x.start, per) = Begun(x, x.start, next)
    BY <1>1 DEF Begun
  <2>3. next[x.plan] > 0 => (x.start - x.start) % next[x.plan] = 0
    BY <1>1, ModuloDown
  <2> QED BY <1>3, <2>1, <2>2, <2>3 DEF Paid
<1> QED BY <1>2, <1>3

LEMMA NothingPaid ==
    ASSUME NEW x \in SubRow, NEW n \in Nat, NEW per \in [Plans -> Nat], x.used = 0,
           x.last = 0 \/ x.last = x.start, x.start <= n, x.start <= x.end
    PROVE  Paid(x, 0, n, per)
<1>1. /\ x.plan \in Plans /\ per[x.plan] \in Nat /\ x.start \in Nat
      /\ ResetBase(x) = x.start /\ Catalog[x.plan].total \in Nat
  BY DEF SubRow, ResetBase
<1>2. per[x.plan] > 0 => (x.start - x.start) % per[x.plan] = 0
  BY <1>1, ModuloDown
<1>3. 0 <= x.used + Catalog[x.plan].total * Cardinality(Begun(x, x.start, per))
  <2> DEFINE c == Cardinality(Begun(x, x.start, per))
             k == Catalog[x.plan].total * c
  <2>1. c \in Nat
    BY <1>1, BegunFinite
  <2>2. k \in Nat
    <3> HIDE DEF c
    <3> QED BY <1>1, <2>1
  <2> HIDE DEF k
  <2>3. 0 <= x.used + k
    BY <2>2
  <2> QED BY <2>3 DEF k
<1>4. x.used <= Catalog[x.plan].total
  BY <1>1
<1>5. x.start <= ResetBase(x) /\ ResetBase(x) <= n /\ ResetBase(x) <= x.end
  BY <1>1
<1> QED BY <1>1, <1>2, <1>3, <1>4, <1>5 DEF Paid

LEMMA NewRowPaid ==
    ASSUME TypeOK, NEW p \in Plans
    PROVE  Paid(NewRow(p, group), 0, now, period)
<1> DEFINE x == NewRow(p, group)
<1>1. x \in SubRow /\ now \in Nat /\ period \in [Plans -> Nat] /\ Catalog[p].duration \in Nat
  BY NewRowType, Types
<1>2. /\ x.used = 0 /\ x.start = now /\ x.end = now + Catalog[p].duration
      /\ x.last = 0 \/ x.last = now
  BY DEF NewRow
<1> HIDE DEF x
<1>3. Paid(x, 0, now, period)
  BY <1>1, <1>2, NothingPaid
<1> QED BY <1>3 DEF x

LEMMA PaidInBudget ==
    ASSUME TypeOK, NEW x \in SubRow, NEW sp \in Int, Paid(x, sp, now, period),
           Catalog[x.plan].total > 0
    PROVE  sp <= Catalog[x.plan].total * PeriodsBegun(x)
<1> DEFINE base == ResetBase(x)
           end == IF now <= x.end THEN now ELSE x.end
           total == Catalog[x.plan].total
           c == Cardinality(Begun(x, base, period))
           d == Cardinality(Begun(x, end, period))
<1>1. /\ now \in Nat /\ x.plan \in Plans /\ x.start \in Nat /\ x.end \in Nat /\ base \in Nat
      /\ x.used \in Nat /\ total \in Nat /\ end \in Nat /\ period[x.plan] \in Nat
  BY Types DEF SubRow, ResetBase
<1>2. Min({now, x.end}) = end
  BY <1>1 DEF Min
<1>3. Begun(x, end, period) =
        {b \in (x.start + 1) .. Min({now, x.end}) : IsBoundary(x.plan, x.start, b)}
  BY <1>1, <1>2 DEF Begun, IsBoundary
<1>4. PeriodsBegun(x) = 1 + d
  BY <1>3 DEF PeriodsBegun
<1>5. c \in Nat /\ d \in Nat /\ c <= d
  <2>1. IsFiniteSet(Begun(x, end, period)) /\ c \in Nat /\ d \in Nat
    BY <1>1, BegunFinite
  <2>2. base <= end
    BY <1>1 DEF Paid
  <2>3. Begun(x, base, period) \subseteq Begun(x, end, period)
    BY <1>1, <2>2 DEF Begun
  <2> QED BY <2>1, <2>3, FS_Subset
<1>6. x.used <= total /\ sp <= x.used + total * c
  BY DEF Paid
<1> HIDE DEF c, d, total
<1>7. total + total * c <= total * (1 + d) /\ total * c \in Nat /\ total * (1 + d) \in Nat
  BY <1>1, <1>5, ProductGrows
<1>8. sp <= total * (1 + d)
  BY <1>1, <1>6, <1>7
<1> QED BY <1>4, <1>8 DEF total

\* What has been paid is accounted for in every row, and in every row about to be
\* written; the rows to come are untouched.
BudgetInv ==
    /\ Typed /\ StaleTime
    /\ \A s \in Subs : s > bought => sub[s].status = "none" /\ spent[s] = 0
    /\ \A r \in Requests :
          hold[r].status = "consumed" => hold[r].sub \in Subs /\ hold[r].sub <= bought
    /\ \A s \in Subs : Paid(sub[s], spent[s], now, period)
    /\ \A b \in Buyers : Paid(buyer[b].row, 0, now, period)

\* An administrator gives a plan a reset period at most once: otherwise the number
\* of periods that have begun is not defined.
PeriodStays == \A p \in Plans : period[p] # 0 => period'[p] = period[p]

LEMMA NextBudgetInv ==
    ASSUME BudgetInv, [Next]_vars, PeriodStays
    PROVE  BudgetInv'
<1>0. /\ Typed /\ TypeOK /\ StaleTime
      /\ now \in Nat /\ period \in [Plans -> Nat] /\ bought \in Nat
      /\ sub \in [Subs -> SubRow] /\ spent \in [Subs -> Int]
      /\ hold \in Holds /\ buyer \in Reads /\ job \in Runs
  BY Types DEF BudgetInv, Typed
<1>T. /\ now' \in Nat /\ period' \in [Plans -> Nat] /\ bought' \in Nat
      /\ sub' \in [Subs -> SubRow] /\ spent' \in [Subs -> Int]
      /\ hold' \in Holds /\ buyer' \in Reads /\ Typed' /\ StaleTime'
  <2>1. Typed' /\ StaleTime'
    BY NextTyped, NextStaleTime DEF BudgetInv
  <2> QED BY <2>1 DEF Typed, TypeOK, Holds, Reads
<1>R. /\ \A s \in Subs : s > bought => sub[s].status = "none" /\ spent[s] = 0
      /\ \A r \in Requests :
            hold[r].status = "consumed" => hold[r].sub \in Subs /\ hold[r].sub <= bought
      /\ \A s \in Subs : sub[s] \in SubRow /\ spent[s] \in Int /\ Paid(sub[s], spent[s], now, period)
      /\ \A b \in Buyers : buyer[b].row \in SubRow /\ Paid(buyer[b].row, 0, now, period)
  BY <1>0 DEF BudgetInv, Reads
<1>P. BudgetInv' <=>
      /\ \A s \in Subs : s > bought' => sub'[s].status = "none" /\ spent'[s] = 0
      /\ \A r \in Requests :
            hold'[r].status = "consumed" => hold'[r].sub \in Subs /\ hold'[r].sub <= bought'
      /\ \A s \in Subs : Paid(sub'[s], spent'[s], now', period')
      /\ \A b \in Buyers : Paid(buyer'[b].row, 0, now', period')
  BY <1>T DEF BudgetInv
<1>K. ASSUME NEW x \in SubRow, NEW y \in SubRow, NEW sp \in Int, Paid(x, sp, now, period),
             y.plan = x.plan, y.start = x.start, y.used = x.used, y.last = x.last,
             y.end = x.end \/ y.end = now
      PROVE  Paid(y, sp, now, period)
  <2>1. now <= now
    BY <1>0
  <2> QED BY <1>0, <1>K, <2>1, PaidKept
<1> USE DEF quotas, loops
<1>1. CASE Tick
  <2>1. /\ UNCHANGED <<period, sub, bought, spent, hold, buyer>> /\ now <= now'
    BY <1>0, <1>1 DEF Tick
  <2>2. \A x \in SubRow, sp \in Int : Paid(x, sp, now, period) => Paid(x, sp, now', period)
    BY <1>0, <1>T, <2>1, PaidKept
  <2> QED BY <1>R, <1>P, <2>1, <2>2
<1>2. ASSUME NEW p \in Plans, EditPlan(p) PROVE BudgetInv'
  <2>1. UNCHANGED <<now, sub, bought, spent, hold, buyer>>
    BY <1>2 DEF EditPlan
  <2>2. ASSUME NEW x \in SubRow, NEW sp \in Int, Paid(x, sp, now, period)
        PROVE  Paid(x, sp, now, period')
    <3>1. x.plan \in Plans
      BY DEF SubRow
    <3> QED BY <1>0, <1>T, <2>2, <3>1, PaidEdited DEF PeriodStays
  <2> QED BY <1>R, <1>P, <2>1, <2>2
<1>3. ASSUME NEW p \in Plans, Buy(p) PROVE BudgetInv'
  <2> DEFINE x == NewRow(p, group)
  <2>1. x \in SubRow /\ Paid(x, 0, now, period)
    BY <1>0, NewRowType, NewRowPaid
  <2>2. /\ UNCHANGED <<now, period, spent, hold, buyer>> /\ bought' = bought + 1
        /\ bought + 1 \in Subs /\ sub' = [sub EXCEPT ![bought + 1] = x]
    BY <1>3 DEF Buy, Insert
  <2> HIDE DEF x
  <2>3. \A s \in Subs : /\ s = bought + 1 => sub'[s] = x /\ spent'[s] = 0
                        /\ s # bought + 1 => sub'[s] = sub[s] /\ spent'[s] = spent[s]
    BY <1>0, <1>R, <2>2
  <2>4. \A s \in Subs : s \in Int
    BY DEF Subs
  <2> QED BY <1>0, <1>R, <1>P, <2>1, <2>2, <2>3, <2>4
<1>4. ASSUME NEW b \in Buyers, NEW p \in Plans, BuyRead(b, p) PROVE BudgetInv'
  <2> DEFINE x == NewRow(p, group)
  <2>1. Paid(x, 0, now, period)
    BY <1>0, NewRowPaid
  <2>2. /\ UNCHANGED <<now, period, sub, bought, spent, hold>>
        /\ buyer' = [buyer EXCEPT ![b] = [at |-> "read", row |-> x]]
    BY <1>4 DEF BuyRead
  <2> HIDE DEF x
  <2>3. \A c \in Buyers : buyer'[c].row = x \/ buyer'[c].row = buyer[c].row
    BY <1>0, <2>2 DEF Reads
  <2>4. ASSUME NEW c \in Buyers PROVE Paid(buyer'[c].row, 0, now', period')
    BY <1>R, <2>1, <2>2, <2>3
  <2> QED BY <1>R, <1>P, <2>2, <2>4
<1>5. ASSUME NEW b \in Buyers, BuyWrite(b) PROVE BudgetInv'
  <2> DEFINE x == buyer[b].row
  <2>1. x \in SubRow /\ Paid(x, 0, now, period)
    BY <1>R
  <2>2. /\ UNCHANGED <<now, period, spent, hold>> /\ bought' = bought + 1
        /\ bought + 1 \in Subs /\ sub' = [sub EXCEPT ![bought + 1] = x]
        /\ buyer' = [buyer EXCEPT ![b] = [at |-> "idle", row |-> None]]
    BY <1>5 DEF BuyWrite, Insert
  <2> HIDE DEF x
  <2>3. \A s \in Subs : /\ s = bought + 1 => sub'[s] = x /\ spent'[s] = 0
                        /\ s # bought + 1 => sub'[s] = sub[s] /\ spent'[s] = spent[s]
    BY <1>0, <1>R, <2>2
  <2>4. \A s \in Subs : s \in Int
    BY DEF Subs
  <2>5. Paid(None, 0, now, period)
    <3>1. None.used = 0 /\ None.last = 0 /\ None.start = 0 /\ None.end = 0
      BY DEF None
    <3> QED BY <1>0, <3>1, NoneRow, NothingPaid
  <2>6. \A c \in Buyers : buyer'[c].row = None \/ buyer'[c].row = buyer[c].row
    BY <1>0, <2>2 DEF Reads
  <2>7. ASSUME NEW c \in Buyers PROVE Paid(buyer'[c].row, 0, now', period')
    BY <1>R, <2>2, <2>5, <2>6
  <2>8. ASSUME NEW s \in Subs PROVE Paid(sub'[s], spent'[s], now', period')
    BY <1>R, <2>1, <2>2, <2>3
  <2> QED BY <1>0, <1>R, <1>P, <2>2, <2>3, <2>4, <2>7, <2>8
<1>6. ASSUME NEW r \in Requests, NEW amount \in Amounts, PreConsume(r, amount) PROVE BudgetInv'
  <2> DEFINE x(t) == MaybeReset(sub[t], now)
  <2>1. PICK s \in Subs :
          /\ sub[s].status = "active" /\ Affords(x(s), amount)
          /\ \A t \in Subs : \/ t = s /\ sub'[t] = [x(t) EXCEPT !.used = @ + amount]
                             \/ t # s /\ ((sub'[t] = x(t) /\ Active(t)) \/ sub'[t] = sub[t])
          /\ hold' = [hold EXCEPT ![r] = [status |-> "consumed", sub |-> s, amount |-> amount]]
          /\ spent' = [spent EXCEPT ![s] = @ + amount]
    BY <1>6 DEF PreConsume, Candidates, Active
  <2>2. UNCHANGED <<now, period, bought, buyer>>
    BY <1>6 DEF PreConsume
  <2>3. \A t \in Subs : /\ x(t) \in SubRow /\ SameTerms(x(t), sub[t])
                        /\ Paid(x(t), spent[t], now, period)
    BY <1>0, <1>R, MaybeResetRow, ResetPays
  <2>4. \A t \in Subs : t \in Int
    BY DEF Subs
  <2>5. amount \in Nat
    OBVIOUS
  <2>6. s <= bought
    BY <1>0, <1>R, <2>1, <2>4
  <2> HIDE DEF x
  <2>7. ASSUME NEW t \in Subs PROVE Paid(sub'[t], spent'[t], now', period')
    <3>1. CASE t = s
      <4> DEFINE used == x(s).used + amount
      <4>1. used \in Nat /\ x(s).plan \in Plans /\ x(s).used \in Nat
        BY <2>3, <2>5 DEF SubRow
      <4>2. Catalog[x(s).plan].total > 0 => used <= Catalog[x(s).plan].total
        BY <2>1, <2>5, <4>1 DEF Affords
      <4>3. Paid([x(s) EXCEPT !.used = used], spent[s] + amount, now, period)
        <5>1. /\ amount \in Int /\ x(s).used + amount <= used
              /\ x(s) \in SubRow /\ spent[s] \in Int /\ Paid(x(s), spent[s], now, period)
          BY <1>R, <2>3, <2>5, <4>1
        <5> HIDE DEF used
        <5> QED BY <1>0, <4>1, <4>2, <5>1, PaidCharged
      <4>4. sub'[t] = [x(s) EXCEPT !.used = used] /\ spent'[t] = spent[s] + amount
        BY <1>0, <2>1, <3>1
      <4> QED BY <2>2, <4>3, <4>4
    <3>2. CASE t # s
      <4>1. spent'[t] = spent[t] /\ (sub'[t] = x(t) \/ sub'[t] = sub[t])
        BY <1>0, <2>1, <3>2
      <4> QED BY <1>R, <2>2, <2>3, <4>1
    <3> QED BY <3>1, <3>2
  <2>8. ASSUME NEW t \in Subs, t > bought' PROVE sub'[t].status = "none" /\ spent'[t] = 0
    <3>1. t # s /\ t > bought
      BY <1>0, <2>2, <2>4, <2>6, <2>8
    <3>2. sub[t].status = "none" /\ spent[t] = 0
      BY <1>R, <3>1
    <3>3. sub'[t] = sub[t]
      BY <2>1, <3>1, <3>2 DEF Active
    <3> QED BY <1>0, <2>1, <3>1, <3>2, <3>3
  <2>9. \A q \in Requests : \/ hold'[q] = hold[q]
                            \/ hold'[q].sub = s
    BY <1>0, <2>1 DEF Holds
  <2> QED BY <1>R, <1>P, <2>2, <2>6, <2>7, <2>8, <2>9
<1>7. ASSUME NEW r \in Requests, Refund(r) \/ Settle(r) PROVE BudgetInv'
  <2> DEFINE s == hold[r].sub
  <2>1. UNCHANGED <<now, period, bought, buyer>> /\ s \in Subs /\ s <= bought
    BY <1>R, <1>7 DEF Refund, Settle
  <2>2. hold' = [hold EXCEPT ![r].status = "refunded"] \/ hold' = [hold EXCEPT ![r].status = "settled"]
    BY <1>7 DEF Refund, Settle
  <2>3. \A q \in Requests : /\ hold'[q].sub = hold[q].sub
                            /\ hold'[q].status = "consumed" => hold[q].status = "consumed"
    BY <1>0, <2>2 DEF Holds
  <2>4. PICK delta \in Int : ChangeUsed(s, delta) \/ UNCHANGED <<sub, spent>>
    BY <1>0, <1>7 DEF Refund, Settle, Holds
  <2> HIDE DEF s
  <2>5. CASE UNCHANGED <<sub, spent>>
    BY <1>R, <1>P, <2>1, <2>3, <2>5
  <2>6. CASE ChangeUsed(s, delta)
    <3> DEFINE used == UsedAfter(s, delta)
               x == sub[s]
    <3>1. x \in SubRow /\ x.used \in Nat
      BY <1>R, <2>1 DEF SubRow
    <3>2. used \in Nat /\ x.used + delta <= used
      BY <3>1 DEF UsedAfter
    <3>3. /\ Catalog[x.plan].total > 0 => used <= Catalog[x.plan].total
          /\ sub' = [sub EXCEPT ![s].used = used] /\ spent' = [spent EXCEPT ![s] = @ + delta]
      BY <2>6 DEF ChangeUsed, Fits
    <3>4. Paid([x EXCEPT !.used = used], spent[s] + delta, now, period)
      BY <1>0, <1>R, <2>1, <3>1, <3>2, <3>3, PaidCharged
    <3>5. sub'[s] = [x EXCEPT !.used = used] /\ spent'[s] = spent[s] + delta
      BY <1>0, <2>1, <3>3
    <3>6. \A t \in Subs \ {s} : sub'[t] = sub[t] /\ spent'[t] = spent[t]
      BY <1>0, <3>3
    <3> HIDE DEF x, used
    <3>7. ASSUME NEW t \in Subs PROVE Paid(sub'[t], spent'[t], now', period')
      BY <1>R, <2>1, <3>4, <3>5, <3>6
    <3>8. \A t \in Subs : t > bought' => t \in Subs \ {s}
      BY <1>0, <2>1 DEF Subs
    <3> QED BY <1>R, <1>P, <2>1, <2>3, <3>6, <3>7, <3>8
  <2> QED BY <2>4, <2>5, <2>6
<1>8. ASSUME NEW s \in Subs, AdminInvalidate(s) \/ AdminDelete(s) PROVE BudgetInv'
  <2>1. UNCHANGED <<now, period, bought, spent, hold, buyer>> /\ sub[s].status # "none"
    BY <1>8 DEF AdminInvalidate, AdminDelete
  <2>2. \A t \in Subs \ {s} : sub'[t] = sub[t]
    BY <1>0, <1>8 DEF AdminInvalidate, AdminDelete
  <2>3. /\ sub'[s] \in SubRow
        /\ sub'[s].plan = sub[s].plan /\ sub'[s].start = sub[s].start
        /\ sub'[s].used = sub[s].used /\ sub'[s].last = sub[s].last
        /\ sub'[s].end = sub[s].end \/ sub'[s].end = now
    BY <1>0, <1>T, <1>8 DEF AdminInvalidate, AdminDelete, SubRow
  <2>4. Paid(sub'[s], spent[s], now, period)
    BY <1>R, <2>3, <1>K
  <2>5. ~(s > bought)
    BY <1>R, <2>1
  <2> QED BY <1>R, <1>P, <2>1, <2>2, <2>4, <2>5
<1>9. ASSUME NEW m \in Masters, ExpireUser(m) PROVE BudgetInv'
  <2>1. UNCHANGED <<now, period, bought, spent, hold, buyer>>
    BY <1>9 DEF ExpireUser
  <2>2. \A t \in Subs : \/ sub'[t] = sub[t]
                        \/ Active(t) /\ sub'[t] = [sub[t] EXCEPT !.status = "expired"]
    BY <1>9 DEF ExpireUser, Ended
  <2>3. ASSUME NEW t \in Subs PROVE Paid(sub'[t], spent[t], now, period)
    <3>1. /\ sub'[t] \in SubRow
          /\ sub'[t].plan = sub[t].plan /\ sub'[t].start = sub[t].start
          /\ sub'[t].used = sub[t].used /\ sub'[t].last = sub[t].last
          /\ sub'[t].end = sub[t].end
      BY <1>R, <1>T, <2>2 DEF SubRow
    <3> QED BY <1>R, <3>1, <1>K
  <2>4. \A t \in Subs : t > bought => sub'[t] = sub[t]
    BY <1>R, <2>2 DEF Active
  <2> QED BY <1>R, <1>P, <2>1, <2>3, <2>4
<1>10. ASSUME NEW m \in Masters, NEW s \in Subs, ResetRow(m, s) PROVE BudgetInv'
  <2> DEFINE t == job[m].now
             y == MaybeReset(sub[s], t)
  <2>1. UNCHANGED <<now, period, bought, spent, hold, buyer>> /\ t \in Nat /\ t <= now
    BY <1>0, <1>10 DEF ResetRow, StaleTime, Runs
  <2>2. sub' = sub \/ sub' = [sub EXCEPT ![s] = y]
    BY <1>10 DEF ResetRow
  <2>3. Paid(y, spent[s], now, period) /\ SameTerms(y, sub[s])
    BY <1>0, <1>R, <2>1, MaybeResetRow, ResetPays
  <2> HIDE DEF t, y
  <2>4. \A w \in Subs : sub'[w] = sub[w] \/ (w = s /\ sub'[w] = y)
    BY <1>0, <2>2
  <2>5. ASSUME NEW w \in Subs PROVE Paid(sub'[w], spent[w], now, period)
    BY <1>R, <2>3, <2>4
  <2>6. ASSUME NEW w \in Subs, w > bought PROVE sub'[w].status = "none"
    <3>1. y.status = sub[s].status /\ sub[w].status = "none"
      BY <1>R, <2>3, <2>6 DEF SameTerms
    <3> QED BY <2>4, <3>1
  <2> QED BY <1>R, <1>P, <2>1, <2>5, <2>6
<1>11. CASE \/ UNCHANGED vars
            \/ \E m \in Masters : StartRun(m) \/ ExpireRead(m) \/ ResetRead(m)
  <2>1. UNCHANGED <<now, period, sub, bought, spent, hold, buyer>>
    BY <1>11 DEF vars, StartRun, ExpireRead, ResetRead
  <2> QED BY <1>R, <1>P, <2>1
<1> QED BY <1>1, <1>2, <1>3, <1>4, <1>5, <1>6, <1>7, <1>8, <1>9, <1>10, <1>11
        DEF Next, Maintain

LEMMA InitBudgetInv == Init => BudgetInv
<1> SUFFICES ASSUME Init PROVE BudgetInv
  OBVIOUS
<1>1. Typed
  BY InitTypeOK DEF Typed, ReadsAreRows, Init, None
<1>2. StaleTime
  BY DEF Init, StaleTime, Idle
<1>3. Paid(None, 0, now, period)
  <2>1. None.used = 0 /\ None.last = 0 /\ None.start = 0 /\ None.end = 0
    BY DEF None
  <2>2. now \in Nat /\ period \in [Plans -> Nat]
    BY <1>1, Types DEF Typed
  <2> QED BY <2>1, <2>2, NoneRow, NothingPaid
<1>4. \A s \in Subs : sub[s] = None /\ spent[s] = 0
  BY DEF Init
<1>5. \A b \in Buyers : buyer[b].row = None
  BY DEF Init
<1>6. None.status = "none"
  BY DEF None
<1>7. \A r \in Requests : hold[r].status # "consumed"
  BY DEF Init
<1> QED BY <1>1, <1>2, <1>3, <1>4, <1>5, <1>6, <1>7 DEF BudgetInv

\* The variables have their types in every reachable state, whatever the plans.
THEOREM TypeCorrect == Spec => []TypeOK
<1>1. Init => Typed
  BY InitTypeOK DEF Typed, ReadsAreRows, Init, None
<1>2. Typed /\ [Next]_vars => Typed'
  BY NextTyped
<1>3. Typed => TypeOK
  BY DEF Typed
<1> QED BY <1>1, <1>2, <1>3, PTL DEF Spec

\* Where transactions run one after the other, a user with an active upgraded
\* subscription is never put back into his old group, by an expiry with an old time
\* or by an administrator (downgradeUserGroupForSubscriptionTx, ExpireDueSubscriptions).
THEOREM UpgradeIsHeld ==
    ASSUME Serial
    PROVE  Spec => []UpgradeHeld
<1>1. Init => IInv
  BY InitIInv
<1>2. IInv /\ [Next]_vars => IInv'
  BY NextIInv
<1>3. IInv => UpgradeHeld
  BY DEF IInv
<1> QED BY <1>1, <1>2, <1>3, PTL DEF Spec

\* Where transactions run one after the other, a user whose upgraded subscriptions
\* have all ended, by expiry or by an administrator, in whatever order, is back in his
\* own group, provided none was bought on top of another (ExpireDueSubscriptions,
\* downgradeUserGroupForSubscriptionTx).
THEOREM GroupIsRestored ==
    ASSUME Serial
    PROVE  Spec => []GroupRestored
<1>1. Init => GInv
  BY InitGInv
<1>2. GInv /\ [Next]_vars => GInv'
  BY NextGInv
<1>3. GInv => GroupRestored
  BY DEF GInv, GroupDecided, GroupRestored, Clean, Decides
<1> QED BY <1>1, <1>2, <1>3, PTL DEF Spec

\* Whatever grants overlap, how often they are repeated and what is deleted between a
\* count and its insert, a plan is owned above its limit by fewer subscriptions than there
\* are grants open at once, and not at all where transactions run one after the other
\* (the count of CreateUserSubscriptionFromPlanTx, which takes no lock); the configuration
\* SubscriptionLimitRace shows that overlapping grants do exceed it.
THEOREM OversoldByOverlap ==
    ASSUME IsFiniteSet(Buyers)
    PROVE  Spec => []OversoldByOverlapOnly
<1>1. Init => OverlapInv
  BY InitOverlapInv
<1>2. OverlapInv /\ [Next]_vars => OverlapInv'
  BY NextOverlapInv
<1>3. OverlapInv => OversoldByOverlapOnly
  <2> SUFFICES ASSUME OverlapInv, NEW p \in Plans, Catalog[p].limit > 0
               PROVE  Cardinality(Owned(p)) <= Catalog[p].limit + Overlap
    BY DEF OversoldByOverlapOnly, Overlap
  <2>1. /\ Cardinality(Owned(p)) \in Nat /\ Cardinality(Reading(p)) \in Nat
        /\ Catalog[p].limit \in Nat /\ Overlap \in Int
    BY OwnedFinite, ReadingFinite, FS_CardinalityType DEF Overlap
  <2> QED BY <2>1 DEF OverlapInv
<1> QED BY <1>1, <1>2, <1>3, PTL DEF Spec

\* Whatever the plans, the requests, the purchases and the loops of all masters, and
\* whether transactions overlap or not, a subscription never pays more than its total
\* for each period that has begun, as long as no administrator changes a period that a
\* plan already has: a period is not reset twice, also not with an old time
\* (maybeResetUserSubscriptionWithPlanTx, postConsumeUserSubscriptionDeltaTx).
THEOREM BudgetIsKept == Spec /\ [][PeriodStays]_vars => []PeriodBudget
<1>1. Init => BudgetInv
  BY InitBudgetInv
<1>2. BudgetInv /\ [Next]_vars /\ [PeriodStays]_vars => BudgetInv'
  <2> SUFFICES ASSUME BudgetInv, [Next]_vars, [PeriodStays]_vars PROVE BudgetInv'
    OBVIOUS
  <2>1. PeriodStays
    BY DEF PeriodStays, vars
  <2> QED BY <2>1, NextBudgetInv
<1>3. BudgetInv => PeriodBudget
  <2> SUFFICES ASSUME BudgetInv, NEW s \in Subs, Catalog[sub[s].plan].total > 0
               PROVE  spent[s] <= Catalog[sub[s].plan].total * PeriodsBegun(sub[s])
    BY DEF PeriodBudget
  <2>1. TypeOK /\ sub[s] \in SubRow /\ spent[s] \in Int /\ Paid(sub[s], spent[s], now, period)
    BY Types DEF BudgetInv, Typed
  <2> QED BY <2>1, PaidInBudget
<1> QED BY <1>1, <1>2, <1>3, PTL DEF Spec
=============================================================================
