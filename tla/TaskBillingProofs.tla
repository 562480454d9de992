------------------------- MODULE TaskBillingProofs -------------------------
(***************************************************************************)
(* What the conditional update of model/task.go buys, for any number of    *)
(* polling loops: a task of a video platform is refunded at most once, has *)
(* been paid for as it ended, and once ended stays as it is.  What it does *)
(* not buy: tasks that users query and Suno tasks are refunded again, and  *)
(* the last theorem bounds how often.                                      *)
(***************************************************************************)
EXTENDS TaskBilling, FiniteSetTheorems, TLAPS

\* The handler has won the update that ends the task and is about to bill it.
Billing(p) == pc[p] \in {"refund", "settle"}

Unsuno == \A p \in Pollers : pc[p] \notin {"suno", "sunoRefund", "save"}
Unqueried == \A f \in Fetchers : pc[f] = "idle"

\* Only one loop bills...
OneBills == \A p, q \in Pollers : Billing(p) /\ Billing(q) => p = q

\* ...a task that has ended and is still paid for in full...
BillsOnce == \A p \in Pollers : Billing(p) => row.status \in Terminal /\ paid = Quota

\* ...and until the task ends nothing has been billed.
UnbilledUntilEnd == row.status \notin Terminal => paid = Quota

\* While no bulk update can have failed the task, the winner bills the status it has
\* written, and when it is done the user has paid for just that.
BillsOutcome ==
    channel =>
        /\ \A p \in Pollers : /\ pc[p] = "settle" => row.status = "SUCCESS"
                              /\ pc[p] = "refund" => row.status = "FAILURE"
        /\ ~harmed /\ (\A p \in Pollers : ~Billing(p)) =>
              /\ row.status = "SUCCESS" => paid = price
              /\ row.status = "FAILURE" => paid = 0

\* A copy is read while the task is unfinished.
CopiesUnfinished ==
    \A p \in Pollers : pc[p] \in {"sweep", "video", "dispatch"} => copy[p].status \in Active

\* A video platform never answers with a reason alone.
AnswersClear ==
    \A p \in Pollers : pc[p] = "video" => seen[p] # "reason"

Types ==
    /\ pc \in [Actors -> Locations]
    /\ copy = [a \in Actors |-> copy[a]]
    /\ seen \in [Actors -> Answers]
    /\ row.status \in Statuses \cup {"absent"}
    /\ paid \in Int

VideoInv ==
    /\ Types /\ Unsuno /\ Unqueried
    /\ OneBills /\ BillsOnce /\ UnbilledUntilEnd /\ CopiesUnfinished /\ AnswersClear
    /\ BillsOutcome
    /\ RefundedAtMostOnce

IInv == kind = "video" => VideoInv

USE TaskAssumption

LEMMA InitIInv == Init => IInv
<1> SUFFICES ASSUME Init PROVE VideoInv
  BY DEF IInv
<1>1. /\ pc = [a \in Actors |-> "idle"] /\ copy = [a \in Actors |-> row]
      /\ row = [status |-> "absent", done |-> FALSE] /\ paid = Quota
      /\ seen = [a \in Actors |-> "nothing"]
  BY DEF Init
<1>2. Types
  BY <1>1 DEF Types, Locations, Answers
<1>3. \A a \in Actors : pc[a] = "idle"
  BY <1>1
<1>4. Unsuno /\ Unqueried /\ OneBills /\ BillsOnce /\ CopiesUnfinished /\ AnswersClear
  BY <1>3 DEF Unsuno, Unqueried, OneBills, BillsOnce, Billing, CopiesUnfinished,
              AnswersClear, Actors
<1>5. UnbilledUntilEnd /\ RefundedAtMostOnce /\ BillsOutcome
  BY <1>1, <1>3 DEF UnbilledUntilEnd, RefundedAtMostOnce, BillsOutcome, Actors
<1> QED BY <1>2, <1>4, <1>5 DEF VideoInv

LEMMA KindIsFixed == [Next]_vars => kind' = kind
BY DEF Next, vars, Insert, UpstreamEnds, TimePasses, ChannelDeleted, Poll, SweepRead,
       SweepUpdate, List, BulkFail, Ask, Finish, Advance, Recalculate, Refund, SunoItem,
       SunoSave, Abort, Fetch, FetchRead, FetchAsk, FetchWrite, world

\* A conditional update leaves the row, or replaces one whose status is the one read.
LEMMA UpdateMoves ==
    ASSUME NEW a, NEW answer, Update(a, answer)
    PROVE  \/ UNCHANGED task /\ row' = row
           \/ Store(answer) /\ row.status = copy[a].status /\ row' = AsRow(answer)
BY DEF Update, Store, Save, Wins, task

LEMMA NextVideoInv ==
    ASSUME VideoInv, kind = "video", [Next]_vars
    PROVE  VideoInv'
<1> USE DEF VideoInv, Types, Unsuno, Unqueried, OneBills, BillsOnce,
            UnbilledUntilEnd, CopiesUnfinished, AnswersClear, RefundedAtMostOnce, Billing,
            Actors, Answers, Locations, Statuses, Active, Terminal, Goto, world
<1>1. CASE Insert
  <2>1. UNCHANGED <<pc, copy, seen, paid, price, channel>> /\ row.status = "absent"
    BY <1>1 DEF Insert, money
  <2>2. row' = row \/ row'.status = "NOT_START"
    BY <1>1 DEF Insert, Store, Save, AsRow, task
  <2>3. row'.status \in Statuses \cup {"absent"} /\ row'.status \notin Terminal
    BY <2>1, <2>2
  <2>4. BillsOutcome'
    <3>1. \A p \in Pollers : pc[p] \notin {"settle", "refund"}
      BY <2>1
    <3> QED BY <2>1, <2>3, <3>1 DEF BillsOutcome
  <2> QED BY <2>1, <2>3, <2>4
<1>2. CASE UpstreamEnds \/ TimePasses \/ ChannelDeleted
  BY <1>2 DEF UpstreamEnds, TimePasses, ChannelDeleted, task, money, past, BillsOutcome
<1>3. ASSUME NEW p \in Pollers, Poll(p) PROVE VideoInv'
  <2>1. CASE SweepRead(p)
    BY <2>1 DEF SweepRead, Read, Unfinished, task, money, past, BillsOutcome
  <2>2. CASE SweepUpdate(p)
    BY <2>2 DEF SweepUpdate, Wins, Store, Save, AsRow, task, money, past, BillsOutcome
  <2>3. CASE List(p)
    BY <2>3 DEF List, Read, Unfinished, task, money, past, BillsOutcome
  <2>4. CASE BulkFail(p)
    BY <2>4 DEF BulkFail, Store, Save, AsRow, money, past, BillsOutcome
  <2>5. CASE Ask(p)
    BY <2>5 DEF Ask, Answer, Relayed, task, money, past, BillsOutcome
  <2>6. CASE Finish(p)
    <3>1. CASE Wins(p)
      <4>1. /\ row'.status \in Terminal
            /\ pc'[p] = IF row'.status = "SUCCESS" THEN "settle" ELSE "refund"
        BY <2>6, <3>1 DEF Finish, Store, Save, AsRow
      <4>2. row.status \in Active /\ paid = Quota /\ \A q \in Pollers : ~Billing(q)
        BY <2>6, <3>1 DEF Finish, Wins
      <4>3. \A a \in Actors \ {p} : pc'[a] = pc[a]
        BY <2>6, <3>1 DEF Finish
      <4>4. pc' \in [Actors -> Locations]
        BY <2>6, <3>1 DEF Finish
      <4>5. UNCHANGED <<copy, seen, paid, price, harmed, channel>>
        BY <2>6 DEF Finish, money
      <4> QED BY <2>6, <4>1, <4>2, <4>3, <4>4, <4>5 DEF BillsOutcome
    <3>2. CASE ~Wins(p)
      BY <2>6, <3>2 DEF Finish, task, money, past, BillsOutcome
    <3> QED BY <3>1, <3>2
  <2>7. CASE Advance(p)
    <3>1. UNCHANGED <<copy, seen, paid, price, harmed, channel>> /\ pc[p] = "video"
          /\ pc' = [pc EXCEPT ![p] = "idle"]
      BY <2>7 DEF Advance, money, past
    <3>2. \/ row' = row
          \/ row.status \in Active /\ row'.status \in Statuses \ Terminal
      <4>1. Judge(seen[p]) \in {"IN_PROGRESS", "complete"}
        BY <2>7 DEF Advance, Judge
      <4>2. \/ row' = row
            \/ row.status = copy[p].status /\ row' = AsRow(Judge(seen[p]))
        BY <2>7, UpdateMoves DEF Advance
      <4> QED BY <3>1, <4>1, <4>2 DEF AsRow
    <3> QED BY <3>1, <3>2 DEF BillsOutcome
  <2>8. CASE Recalculate(p)
    BY <2>8 DEF Recalculate, task, past, BillsOutcome
  <2>9. CASE Refund(p)
    BY <2>9 DEF Refund, task, past, BillsOutcome
  <2> QED BY <1>3, <2>1, <2>2, <2>3, <2>4, <2>5, <2>6, <2>7, <2>8, <2>9
          DEF Poll, SunoItem, SunoSave
<1>4. ASSUME NEW p \in Pollers, Abort(p) PROVE VideoInv'
  BY <1>4 DEF Abort, task, money, past, BillsOutcome
<1>5. ASSUME NEW f \in Fetchers, Fetch(f) PROVE VideoInv'
  BY <1>5 DEF Fetch, FetchRead, FetchAsk, FetchWrite, task
<1>6. CASE UNCHANGED vars
  BY <1>6 DEF vars, BillsOutcome
<1> QED BY <1>1, <1>2, <1>3, <1>4, <1>5, <1>6 DEF Next

\* The inductive invariant, of any task: what it says is about video tasks.
THEOREM Invariant == Spec => []IInv
<1>1. IInv /\ [Next]_vars => IInv'
  BY NextVideoInv, KindIsFixed DEF IInv
<1> QED BY InitIInv, <1>1, PTL DEF Spec

\* A task of a video platform that no realtime query touches is refunded at
\* most once, for any number of loops, errors and crashes.
THEOREM VideoRefundedAtMostOnce == Spec => [](kind = "video" => RefundedAtMostOnce)
<1>1. IInv => (kind = "video" => RefundedAtMostOnce)
  BY DEF IInv, VideoInv
<1> QED BY Invariant, <1>1, PTL

\* While its channel exists, such a task has been paid for as it ended once no loop is
\* at work and unless an error or a crash has interrupted the billing.
THEOREM VideoIsPaid == Spec => [](channel => VideoOutcomeIsPaid)
<1>1. IInv => (channel => VideoOutcomeIsPaid)
  BY DEF IInv, VideoInv, BillsOutcome, Billing, VideoOutcomeIsPaid, OutcomeIsPaid
<1> QED BY Invariant, <1>1, PTL

\* While its channel exists, such a task is never moved once it has ended, whatever
\* stale copies the loops still hold.
THEOREM VideoOutcomeIsFinal == Spec /\ []channel => OutcomeIsFinal
<1>1. IInv /\ channel /\ [Next]_vars => [kind = "video" /\ row.status \in Terminal => row' = row]_vars
  <2> SUFFICES ASSUME VideoInv, channel, Next, row.status \in Terminal PROVE row' = row
    BY DEF IInv
  <2> USE DEF VideoInv, CopiesUnfinished, Active, Terminal
  <2>1. ASSUME NEW p \in Pollers, Poll(p) PROVE row' = row
    BY <2>1 DEF Poll, SweepRead, SweepUpdate, List, BulkFail, Ask, Finish, Advance,
       Recalculate, Refund, SunoItem, SunoSave, Update, Store, Save, AsRow, task, Wins, Unsuno
  <2>2. ASSUME NEW f \in Fetchers, Fetch(f) PROVE row' = row
    BY <2>2 DEF Fetch, FetchRead, FetchAsk, FetchWrite, task, Unqueried
  <2>3. CASE Insert
    BY <2>3 DEF Insert
  <2>4. CASE UpstreamEnds \/ TimePasses \/ ChannelDeleted
    BY <2>4 DEF UpstreamEnds, TimePasses, ChannelDeleted, task
  <2>5. ASSUME NEW p \in Pollers, Abort(p) PROVE row' = row
    BY <2>5 DEF Abort, task
  <2> QED BY <2>1, <2>2, <2>3, <2>4, <2>5 DEF Next
<1> QED BY Invariant, <1>1, PTL DEF Spec, OutcomeIsFinal

-----------------------------------------------------------------------------
(* How often the other tasks are refunded.  A refund is backed by one of the   *)
(* refunds the task may still see: every step leaves at least as many to come  *)
(* as it takes away from what has been paid.                                   *)

LEMMA Accounting ==
    ASSUME NEW m \in Int, NEW n \in Int, NEW a \in Int, NEW b \in Int, a >= Quota * m,
           \/ n <= m /\ b >= a
           \/ n <= m - 1 /\ b >= a - Quota
    PROVE  b >= Quota * n
<1>1. ASSUME NEW k \in Int, NEW l \in Int, k <= l PROVE Quota * k <= Quota * l
  <2>1. Quota * l = Quota * k + Quota * (l - k)
    BY <1>1
  <2>2. Quota * (l - k) >= 0
    BY <1>1
  <2>3. Quota * k \in Int /\ Quota * (l - k) \in Int
    OBVIOUS
  <2> QED BY <2>1, <2>2, <2>3
<1>2. CASE n <= m /\ b >= a
  <2>1. Quota * n <= Quota * m
    BY <1>1, <1>2
  <2>2. Quota * n \in Int /\ Quota * m \in Int
    OBVIOUS
  <2> QED BY <1>2, <2>1, <2>2
<1>3. CASE n <= m - 1 /\ b >= a - Quota
  <2>1. Quota * n <= Quota * (m - 1)
    BY <1>1, <1>3
  <2>2. Quota * (m - 1) = Quota * m - Quota
    OBVIOUS
  <2>3. Quota * n \in Int /\ Quota * m \in Int
    OBVIOUS
  <2> QED BY <1>3, <2>1, <2>2, <2>3
<1> QED BY <1>2, <1>3

LEMMA Counting ==
    ASSUME IsFiniteSet(Pollers), NEW A \in SUBSET Pollers, NEW B \in SUBSET Pollers, NEW p
    PROVE  /\ Cardinality(A) \in Nat /\ Cardinality(A) <= Cardinality(Pollers)
           /\ A \subseteq B => Cardinality(A) <= Cardinality(B)
           /\ A \subseteq B \ {p} /\ p \in B => Cardinality(A) <= Cardinality(B) - 1
           /\ A \subseteq B \cup {p} => Cardinality(A) <= Cardinality(B) + 1
<1>1. IsFiniteSet(A) /\ IsFiniteSet(B) /\ Cardinality(A) <= Cardinality(Pollers)
  BY FS_Subset
<1>2. /\ IsFiniteSet(B \ {p})
      /\ p \in B => Cardinality(B \ {p}) = Cardinality(B) - 1
  BY <1>1, FS_RemoveElement
<1>3. /\ IsFiniteSet(B \cup {p})
      /\ Cardinality(B \cup {p}) = IF p \in B THEN Cardinality(B) ELSE Cardinality(B) + 1
  BY <1>1, FS_AddElement
<1>4. /\ A \subseteq B => Cardinality(A) <= Cardinality(B)
      /\ A \subseteq B \ {p} => Cardinality(A) <= Cardinality(B \ {p})
      /\ A \subseteq B \cup {p} => Cardinality(A) <= Cardinality(B \cup {p})
  BY <1>1, <1>2, <1>3, FS_Subset
<1>5. Cardinality(A) \in Nat /\ Cardinality(B) \in Nat
  BY <1>1, FS_CardinalityType
<1>6. ASSUME A \subseteq B \ {p}, p \in B PROVE Cardinality(A) <= Cardinality(B) - 1
  <2>1. Cardinality(A) <= Cardinality(B \ {p})
    BY <1>4, <1>6, Zenon
  <2>2. Cardinality(B \ {p}) = Cardinality(B) - 1
    BY <1>2, <1>6, Zenon
  <2> QED BY <2>1, <2>2
<1>7. ASSUME A \subseteq B \cup {p} PROVE Cardinality(A) <= Cardinality(B) + 1
  <2> DEFINE c == Cardinality(B \cup {p})
  <2>1. Cardinality(A) <= c /\ (c = Cardinality(B) \/ c = Cardinality(B) + 1)
    BY <1>3, <1>4, <1>7
  <2> HIDE DEF c
  <2> QED BY <1>5, <2>1
<1> QED BY <1>1, <1>4, <1>5, <1>6, <1>7

\* Saving a row counts it as reopened, or does not make an ended row unfinished.
LEMMA SaveCounts ==
    ASSUME NEW r, Save(r), kind' = kind, reopened \in Nat
    PROVE  /\ row' = r /\ reopened' \in Nat /\ reopened' >= reopened
           /\ \/ Ended(row) /\ ~Ended(r) /\ reopened' = reopened + 1
              \/ ~(Ended(row) /\ ~Ended(r)) /\ reopened' = reopened
BY DEF Save

-----------------------------------------------------------------------------
(* Video tasks and those users query: only who wins an update bills.  A task that *)
(* is still open may be refunded once, a handler that has won is about to, and a  *)
(* row that is reopened may be refunded once more.                                *)

Due == {p \in Pollers : Billing(p)}
Open == IF row.status \in Terminal THEN 0 ELSE 1
ToCome == Open + Cardinality(Due) - reopened

\* Who has seen a final status has it from an upstream that has ended.
SeenIsTrue ==
    /\ \A a \in Actors : seen[a] \in Terminal => upstream # "running"
    /\ \A p \in Pollers : pc[p] = "video" => seen[p] # "reason"
    /\ \A f \in Fetchers : pc[f] = "write" => seen[f] \notin {"reason", "complete"}

\* Unless the task has lapsed, and while the channel exists, the row has ended only if the
\* upstream has, and so has a row that a query read.
EndIsTrue ==
    /\ channel /\ row.status \in Terminal => upstream # "running"
    /\ \A f \in Fetchers :
          /\ pc[f] \in {"ask", "write"} /\ copy[f].status \in Terminal => upstream # "running"
          /\ pc[f] = "write" /\ copy[f].status \in Terminal => seen[f] \in Terminal \cup {"nothing"}

QueriedInv ==
    /\ Types /\ Unsuno /\ CopiesUnfinished
    /\ upstream \in {"running", "succeeded", "failed"} /\ lapsed \in BOOLEAN
    /\ \A f \in Fetchers : pc[f] \in {"idle", "ask", "write"} /\ (kind = "video" => pc[f] = "idle")
    /\ SeenIsTrue /\ (lapsed \/ EndIsTrue)

ReopenedInv == reopened \in Nat /\ (reopened > 0 => kind = "realtime" /\ lapsed)

CountInv == paid >= Quota * ToCome

LEMMA InitQueried == Init => QueriedInv /\ ReopenedInv /\ CountInv
<1> SUFFICES ASSUME Init PROVE QueriedInv /\ ReopenedInv /\ CountInv
  OBVIOUS
<1>1. /\ pc = [a \in Actors |-> "idle"] /\ copy = [a \in Actors |-> row]
      /\ row = [status |-> "absent", done |-> FALSE] /\ paid = Quota
      /\ seen = [a \in Actors |-> "nothing"] /\ upstream = "running"
      /\ reopened = 0 /\ lapsed = FALSE
  BY DEF Init
<1>2. Types
  BY <1>1 DEF Types, Locations, Answers
<1>3. \A a \in Actors : pc[a] = "idle" /\ seen[a] = "nothing"
  BY <1>1
<1>4. Unsuno /\ CopiesUnfinished
  BY <1>1, <1>3 DEF Unsuno, CopiesUnfinished, Actors
<1>5. SeenIsTrue /\ EndIsTrue
  BY <1>1, <1>3 DEF SeenIsTrue, EndIsTrue, Actors, Terminal
<1>6. CountInv
  <2>1. Due = {} /\ Open = 1
    BY <1>1, <1>3 DEF Due, Billing, Open, Terminal, Actors
  <2>2. ToCome = 1
    BY <1>1, <2>1, FS_EmptySet DEF ToCome
  <2> QED BY <1>1, <2>2 DEF CountInv
<1>7. QueriedInv
  BY <1>1, <1>2, <1>3, <1>4, <1>5 DEF QueriedInv, Actors
<1>8. ReopenedInv
  BY <1>1 DEF ReopenedInv
<1> QED BY <1>6, <1>7, <1>8

LEMMA NextQueried ==
    ASSUME QueriedInv, kind \in {"video", "realtime"}, [Next]_vars
    PROVE  QueriedInv'
<1> USE DEF QueriedInv, Types, Unsuno, CopiesUnfinished, SeenIsTrue, EndIsTrue,
            Actors, Answers, Locations, Statuses, Active, Terminal, Goto, world, money
<1>1. CASE Insert
  <2>1. UNCHANGED <<pc, copy, seen, paid, channel, upstream, kind, lapsed>>
        /\ row.status = "absent"
    BY <1>1 DEF Insert
  <2>2. row' = row \/ row'.status = "NOT_START"
    BY <1>1 DEF Insert, Store, Save, AsRow, task
  <2> QED BY <2>1, <2>2
<1>2. CASE UpstreamEnds \/ TimePasses \/ ChannelDeleted
  BY <1>2 DEF UpstreamEnds, TimePasses, ChannelDeleted, task, past
<1>3. ASSUME NEW p \in Pollers, Poll(p) PROVE QueriedInv'
  <2>1. CASE SweepRead(p)
    <3>1. UNCHANGED <<row, seen, paid, upstream, channel, kind, lapsed>> /\ pc[p] = "idle"
      BY <2>1 DEF SweepRead, task, past
    <3>2. \/ /\ copy' = [copy EXCEPT ![p] = row] /\ row.status \in Active
             /\ pc' = [pc EXCEPT ![p] = "sweep"]
          \/ copy' = copy /\ pc' = [pc EXCEPT ![p] = "list"]
      BY <2>1 DEF SweepRead, Read, Unfinished
    <3> QED BY <3>1, <3>2
  <2>2. CASE SweepUpdate(p)
    <3>1. CASE Wins(p)
      <4>1. row'.status = "FAILURE"
        BY <2>2, <3>1 DEF SweepUpdate, Store, Save, AsRow
      <4>3. lapsed'
        BY <2>2, <3>1, Zenon DEF SweepUpdate
      <4>2. UNCHANGED <<copy, seen, paid, channel, upstream, kind>>
            /\ pc' = [pc EXCEPT ![p] = "refund"]
        BY <2>2, <3>1 DEF SweepUpdate
      <4>4. lapsed' \in BOOLEAN
        BY <2>2 DEF SweepUpdate
      <4> QED BY <4>1, <4>2, <4>3, <4>4
    <3>2. CASE ~Wins(p)
      <4>1. (lapsed' <=> lapsed) /\ lapsed' \in BOOLEAN
        BY <2>2, <3>2, Zenon DEF SweepUpdate
      <4>2. UNCHANGED <<row, copy, seen, paid, channel, upstream, kind>>
            /\ pc' = [pc EXCEPT ![p] = "list"]
        BY <2>2, <3>2 DEF SweepUpdate, task
      <4> QED BY <4>1, <4>2
    <3> QED BY <3>1, <3>2
  <2>3. CASE List(p)
    <3>1. UNCHANGED <<row, seen, paid, upstream, channel, kind, lapsed>> /\ pc[p] = "list"
      BY <2>3 DEF List, task, past
    <3>2. \/ /\ copy' = [copy EXCEPT ![p] = row] /\ row.status \in Active
             /\ pc' = [pc EXCEPT ![p] = "dispatch"]
          \/ copy' = copy /\ pc' = [pc EXCEPT ![p] = "idle"]
      BY <2>3 DEF List, Read, Unfinished
    <3> QED BY <3>1, <3>2
  <2>4. CASE BulkFail(p)
    <3>1. row'.status = "FAILURE" /\ ~channel
      BY <2>4 DEF BulkFail, Store, Save, AsRow
    <3>2. UNCHANGED <<copy, seen, paid, channel, upstream, kind, lapsed>>
          /\ pc' = [pc EXCEPT ![p] = "idle"]
      BY <2>4 DEF BulkFail, past
    <3> QED BY <3>1, <3>2
  <2>5. CASE Ask(p)
    BY <2>5 DEF Ask, Answer, Relayed, task, past
  <2>6. CASE Finish(p)
    <3>1. UNCHANGED <<copy, seen, paid, channel, upstream, kind>> /\ pc[p] = "video"
          /\ lapsed' = (lapsed \/ (Wins(p) /\ seen[p] = "nothing"))
      BY <2>6 DEF Finish
    <3>2. CASE Wins(p)
      <4>1. row'.status = Judge(seen[p]) /\ Judge(seen[p]) \in Terminal
        BY <2>6, <3>2 DEF Finish, Store, Save, AsRow
      <4>2. pc' = [pc EXCEPT ![p] = "settle"] \/ pc' = [pc EXCEPT ![p] = "refund"]
        BY <2>6, <3>2 DEF Finish
      <4>3. lapsed' \/ upstream # "running"
        BY <3>1, <3>2, <4>1 DEF Judge
      <4> QED BY <3>1, <4>1, <4>2, <4>3
    <3>3. CASE ~Wins(p)
      BY <2>6, <3>1, <3>3 DEF Finish, task
    <3> QED BY <3>2, <3>3
  <2>7. CASE Advance(p)
    <3>1. UNCHANGED <<copy, seen, paid, channel, upstream, kind, lapsed>>
          /\ pc' = [pc EXCEPT ![p] = "idle"]
      BY <2>7 DEF Advance, past
    <3>2. /\ \/ row' = row
             \/ row' = AsRow(Judge(seen[p]))
          /\ Judge(seen[p]) \in {"IN_PROGRESS", "complete"}
      BY <2>7, UpdateMoves DEF Advance, Judge
    <3>3. \/ row' = row
          \/ row'.status = "IN_PROGRESS"
      BY <3>2 DEF AsRow
    <3> QED BY <3>1, <3>3
  <2>8. CASE Recalculate(p)
    BY <2>8 DEF Recalculate, task, past
  <2>9. CASE Refund(p)
    BY <2>9 DEF Refund, task, past
  <2> QED BY <1>3, <2>1, <2>2, <2>3, <2>4, <2>5, <2>6, <2>7, <2>8, <2>9
          DEF Poll, SunoItem, SunoSave
<1>4. ASSUME NEW p \in Pollers, Abort(p) PROVE QueriedInv'
  BY <1>4 DEF Abort, task
<1>5. ASSUME NEW f \in Fetchers, Fetch(f) PROVE QueriedInv'
  <2>1. CASE FetchRead(f)
    BY <2>1 DEF FetchRead, Read, task, past
  <2>2. CASE FetchAsk(f)
    BY <2>2 DEF FetchAsk, Answer, task, past
  <2>3. CASE FetchWrite(f)
    <3>1. UNCHANGED <<copy, seen, paid, channel, upstream, kind, lapsed>> /\ pc[f] = "write"
          /\ pc' = [pc EXCEPT ![f] = "idle"]
      BY <2>3 DEF FetchWrite, past
    <3>2. \/ row' = row
          \/ row' = AsRow(seen[f]) /\ seen[f] # "nothing"
      BY <2>3, UpdateMoves DEF FetchWrite, task
    <3>3. \/ row' = row
          \/ row'.status = seen[f] /\ seen[f] \in {"IN_PROGRESS", "SUCCESS", "FAILURE"}
      BY <3>1, <3>2 DEF AsRow
    <3> QED BY <3>1, <3>3
  <2> QED BY <1>5, <2>1, <2>2, <2>3 DEF Fetch
<1>6. CASE UNCHANGED vars
  BY <1>6 DEF vars
<1> QED BY <1>1, <1>2, <1>3, <1>4, <1>5, <1>6 DEF Next

LEMMA NextReopened ==
    ASSUME QueriedInv, ReopenedInv, kind \in {"video", "realtime"}, [Next]_vars
    PROVE  ReopenedInv'
<1> USE DEF Terminal, Active
<1>1. kind' = kind /\ reopened \in Nat
  BY KindIsFixed DEF ReopenedInv
<1>2. lapsed => lapsed'
  BY DEF Next, vars, Insert, UpstreamEnds, TimePasses, ChannelDeleted, Poll, SweepRead,
         SweepUpdate, List, BulkFail, Ask, Finish, Advance, Recalculate, Refund, SunoItem,
         SunoSave, Abort, Fetch, FetchRead, FetchAsk, FetchWrite, past
<1>3. SUFFICES \/ reopened' = reopened
               \/ reopened' = reopened + 1 /\ kind = "realtime" /\ lapsed
  BY <1>1, <1>2 DEF ReopenedInv
<1>4. ASSUME UNCHANGED task PROVE reopened' = reopened
  BY <1>4 DEF task
<1>5. ASSUME NEW x \in Terminal, Store(x) PROVE reopened' = reopened
  BY <1>5 DEF Store, Save, AsRow, Ended
<1>6. ASSUME NEW x, Store(x), row.status \notin Terminal PROVE reopened' = reopened
  BY <1>1, <1>6 DEF Store, Save, Ended
<1>7. CASE Insert
  BY <1>4, <1>6, <1>7 DEF Insert
<1>8. CASE UpstreamEnds \/ TimePasses \/ ChannelDeleted
  BY <1>8 DEF UpstreamEnds, TimePasses, ChannelDeleted, task
<1>9. ASSUME NEW p \in Pollers, Poll(p) PROVE reopened' = reopened
  <2>1. CASE SweepUpdate(p) \/ BulkFail(p) \/ Finish(p)
    BY <1>4, <1>5, <2>1 DEF SweepUpdate, BulkFail, Finish
  <2>2. CASE Advance(p)
    <3>1. copy[p].status \in Active
      BY <2>2 DEF Advance, QueriedInv, CopiesUnfinished
    <3> QED BY <1>4, <1>6, <2>2, <3>1, UpdateMoves DEF Advance
  <2>3. CASE SweepRead(p) \/ List(p) \/ Ask(p) \/ Recalculate(p) \/ Refund(p)
    BY <1>4, <2>3 DEF SweepRead, List, Ask, Recalculate, Refund, task
  <2>4. pc[p] \notin {"suno", "save"}
    BY DEF QueriedInv, Unsuno
  <2> QED BY <1>9, <2>1, <2>2, <2>3, <2>4 DEF Poll, SunoItem, SunoSave
<1>10. ASSUME NEW p \in Pollers, Abort(p) PROVE reopened' = reopened
  BY <1>10 DEF Abort, task
<1>11. ASSUME NEW f \in Fetchers, Fetch(f)
       PROVE  \/ reopened' = reopened
              \/ reopened' = reopened + 1 /\ kind = "realtime" /\ lapsed
  <2>1. CASE FetchRead(f) \/ FetchAsk(f)
    BY <2>1 DEF FetchRead, FetchAsk, task
  <2>2. CASE FetchWrite(f)
    <3>1. pc[f] = "write" /\ kind = "realtime"
      BY <2>2 DEF FetchWrite, QueriedInv
    <3>2. \/ reopened' = reopened
          \/ Store(seen[f]) /\ row.status = copy[f].status /\ seen[f] # "nothing"
      BY <1>4, <2>2, UpdateMoves DEF FetchWrite
    <3>3. CASE lapsed \/ row.status \notin Terminal
      BY <1>1, <1>6, <3>1, <3>2, <3>3, SaveCounts DEF Store
    <3>4. CASE ~lapsed /\ row.status \in Terminal
      <4>1. copy[f].status \in Terminal => seen[f] \in Terminal \cup {"nothing"}
        BY <3>1, <3>4 DEF QueriedInv, EndIsTrue
      <4> QED BY <1>5, <3>2, <3>4, <4>1
    <3> QED BY <3>3, <3>4
  <2> QED BY <1>11, <2>1, <2>2 DEF Fetch
<1>12. CASE UNCHANGED vars
  BY <1>12 DEF vars
<1> QED BY <1>7, <1>8, <1>9, <1>10, <1>11, <1>12 DEF Next

\* How what is still to come may change beside what has been paid.
LEMMA CountStep ==
    ASSUME IsFiniteSet(Pollers), CountInv, reopened \in Nat, reopened' \in Nat,
           paid \in Int, paid' \in Int, NEW p,
           \/ /\ Open' - reopened' <= Open - reopened
              /\ Due' \subseteq Due /\ paid' >= paid
           \/ /\ Open' - reopened' <= Open - reopened - 1
              /\ Due' \subseteq Due \cup {p} /\ paid' >= paid
           \/ /\ Open' - reopened' <= Open - reopened
              /\ Due' \subseteq Due \ {p} /\ p \in Due /\ paid' >= paid - Quota
    PROVE  CountInv'
<1> DEFINE c == Cardinality(Due)
           d == Cardinality(Due')
           o == Open - reopened
           n == Open' - reopened'
<1>1. Due \in SUBSET Pollers /\ Due' \in SUBSET Pollers
  BY DEF Due
<1>2. /\ c \in Nat /\ d \in Nat
      /\ Due' \subseteq Due => d <= c
      /\ Due' \subseteq Due \ {p} /\ p \in Due => d <= c - 1
      /\ Due' \subseteq Due \cup {p} => d <= c + 1
  BY <1>1, Counting
<1>3. o \in Int /\ n \in Int /\ ToCome = o + c /\ ToCome' = n + d
  <2>1. Open \in {0, 1} /\ Open' \in {0, 1}
    BY DEF Open
  <2>2. ToCome' = Open' + d - reopened'
    BY DEF ToCome
  <2> QED BY <1>2, <2>1, <2>2 DEF ToCome
<1>4. \/ n + d <= o + c /\ paid' >= paid
      \/ n + d <= o + c - 1 /\ paid' >= paid - Quota
  <2> HIDE DEF c, d, o, n
  <2>1. \/ n <= o /\ d <= c /\ paid' >= paid
        \/ n <= o - 1 /\ d <= c + 1 /\ paid' >= paid
        \/ n <= o /\ d <= c - 1 /\ paid' >= paid - Quota
    <3> USE DEF o, n
    <3> QED BY <1>2
  <2> QED BY <1>2, <1>3, <2>1
<1>5. paid >= Quota * (o + c)
  BY <1>3 DEF CountInv
<1>6. paid' >= Quota * (n + d)
  <2> HIDE DEF c, d, o, n
  <2>1. c \in Int /\ d \in Int /\ o \in Int /\ n \in Int
    BY <1>2, <1>3
  <2> SUFFICES ASSUME NEW k, NEW l, k = o + c, l = n + d PROVE paid' >= Quota * l
    OBVIOUS
  <2>2. k \in Int /\ l \in Int /\ paid >= Quota * k
    BY <1>5, <2>1
  <2>3. (l <= k /\ paid' >= paid) \/ (l <= k - 1 /\ paid' >= paid - Quota)
    BY <1>4, <2>1
  <2> QED BY <2>2, <2>3, Accounting
<1>7. CountInv' <=> paid' >= Quota * ToCome'
  BY DEF CountInv
<1> QED BY <1>3, <1>6, <1>7

LEMMA NextCount ==
    ASSUME IsFiniteSet(Pollers), QueriedInv, ReopenedInv, ReopenedInv', CountInv,
           kind \in {"video", "realtime"}, [Next]_vars
    PROVE  CountInv'
<1>1. kind' = kind /\ reopened \in Nat /\ reopened' \in Nat /\ paid \in Int /\ Quota \in Nat
  BY KindIsFixed DEF ReopenedInv, QueriedInv, Types
<1>2. ASSUME NEW r, Save(r) PROVE Open' - reopened' <= Open - reopened
  BY <1>1, <1>2 DEF Save, Open, Ended
<1>3. ASSUME UNCHANGED task PROVE Open' = Open /\ reopened' = reopened
  BY <1>3 DEF task, Open
<1>4. Open \in {0, 1} /\ Open' \in {0, 1}
  BY DEF Open
<1>5. ASSUME Open' - reopened' <= Open - reopened, Due' \subseteq Due, paid' = paid PROVE CountInv'
  BY <1>1, <1>5, CountStep
<1>6. ASSUME pc' = pc PROVE Due' = Due
  BY <1>6 DEF Due, Billing
<1>7. ASSUME NEW a \in Actors, NEW x, Goto(a, x), x \notin {"refund", "settle"}
      PROVE  Due' \subseteq Due \ {a}
  BY <1>7 DEF Due, Billing, Goto, QueriedInv, Types, Actors
<1>8. CASE Insert
  <2>1. paid' = paid /\ Due' = Due
    BY <1>6, <1>8 DEF Insert, money
  <2>2. UNCHANGED task \/ Save(AsRow("NOT_START"))
    BY <1>8 DEF Insert, Store
  <2>3. Open' - reopened' <= Open - reopened
    <3>1. CASE UNCHANGED task
      BY <1>1, <1>3, <1>4, <3>1
    <3>2. CASE Save(AsRow("NOT_START"))
      BY <1>2, <3>2
    <3> QED BY <2>2, <3>1, <3>2
  <2> QED BY <1>5, <2>1, <2>3
<1>9. CASE UpstreamEnds \/ TimePasses \/ ChannelDeleted
  <2>1. UNCHANGED <<task, pc, paid>>
    BY <1>9 DEF UpstreamEnds, TimePasses, ChannelDeleted, money
  <2> QED BY <1>1, <1>3, <1>4, <1>5, <1>6, <2>1
<1>10. ASSUME NEW p \in Pollers, Poll(p) PROVE CountInv'
  <2>1. ASSUME Wins(p), copy[p].status \in Active, paid' = paid,
               NEW r, Save(r), r.status \in Terminal, NEW x, Goto(p, x)
        PROVE  CountInv'
    <3>1. Open = 1 /\ Open' = 0 /\ reopened' = reopened
      BY <2>1, <1>1 DEF Open, Wins, Save, Ended, Active, Terminal
    <3>2. Due' \subseteq Due \cup {p}
      BY <2>1 DEF Due, Billing, Goto, QueriedInv, Types, Actors
    <3> QED BY <1>1, <2>1, <3>1, <3>2, CountStep
  <2>2. ASSUME Billing(p), UNCHANGED task, Goto(p, "idle"), paid' \in Int, paid' >= paid - Quota
        PROVE  CountInv'
    <3>1. Due' \subseteq Due \ {p} /\ p \in Due
      BY <1>7, <2>2 DEF Due, Actors
    <3> QED BY <1>1, <1>3, <1>4, <2>2, <3>1, CountStep
  <2>3. ASSUME Open' - reopened' <= Open - reopened, paid' = paid,
               NEW x, Goto(p, x), x \notin {"refund", "settle"}
        PROVE  CountInv'
    BY <1>5, <1>7, <2>3 DEF Actors
  <2>4. UNCHANGED task => Open' - reopened' <= Open - reopened
    BY <1>1, <1>3, <1>4
  <2>5. CASE SweepRead(p) \/ List(p) \/ Ask(p)
    <3>1. kind # "suno"
      OBVIOUS
    <3> QED BY <2>3, <2>4, <2>5, <3>1 DEF SweepRead, List, Ask, money
  <2>6. CASE BulkFail(p)
    BY <1>2, <2>3, <2>6 DEF BulkFail, Store, money
  <2>7. CASE SweepUpdate(p)
    <3>1. paid' = paid /\ copy[p].status \in Active
      BY <2>7 DEF SweepUpdate, money, QueriedInv, CopiesUnfinished
    <3>2. CASE Wins(p)
      <4>1. Save(AsRow("FAILURE")) /\ Goto(p, "refund") /\ AsRow("FAILURE").status \in Terminal
        BY <2>7, <3>2 DEF SweepUpdate, Store, AsRow, Terminal
      <4> QED BY <2>1, <3>1, <3>2, <4>1
    <3>3. CASE ~Wins(p)
      BY <2>3, <2>4, <2>7, <3>1, <3>3 DEF SweepUpdate
    <3> QED BY <3>2, <3>3
  <2>8. CASE Finish(p)
    <3>1. paid' = paid /\ copy[p].status \in Active
      BY <2>8 DEF Finish, money, QueriedInv, CopiesUnfinished
    <3>2. CASE Wins(p)
      <4> DEFINE x == Judge(seen[p])
      <4>1. Save(AsRow(x)) /\ AsRow(x).status \in Terminal
        BY <2>8, <3>2 DEF Finish, Store, AsRow, Terminal
      <4>2. Goto(p, IF x = "SUCCESS" THEN "settle" ELSE "refund")
        BY <2>8, <3>2 DEF Finish
      <4> QED BY <2>1, <3>1, <3>2, <4>1, <4>2
    <3>3. CASE ~Wins(p)
      BY <2>3, <2>4, <2>8, <3>1, <3>3 DEF Finish
    <3> QED BY <3>2, <3>3
  <2>9. CASE Advance(p)
    <3>1. UNCHANGED task \/ Save(AsRow(Judge(seen[p])))
      BY <2>9, UpdateMoves DEF Advance, Store
    <3> QED BY <1>2, <2>3, <2>4, <2>9, <3>1 DEF Advance, money
  <2>10. CASE Recalculate(p)
    <3>1. PICK a \in Actuals \cup {Quota} : paid' = paid + (a - Quota)
      BY <2>10 DEF Recalculate
    <3>2. a \in Nat
      BY <3>1
    <3>3. paid' \in Int /\ paid' >= paid - Quota
      BY <1>1, <3>1, <3>2
    <3> QED BY <2>2, <2>10, <3>3 DEF Recalculate, Billing
  <2>11. CASE Refund(p)
    <3>1. pc[p] = "refund"
      BY <2>11 DEF Refund, QueriedInv, Unsuno
    <3> QED BY <1>1, <2>2, <2>11, <3>1 DEF Refund, Billing
  <2>12. pc[p] \notin {"suno", "save"}
    BY DEF QueriedInv, Unsuno
  <2> QED BY <1>10, <2>5, <2>6, <2>7, <2>8, <2>9, <2>10, <2>11, <2>12
          DEF Poll, SunoItem, SunoSave
<1>11. ASSUME NEW p \in Pollers, Abort(p) PROVE CountInv'
  <2>1. UNCHANGED task /\ paid' = paid /\ Due' \subseteq Due
    BY <1>7, <1>11 DEF Abort, money, Actors
  <2> QED BY <1>1, <1>3, <1>4, <1>5, <2>1
<1>12. ASSUME NEW f \in Fetchers, Fetch(f) PROVE CountInv'
  <2>1. paid' = paid
    BY <1>12 DEF Fetch, FetchRead, FetchAsk, FetchWrite, money
  <2>2. Due' \subseteq Due
    BY <1>7, <1>12 DEF Fetch, FetchRead, FetchAsk, FetchWrite, Actors
  <2>3. UNCHANGED task \/ Save(AsRow(seen[f]))
    BY <1>12, UpdateMoves DEF Fetch, FetchRead, FetchAsk, FetchWrite, Store
  <2>4. Open' - reopened' <= Open - reopened
    <3>1. CASE UNCHANGED task
      BY <1>1, <1>3, <1>4, <3>1
    <3>2. CASE Save(AsRow(seen[f]))
      BY <1>2, <3>2
    <3> QED BY <2>3, <3>1, <3>2
  <2> QED BY <1>5, <2>1, <2>2, <2>4
<1>13. CASE UNCHANGED vars
  <2>1. UNCHANGED <<task, pc, paid>>
    BY <1>13 DEF vars, task
  <2> QED BY <1>1, <1>3, <1>4, <1>5, <1>6, <2>1
<1> QED BY <1>8, <1>9, <1>10, <1>11, <1>12, <1>13 DEF Next

-----------------------------------------------------------------------------
(* Suno tasks: each is refunded before its row is saved, and the save looks at     *)
(* nothing.  A loop may refund a task that is unfinished, or that it still takes   *)
(* for unfinished; not again until it has saved the row of a refunded one.         *)

Loops == Cardinality(Pollers)

SavesFailed(p) == pc[p] = "save" /\ SunoFails(p)

MayRefund == {p \in Pollers :
    /\ ~SavesFailed(p)
    /\ ~Ended(row) \/ pc[p] \in {"sweep", "dispatch", "suno", "sunoRefund"}}

Swept == {p \in Pollers : pc[p] = "refund"}

SunoToCome ==
    1 + Cardinality(MayRefund) + Cardinality(Swept) - Loops * (1 + reopened) - faults

SunoTypes ==
    /\ pc \in [Actors -> Locations] /\ paid \in Int
    /\ copy = [a \in Actors |-> copy[a]] /\ seen = [a \in Actors |-> seen[a]]
    /\ reopened \in Nat /\ faults \in Nat
    /\ \A p \in Pollers : /\ pc[p] \notin {"video", "settle", "ask", "write"}
                          /\ pc[p] = "sunoRefund" => SunoFails(p)
    /\ Unqueried

SunoInv == SunoTypes /\ paid >= Quota * SunoToCome

LEMMA InitSuno == ASSUME IsFiniteSet(Pollers), Init PROVE SunoInv
<1>1. /\ pc = [a \in Actors |-> "idle"] /\ row = [status |-> "absent", done |-> FALSE]
      /\ paid = Quota /\ reopened = 0 /\ faults = 0
      /\ copy = [a \in Actors |-> row] /\ seen = [a \in Actors |-> "nothing"]
  BY DEF Init
<1>2. \A a \in Actors : pc[a] = "idle"
  BY <1>1
<1>3. SunoTypes
  BY <1>1, <1>2 DEF SunoTypes, Unqueried, Actors, Locations
<1>4. MayRefund = Pollers /\ Swept = {}
  BY <1>1, <1>2 DEF MayRefund, Swept, SavesFailed, Ended, Terminal, Actors
<1>5. Loops \in Nat
  BY FS_CardinalityType DEF Loops
<1>6. SunoToCome = 1
  BY <1>1, <1>4, <1>5, FS_EmptySet DEF SunoToCome, Loops
<1> QED BY <1>1, <1>3, <1>6 DEF SunoInv

LEMMA Growing ==
    ASSUME NEW l \in Nat, NEW i \in Nat, NEW j \in Nat, j >= i
    PROVE  /\ l * (1 + i) \in Int /\ l * (1 + j) \in Int /\ l * (1 + j) >= l * (1 + i)
           /\ j = i + 1 => l * (1 + j) = l * (1 + i) + l
<1>1. PICK k \in Nat : k = j - i
  OBVIOUS
<1>2. l * (1 + j) = l * (1 + i) + l * k
  BY <1>1
<1>3. l * k \in Nat /\ l * (1 + i) \in Nat
  OBVIOUS
<1>4. j = i + 1 => k = 1
  BY <1>1
<1> QED BY <1>2, <1>3, <1>4

Balanced(l, m, n, c, d, b, e, f, g, a, z) ==
    /\ n <= l /\ e >= b /\ g >= f
    /\ \/ n <= m /\ d <= c /\ z >= a
       \/ e = b + l /\ d <= c /\ z >= a
       \/ g = f + 1 /\ n <= m + 1 /\ d <= c /\ z >= a
       \/ n <= m - 1 /\ d <= c + 1 /\ z >= a
       \/ n <= m /\ d <= c - 1 /\ z >= a - Quota
       \/ n <= m - 1 /\ d <= c /\ z >= a - Quota
    => \/ 1 + n + d - e - g <= 1 + m + c - b - f /\ z >= a
       \/ 1 + n + d - e - g <= (1 + m + c - b - f) - 1 /\ z >= a - Quota

LEMMA Balance ==
    ASSUME NEW l \in Nat, NEW m \in Nat, NEW n \in Nat, NEW c \in Nat, NEW d \in Nat,
           NEW b \in Int, NEW e \in Int, NEW f \in Nat, NEW g \in Nat,
           NEW a \in Int, NEW z \in Int
    PROVE  Balanced(l, m, n, c, d, b, e, f, g, a, z)
BY DEF Balanced

\* How the two sets may change beside what has been paid.
SunoMove(p) ==
    \/ /\ MayRefund' \subseteq MayRefund /\ Swept' \subseteq Swept /\ paid' >= paid
    \/ /\ reopened' = reopened + 1 /\ Swept' \subseteq Swept /\ paid' >= paid
    \/ /\ faults' = faults + 1 /\ MayRefund' \subseteq MayRefund \cup {p}
       /\ Swept' \subseteq Swept /\ paid' >= paid
    \/ /\ MayRefund' \subseteq MayRefund \ {p} /\ p \in MayRefund
       /\ Swept' \subseteq Swept \cup {p} /\ paid' >= paid
    \/ /\ MayRefund' \subseteq MayRefund /\ paid' >= paid - Quota
       /\ Swept' \subseteq Swept \ {p} /\ p \in Swept
    \/ /\ MayRefund' \subseteq MayRefund \ {p} /\ p \in MayRefund
       /\ Swept' \subseteq Swept /\ paid' >= paid - Quota

LEMMA SunoStep ==
    ASSUME IsFiniteSet(Pollers), SunoInv, SunoTypes', NEW p, SunoMove(p),
           faults' >= faults, reopened' >= reopened
    PROVE  SunoInv'
<1>1. /\ MayRefund \in SUBSET Pollers /\ MayRefund' \in SUBSET Pollers
      /\ Swept \in SUBSET Pollers /\ Swept' \in SUBSET Pollers
  BY DEF MayRefund, Swept
<1>2. PICK m \in Nat, n \in Nat :
         /\ m = Cardinality(MayRefund) /\ n = Cardinality(MayRefund') /\ n <= Loops
         /\ MayRefund' \subseteq MayRefund => n <= m
         /\ MayRefund' \subseteq MayRefund \ {p} /\ p \in MayRefund => n <= m - 1
         /\ MayRefund' \subseteq MayRefund \cup {p} => n <= m + 1
  BY <1>1, Counting DEF Loops
<1>3. PICK c \in Nat, d \in Nat :
         /\ c = Cardinality(Swept) /\ d = Cardinality(Swept')
         /\ Swept' \subseteq Swept => d <= c
         /\ Swept' \subseteq Swept \ {p} /\ p \in Swept => d <= c - 1
         /\ Swept' \subseteq Swept \cup {p} => d <= c + 1
  BY <1>1, Counting
<1>4. Loops \in Nat /\ reopened \in Nat /\ reopened' \in Nat /\ faults \in Nat /\ faults' \in Nat
      /\ paid \in Int /\ paid' \in Int
  BY FS_CardinalityType DEF Loops, SunoInv, SunoTypes
<1>5. PICK b \in Int, e \in Int :
         /\ b = Loops * (1 + reopened) /\ e = Loops * (1 + reopened') /\ e >= b
         /\ reopened' = reopened + 1 => e = b + Loops
  <2> HIDE TaskAssumption
  <2>1. /\ Loops * (1 + reopened) \in Int /\ Loops * (1 + reopened') \in Int
        /\ Loops * (1 + reopened') >= Loops * (1 + reopened)
        /\ reopened' = reopened + 1 => Loops * (1 + reopened') = Loops * (1 + reopened) + Loops
    BY <1>4, Growing, Zenon
  <2> QED BY <2>1, Zenon
<1>6. \/ n <= m /\ d <= c /\ paid' >= paid
      \/ e = b + Loops /\ d <= c /\ paid' >= paid
      \/ faults' = faults + 1 /\ n <= m + 1 /\ d <= c /\ paid' >= paid
      \/ n <= m - 1 /\ d <= c + 1 /\ paid' >= paid
      \/ n <= m /\ d <= c - 1 /\ paid' >= paid - Quota
      \/ n <= m - 1 /\ d <= c /\ paid' >= paid - Quota
  BY <1>2, <1>3, <1>5 DEF SunoMove
<1>7. SunoToCome = 1 + m + c - b - faults /\ SunoToCome' = 1 + n + d - e - faults'
  <2>1. Loops' = Loops
    BY DEF Loops
  <2> QED BY <1>2, <1>3, <1>5, <2>1 DEF SunoToCome
<1>8. SunoToCome \in Int /\ SunoToCome' \in Int
  BY <1>4, <1>7
<1>9. \/ SunoToCome' <= SunoToCome /\ paid' >= paid
      \/ SunoToCome' <= SunoToCome - 1 /\ paid' >= paid - Quota
  <2> HIDE TaskAssumption
  <2>1. Balanced(Loops, m, n, c, d, b, e, faults, faults', paid, paid')
    BY <1>4, Balance, Zenon
  <2>2. n <= Loops /\ e >= b /\ faults' >= faults
    BY <1>2, <1>5
  <2>3. \/ 1 + n + d - e - faults' <= 1 + m + c - b - faults /\ paid' >= paid
        \/ 1 + n + d - e - faults' <= (1 + m + c - b - faults) - 1 /\ paid' >= paid - Quota
    BY <1>6, <2>1, <2>2, Zenon DEF Balanced
  <2> QED BY <1>7, <2>3, Zenon
<1>10. paid >= Quota * SunoToCome
  BY DEF SunoInv
<1>11. paid' >= Quota * SunoToCome'
  <2> SUFFICES ASSUME NEW k, NEW l, k = SunoToCome, l = SunoToCome' PROVE paid' >= Quota * l
    OBVIOUS
  <2>1. k \in Int /\ l \in Int /\ paid >= Quota * k
    BY <1>8, <1>10
  <2>2. (l <= k /\ paid' >= paid) \/ (l <= k - 1 /\ paid' >= paid - Quota)
    BY <1>9
  <2> QED BY <1>4, <2>1, <2>2, Accounting
<1>12. SunoInv' <=> SunoTypes' /\ paid' >= Quota * SunoToCome'
  BY DEF SunoInv
<1> QED BY <1>11, <1>12

LEMMA NextSunoTypes ==
    ASSUME kind = "suno", SunoInv, [Next]_vars
    PROVE  SunoTypes' /\ faults' >= faults /\ reopened' >= reopened
<1> USE DEF SunoTypes, Unqueried, Actors, Locations, Goto, money, world, bounds, past, task
<1>1. kind' = kind /\ SunoTypes
  BY KindIsFixed DEF SunoInv
<1>2. ASSUME UNCHANGED task PROVE reopened' = reopened
  BY <1>2
<1>3. ASSUME NEW r, Save(r) PROVE reopened' \in Nat /\ reopened' >= reopened
  BY <1>1, <1>3, SaveCounts
<1>4. ASSUME Fault PROVE faults' \in Nat /\ faults' >= faults
  BY <1>1, <1>4 DEF Fault
<1>5. CASE Insert
  <2>1. UNCHANGED <<pc, copy, seen, paid>>
    BY <1>5 DEF Insert
  <2>2. reopened' \in Nat /\ reopened' >= reopened
    BY <1>1, <1>2, <1>3, <1>5 DEF Insert, Store
  <2>3. faults' \in Nat /\ faults' >= faults
    BY <1>1, <1>4, <1>5 DEF Insert
  <2> QED BY <1>1, <2>1, <2>2, <2>3 DEF SunoFails, SunoStatus
<1>6. CASE UpstreamEnds \/ TimePasses \/ ChannelDeleted
  BY <1>1, <1>6 DEF UpstreamEnds, TimePasses, ChannelDeleted, SunoFails, SunoStatus
<1>7. ASSUME NEW p \in Pollers, Poll(p)
      PROVE  SunoTypes' /\ faults' >= faults /\ reopened' >= reopened
  <2>1. ASSUME NEW x \in Locations \ {"video", "settle", "ask", "write"}, Goto(p, x),
               paid' \in Int, faults' = faults, reopened' \in Nat, reopened' >= reopened,
               x = "sunoRefund" => SunoFails(p)',
               NEW r, NEW y, copy' \in {copy, [copy EXCEPT ![p] = r]},
               seen' \in {seen, [seen EXCEPT ![p] = y]}
        PROVE  SunoTypes' /\ faults' >= faults /\ reopened' >= reopened
    <3>1. copy' = [a \in Actors |-> copy'[a]] /\ \A q \in Actors \ {p} : copy'[q] = copy[q]
      BY <1>1, <2>1
    <3>2. seen' = [a \in Actors |-> seen'[a]] /\ \A q \in Actors \ {p} : seen'[q] = seen[q]
      BY <1>1, <2>1
    <3>3. \A q \in Pollers \ {p} : SunoFails(q)' = SunoFails(q)
      BY <3>1, <3>2 DEF SunoFails, SunoStatus
    <3> QED BY <1>1, <2>1, <3>1, <3>2, <3>3
  <2>2. ASSUME UNCHANGED <<task, paid, faults>>, NEW x \in {"idle", "list", "sweep", "dispatch", "suno", "save"},
               Goto(p, x), NEW r, NEW y, copy' \in {copy, [copy EXCEPT ![p] = r]},
               seen' \in {seen, [seen EXCEPT ![p] = y]}
        PROVE  SunoTypes' /\ faults' >= faults /\ reopened' >= reopened
    <3>1. x \in Locations \ {"video", "settle", "ask", "write"} /\ x # "sunoRefund"
      BY <2>2
    <3>2. paid' \in Int /\ faults' = faults /\ reopened' \in Nat /\ reopened' >= reopened
      BY <1>1, <2>2
    <3> HIDE DEF SunoTypes, Locations, Goto
    <3> QED BY <2>1, <2>2, <3>1, <3>2
  <2>3. ASSUME NEW w, Save(w), NEW x \in {"idle", "refund"}, Goto(p, x),
               UNCHANGED <<copy, seen, paid, faults>>
        PROVE  SunoTypes' /\ faults' >= faults /\ reopened' >= reopened
    BY <1>1, <1>3, <2>1, <2>3
  <2>4. CASE SweepRead(p) \/ List(p)
    BY <2>2, <2>4 DEF SweepRead, List, Read
  <2>5. CASE SweepUpdate(p)
    BY <2>2, <2>3, <2>5 DEF SweepUpdate, Store
  <2>6. CASE BulkFail(p)
    BY <2>3, <2>6 DEF BulkFail, Store
  <2>7. CASE Ask(p)
    BY <2>2, <2>7 DEF Ask
  <2>8. CASE Refund(p)
    <3>1. paid' \in Int /\ UNCHANGED <<row, reopened, copy, seen, faults>>
      BY <1>1, <2>8 DEF Refund
    <3>2. Goto(p, "save") \/ Goto(p, "idle")
      BY <2>8 DEF Refund
    <3>3. reopened' \in Nat /\ reopened' >= reopened
      BY <1>1, <3>1
    <3>4. ASSUME NEW x \in {"save", "idle"}, Goto(p, x)
          PROVE  SunoTypes' /\ faults' >= faults /\ reopened' >= reopened
      <4>1. x \in Locations \ {"video", "settle", "ask", "write"} /\ x # "sunoRefund"
        BY <3>4
      <4>2. copy' = copy /\ seen' = seen /\ paid' \in Int /\ faults' = faults
        BY <3>1
      <4> HIDE DEF SunoTypes, Locations, Goto
      <4> QED BY <2>1, <3>3, <3>4, <4>1, <4>2
    <3>5. CASE Goto(p, "save")
      BY <3>4, <3>5
    <3>6. CASE Goto(p, "idle")
      BY <3>4, <3>6
    <3> QED BY <3>2, <3>5, <3>6
  <2>9. CASE SunoItem(p)
    <3>1. UNCHANGED <<task, copy, seen, paid, faults>>
      BY <2>9 DEF SunoItem
    <3>2. SunoFails(p)' = SunoFails(p)
      BY <3>1 DEF SunoFails, SunoStatus
    <3>3. CASE Goto(p, "sunoRefund") /\ SunoFails(p)
      <4>1. "sunoRefund" \in Locations \ {"video", "settle", "ask", "write"}
        OBVIOUS
      <4>2. copy' = copy /\ seen' = seen /\ paid' \in Int /\ faults' = faults
        BY <1>1, <3>1
      <4>3. reopened' \in Nat /\ reopened' >= reopened
        BY <1>1, <3>1
      <4>4. SunoFails(p)'
        BY <3>2, <3>3
      <4> HIDE DEF SunoTypes, Locations, Goto
      <4> QED BY <2>1, <3>3, <4>1, <4>2, <4>3, <4>4
    <3>4. CASE Goto(p, "save") \/ Goto(p, "idle")
      BY <2>2, <3>1, <3>4
    <3> QED BY <2>9, <3>3, <3>4 DEF SunoItem
  <2>10. CASE SunoSave(p)
    BY <2>3, <2>10 DEF SunoSave
  <2>11. pc[p] \notin {"video", "settle"}
    BY <1>1
  <2> QED BY <1>7, <2>4, <2>5, <2>6, <2>7, <2>8, <2>9, <2>10, <2>11
          DEF Poll, Finish, Advance, Recalculate
<1>8. ASSUME NEW p \in Pollers, Abort(p)
      PROVE  SunoTypes' /\ faults' >= faults /\ reopened' >= reopened
  <2>1. UNCHANGED <<task, copy, seen, paid>> /\ Goto(p, "idle") /\ Fault
    BY <1>8 DEF Abort
  <2> QED BY <1>1, <1>4, <2>1 DEF SunoFails, SunoStatus
<1>9. ASSUME NEW f \in Fetchers, Fetch(f)
      PROVE  SunoTypes' /\ faults' >= faults /\ reopened' >= reopened
  BY <1>1, <1>9 DEF Fetch, FetchRead, FetchAsk, FetchWrite
<1>10. CASE UNCHANGED vars
  BY <1>1, <1>10 DEF vars, SunoFails, SunoStatus
<1> QED BY <1>5, <1>6, <1>7, <1>8, <1>9, <1>10 DEF Next

LEMMA NextSuno ==
    ASSUME IsFiniteSet(Pollers), kind = "suno", SunoInv, [Next]_vars
    PROVE  SunoInv'
<1> DEFINE Holds == {"sweep", "dispatch", "suno", "sunoRefund"}
<1>1. /\ kind' = kind /\ SunoTypes /\ SunoTypes'
      /\ faults' >= faults /\ reopened' >= reopened
  BY KindIsFixed, NextSunoTypes DEF SunoInv
<1>2. SUFFICES ASSUME \A p : ~SunoMove(p) PROVE FALSE
  BY <1>1, SunoStep
<1>3. ASSUME UNCHANGED task PROVE row' = row /\ reopened' = reopened /\ Ended(row)' = Ended(row)
  BY <1>1, <1>3 DEF task, Ended
<1>4. ASSUME UNCHANGED <<pc, copy, seen>>, Ended(row) => Ended(row)' PROVE MayRefund' \subseteq MayRefund /\ Swept' = Swept
  BY <1>4 DEF MayRefund, Swept, SavesFailed, SunoFails, SunoStatus
<1>5. ASSUME NEW r, Save(r) PROVE reopened' = reopened + 1 \/ (Ended(row) => Ended(row)')
  BY <1>1, <1>5 DEF Save, Ended, SunoTypes
<1>6. paid \in Int /\ Quota \in Nat
  BY <1>1 DEF SunoTypes
<1>7. CASE Insert
  <2>1. UNCHANGED <<pc, copy, seen, paid>>
    BY <1>7 DEF Insert, money
  <2>2. reopened' = reopened + 1 \/ (Ended(row) => Ended(row)')
    BY <1>3, <1>5, <1>7 DEF Insert, Store
  <2>3. Swept' = Swept
    BY <2>1 DEF Swept
  <2> QED BY <1>2, <1>4, <1>6, <2>1, <2>2, <2>3 DEF SunoMove
<1>8. CASE UpstreamEnds \/ TimePasses \/ ChannelDeleted
  <2>1. UNCHANGED <<task, pc, copy, seen, paid>>
    BY <1>8 DEF UpstreamEnds, TimePasses, ChannelDeleted, money
  <2> QED BY <1>2, <1>3, <1>4, <1>6, <2>1 DEF SunoMove
<1>9. ASSUME NEW p \in Pollers, NEW x, Goto(p, x), NEW r, NEW y,
             copy' \in {copy, [copy EXCEPT ![p] = r]}, seen' \in {seen, [seen EXCEPT ![p] = y]}
      PROVE  /\ (Ended(row) => Ended(row)') => MayRefund' \subseteq MayRefund \cup {p}
             /\ p \in MayRefund' <=> ~(x = "save" /\ SunoFails(p)') /\ (~Ended(row)' \/ x \in Holds)
             /\ x # "refund" => Swept' \subseteq Swept \ {p}
             /\ Swept' \subseteq Swept \cup {p}
  <2>1. \A q \in Pollers \ {p} : pc'[q] = pc[q]
    BY <1>1, <1>9 DEF SunoTypes, Goto, Actors
  <2>2. pc'[p] = x
    BY <1>1, <1>9 DEF SunoTypes, Goto, Actors
  <2>3. \A q \in Pollers \ {p} : copy'[q] = copy[q] /\ seen'[q] = seen[q]
    BY <1>1, <1>9 DEF SunoTypes, Actors
  <2>4. \A q \in Pollers \ {p} : SavesFailed(q)' = SavesFailed(q)
    BY <2>1, <2>3 DEF SavesFailed, SunoFails, SunoStatus
  <2>5. SavesFailed(p)' <=> x = "save" /\ SunoFails(p)'
    BY <2>2 DEF SavesFailed
  <2> QED BY <2>1, <2>2, <2>4, <2>5 DEF MayRefund, Swept
<1>10. ASSUME NEW p \in Pollers, Poll(p) PROVE FALSE
  <2>1. p \in MayRefund <=> ~SavesFailed(p) /\ (~Ended(row) \/ pc[p] \in Holds)
    BY DEF MayRefund
  <2>2. ASSUME Ended(row) => Ended(row)', paid' = paid, NEW x, Goto(p, x), NEW r, NEW y,
               copy' \in {copy, [copy EXCEPT ![p] = r]}, seen' \in {seen, [seen EXCEPT ![p] = y]},
               x # "refund", p \in MayRefund' => p \in MayRefund
        PROVE  FALSE
    <3>1. MayRefund' \subseteq MayRefund \cup {p} /\ Swept' \subseteq Swept \ {p}
      BY <1>9, <2>2
    <3>2. MayRefund' \subseteq MayRefund /\ Swept' \subseteq Swept
      BY <2>2, <3>1
    <3> QED BY <1>2, <1>6, <2>2, <3>2 DEF SunoMove
  <2>3. UNCHANGED task => (Ended(row)' <=> Ended(row))
    BY <1>3
  <2>4. CASE SweepRead(p) \/ List(p)
    <3>1. UNCHANGED <<task, seen, paid>> /\ ~SavesFailed(p)
      BY <2>4 DEF SweepRead, List, money, SavesFailed
    <3>2. \/ /\ ~Ended(row) /\ copy' = [copy EXCEPT ![p] = row]
             /\ Goto(p, "sweep") \/ Goto(p, "dispatch")
          \/ copy' = copy /\ (Goto(p, "list") \/ Goto(p, "idle"))
      BY <2>4 DEF SweepRead, List, Read, Unfinished, Ended, Active, Terminal
    <3>3. (~Ended(row)' => ~Ended(row)) /\ (~Ended(row) => p \in MayRefund)
      BY <2>1, <2>3, <3>1
    <3>4. ASSUME NEW x \in {"list", "idle"}, Goto(p, x), copy' = copy PROVE FALSE
      <4>1. p \in MayRefund' => ~Ended(row)'
        BY <1>9, <3>1, <3>4
      <4> QED BY <2>2, <3>1, <3>3, <3>4, <4>1
    <3>5. ASSUME NEW x \in {"sweep", "dispatch"}, Goto(p, x), ~Ended(row),
                 copy' = [copy EXCEPT ![p] = row]
          PROVE  FALSE
      BY <2>2, <3>1, <3>3, <3>5
    <3>6. CASE copy' = copy /\ (Goto(p, "list") \/ Goto(p, "idle"))
      BY <3>4, <3>6
    <3>7. CASE /\ ~Ended(row) /\ copy' = [copy EXCEPT ![p] = row]
               /\ Goto(p, "sweep") \/ Goto(p, "dispatch")
      BY <3>5, <3>7
    <3> QED BY <3>2, <3>6, <3>7
  <2>5. CASE SweepUpdate(p)
    <3>1. UNCHANGED <<copy, seen, paid>> /\ p \in MayRefund
      BY <2>1, <2>5 DEF SweepUpdate, money, SavesFailed
    <3>2. CASE Wins(p)
      <4>1. Goto(p, "refund") /\ Ended(row)'
        BY <2>5, <3>2 DEF SweepUpdate, Store, Save, AsRow, Ended, Terminal
      <4>2. MayRefund' \subseteq MayRefund \ {p} /\ Swept' \subseteq Swept \cup {p}
        BY <1>9, <3>1, <4>1
      <4> QED BY <1>2, <1>6, <3>1, <4>2 DEF SunoMove
    <3>3. CASE ~Wins(p)
      <4>1. UNCHANGED task /\ Goto(p, "list")
        BY <2>5, <3>3 DEF SweepUpdate
      <4> QED BY <2>2, <2>3, <3>1, <4>1
    <3> QED BY <3>2, <3>3
  <2>6. CASE BulkFail(p)
    <3>1. UNCHANGED <<copy, seen, paid>> /\ p \in MayRefund /\ Goto(p, "idle") /\ Ended(row)'
      BY <2>1, <2>6 DEF BulkFail, Store, Save, AsRow, Ended, Terminal, money, SavesFailed
    <3> QED BY <2>2, <3>1
  <2>7. CASE Ask(p)
    <3>1. UNCHANGED <<task, copy, paid>> /\ p \in MayRefund
      BY <2>1, <2>7 DEF Ask, money, SavesFailed
    <3>2. CASE seen' = seen /\ Goto(p, "idle")
      BY <2>2, <2>3, <3>1, <3>2
    <3>3. ASSUME NEW z, seen' = [seen EXCEPT ![p] = z], Goto(p, "suno") PROVE FALSE
      <4>1. copy' \in {copy, [copy EXCEPT ![p] = row]}
        BY <3>1
      <4>2. seen' \in {seen, [seen EXCEPT ![p] = z]}
        BY <3>3
      <4>3. Goto(p, "suno")
        BY <3>3
      <4>4. (Ended(row) => Ended(row)') /\ paid' = paid
        BY <2>3, <3>1
      <4>5. /\ (Ended(row) => Ended(row)') => MayRefund' \subseteq MayRefund \cup {p}
            /\ "suno" # "refund" => Swept' \subseteq Swept \ {p}
        BY <1>9, <4>1, <4>2, <4>3
      <4>6. MayRefund' \subseteq MayRefund /\ Swept' \subseteq Swept
        BY <3>1, <4>4, <4>5
      <4> QED BY <1>2, <1>6, <4>4, <4>6 DEF SunoMove
    <3> QED BY <2>7, <3>2, <3>3 DEF Ask
  <2>8. CASE Refund(p)
    <3>1. UNCHANGED <<task, copy, seen>> /\ paid' = paid - Quota
      BY <2>8 DEF Refund
    <3>2. CASE pc[p] = "refund"
      <4>1. Goto(p, "idle") /\ p \in Swept /\ (p \in MayRefund <=> ~Ended(row))
        BY <2>1, <2>8, <3>2 DEF Refund, Swept, SavesFailed
      <4>2. MayRefund' \subseteq MayRefund /\ Swept' \subseteq Swept \ {p}
        BY <1>9, <2>3, <3>1, <4>1
      <4> QED BY <1>2, <1>6, <3>1, <4>1, <4>2 DEF SunoMove
    <3>3. CASE pc[p] = "sunoRefund"
      <4>1. Goto(p, "save") /\ p \in MayRefund /\ SunoFails(p)
        BY <1>1, <2>1, <2>8, <3>3 DEF Refund, SunoTypes, SavesFailed
      <4>2. SunoFails(p)' = SunoFails(p)
        BY <3>1 DEF SunoFails, SunoStatus
      <4>3. MayRefund' \subseteq MayRefund \ {p} /\ Swept' \subseteq Swept
        BY <1>9, <2>3, <3>1, <4>1, <4>2
      <4> QED BY <1>2, <1>6, <3>1, <4>1, <4>3 DEF SunoMove
    <3> QED BY <2>8, <3>2, <3>3 DEF Refund
  <2>9. CASE SunoItem(p)
    <3>1. UNCHANGED <<task, copy, seen, paid>> /\ p \in MayRefund
      BY <2>1, <2>9 DEF SunoItem, money, SavesFailed
    <3>2. PICK x \in {"sunoRefund", "save", "idle"} : Goto(p, x)
      BY <2>9 DEF SunoItem
    <3> QED BY <2>2, <2>3, <3>1, <3>2
  <2>10. CASE SunoSave(p)
    <3>1. UNCHANGED <<copy, seen, paid>> /\ Goto(p, "idle")
      BY <2>10 DEF SunoSave, money
    <3>2. SunoFails(p) => Ended(row)'
      BY <1>1, <2>10 DEF SunoSave, Save, Ended
    <3>3. CASE Ended(row) => Ended(row)'
      <4>1. p \in MayRefund' => ~Ended(row)'
        BY <1>9, <3>1
      <4>2. p \in MayRefund' => p \in MayRefund
        BY <2>1, <3>2, <3>3, <4>1 DEF SavesFailed
      <4> QED BY <2>2, <3>1, <3>3, <4>2
    <3>4. CASE reopened' = reopened + 1
      <4>1. Swept' \subseteq Swept \ {p}
        BY <1>9, <3>1
      <4> QED BY <1>2, <1>6, <3>1, <3>4, <4>1 DEF SunoMove
    <3> QED BY <1>5, <2>10, <3>3, <3>4 DEF SunoSave
  <2>11. pc[p] \notin {"video", "settle"}
    BY <1>1 DEF SunoTypes
  <2> QED BY <1>10, <2>4, <2>5, <2>6, <2>7, <2>8, <2>9, <2>10, <2>11
          DEF Poll, Finish, Advance, Recalculate
<1>11. ASSUME NEW p \in Pollers, Abort(p) PROVE FALSE
  <2>1. UNCHANGED <<task, copy, seen, paid>> /\ Goto(p, "idle") /\ faults' = faults + 1
    BY <1>11 DEF Abort, Fault, money
  <2>2. MayRefund' \subseteq MayRefund \cup {p} /\ Swept' \subseteq Swept \ {p}
    BY <1>3, <1>9, <2>1
  <2> QED BY <1>2, <1>6, <2>1, <2>2 DEF SunoMove
<1>12. ASSUME NEW f \in Fetchers, Fetch(f) PROVE FALSE
  BY <1>1, <1>12 DEF Fetch, FetchRead, FetchAsk, FetchWrite, SunoTypes, Unqueried
<1>13. CASE UNCHANGED vars
  <2>1. UNCHANGED <<task, pc, copy, seen, paid>>
    BY <1>13 DEF vars, task
  <2> QED BY <1>2, <1>3, <1>4, <1>6, <2>1 DEF SunoMove
<1> QED BY <1>7, <1>8, <1>10, <1>11, <1>12, <1>13 DEF Next

-----------------------------------------------------------------------------

RefundInv ==
    /\ kind \in {"video", "realtime"} => QueriedInv /\ ReopenedInv /\ CountInv
    /\ kind = "suno" => SunoInv

\* With any finite number of loops, whatever the timeout, the answers, the queries, the
\* errors and crashes and whatever becomes of its channel, a task is refunded no more
\* often than RefundsBounded says: a video task once, one its users query once more for
\* each time a query reopens it after it has lapsed, a Suno task once by every loop for
\* each time it ends, and once more for every error.
THEOREM RefundsAreBounded == ASSUME IsFiniteSet(Pollers) PROVE Spec => []RefundsBounded
<1>1. Init => RefundInv
  BY InitQueried, InitSuno DEF RefundInv
<1>2. RefundInv /\ [Next]_vars => RefundInv'
  BY NextQueried, NextReopened, NextCount, NextSuno, KindIsFixed DEF RefundInv
<1>3. Init => kind \in {"video", "realtime", "suno"}
  BY DEF Init
<1>4. kind \in {"video", "realtime", "suno"} /\ [Next]_vars => (kind \in {"video", "realtime", "suno"})'
  BY KindIsFixed
<1>5. RefundInv /\ kind \in {"video", "realtime", "suno"} => RefundsBounded
  <2> SUFFICES ASSUME RefundInv, kind \in {"video", "realtime", "suno"} PROVE RefundsBounded
    OBVIOUS
  <2>1. CASE kind = "suno"
    <3>1. SunoTypes /\ paid >= Quota * SunoToCome
      BY <2>1 DEF RefundInv, SunoInv
    <3>2. PICK m \in Nat, c \in Nat : m = Cardinality(MayRefund) /\ c = Cardinality(Swept)
      BY Counting DEF MayRefund, Swept
    <3>3. Loops \in Nat /\ reopened \in Nat /\ faults \in Nat /\ paid \in Int
      BY <3>1, FS_CardinalityType DEF Loops, SunoTypes
    <3>4. PICK b \in Int : b = Loops * (1 + reopened)
      BY <3>3, Growing
    <3>5. SunoToCome = 1 + m + c - b - faults
      BY <3>2, <3>4 DEF SunoToCome
    <3>6. SunoToCome \in Int /\ 1 - b - faults \in Int /\ 1 - b - faults <= SunoToCome
      BY <3>3, <3>5
    <3>7. paid >= Quota * (1 - b - faults)
      BY <3>1, <3>3, <3>6, Accounting
    <3> QED BY <2>1, <3>4, <3>7 DEF RefundsBounded, Loops
  <2>2. CASE kind \in {"video", "realtime"}
    <3>1. paid \in Int /\ reopened \in Nat /\ paid >= Quota * ToCome
      BY <2>2 DEF RefundInv, QueriedInv, Types, ReopenedInv, CountInv
    <3>2. PICK c \in Nat : c = Cardinality(Due)
      BY Counting DEF Due
    <3>3. Open \in {0, 1} /\ ToCome = Open + c - reopened
      BY <3>2 DEF Open, ToCome
    <3>4. ToCome \in Int /\ -reopened \in Int /\ -reopened <= ToCome
      BY <3>1, <3>3
    <3>5. paid >= Quota * (-reopened)
      BY <3>1, <3>4, Accounting
    <3>6. Quota * (-reopened) = -(Quota * reopened)
      BY <3>1
    <3> QED BY <2>2, <3>5, <3>6 DEF RefundInv, ReopenedInv, RefundsBounded
  <2> QED BY <2>1, <2>2
<1> QED BY <1>1, <1>2, <1>3, <1>4, <1>5, PTL DEF Spec

=============================================================================
