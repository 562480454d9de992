---------------------------- MODULE TaskBilling ----------------------------
(***************************************************************************)
(* Life of one asynchronous task (video, music) and of the quota charged   *)
(* for it: service/task_polling.go, service/task_billing.go, the           *)
(* conditional updates of model/task.go, the submission at the end of      *)
(* controller/relay.go and the realtime query of relay/relay_task.go.      *)
(*                                                                         *)
(* The task's row is shared by the polling loops (one per master node; two *)
(* overlap during a rolling restart) and by the requests of the user who   *)
(* asks for its state.  Everyone works on a copy it has read: the upstream *)
(* is asked, and the row written back, in later steps.                     *)
(***************************************************************************)
EXTENDS Integers, FiniteSets

CONSTANTS
    Pollers,       \* polling loops
    Fetchers,      \* requests of videoFetchByIDRespBodyBuilder
    Kinds,         \* what the task may be: see kind
    Quota,         \* task.Quota, charged when the task was submitted
    Actuals,       \* quota a finished task may be repriced at
    TaskTimeout,   \* constant.TaskTimeoutMinutes > 0
    ChannelMayGo,  \* the channel may be deleted while the task runs
    Garbled,       \* the upstream may answer without a status
    MaxFetches,    \* bound on the user's requests
    MaxFaults      \* bound on database errors and process crashes

ASSUME TaskAssumption ==
    /\ Kinds \subseteq {"video", "realtime", "suno"}
    /\ {TaskTimeout, ChannelMayGo, Garbled} \subseteq BOOLEAN
    /\ Quota \in Nat \ {0}
    /\ Actuals \subseteq Nat \ {0}
    /\ Pollers \cap Fetchers = {}
    /\ MaxFetches \in Nat
    /\ MaxFaults \in Nat

VARIABLES
    row,       \* the task's row: its status, whether progress is 100%
    upstream,  \* what has become of the task upstream
    overdue,   \* submit_time is before the timeout's cutoff
    channel,   \* the channel still exists
    kind,      \* a video task, one whose channel is of type Gemini or Vertex
               \* ("realtime": users may query the upstream), or a Suno task
    pc, copy,  \* of every poller and fetcher: where it is, the row it read
    seen,      \* the answer of the upstream it is working on
    paid,      \* history: what the user has paid for the task, net
    price,     \* history: what a successful task was repriced at
    harmed,    \* history: an error or a crash has interrupted a handler
    reopened,  \* history: how often the row had ended and was unfinished again
    lapsed,    \* history: the timeout, or an answer without a status, has ended the row
    fetches, faults

vars == <<row, upstream, overdue, channel, kind, pc, copy, seen, paid, price,
          harmed, reopened, lapsed, fetches, faults>>

\* NOT_START, SUBMITTED and QUEUED are handled alike; "absent" is no row.
Active == {"NOT_START", "IN_PROGRESS"}
Terminal == {"SUCCESS", "FAILURE"}
Statuses == Active \cup Terminal
Row == [status : Statuses \cup {"absent"}, done : BOOLEAN]

\* "nothing" is an answer without a status, "complete" one of a task in progress at
\* 100%; "reason" is a Suno item whose fail_reason is set while its status is not yet
\* FAILURE.
Answers == {"IN_PROGRESS", "SUCCESS", "FAILURE", "nothing", "complete", "reason"}

Actors == Pollers \cup Fetchers

Locations == {"idle", "sweep", "list", "dispatch", "video", "suno", "refund",
              "settle", "sunoRefund", "save", "ask", "write"}

Init ==
    /\ row = [status |-> "absent", done |-> FALSE]
    /\ upstream = "running"
    /\ overdue = FALSE /\ channel = TRUE /\ kind \in Kinds
    /\ pc = [a \in Actors |-> "idle"]
    /\ copy = [a \in Actors |-> row]
    /\ seen = [a \in Actors |-> "nothing"]
    /\ paid = Quota /\ price = Quota
    /\ harmed = FALSE /\ reopened = 0 /\ lapsed = FALSE /\ fetches = 0 /\ faults = 0

Goto(a, l) == pc' = [pc EXCEPT ![a] = l]

Unfinished == ~row.done /\ row.status \in Active

\* Query results; the copy of the row is what the actor works on from here.
Read(a) == copy' = [copy EXCEPT ![a] = row]

\* A row that needs no more billing.  A Suno task may end by its progress alone.
Ended(r) == r.status \in Terminal \/ (kind = "suno" /\ r.done)

Save(r) ==
    /\ row' = r
    /\ reopened' = IF Ended(row) /\ ~Ended(r) THEN reopened + 1 ELSE reopened

\* The row an answer stands for: its progress is the one of the status, or what the
\* upstream says (of a task that has ended nobody reads it).
AsRow(answer) ==
    IF answer = "complete" THEN [status |-> "IN_PROGRESS", done |-> TRUE]
    ELSE [status |-> answer, done |-> answer \in Terminal]

Store(answer) == Save(AsRow(answer))

\* UpdateWithStatus(copy.status): UPDATE ... WHERE status = the one read.
Wins(a) == row.status = copy[a].status

task == <<row, reopened>>

\* An answer is written if something has changed and the status is still the one read.
\* (What changes may be a progress below 100% or the data.)
Update(a, answer) ==
    \/ Wins(a) /\ Store(answer)
    \/ (~Wins(a) \/ AsRow(answer) = copy[a]) /\ UNCHANGED task

Fault == faults < MaxFaults /\ faults' = faults + 1

world == <<upstream, overdue, channel, kind>>
money == <<paid, price>>
past == <<harmed, lapsed>>
bounds == <<fetches, faults>>

-----------------------------------------------------------------------------
(* The environment. *)

\* The submission was accepted and billed; its row is inserted, or the error is
\* only logged.
Insert ==
    /\ row.status = "absent" /\ ~harmed
    /\ \/ Store("NOT_START") /\ UNCHANGED <<harmed, faults>>
       \/ Fault /\ harmed' = TRUE /\ UNCHANGED task
    /\ UNCHANGED <<world, money, pc, copy, seen, lapsed, fetches>>

UpstreamEnds ==
    /\ row.status # "absent" /\ upstream = "running"
    /\ upstream' \in {"succeeded", "failed"}
    /\ UNCHANGED <<task, overdue, channel, kind, pc, copy, seen, money, past, bounds>>

TimePasses ==
    /\ TaskTimeout /\ row.status # "absent" /\ ~overdue
    /\ overdue' = TRUE
    /\ UNCHANGED <<task, upstream, channel, kind, pc, copy, seen, money, past, bounds>>

ChannelDeleted ==
    /\ ChannelMayGo /\ channel
    /\ channel' = FALSE
    /\ UNCHANGED <<task, upstream, overdue, kind, pc, copy, seen, money, past, bounds>>

\* What FetchTask and ParseTaskResult may return now.
Answer ==
    {IF upstream = "running" THEN "IN_PROGRESS"
     ELSE IF upstream = "succeeded" THEN "SUCCESS" ELSE "FAILURE"}
    \cup (IF Garbled THEN {"nothing"} ELSE {})
    \cup (IF kind = "suno" /\ upstream = "failed" THEN {"reason"} ELSE {})

\* What another gateway may say of a task in the format of this one: its own progress,
\* which overrides the one of the status.
Relayed == IF Garbled /\ kind # "suno" /\ upstream = "running" THEN {"complete"} ELSE {}

-----------------------------------------------------------------------------
(* One round of TaskPollingLoop, for this task. *)

\* Mutant of SweepRead: only tasks the upstream has started are swept.
SweepReadStarted(p) ==
    /\ pc[p] = "idle"
    /\ IF overdue /\ ~row.done /\ row.status = "IN_PROGRESS"
       THEN Read(p) /\ Goto(p, "sweep")
       ELSE copy' = copy /\ Goto(p, "list")
    /\ UNCHANGED <<task, world, seen, money, past, bounds>>

\* sweepTimedOutTasks reads the overdue tasks first.
SweepRead(p) ==
    /\ pc[p] = "idle"
    /\ IF overdue /\ Unfinished
       THEN Read(p) /\ Goto(p, "sweep")
       ELSE copy' = copy /\ Goto(p, "list")
    /\ UNCHANGED <<task, world, seen, money, past, bounds>>

\* ...and fails each of them with a conditional update; the winner refunds.
SweepUpdate(p) ==
    /\ pc[p] = "sweep"
    /\ IF Wins(p) THEN Store("FAILURE") /\ Goto(p, "refund")
       ELSE UNCHANGED task /\ Goto(p, "list")
    /\ lapsed' = (lapsed \/ Wins(p))
    /\ UNCHANGED <<world, copy, seen, money, harmed, bounds>>

List(p) ==
    /\ pc[p] = "list"
    /\ IF Unfinished THEN Read(p) /\ Goto(p, "dispatch")
       ELSE copy' = copy /\ Goto(p, "idle")
    /\ UNCHANGED <<task, world, seen, money, past, bounds>>

\* TaskBulkUpdateByID: a task without channel is failed by an unconditional update
\* and nothing else.
BulkFail(p) ==
    /\ pc[p] = "dispatch" /\ ~channel
    /\ Store("FAILURE")
    /\ Goto(p, "idle")
    /\ UNCHANGED <<world, copy, seen, money, past, bounds>>

\* The upstream is asked; no usable answer ends the round.
Ask(p) ==
    /\ pc[p] = "dispatch" /\ channel
    /\ \/ /\ \E x \in Answer \cup Relayed : seen' = [seen EXCEPT ![p] = x]
          /\ Goto(p, IF kind = "suno" THEN "suno" ELSE "video")
       \/ seen' = seen /\ Goto(p, "idle")
    /\ UNCHANGED <<task, world, copy, money, past, bounds>>

\* Mutant of Judge: an answer without a status is written as it is.
JudgeVerbatim(x) == x

\* updateVideoSingleTask takes an answer without a status for a failure.
Judge(x) == IF x = "nothing" THEN "FAILURE" ELSE x

\* Mutant of Finish: the loser of the update bills too.
FinishBillsAnyway(p) ==
    /\ pc[p] = "video" /\ Judge(seen[p]) \in Terminal
    /\ IF Wins(p) THEN Store(Judge(seen[p])) ELSE UNCHANGED task
    /\ Goto(p, IF Judge(seen[p]) = "SUCCESS" THEN "settle" ELSE "refund")
    /\ lapsed' = (lapsed \/ (Wins(p) /\ seen[p] = "nothing"))
    /\ UNCHANGED <<world, copy, seen, money, harmed, bounds>>

\* A final status is written if the task is still where it was read, and only
\* the winner bills.
Finish(p) ==
    /\ pc[p] = "video" /\ Judge(seen[p]) \in Terminal
    /\ IF Wins(p)
       THEN /\ Store(Judge(seen[p]))
            /\ Goto(p, IF Judge(seen[p]) = "SUCCESS" THEN "settle" ELSE "refund")
       ELSE UNCHANGED task /\ Goto(p, "idle")
    /\ lapsed' = (lapsed \/ (Wins(p) /\ seen[p] = "nothing"))
    /\ UNCHANGED <<world, copy, seen, money, harmed, bounds>>

\* Mutant of Advance: progress is saved without the condition.
AdvanceSaves(p) ==
    /\ pc[p] = "video" /\ Judge(seen[p]) \notin Terminal
    /\ Store(Judge(seen[p]))
    /\ Goto(p, "idle")
    /\ UNCHANGED <<world, copy, seen, money, past, bounds>>

\* Progress is written the same way; nothing is billed.
Advance(p) ==
    /\ pc[p] = "video" /\ Judge(seen[p]) \notin Terminal
    /\ Update(p, Judge(seen[p]))
    /\ Goto(p, "idle")
    /\ UNCHANGED <<world, copy, seen, money, past, bounds>>

\* Mutant of Recalculate: the price is charged without the hold taken off.
RecalculateGross(p) ==
    /\ pc[p] = "settle"
    /\ \E a \in Actuals \cup {Quota} :
          /\ price' = a
          /\ paid' = paid + a
    /\ Goto(p, "idle")
    /\ UNCHANGED <<task, world, copy, seen, past, bounds>>

\* settleTaskBillingOnComplete: no adjustment, or RecalculateTaskQuota.
Recalculate(p) ==
    /\ pc[p] = "settle"
    /\ \E a \in Actuals \cup {Quota} :
          /\ price' = a
          /\ paid' = paid + (a - Quota)
    /\ Goto(p, "idle")
    /\ UNCHANGED <<task, world, copy, seen, past, bounds>>

\* RefundTaskQuota. In updateSunoTasks it comes before the row is saved.
Refund(p) ==
    /\ pc[p] \in {"refund", "sunoRefund"}
    /\ paid' = paid - Quota
    /\ Goto(p, IF pc[p] = "sunoRefund" THEN "save" ELSE "idle")
    /\ UNCHANGED <<task, world, copy, seen, price, past, bounds>>

\* An item without a status, or with a reason only, keeps the status read.
SunoStatus(p) == IF seen[p] \in Statuses THEN seen[p] ELSE copy[p].status

SunoFails(p) == seen[p] = "reason" \/ SunoStatus(p) = "FAILURE"

\* taskNeedsUpdate; an unchanged status may come with other changes.
SunoItem(p) ==
    /\ pc[p] = "suno"
    /\ \/ Goto(p, IF SunoFails(p) THEN "sunoRefund" ELSE "save")
       \/ ~SunoFails(p) /\ SunoStatus(p) = copy[p].status /\ Goto(p, "idle")
    /\ UNCHANGED <<task, world, copy, seen, money, past, bounds>>

\* Mutant of SunoSave: the new status is left out of the row.
SunoSaveKeepsStatus(p) ==
    /\ pc[p] = "save"
    /\ Save([status |-> copy[p].status, done |-> seen[p] = "SUCCESS"])
    /\ Goto(p, "idle")
    /\ UNCHANGED <<world, copy, seen, money, past, bounds>>

\* task.Update() saves the copy whatever the row has become.
SunoSave(p) ==
    /\ pc[p] = "save"
    /\ Save([status |-> SunoStatus(p), done |-> SunoFails(p) \/ seen[p] = "SUCCESS"])
    /\ Goto(p, "idle")
    /\ UNCHANGED <<world, copy, seen, money, past, bounds>>

\* The process dies, or an update or the refund returns an error: the round is
\* over, and a bill that was due is never paid.
Abort(p) ==
    /\ pc[p] # "idle" /\ Fault
    /\ Goto(p, "idle")
    /\ harmed' = (harmed \/ pc[p] \in {"refund", "sunoRefund", "settle", "save"})
    /\ UNCHANGED <<task, world, copy, seen, money, lapsed, fetches>>

-----------------------------------------------------------------------------
(* tryRealtimeFetch: the user asks, the gateway asks the upstream. *)

FetchRead(f) ==
    /\ pc[f] = "idle" /\ fetches < MaxFetches
    /\ kind = "realtime" /\ channel /\ row.status # "absent"
    /\ Read(f) /\ Goto(f, "ask") /\ fetches' = fetches + 1
    /\ UNCHANGED <<task, world, seen, money, past, faults>>

FetchAsk(f) ==
    /\ pc[f] = "ask"
    /\ \/ (\E x \in Answer : seen' = [seen EXCEPT ![f] = x]) /\ Goto(f, "write")
       \/ seen' = seen /\ Goto(f, "idle")
    /\ UNCHANGED <<task, world, copy, money, past, bounds>>

\* Mutant of FetchWrite: the answer is written unconditionally.
FetchWriteSaves(f) ==
    /\ pc[f] = "write"
    /\ IF seen[f] # "nothing" THEN Store(seen[f]) ELSE UNCHANGED task
    /\ Goto(f, "idle")
    /\ UNCHANGED <<world, copy, seen, money, past, bounds>>

\* The answer is written if the row is where it was read, and nothing is billed.
FetchWrite(f) ==
    /\ pc[f] = "write"
    /\ IF seen[f] # "nothing" THEN Update(f, seen[f]) ELSE UNCHANGED task
    /\ Goto(f, "idle")
    /\ UNCHANGED <<world, copy, seen, money, past, bounds>>

-----------------------------------------------------------------------------

Poll(p) == SweepRead(p) \/ SweepUpdate(p) \/ List(p) \/ BulkFail(p) \/ Ask(p)
           \/ Finish(p) \/ Advance(p) \/ Recalculate(p) \/ Refund(p)
           \/ SunoItem(p) \/ SunoSave(p)

Fetch(f) == FetchRead(f) \/ FetchAsk(f) \/ FetchWrite(f)

Next ==
    \/ Insert \/ UpstreamEnds \/ TimePasses \/ ChannelDeleted
    \/ \E p \in Pollers : Poll(p) \/ Abort(p)
    \/ \E f \in Fetchers : Fetch(f)

Spec == Init /\ [][Next]_vars

\* The loops run for ever, every 15 seconds, and the clock advances; nothing is
\* assumed of the upstream.
LiveSpec == Spec /\ WF_vars(TimePasses) /\ \A p \in Pollers : WF_vars(Poll(p))

-----------------------------------------------------------------------------
(* Properties. *)

\* The types of the state.
TypeOK ==
    /\ row \in Row
    /\ upstream \in {"running", "succeeded", "failed"} /\ kind \in Kinds
    /\ {overdue, channel, harmed, lapsed} \subseteq BOOLEAN
    /\ pc \in [Actors -> Locations]
    /\ copy \in [Actors -> Row]
    /\ seen \in [Actors -> Answers]
    /\ paid \in Int /\ {price, reopened} \subseteq Nat
    /\ fetches \in 0..MaxFetches /\ faults \in 0..MaxFaults

\* A task's charge is refunded at most once.
RefundedAtMostOnce == paid >= 0

\* However the loops, the timeout sweep and the user's queries interleave, whatever the
\* upstream answers and wherever a process dies: a task is refunded once at most for
\* each time it has ended, which is once unless a query reopens a task that was ended
\* without the upstream having said so.  Every loop may refund a Suno task, and an error
\* once more.
RefundsBounded ==
    IF kind = "suno"
    THEN paid >= Quota * (1 - Cardinality(Pollers) * (1 + reopened) - faults)
    ELSE /\ paid >= -(Quota * reopened)
         /\ reopened > 0 => kind = "realtime" /\ lapsed

\* When no loop is at work and nothing has failed, what the user has paid for a
\* finished task is its price if it succeeded and nothing if it failed.
OutcomeIsPaid ==
    (\A p \in Pollers : pc[p] = "idle") /\ ~harmed =>
        /\ row.status = "SUCCESS" => paid = price
        /\ row.status = "FAILURE" => paid = 0

\* When no loop is at work and nothing has failed, a video task has been paid for as it
\* ended (a query ends the other kinds without billing them).
VideoOutcomeIsPaid == kind = "video" => OutcomeIsPaid

\* A video task that has ended is never moved again, by a stale answer or otherwise.
OutcomeIsFinal == [][kind = "video" /\ row.status \in Terminal => row' = row]_vars

\* With the timeout on, every recorded video task leaves the list of unfinished ones even
\* if its upstream never ends it.
TaskEnds ==
    (kind = "video" /\ row.status # "absent") ~> (row.done \/ row.status \in Terminal)

\* With the timeout on, every recorded video task gets a final status.
TaskIsDecided == (kind = "video" /\ row.status # "absent") ~> (row.status \in Terminal)
=============================================================================
