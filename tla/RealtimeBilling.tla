-------------------------- MODULE RealtimeBilling --------------------------
(***************************************************************************)
(* Billing of a realtime (WebSocket) request: OpenaiRealtimeHandler of      *)
(* relay/channel/openai/relay-openai.go under WssHelper of                  *)
(* relay/websocket.go, with the two charging paths of service/quota.go.     *)
(*                                                                          *)
(* Three goroutines share the counters usage, localUsage and sumUsage with  *)
(* no lock: a reader of the client, a reader of the upstream ("target") and *)
(* the handler ("main").  The target reader charges every finished response *)
(* (a round) directly against the wallet; main waits until one side ends,   *)
(* flushes what is left and settles the billing session with the total.     *)
(* A token costs one unit of quota.                                         *)
(***************************************************************************)
EXTENDS Integers

CONSTANTS
    Usages,         \* total tokens of a response.done event
    LocalTokens,    \* tokens the gateway counts in any other event
    FixedPrice,     \* price of the call when priceData.UsePrice, else 0
    Hold,           \* quota pre-consumed by the billing session
    InitialWallet,
    Capacity,       \* capacity of errChan
    MaxEvents,      \* bound on the events read from both connections
    MaxFaults       \* bound on database errors and token refusals

ASSUME ConstantsAssumption ==
    /\ Usages \subseteq Nat
    /\ LocalTokens \subseteq Nat
    /\ FixedPrice \in Nat
    /\ InitialWallet \in Nat
    /\ Hold \in 0..InitialWallet
    /\ Capacity \in Nat
    /\ MaxEvents \in Nat
    /\ MaxFaults \in Nat

\* make(chan error, 2)
ASSUME CapacityAssumption == Capacity = 2

VARIABLES
    wallet,        \* users.quota, the hold already taken
    usage,         \* usage of the round in progress, reported by the upstream
    localUsage,    \* tokens counted by the gateway since the last round
    sumUsage,      \* the total the session is settled with
    pc,            \* where the three goroutines are
    bill,          \* the counter a preConsumeUsage call was given
    held,          \* the tokens of main's counter once the target reader has replaced
                   \* it, which main still has; else Current
    need,          \* the quota it found affordable
    errs,          \* errors buffered in errChan
    closed,        \* the sides whose closed channel is closed
    open,          \* the connections that are open
    settled,       \* history: quota the session was settled with
    upstream,      \* history: tokens the upstream reported
    counted,       \* history: tokens of both counters
    charged,       \* history: tokens charged by rounds and flushes
    refused,       \* history: tokens whose charge was refused
    roundsPaid,    \* history: quota taken by rounds and flushes
    alone,         \* history: the target reader had ended before main flushed
    events, faults

counters == <<usage, localUsage, sumUsage>>
channels == <<errs, closed, open>>
history == <<settled, upstream, counted, charged, refused, roundsPaid, alone>>
vars == <<wallet, counters, pc, bill, need, held, channels, history, events, faults>>

Readers == {"client", "target"}
Processes == Readers \cup {"main"}
Billers == {"target", "main"}
Counter == {"usage", "local"}
Current == -1

\* A reader ends in "done", through "send" when it has an error to report and
\* through "close" when its connection is gone ("sendClose" does both).
Locations == {"read", "forward", "sum", "check", "charge", "clear",
              "send", "sendClose", "close", "select", "hangup", "flushUsage",
              "flushLocal", "take", "settle", "closeTarget", "done"}

Init ==
    /\ wallet = InitialWallet - Hold
    /\ usage = 0 /\ localUsage = 0 /\ sumUsage = 0
    /\ pc = [p \in Processes |-> IF p = "main" THEN "select" ELSE "read"]
    /\ bill = [p \in Billers |-> "usage"]
    /\ need = [p \in Billers |-> 0]
    /\ held = Current
    /\ errs = 0 /\ closed = {} /\ open = Readers
    /\ settled = 0 /\ upstream = 0 /\ counted = 0
    /\ charged = 0 /\ refused = 0 /\ roundsPaid = 0 /\ alone = FALSE
    /\ events = 0 /\ faults = 0

Goto(p, l) == pc' = [pc EXCEPT ![p] = l]
Running(p) == pc[p] # "done"
Peer(r) == IF r = "client" THEN "target" ELSE "client"

\* calculateAudioQuota never returns less than one.
RoundPrice(n) == IF n = 0 THEN 1 ELSE n

\* A call works on the object it was given: main's may have been replaced since.
Amount(p) ==
    IF p = "main" /\ held # Current THEN held
    ELSE IF bill[p] = "usage" THEN usage ELSE localUsage

\* Main is at work on its counter.
Using(counter) == pc["main"] \in {"sum", "check"} /\ bill["main"] = counter

\* One event of the bounded number of events of a run.
Event ==
    /\ events < MaxEvents
    /\ events' = events + 1

\* localUsage += n.  The two readers race on it: while the other one runs the
\* addition may be lost (overwritten, or made to an object just replaced, which
\* main may have).
AddLocal(r, n) ==
    /\ counted' = counted + n
    /\ \/ localUsage' = localUsage + n /\ held' = held
       \/ Running(Peer(r)) /\ localUsage' = localUsage /\ held' = held
       \/ /\ r = "client" /\ Running("target") /\ Using("local") /\ held # Current
          /\ held' = held + n /\ localUsage' = localUsage

-----------------------------------------------------------------------------
(* The readers. *)

\* The client reader counts the event before it forwards it.
ClientEvent ==
    /\ pc["client"] = "read" /\ "client" \in open
    /\ Event
    /\ \E n \in LocalTokens : AddLocal("client", n)
    /\ Goto("client", "forward")
    /\ UNCHANGED <<wallet, usage, sumUsage, bill, need, channels, settled,
                   upstream, charged, refused, roundsPaid, alone, faults>>

\* Mutant of ResponseDone: the wrong counter is billed.
ResponseDoneBillsLocal ==
    /\ pc["target"] = "read" /\ "target" \in open
    /\ Event
    /\ \E u \in Usages :
          /\ usage' = usage + u
          /\ upstream' = upstream + u
          /\ counted' = counted + u
    /\ bill' = [bill EXCEPT !["target"] = "local"]
    /\ Goto("target", "sum")
    /\ UNCHANGED <<wallet, localUsage, sumUsage, need, held, channels, settled,
                   charged, refused, roundsPaid, alone, faults>>

\* response.done with the usage of the upstream: the round is billed.
ResponseDone ==
    /\ pc["target"] = "read" /\ "target" \in open
    /\ Event
    /\ \E u \in Usages :
          /\ usage' = usage + u
          /\ upstream' = upstream + u
          /\ counted' = counted + u
    /\ bill' = [bill EXCEPT !["target"] = "usage"]
    /\ Goto("target", "sum")
    /\ UNCHANGED <<wallet, localUsage, sumUsage, need, held, channels, settled,
                   charged, refused, roundsPaid, alone, faults>>

\* response.done without usage: the gateway's own count is billed.
ResponseDoneUncounted ==
    /\ pc["target"] = "read" /\ "target" \in open
    /\ Event
    /\ \E n \in LocalTokens : AddLocal("target", n)
    /\ bill' = [bill EXCEPT !["target"] = "local"]
    /\ Goto("target", "sum")
    /\ UNCHANGED <<wallet, usage, sumUsage, need, channels, settled, upstream,
                   charged, refused, roundsPaid, alone, faults>>

\* Any other event is counted and forwarded.
TargetEvent ==
    /\ pc["target"] = "read" /\ "target" \in open
    /\ Event
    /\ \E n \in LocalTokens : AddLocal("target", n)
    /\ Goto("target", "forward")
    /\ UNCHANGED <<wallet, usage, sumUsage, bill, need, channels, settled,
                   upstream, charged, refused, roundsPaid, alone, faults>>

Idle == UNCHANGED <<wallet, counters, bill, need, held, open, history, events, faults>>

\* A message that cannot be parsed or counted, or a panic while handling it.
BadEvent(r) ==
    /\ pc[r] = "read" /\ r \in open
    /\ Goto(r, "send")
    /\ Idle /\ UNCHANGED <<errs, closed>>

\* ReadMessage fails: an orderly close, or an error (a read deadline passed,
\* a connection this side has closed).
ReadEnds(r) ==
    /\ pc[r] = "read"
    /\ \/ r \in open /\ Goto(r, "close")
       \/ Goto(r, "sendClose")
    /\ Idle /\ UNCHANGED <<errs, closed>>

Forward(r) ==
    /\ pc[r] = "forward"
    /\ \/ Peer(r) \in open /\ Goto(r, "read")
       \/ Goto(r, "send")
    /\ Idle /\ UNCHANGED <<errs, closed>>

\* Mutant of Send: the return after the send is missing.
SendAndContinue(r) ==
    /\ pc[r] \in {"send", "sendClose"}
    /\ errs < Capacity
    /\ errs' = errs + 1
    /\ Goto(r, IF pc[r] = "send" THEN "read" ELSE "close")
    /\ Idle /\ UNCHANGED closed

\* errChan <- err blocks while the channel is full.
Send(r) ==
    /\ pc[r] \in {"send", "sendClose"}
    /\ errs < Capacity
    /\ errs' = errs + 1
    /\ Goto(r, IF pc[r] = "send" THEN "done" ELSE "close")
    /\ Idle /\ UNCHANGED closed

CloseChannel(r) ==
    /\ pc[r] = "close"
    /\ closed' = closed \cup {r}
    /\ Goto(r, "done")
    /\ Idle /\ UNCHANGED errs

-----------------------------------------------------------------------------
(* preConsumeUsage, called by the target reader and by main. *)

Return(p, ok) ==
    Goto(p, IF p = "target" THEN IF ok THEN "clear" ELSE "send"
            ELSE IF bill[p] = "usage" THEN "flushLocal" ELSE "settle")

\* Mutant of Sum: the total is assigned instead of added to.
SumAssigns(p) ==
    /\ pc[p] = "sum"
    /\ sumUsage' = Amount(p)
    /\ Goto(p, "check")
    /\ UNCHANGED <<wallet, usage, localUsage, bill, need, held, channels, history, events,
                   faults>>

\* totalUsage += usage; lost when the other caller is at the same addition.
Sum(p) ==
    /\ pc[p] = "sum"
    /\ \/ sumUsage' = sumUsage + Amount(p)
       \/ /\ \E q \in Billers \ {p} : pc[q] = "sum"
          /\ sumUsage' = sumUsage
    /\ Goto(p, "check")
    /\ UNCHANGED <<wallet, usage, localUsage, bill, need, held, channels, history, events,
                   faults>>

\* PreWssConsumeQuota compares a balance it has read...
Check(p) ==
    /\ pc[p] = "check"
    /\ wallet >= RoundPrice(Amount(p))
    /\ need' = [need EXCEPT ![p] = RoundPrice(Amount(p))]
    /\ charged' = charged + Amount(p)
    /\ Goto(p, "charge")
    /\ UNCHANGED <<wallet, counters, bill, held, channels, settled, upstream, counted,
                   refused, roundsPaid, alone, events, faults>>

\* ...and refuses when it, or the token, has too little or cannot be read.
CheckRefuses(p) ==
    /\ pc[p] = "check"
    /\ \/ wallet < RoundPrice(Amount(p)) /\ faults' = faults
       \/ faults < MaxFaults /\ faults' = faults + 1
    /\ refused' = refused + Amount(p)
    /\ Return(p, FALSE)
    /\ UNCHANGED <<wallet, counters, bill, need, held, channels, settled, upstream,
                   counted, charged, roundsPaid, alone, events>>

\* PostConsumeQuota: an unguarded decrement, outside the billing session.
Charge(p) ==
    /\ pc[p] = "charge"
    /\ wallet' = wallet - need[p]
    /\ roundsPaid' = roundsPaid + need[p]
    /\ Return(p, TRUE)
    /\ UNCHANGED <<counters, bill, need, held, channels, settled, upstream, counted,
                   charged, refused, alone, events, faults>>

\* The counters of the round are replaced by new ones.
Clear ==
    /\ pc["target"] = "clear"
    /\ usage' = IF bill["target"] = "usage" THEN 0 ELSE usage
    /\ localUsage' = 0
    /\ held' = IF held # Current THEN held
               ELSE IF Using("local") \/ (Using("usage") /\ bill["target"] = "usage")
               THEN Amount("main") ELSE Current
    /\ Goto("target", "forward")
    /\ UNCHANGED <<wallet, sumUsage, bill, need, channels, history, events, faults>>

-----------------------------------------------------------------------------
(* main: the end of OpenaiRealtimeHandler, then WssHelper. *)

Select ==
    /\ pc["main"] = "select"
    /\ \/ closed # {} /\ errs' = errs
       \/ errs > 0 /\ errs' = errs - 1
    /\ Goto("main", "hangup")
    /\ Idle /\ UNCHANGED closed

\* Mutant of Hangup: the client connection is left open.
HangupForgotten ==
    /\ pc["main"] = "hangup"
    /\ alone' = (pc["target"] \in {"send", "sendClose", "close", "done"})
    /\ Goto("main", "flushUsage")
    /\ UNCHANGED <<wallet, counters, bill, need, held, channels, settled, upstream,
                   counted, charged, refused, roundsPaid, events, faults>>

\* clientConn.Close() makes the client reader's next read fail.
Hangup ==
    /\ pc["main"] = "hangup"
    /\ open' = open \ {"client"}
    /\ alone' = (pc["target"] \in {"send", "sendClose", "close", "done"})
    /\ Goto("main", "flushUsage")
    /\ UNCHANGED <<wallet, counters, bill, need, held, errs, closed, settled, upstream,
                   counted, charged, refused, roundsPaid, events, faults>>

\* if usage.TotalTokens != 0 { preConsumeUsage(...) }, for each counter
Flush(at, counter, next) ==
    /\ pc["main"] = at
    /\ bill' = [bill EXCEPT !["main"] = counter]
    /\ Goto("main", IF (IF counter = "usage" THEN usage ELSE localUsage) # 0
                    THEN "take" ELSE next)
    /\ UNCHANGED <<wallet, counters, need, held, channels, history, events, faults>>

\* ...where the call takes the counter as it is by then.
Take ==
    /\ pc["main"] = "take"
    /\ held' = Current
    /\ Goto("main", "sum")
    /\ UNCHANGED <<wallet, counters, bill, need, channels, history, events, faults>>

\* PostWssConsumeQuota prices the total and settles the session with it.
Total == IF sumUsage = 0 THEN 0
         ELSE IF FixedPrice > 0 THEN FixedPrice ELSE sumUsage

Settle ==
    /\ pc["main"] = "settle"
    /\ settled' = Total
    /\ wallet' = wallet - (Total - Hold)
    /\ Goto("main", "closeTarget")
    /\ UNCHANGED <<counters, bill, need, held, channels, upstream, counted, charged,
                   refused, roundsPaid, alone, events, faults>>

\* The deferred TargetWs.Close() of WssHelper.
CloseTarget ==
    /\ pc["main"] = "closeTarget"
    /\ open' = open \ {"target"}
    /\ Goto("main", "done")
    /\ UNCHANGED <<wallet, counters, bill, need, held, errs, closed, history, events, faults>>

PreConsumeUsage(p) == Sum(p) \/ Check(p) \/ CheckRefuses(p) \/ Charge(p)

Main == Select \/ Hangup \/ Flush("flushUsage", "usage", "flushLocal")
        \/ Flush("flushLocal", "local", "settle") \/ Take \/ PreConsumeUsage("main")
        \/ Settle \/ CloseTarget

Target == ResponseDone \/ ResponseDoneUncounted \/ TargetEvent
          \/ PreConsumeUsage("target") \/ Clear

Reader(r) == BadEvent(r) \/ ReadEnds(r) \/ Forward(r) \/ Send(r) \/ CloseChannel(r)

Next == Main \/ Target \/ ClientEvent \/ \E r \in Readers : Reader(r)

Spec == Init /\ [][Next]_vars

\* Goroutines are scheduled; an open connection need not deliver anything.
Proceeds(r) == Forward(r) \/ Send(r) \/ CloseChannel(r) \/ (ReadEnds(r) /\ r \notin open)

LiveSpec ==
    /\ Spec
    /\ WF_vars(Main)
    /\ WF_vars(PreConsumeUsage("target") \/ Clear)
    /\ \A r \in Readers : WF_vars(Proceeds(r))

-----------------------------------------------------------------------------
(* Properties. *)

\* The types of the state.
TypeOK ==
    /\ wallet \in Int /\ settled \in Int
    /\ {usage, localUsage, sumUsage} \subseteq Nat
    /\ pc \in [Processes -> Locations]
    /\ bill \in [Billers -> Counter]
    /\ need \in [Billers -> Nat] /\ held \in Nat \cup {Current}
    /\ errs \in Nat /\ closed \subseteq Readers /\ open \subseteq Readers
    /\ {upstream, counted, charged, refused, roundsPaid, events, faults} \subseteq Nat
    /\ alone \in BOOLEAN

\* errChan has room for every error the readers can still report, so that no
\* reader is left blocked on it once the handler has stopped receiving.
SendersNeverBlock == \A r \in Readers : pc[r] \in {"send", "sendClose"} => errs < Capacity

\* Whatever main flushes meanwhile, every token the upstream has reported has
\* been charged in a round or refused once the target reader is done with it.
RoundsCoverUsage == pc["target"] \in {"read", "forward", "done"} => charged + refused >= upstream

\* When the upstream side ended first, the session is settled for at least the
\* tokens the upstream reported, those of a refused last round included.
UsageIsSettled == (pc["main"] = "done" /\ alone /\ FixedPrice = 0) => settled >= upstream

\* When either connection ends or any goroutine fails, the handler returns and
\* neither reader outlives it for ever.
SessionTearsDown ==
    (\E r \in Readers : pc[r] = "done") ~> (\A p \in Processes : pc[p] = "done")

\* A round is paid when it is billed, so the settlement charges nothing twice:
\* the request has paid what it was settled for.
PaidOnce ==
    (\A p \in Processes : pc[p] = "done") => InitialWallet - wallet = settled

\* The counters are cleared after they are billed, so no token is settled twice.
SummedOnce == sumUsage <= counted
=============================================================================
