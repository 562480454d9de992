----------------------- MODULE RealtimeBillingProofs -----------------------
(* Safety of RealtimeBilling for every usage, wallet and number of events. *)
EXTENDS RealtimeBilling, TLAPS

\* The errors a reader may still report: at most one, none once it is leaving.
MayReport(r) == IF pc[r] \in {"close", "done"} THEN 0 ELSE 1

\* Reported usage whose round has not reached its charge.
Owed == IF bill["target"] = "usage" /\ pc["target"] \in {"sum", "check"}
        THEN usage ELSE 0

\* Every error sent or still to be sent has a place in errChan.
ErrorsFit == errs + MayReport("client") + MayReport("target") <= Capacity

\* usage is zero outside the rounds the upstream has counted.
UsageIsOfTheRound ==
    \/ pc["target"] \in {"read", "forward"}
    \/ bill["target"] = "local" /\ pc["target"] \in {"sum", "check", "charge", "clear"}
    => usage = 0

AllAccounted == charged + refused + Owed >= upstream

\* Reported usage whose round has not reached the total.
Unsummed == IF bill["target"] = "usage" /\ pc["target"] = "sum" THEN usage ELSE 0

TargetHasEnded == pc["target"] \in {"send", "sendClose", "close", "done"}

\* Before main flushes, and afterwards too when the target reader had ended by then, no
\* addition to the total can be lost, so the total covers what the upstream reported.
TotalCovers ==
    /\ alone => TargetHasEnded
    /\ alone \/ pc["main"] \in {"select", "hangup"} => sumUsage + Unsummed >= upstream
    /\ alone /\ FixedPrice = 0 /\ pc["main"] \in {"closeTarget", "done"} => settled >= upstream

IInv == TypeOK /\ ErrorsFit /\ UsageIsOfTheRound /\ AllAccounted /\ TotalCovers

USE ConstantsAssumption, CapacityAssumption

LEMMA InitIInv == Init => IInv
<1> SUFFICES ASSUME Init PROVE IInv
  OBVIOUS
<1> USE DEF Init, Processes, Readers, Billers, Counter, Locations
<1>1. pc["client"] = "read" /\ pc["target"] = "read" /\ bill["target"] = "usage"
  OBVIOUS
<1>2. TypeOK
  <2>1. pc \in [Processes -> Locations]
    OBVIOUS
  <2>2. bill \in [Billers -> Counter] /\ need \in [Billers -> Nat]
    OBVIOUS
  <2>3. wallet \in Int
    OBVIOUS
  <2>4. settled \in Int /\ errs \in Nat
    OBVIOUS
  <2>5. closed \subseteq Readers /\ open \subseteq Readers
    OBVIOUS
  <2>6. alone \in BOOLEAN
    OBVIOUS
  <2>7. /\ {usage, localUsage, sumUsage} \subseteq Nat
        /\ {upstream, counted, charged, refused, roundsPaid, events, faults} \subseteq Nat
    OBVIOUS
  <2> QED BY <2>1, <2>2, <2>3, <2>4, <2>5, <2>6, <2>7 DEF TypeOK
<1>3. ErrorsFit
  BY <1>1 DEF ErrorsFit, MayReport
<1>4. UsageIsOfTheRound /\ AllAccounted
  BY <1>1 DEF UsageIsOfTheRound, AllAccounted, Owed
<1>5. TotalCovers
  BY <1>1 DEF TotalCovers, Unsummed
<1> QED BY <1>2, <1>3, <1>4, <1>5 DEF IInv

LEMMA NextTypeOK == TypeOK /\ [Next]_vars => TypeOK'
<1> SUFFICES ASSUME TypeOK, [Next]_vars PROVE TypeOK'
  OBVIOUS
<1> USE DEF TypeOK, Processes, Readers, Billers, Counter, Locations, Goto,
            Peer, counters, channels, history, Idle, Event
<1>1. ASSUME NEW p \in Billers, PreConsumeUsage(p) PROVE TypeOK'
  <2>1. CASE Sum(p)
    BY <2>1 DEF Sum, Amount
  <2>2. CASE Check(p)
    BY <2>2 DEF Check, Amount, RoundPrice
  <2>3. CASE CheckRefuses(p)
    BY <2>3 DEF CheckRefuses, Amount, RoundPrice, Return
  <2>4. CASE Charge(p)
    BY <2>4 DEF Charge, Return
  <2> QED BY <1>1, <2>1, <2>2, <2>3, <2>4 DEF PreConsumeUsage
<1>2. CASE Main
  <2>1. CASE Select
    BY <2>1 DEF Select
  <2>2. CASE Hangup
    BY <2>2 DEF Hangup
  <2>3. CASE Flush("flushUsage", "usage", "flushLocal")
    BY <2>3 DEF Flush
  <2>4. CASE Flush("flushLocal", "local", "settle")
    BY <2>4 DEF Flush
  <2>5. CASE Settle
    BY <2>5 DEF Settle, Total
  <2>6. CASE CloseTarget
    BY <2>6 DEF CloseTarget
  <2>7. CASE Take
    BY <2>7 DEF Take
  <2> QED BY <1>1, <1>2, <2>1, <2>2, <2>3, <2>4, <2>5, <2>6, <2>7 DEF Main
<1>3. CASE Target
  <2>1. CASE ResponseDone
    BY <2>1 DEF ResponseDone
  <2>2. CASE ResponseDoneUncounted
    BY <2>2 DEF ResponseDoneUncounted, AddLocal
  <2>3. CASE TargetEvent
    BY <2>3 DEF TargetEvent, AddLocal
  <2>4. CASE Clear
    <3>1. Amount("main") \in Nat /\ held' \in Nat \cup {Current}
      BY <2>4 DEF Clear, Amount
    <3>2. UNCHANGED <<wallet, sumUsage, bill, need, channels, history, events, faults>>
      BY <2>4 DEF Clear
    <3>3. usage' \in Nat /\ localUsage' \in Nat /\ pc' \in [Processes -> Locations]
      BY <2>4 DEF Clear
    <3> QED BY <3>1, <3>2, <3>3
  <2> QED BY <1>1, <1>3, <2>1, <2>2, <2>3, <2>4 DEF Target
<1>4. CASE ClientEvent
  BY <1>4 DEF ClientEvent, AddLocal
<1>5. ASSUME NEW r \in Readers, Reader(r) PROVE TypeOK'
  <2>1. CASE BadEvent(r)
    BY <2>1 DEF BadEvent
  <2>2. CASE ReadEnds(r)
    BY <2>2 DEF ReadEnds
  <2>3. CASE Forward(r)
    BY <2>3 DEF Forward
  <2>4. CASE Send(r)
    BY <2>4 DEF Send
  <2>5. CASE CloseChannel(r)
    BY <2>5 DEF CloseChannel
  <2> QED BY <1>5, <2>1, <2>2, <2>3, <2>4, <2>5 DEF Reader
<1>6. CASE UNCHANGED vars
  BY <1>6 DEF vars
<1> QED BY <1>2, <1>3, <1>4, <1>5, <1>6 DEF Next

LEMMA NextErrorsFit == TypeOK /\ ErrorsFit /\ [Next]_vars => ErrorsFit'
<1> SUFFICES ASSUME TypeOK, ErrorsFit, [Next]_vars PROVE ErrorsFit'
  OBVIOUS
<1> USE DEF TypeOK, ErrorsFit, MayReport, Processes, Readers, Billers, Goto,
            channels, Idle
<1>1. ASSUME NEW p \in Billers, PreConsumeUsage(p) PROVE ErrorsFit'
  BY <1>1 DEF PreConsumeUsage, Sum, Check, CheckRefuses, Charge, Return
<1>2. CASE Main
  BY <1>1, <1>2 DEF Main, Select, Hangup, Flush, Take, Settle, CloseTarget
<1>3. CASE Target
  BY <1>1, <1>3 DEF Target, ResponseDone, ResponseDoneUncounted, TargetEvent, Clear
<1>4. CASE ClientEvent
  BY <1>4 DEF ClientEvent
<1>5. ASSUME NEW r \in Readers, Reader(r) PROVE ErrorsFit'
  BY <1>5 DEF Reader, BadEvent, ReadEnds, Forward, Send, CloseChannel
<1>6. CASE UNCHANGED vars
  BY <1>6 DEF vars
<1> QED BY <1>2, <1>3, <1>4, <1>5, <1>6 DEF Next

LEMMA NextAccounted ==
    IInv /\ [Next]_vars => UsageIsOfTheRound' /\ AllAccounted'
<1> SUFFICES ASSUME IInv, [Next]_vars PROVE UsageIsOfTheRound' /\ AllAccounted'
  OBVIOUS
<1> USE DEF IInv, TypeOK, UsageIsOfTheRound, AllAccounted, Owed, Processes,
            Readers, Billers, Counter, Goto, counters, history, Idle
<1>1. ASSUME NEW p \in Billers, PreConsumeUsage(p)
      PROVE  UsageIsOfTheRound' /\ AllAccounted'
  <2>1. CASE Sum(p)
    BY <2>1 DEF Sum
  <2>2. CASE Check(p)
    BY <2>2 DEF Check, Amount
  <2>3. CASE CheckRefuses(p)
    BY <2>3 DEF CheckRefuses, Amount, Return
  <2>4. CASE Charge(p)
    BY <2>4 DEF Charge, Return
  <2> QED BY <1>1, <2>1, <2>2, <2>3, <2>4 DEF PreConsumeUsage
<1>2. CASE Main
  BY <1>1, <1>2 DEF Main, Select, Hangup, Flush, Take, Settle, CloseTarget
<1>3. CASE Target
  <2>1. CASE ResponseDone
    <3>1. PICK u \in Usages : usage' = usage + u /\ upstream' = upstream + u
      BY <2>1 DEF ResponseDone
    <3>2. /\ pc["target"] = "read" /\ pc'["target"] = "sum"
          /\ bill'["target"] = "usage"
          /\ charged' = charged /\ refused' = refused
      BY <2>1 DEF ResponseDone
    <3>3. u \in Nat /\ usage = 0 /\ usage' = u
      BY <3>1, <3>2
    <3> QED BY <3>1, <3>2, <3>3
  <2>2. CASE ResponseDoneUncounted
    BY <2>2 DEF ResponseDoneUncounted
  <2>3. CASE TargetEvent
    BY <2>3 DEF TargetEvent
  <2>4. CASE Clear
    BY <2>4 DEF Clear
  <2> QED BY <1>1, <1>3, <2>1, <2>2, <2>3, <2>4 DEF Target
<1>4. CASE ClientEvent
  BY <1>4 DEF ClientEvent
<1>5. ASSUME NEW r \in Readers, Reader(r)
      PROVE  UsageIsOfTheRound' /\ AllAccounted'
  BY <1>5 DEF Reader, BadEvent, ReadEnds, Forward, Send, CloseChannel
<1>6. CASE UNCHANGED vars
  BY <1>6 DEF vars
<1> QED BY <1>2, <1>3, <1>4, <1>5, <1>6 DEF Next

LEMMA NextTotalCovers ==
    ASSUME IInv, [Next]_vars
    PROVE  TotalCovers'
<1> USE DEF IInv, TypeOK, UsageIsOfTheRound, TotalCovers, Unsummed, TargetHasEnded, Processes,
            Readers, Billers, Counter, Goto, counters, history, Idle
<1>1. ASSUME NEW p \in Billers, PreConsumeUsage(p) PROVE TotalCovers'
  <2>1. CASE Sum(p)
    BY <2>1 DEF Sum, Amount
  <2>2. CASE Check(p)
    BY <2>2 DEF Check
  <2>3. CASE CheckRefuses(p)
    BY <2>3 DEF CheckRefuses, Return
  <2>4. CASE Charge(p)
    BY <2>4 DEF Charge, Return
  <2> QED BY <1>1, <2>1, <2>2, <2>3, <2>4 DEF PreConsumeUsage
<1>2. CASE Main
  <2>1. CASE Select
    BY <2>1 DEF Select
  <2>2. CASE Hangup
    BY <2>2 DEF Hangup
  <2>3. CASE Flush("flushUsage", "usage", "flushLocal") \/ Flush("flushLocal", "local", "settle")
    BY <2>3 DEF Flush
  <2>4. CASE Settle
    BY <2>4 DEF Settle, Total
  <2>5. CASE CloseTarget
    BY <2>5 DEF CloseTarget
  <2>6. CASE Take
    BY <2>6 DEF Take
  <2> QED BY <1>1, <1>2, <2>1, <2>2, <2>3, <2>4, <2>5, <2>6 DEF Main
<1>3. CASE Target
  <2>1. CASE ResponseDone
    <3>1. PICK u \in Usages : usage' = usage + u /\ upstream' = upstream + u
      BY <2>1 DEF ResponseDone
    <3>2. /\ pc["target"] = "read" /\ pc'["target"] = "sum" /\ pc'["main"] = pc["main"]
          /\ bill'["target"] = "usage"
          /\ UNCHANGED <<sumUsage, settled, alone>>
      BY <2>1 DEF ResponseDone
    <3>3. u \in Nat /\ usage = 0 /\ usage' = u
      BY <3>1, <3>2
    <3> QED BY <3>1, <3>2, <3>3
  <2>2. CASE ResponseDoneUncounted
    BY <2>2 DEF ResponseDoneUncounted
  <2>3. CASE TargetEvent
    BY <2>3 DEF TargetEvent
  <2>4. CASE Clear
    BY <2>4 DEF Clear
  <2> QED BY <1>1, <1>3, <2>1, <2>2, <2>3, <2>4 DEF Target
<1>4. CASE ClientEvent
  BY <1>4 DEF ClientEvent
<1>5. ASSUME NEW r \in Readers, Reader(r) PROVE TotalCovers'
  BY <1>5 DEF Reader, BadEvent, ReadEnds, Forward, Send, CloseChannel
<1>6. CASE UNCHANGED vars
  BY <1>6 DEF vars
<1> QED BY <1>2, <1>3, <1>4, <1>5, <1>6 DEF Next

\* The inductive invariant.
THEOREM Invariant == Spec => []IInv
<1>1. IInv /\ [Next]_vars => IInv'
  BY NextTypeOK, NextErrorsFit, NextAccounted, NextTotalCovers DEF IInv
<1> QED BY InitIInv, <1>1, PTL DEF Spec

\* No reader ever waits at errChan, whatever the interleaving: the capacity of
\* two of make(chan error, 2) is enough for the two readers.
THEOREM NoSenderBlocks == Spec => []SendersNeverBlock
<1>1. IInv => SendersNeverBlock
  BY DEF IInv, TypeOK, ErrorsFit, MayReport, SendersNeverBlock, Readers, Processes
<1> QED BY Invariant, <1>1, PTL

\* Every token the upstream reports reaches the quota check of a round, however
\* the flush of main interleaves with the target reader.
THEOREM EveryRoundCovered == Spec => []RoundsCoverUsage
<1>1. IInv => RoundsCoverUsage
  BY DEF IInv, TypeOK, AllAccounted, Owed, RoundsCoverUsage
<1> QED BY Invariant, <1>1, PTL

\* When the upstream side ended before main flushed, the session is settled for at least
\* what the upstream reported: no addition to the shared total is lost then.
THEOREM SettlesUsage == Spec => []UsageIsSettled
<1>1. IInv => UsageIsSettled
  BY DEF IInv, TotalCovers, UsageIsSettled
<1> QED BY Invariant, <1>1, PTL
=============================================================================
