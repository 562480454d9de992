--------------------------- MODULE BillingSession ---------------------------
(***************************************************************************)
(* The billing session of the gateway (service/billing_session.go with the *)
(* funding sources of service/funding_source.go).                          *)
(*                                                                         *)
(* Requests of one user run concurrently.  Each holds quota before it goes *)
(* upstream (pre-consume), may raise the hold (Reserve), and ends by       *)
(* settling the hold to the actual price or by refunding it.  All of them  *)
(* share the wallet, one subscription and one API token, which are rows of *)
(* the database: every access to a row is one step, and steps of different *)
(* requests interleave.  The methods of one session run under its mutex    *)
(* and are called by one handler, so a session itself is sequential; only  *)
(* the refund goroutine outlives the handler.                              *)
(***************************************************************************)
EXTENDS Integers, FiniteSets

CONSTANTS
    Sessions,        \* the requests
    Playground,      \* requests of the web playground: no API token is charged
    Forced,          \* asynchronous task requests (ForcePreConsume)
    Estimates,       \* quota a request pre-consumes (priceData.QuotaToPreConsume)
    Prices,          \* quota a request really costs, known when it settles
    Targets,         \* targets of Reserve
    InitialWallet, InitialToken,
    SubTotal,        \* AmountTotal of the subscription; 0 is unlimited
    TokenUnlimited,  \* token.UnlimitedQuota
    TrustQuota,      \* common.GetTrustQuota(); 0 when the bypass is off
    StaleQuotas,     \* wallet balances a cache read may still return
    QuotaPerUnit,    \* tolerance of the overspend guard when the bypass is off
    TopUps,          \* amounts a redemption may add to the wallet
    MaxTopUps,       \* bound on the number of redemptions
    MaxFaults        \* bound on database errors and process crashes

ASSUME SetsAssumption ==
    /\ Playground \subseteq Sessions
    /\ Forced \subseteq Sessions
    /\ Estimates \subseteq Nat
    /\ Prices \subseteq Nat
    /\ Targets \subseteq Nat
    /\ TopUps \subseteq Nat
    /\ StaleQuotas \subseteq Int

ASSUME NumbersAssumption ==
    /\ InitialWallet \in Nat
    /\ InitialToken \in Nat
    /\ SubTotal \in Nat
    /\ TokenUnlimited \in BOOLEAN
    /\ TrustQuota \in Nat
    /\ QuotaPerUnit \in Nat
    /\ MaxTopUps \in Nat
    /\ MaxFaults \in Nat

VARIABLES
    wallet,       \* users.quota
    subUsed,      \* user_subscriptions.amount_used
    record,       \* the request's row in subscription_pre_consume_records
    tokenRemain,  \* tokens.remain_quota (used_quota moves oppositely)
    tokenEnabled, \* tokens.status = enabled
    pc,           \* where the request is
    estimate,     \* preConsumedQuota, the argument of NewBillingSession
    fund,         \* the funding source being tried or used
    fallback,     \* the source still to try when that one is insufficient
    ses,          \* the BillingSession struct
    arg,          \* argument of the Settle or Reserve in progress
    tokenSeen,    \* c.GetInt("token_quota"), read at authentication
    attempts,     \* failed attempts of refundWithRetry
    paid,         \* history: net quota the request took from its source
    tok,          \* history: net quota the request took from the token
    harmed,       \* history: requests a database error or a crash has hit
    faults, topUps

rows == <<wallet, subUsed, record, tokenRemain, tokenEnabled>>
request == <<estimate, fund, fallback, tokenSeen>>
vars == <<rows, pc, request, ses, arg, attempts, paid, tok, harmed, faults, topUps>>

Sources == {"wallet", "sub"}

\* Fields of the Go struct; consumed is WalletFunding.consumed or
\* SubscriptionFunding.preConsumed.
Session == [pre : Nat, tokenConsumed : Nat, consumed : Nat, extra : Nat,
            trusted : BOOLEAN, fundingSettled : BOOLEAN,
            settled : BOOLEAN, refunded : BOOLEAN]

Fresh == [pre |-> 0, tokenConsumed |-> 0, consumed |-> 0, extra |-> 0,
          trusted |-> FALSE, fundingSettled |-> FALSE,
          settled |-> FALSE, refunded |-> FALSE]

Final == {"rejected", "success", "failed", "crashed"}

Locations == {"new", "readQuota", "tokenPre", "fundPre", "rollback", "holding",
              "reserveFund", "reserveToken", "reserveUndo",
              "settleFund", "settleToken", "guardRead", "guardDisable", "returned",
              "refundFund", "refundExtra", "refundToken"} \cup Final

Init ==
    /\ wallet = InitialWallet
    /\ subUsed = 0
    /\ record = [s \in Sessions |-> "none"]
    /\ tokenRemain = InitialToken
    /\ tokenEnabled = TRUE
    /\ pc = [s \in Sessions |-> "new"]
    /\ estimate = [s \in Sessions |-> 0]
    /\ fund = [s \in Sessions |-> "wallet"]
    /\ fallback = [s \in Sessions |-> "none"]
    /\ ses = [s \in Sessions |-> Fresh]
    /\ arg = [s \in Sessions |-> 0]
    /\ tokenSeen = [s \in Sessions |-> 0]
    /\ attempts = [s \in Sessions |-> 0]
    /\ paid = [s \in Sessions |-> 0]
    /\ tok = [s \in Sessions |-> 0]
    /\ harmed = {}
    /\ faults = 0
    /\ topUps = 0

-----------------------------------------------------------------------------
(* Row updates. *)

Goto(s, l) == pc' = [pc EXCEPT ![s] = l]

Update(s, r) == ses' = [ses EXCEPT ![s] = r]

\* A database call returns an error.
Fault ==
    /\ faults < MaxFaults
    /\ faults' = faults + 1

\* The error leaves quota taken that should have gone back (or the reverse).
Harm(s) == harmed' = harmed \cup {s}

\* postConsumeUserSubscriptionDeltaTx clamps the new usage at zero.
UsedAfter(n) == IF subUsed + n < 0 THEN 0 ELSE subUsed + n

\* A total of zero is no limit.
Fits(n) == SubTotal = 0 \/ UsedAfter(n) <= SubTotal

\* quota = quota - n, or a usage delta of n refused above the total.
Take(s, n) ==
    /\ paid' = [paid EXCEPT ![s] = @ + n]
    /\ \/ /\ fund[s] = "wallet"
          /\ wallet' = wallet - n
          /\ subUsed' = subUsed
       \/ /\ fund[s] = "sub"
          /\ Fits(n)
          /\ subUsed' = UsedAfter(n)
          /\ wallet' = wallet

\* Mutant of Affordable: the wallet decrement is not guarded.
AffordableUnguarded(s, n) == fund[s] = "wallet" \/ Fits(n)

\* Whether a guarded decrement (or a usage delta) of n takes effect.
Affordable(s, n) ==
    IF fund[s] = "wallet" THEN wallet >= n ELSE Fits(n)

TakeToken(s, n) ==
    /\ tok' = [tok EXCEPT ![s] = @ + n]
    /\ tokenRemain' = tokenRemain - n

NoTake == UNCHANGED <<wallet, subUsed, paid>>
NoTakeToken == UNCHANGED <<tokenRemain, tok>>

-----------------------------------------------------------------------------
(* NewBillingSession and preConsume. *)

\* Authentication lets the request in; the user's preference orders the
\* sources (subscription_first without an active subscription is wallet only).
Start(s) ==
    /\ pc[s] = "new"
    /\ s \in Playground \/ (tokenEnabled /\ (TokenUnlimited \/ tokenRemain > 0))
    /\ \E e \in Estimates, plan \in {<<"wallet", "none">>, <<"sub", "none">>,
                                     <<"wallet", "sub">>, <<"sub", "wallet">>} :
          /\ estimate' = [estimate EXCEPT ![s] = e]
          /\ fund' = [fund EXCEPT ![s] = plan[1]]
          /\ fallback' = [fallback EXCEPT ![s] = plan[2]]
    /\ tokenSeen' = [tokenSeen EXCEPT ![s] = tokenRemain]
    /\ Goto(s, "readQuota")
    /\ UNCHANGED <<rows, ses, arg, attempts, paid, tok, harmed, faults, topUps>>

\* Amount a session of the current source holds: a subscription holds at least 1.
Hold(s) == IF fund[s] = "sub" /\ estimate[s] = 0 THEN 1 ELSE estimate[s]

\* Mutant of NextSource: another source is tried although none is left.
NextSourceAlways(s) ==
    /\ Goto(s, "readQuota")
    /\ fund' = [fund EXCEPT ![s] = fallback[s]]
    /\ fallback' = [fallback EXCEPT ![s] = "none"]

\* The session's source is insufficient: try the other one or reject (403).
NextSource(s) ==
    IF fallback[s] = "none"
    THEN /\ Goto(s, "rejected")
         /\ UNCHANGED <<fund, fallback>>
    ELSE /\ Goto(s, "readQuota")
         /\ fund' = [fund EXCEPT ![s] = fallback[s]]
         /\ fallback' = [fallback EXCEPT ![s] = "none"]

\* shouldTrust: the bypass of the hold when quota, the balance read, is large.
ShouldTrust(s, quota) ==
    /\ s \notin Forced
    /\ TrustQuota > 0
    /\ TokenUnlimited \/ tokenSeen[s] > TrustQuota
    /\ fund[s] = "wallet"
    /\ quota - estimate[s] > TrustQuota

\* tryWallet and trySubscription up to the first charge.  The wallet's balance
\* comes from the cache, if it holds one, and decides about the source and the
\* bypass now; the charges come later, when the balance may have changed.
ReadQuota(s) ==
    /\ pc[s] = "readQuota"
    /\ \E quota \in {wallet} \cup StaleQuotas :
          IF fund[s] = "wallet" /\ (quota <= 0 \/ quota < estimate[s])
          THEN NextSource(s) /\ ses' = ses
          ELSE /\ Update(s, [Fresh EXCEPT !.trusted = ShouldTrust(s, quota)])
               /\ Goto(s, IF ShouldTrust(s, quota) \/ Hold(s) = 0 THEN "holding" ELSE "tokenPre")
               /\ UNCHANGED <<fund, fallback>>
    /\ UNCHANGED <<rows, estimate, tokenSeen, arg, attempts, paid, tok, harmed, faults, topUps>>

\* GetUserQuota or the search for a subscription fails: no source is tried.
ReadQuotaFails(s) ==
    /\ pc[s] = "readQuota"
    /\ Fault
    /\ Goto(s, "rejected")
    /\ UNCHANGED <<rows, request, ses, arg, attempts, paid, tok, harmed, topUps>>

\* PreConsumeTokenQuota(n): unlimited tokens are only counted, others are
\* decremented under remain_quota >= n; the playground has no token.
ChargeToken(s, n) ==
    IF s \in Playground
    THEN NoTakeToken
    ELSE /\ TokenUnlimited \/ tokenRemain >= n
         /\ TakeToken(s, n)

TokenPre(s) ==
    /\ pc[s] = "tokenPre"
    /\ ChargeToken(s, Hold(s))
    /\ Update(s, [ses[s] EXCEPT !.tokenConsumed = Hold(s)])
    /\ Goto(s, "fundPre")
    /\ UNCHANGED <<wallet, subUsed, record, tokenEnabled, request, arg, attempts, paid, harmed, faults, topUps>>

\* The token is short or the call fails: no other source is tried.
TokenPreFails(s) ==
    /\ pc[s] = "tokenPre"
    /\ s \notin Playground
    /\ \/ ~TokenUnlimited /\ tokenRemain < Hold(s) /\ faults' = faults
       \/ Fault
    /\ Goto(s, "rejected")
    /\ UNCHANGED <<rows, request, ses, arg, attempts, paid, tok, harmed, topUps>>

\* funding.PreConsume: guarded wallet decrement, or the subscription
\* transaction that also writes the request's record.
FundPre(s) ==
    /\ pc[s] = "fundPre"
    /\ Affordable(s, Hold(s))
    /\ Take(s, Hold(s))
    /\ record' = [record EXCEPT ![s] = IF fund[s] = "sub" THEN "consumed" ELSE @]
    /\ Update(s, [ses[s] EXCEPT !.consumed = Hold(s), !.pre = Hold(s)])
    /\ Goto(s, "holding")
    /\ UNCHANGED <<tokenRemain, tokenEnabled, request, arg, attempts, tok, harmed, faults, topUps>>

\* Insufficient (the other source may still be tried) or a database error
\* (it may not): the token charge is rolled back first.
FundPreFails(s) ==
    /\ pc[s] = "fundPre"
    /\ \/ ~Affordable(s, Hold(s)) /\ UNCHANGED <<faults, fallback>>
       \/ Fault /\ fallback' = [fallback EXCEPT ![s] = "none"]
    /\ Goto(s, "rollback")
    /\ UNCHANGED <<rows, estimate, fund, tokenSeen, ses, arg, attempts, paid, tok, harmed, topUps>>

Rollback(s) ==
    /\ pc[s] = "rollback"
    /\ \/ /\ s \notin Playground
          /\ TakeToken(s, -ses[s].tokenConsumed)
          /\ UNCHANGED <<faults, harmed>>
       \/ /\ s \notin Playground
          /\ NoTakeToken
          /\ Fault /\ Harm(s)
       \/ s \in Playground /\ NoTakeToken /\ UNCHANGED <<faults, harmed>>
    /\ Update(s, Fresh)
    /\ NextSource(s)
    /\ UNCHANGED <<wallet, subUsed, record, tokenEnabled, estimate, tokenSeen, arg, attempts, paid, topUps>>

-----------------------------------------------------------------------------
(* Reserve. *)

\* Reserve(target) returns at once unless it really raises the hold.
Reserve(s) ==
    /\ pc[s] = "holding"
    /\ ~ses[s].settled /\ ~ses[s].refunded /\ ~ses[s].trusted
    /\ \E target \in Targets :
          /\ target > ses[s].pre
          /\ arg' = [arg EXCEPT ![s] = target]
    /\ Goto(s, "reserveFund")
    /\ UNCHANGED <<rows, request, ses, attempts, paid, tok, harmed, faults, topUps>>

Raise(s) == arg[s] - ses[s].pre

\* reserveFunding: the wallet source adds the raise to consumed.
ReserveFund(s) ==
    /\ pc[s] = "reserveFund"
    /\ Affordable(s, Raise(s))
    /\ Take(s, Raise(s))
    /\ Update(s, [ses[s] EXCEPT !.consumed = IF fund[s] = "wallet" THEN @ + Raise(s) ELSE @])
    /\ Goto(s, "reserveToken")
    /\ UNCHANGED <<record, tokenRemain, tokenEnabled, request, arg, attempts, tok, harmed, faults, topUps>>

ReserveFundFails(s) ==
    /\ pc[s] = "reserveFund"
    /\ \/ ~Affordable(s, Raise(s)) /\ faults' = faults
       \/ Fault
    /\ Goto(s, "holding")
    /\ UNCHANGED <<rows, request, ses, arg, attempts, paid, tok, harmed, topUps>>

ReserveToken(s) ==
    /\ pc[s] = "reserveToken"
    /\ ChargeToken(s, Raise(s))
    /\ Update(s, [ses[s] EXCEPT !.pre = arg[s],
                                !.tokenConsumed = @ + Raise(s),
                                !.extra = @ + Raise(s)])
    /\ Goto(s, "holding")
    /\ UNCHANGED <<wallet, subUsed, record, tokenEnabled, request, arg, attempts, paid, harmed, faults, topUps>>

ReserveTokenFails(s) ==
    /\ pc[s] = "reserveToken"
    /\ s \notin Playground
    /\ \/ ~TokenUnlimited /\ tokenRemain < Raise(s) /\ faults' = faults
       \/ Fault
    /\ Goto(s, "reserveUndo")
    /\ UNCHANGED <<rows, request, ses, arg, attempts, paid, tok, harmed, topUps>>

\* rollbackFundingReserve: when it fails, consumed keeps the raise.
ReserveUndo(s) ==
    /\ pc[s] = "reserveUndo"
    /\ \/ /\ Take(s, -Raise(s))
          /\ Update(s, [ses[s] EXCEPT !.consumed = IF fund[s] = "wallet" THEN @ - Raise(s) ELSE @])
          /\ UNCHANGED <<faults, harmed>>
       \/ /\ Fault /\ Harm(s)
          /\ NoTake /\ ses' = ses
    /\ Goto(s, "holding")
    /\ UNCHANGED <<record, tokenRemain, tokenEnabled, request, arg, attempts, tok, topUps>>

-----------------------------------------------------------------------------
(* Settle. *)

\* Mutant of Settle: a settled session can be settled again.
SettleAgain(s) ==
    /\ pc[s] \in {"holding", "returned"}
    /\ \E price \in Prices :
          /\ arg' = [arg EXCEPT ![s] = price]
          /\ IF price = ses[s].pre
             THEN Update(s, [ses[s] EXCEPT !.settled = TRUE]) /\ Goto(s, "returned")
             ELSE ses' = ses /\ Goto(s, "settleFund")
    /\ UNCHANGED <<rows, request, attempts, paid, tok, harmed, faults, topUps>>

\* Settle(price); a second call on a settled session returns at once.
Settle(s) ==
    /\ pc[s] \in {"holding", "returned"}
    /\ ~ses[s].settled
    /\ \E price \in Prices :
          /\ arg' = [arg EXCEPT ![s] = price]
          /\ IF price = ses[s].pre
             THEN Update(s, [ses[s] EXCEPT !.settled = TRUE]) /\ Goto(s, "returned")
             ELSE ses' = ses /\ Goto(s, "settleFund")
    /\ UNCHANGED <<rows, request, attempts, paid, tok, harmed, faults, topUps>>

\* Mutant of Delta: the hold is not credited against the price.
DeltaGross(s) == arg[s]

Delta(s) == arg[s] - ses[s].pre

\* funding.Settle is not guarded for the wallet.
SettleFund(s) ==
    /\ pc[s] = "settleFund"
    /\ IF ses[s].fundingSettled THEN NoTake ELSE Take(s, Delta(s))
    /\ Update(s, [ses[s] EXCEPT !.fundingSettled = TRUE])
    /\ Goto(s, "settleToken")
    /\ UNCHANGED <<record, tokenRemain, tokenEnabled, request, arg, attempts, tok, harmed, faults, topUps>>

\* The caller only logs the error of Settle.
SettleFundFails(s) ==
    /\ pc[s] = "settleFund"
    /\ ~ses[s].fundingSettled
    /\ \/ fund[s] = "sub" /\ ~Fits(Delta(s)) /\ faults' = faults
       \/ Fault
    /\ Goto(s, "returned")
    /\ UNCHANGED <<rows, request, ses, arg, attempts, paid, tok, harmed, topUps>>

\* Mutant of SettleToken: the guard trusts the requests the bypass trusted.
SettleTokenTrusting(s) ==
    /\ pc[s] = "settleToken"
    /\ \/ s \in Playground /\ NoTakeToken /\ UNCHANGED <<faults, harmed>>
       \/ s \notin Playground /\ TakeToken(s, Delta(s)) /\ UNCHANGED <<faults, harmed>>
       \/ s \notin Playground /\ NoTakeToken /\ Fault /\ Harm(s)
    /\ IF fund[s] = "wallet" /\ s \notin Playground /\ ~ses[s].trusted
       THEN Goto(s, "guardRead") /\ ses' = ses
       ELSE Goto(s, "returned") /\ Update(s, [ses[s] EXCEPT !.settled = TRUE])
    /\ UNCHANGED <<wallet, subUsed, record, tokenEnabled, request, arg, attempts, paid, topUps>>

\* A failed token adjustment is logged, and the session is settled all the same.
SettleToken(s) ==
    /\ pc[s] = "settleToken"
    /\ \/ s \in Playground /\ NoTakeToken /\ UNCHANGED <<faults, harmed>>
       \/ s \notin Playground /\ TakeToken(s, Delta(s)) /\ UNCHANGED <<faults, harmed>>
       \/ s \notin Playground /\ NoTakeToken /\ Fault /\ Harm(s)
    /\ IF fund[s] = "wallet" /\ s \notin Playground
       THEN Goto(s, "guardRead") /\ ses' = ses
       ELSE Goto(s, "returned") /\ Update(s, [ses[s] EXCEPT !.settled = TRUE])
    /\ UNCHANGED <<wallet, subUsed, record, tokenEnabled, request, arg, attempts, paid, topUps>>

Tolerance == IF TrustQuota > 0 THEN TrustQuota ELSE QuotaPerUnit

\* enforceWalletOverspendGuard reads the balance from the database ...
GuardRead(s) ==
    /\ pc[s] = "guardRead"
    /\ \/ wallet < -Tolerance /\ Goto(s, "guardDisable") /\ UNCHANGED <<ses, faults, harmed>>
       \/ /\ \/ wallet >= -Tolerance /\ UNCHANGED <<faults, harmed>>
             \/ Fault /\ Harm(s)
          /\ Update(s, [ses[s] EXCEPT !.settled = TRUE])
          /\ Goto(s, "returned")
    /\ UNCHANGED <<rows, request, arg, attempts, paid, tok, topUps>>

\* ... and disables the user's tokens in a later statement.
GuardDisable(s) ==
    /\ pc[s] = "guardDisable"
    /\ \/ tokenEnabled' = FALSE /\ UNCHANGED <<faults, harmed>>
       \/ tokenEnabled' = tokenEnabled /\ Fault /\ Harm(s)
    /\ Update(s, [ses[s] EXCEPT !.settled = TRUE])
    /\ Goto(s, "returned")
    /\ UNCHANGED <<wallet, subUsed, record, tokenRemain, request, arg, attempts, paid, tok, topUps>>

-----------------------------------------------------------------------------
(* The end of the handler, and Refund with its goroutine. *)

Succeed(s) ==
    /\ pc[s] = "returned"
    /\ Goto(s, "success")
    /\ UNCHANGED <<rows, request, ses, arg, attempts, paid, tok, harmed, faults, topUps>>

\* Mutant of NeedsRefund: a settlement without a difference does not count.
NeedsRefundUnlessFunded(r, source) ==
    /\ ~r.refunded /\ ~r.fundingSettled
    /\ r.tokenConsumed > 0 \/ (source = "sub" /\ r.consumed > 0)

\* Mutant of NeedsRefund: only wallets are refunded.
NeedsRefundWallet(r, source) ==
    /\ ~r.settled /\ ~r.refunded /\ ~r.fundingSettled
    /\ source = "wallet" /\ r.tokenConsumed > 0

NeedsRefund(r, source) ==
    /\ ~r.settled /\ ~r.refunded /\ ~r.fundingSettled
    /\ r.tokenConsumed > 0 \/ (source = "sub" /\ r.consumed > 0)

\* The deferred function of the handler runs with an error: Refund.
Fail(s) ==
    /\ pc[s] \in {"holding", "returned"}
    /\ IF NeedsRefund(ses[s], fund[s])
       THEN Update(s, [ses[s] EXCEPT !.refunded = TRUE]) /\ Goto(s, "refundFund")
       ELSE ses' = ses /\ Goto(s, "failed")
    /\ UNCHANGED <<rows, request, arg, attempts, paid, tok, harmed, faults, topUps>>

\* Mutant of AfterRefundFund: what Reserve took is forgotten.
AfterRefundFundPlain(s) == "refundToken"

AfterRefundFund(s) ==
    IF ses[s].extra > 0 /\ fund[s] = "sub" THEN "refundExtra" ELSE "refundToken"

\* WalletFunding.Refund: one attempt, because the increment is not idempotent.
RefundWallet(s) ==
    /\ pc[s] = "refundFund"
    /\ fund[s] = "wallet"
    /\ \/ Take(s, -ses[s].consumed) /\ UNCHANGED <<faults, harmed>>
       \/ NoTake /\ Fault /\ Harm(s)
    /\ Goto(s, AfterRefundFund(s))
    /\ UNCHANGED <<record, tokenRemain, tokenEnabled, request, ses, arg, attempts, tok, topUps>>

\* Mutant of RefundRecord: the record's status is not consulted.
RefundRecordAgain(s) ==
    /\ Take(s, -ses[s].consumed)
    /\ record' = [record EXCEPT ![s] = "refunded"]

\* RefundSubscriptionPreConsume: one transaction, void once the record is refunded.
RefundRecord(s) ==
    IF record[s] = "refunded"
    THEN NoTake /\ record' = record
    ELSE /\ Take(s, -ses[s].consumed)
         /\ record' = [record EXCEPT ![s] = "refunded"]

MaxAttempts == 3

\* refundWithRetry: an attempt succeeds, fails without effect, or commits and
\* reports an error (a connection lost after the commit); the third gives up.
RefundSub(s) ==
    /\ pc[s] = "refundFund"
    /\ fund[s] = "sub"
    /\ \/ /\ RefundRecord(s)
          /\ Goto(s, AfterRefundFund(s))
          /\ UNCHANGED <<attempts, faults, harmed>>
       \/ /\ Fault
          /\ RefundRecord(s) \/ (NoTake /\ record' = record)
          /\ attempts' = [attempts EXCEPT ![s] = @ + 1]
          /\ IF attempts[s] + 1 < MaxAttempts
             THEN pc' = pc /\ harmed' = harmed
             ELSE Goto(s, AfterRefundFund(s)) /\ Harm(s)
    /\ UNCHANGED <<tokenRemain, tokenEnabled, request, ses, arg, tok, topUps>>

RefundExtra(s) ==
    /\ pc[s] = "refundExtra"
    /\ \/ Take(s, -ses[s].extra) /\ UNCHANGED <<faults, harmed>>
       \/ NoTake /\ Fault /\ Harm(s)
    /\ Goto(s, "refundToken")
    /\ UNCHANGED <<record, tokenRemain, tokenEnabled, request, ses, arg, attempts, tok, topUps>>

RefundToken(s) ==
    /\ pc[s] = "refundToken"
    /\ \/ s \in Playground /\ NoTakeToken /\ UNCHANGED <<faults, harmed>>
       \/ s \notin Playground /\ TakeToken(s, -ses[s].tokenConsumed) /\ UNCHANGED <<faults, harmed>>
       \/ s \notin Playground /\ NoTakeToken /\ Fault /\ Harm(s)
    /\ Goto(s, "failed")
    /\ UNCHANGED <<wallet, subUsed, record, tokenEnabled, request, ses, arg, attempts, paid, topUps>>

-----------------------------------------------------------------------------
(* The environment. *)

\* A redemption code is credited to the wallet (Redeem of model/redemption.go).
TopUp ==
    /\ topUps < MaxTopUps
    /\ \E n \in TopUps : wallet' = wallet + n
    /\ topUps' = topUps + 1
    /\ UNCHANGED <<subUsed, record, tokenRemain, tokenEnabled, pc, request, ses, arg,
                   attempts, paid, tok, harmed, faults>>

Running(s) == pc[s] \notin Final \cup {"new"}

\* The process dies: sessions and refund goroutines live in memory only.
Crash ==
    /\ faults < MaxFaults
    /\ faults' = faults + 1
    /\ \E s \in Sessions : Running(s)
    /\ pc' = [s \in Sessions |-> IF Running(s) THEN "crashed" ELSE pc[s]]
    /\ harmed' = harmed \cup {s \in Sessions : Running(s)}
    /\ UNCHANGED <<rows, request, ses, arg, attempts, paid, tok, topUps>>

PreConsume(s) == Start(s) \/ ReadQuota(s) \/ ReadQuotaFails(s) \/ TokenPre(s) \/ TokenPreFails(s)
                 \/ FundPre(s) \/ FundPreFails(s) \/ Rollback(s)

Reserving(s) == ReserveFund(s) \/ ReserveFundFails(s) \/ ReserveToken(s)
                \/ ReserveTokenFails(s) \/ ReserveUndo(s)

Settling(s) == SettleFund(s) \/ SettleFundFails(s) \/ SettleToken(s)
               \/ GuardRead(s) \/ GuardDisable(s)

Refunding(s) == RefundWallet(s) \/ RefundSub(s) \/ RefundExtra(s) \/ RefundToken(s)

Handler(s) == Reserve(s) \/ Settle(s) \/ Succeed(s) \/ Fail(s)

Step(s) == PreConsume(s) \/ Reserving(s) \/ Settling(s) \/ Refunding(s) \/ Handler(s)

Next == (\E s \in Sessions : Step(s)) \/ TopUp \/ Crash

Spec == Init /\ [][Next]_vars

\* Every started goroutine runs and every database call returns, so a session
\* method in progress ends (weak fairness).  No handler calls a session in a
\* loop, so it ends although it might call Reserve or Settle again (strong).
Fairness ==
    \A s \in Sessions :
        /\ WF_vars(PreConsume(s) /\ pc[s] # "new")
        /\ WF_vars(Reserving(s) \/ Settling(s) \/ Refunding(s))
        /\ SF_vars(Succeed(s) \/ Fail(s))

FairSpec == Spec /\ Fairness

-----------------------------------------------------------------------------
(* Properties. *)

\* The variables have their types (rows may be negative: overdraft).
TypeOK ==
    /\ wallet \in Int /\ subUsed \in Nat /\ tokenRemain \in Int
    /\ record \in [Sessions -> {"none", "consumed", "refunded"}]
    /\ tokenEnabled \in BOOLEAN
    /\ pc \in [Sessions -> Locations]
    /\ estimate \in [Sessions -> Nat]
    /\ fund \in [Sessions -> Sources]
    /\ fallback \in [Sessions -> Sources \cup {"none"}]
    /\ ses \in [Sessions -> Session]
    /\ arg \in [Sessions -> Nat]
    /\ tokenSeen \in [Sessions -> Int]
    /\ attempts \in [Sessions -> Nat]
    /\ paid \in [Sessions -> Int]
    /\ tok \in [Sessions -> Int]
    /\ harmed \subseteq Sessions
    /\ faults \in Nat
    /\ topUps \in Nat

\* Whatever fails or crashes, and however often a refund is retried, no request
\* ever gets more quota back than it had given, from its source or the token.
NoFreeQuota == \A s \in Sessions : paid[s] >= 0 /\ tok[s] >= 0

\* A settled request that no error hit has paid exactly its price, from its
\* funding source and from the token, whatever it had held or reserved before.
ChargedExactly ==
    \A s \in Sessions \ harmed :
        ses[s].settled =>
            /\ paid[s] = arg[s]
            /\ tok[s] = IF s \in Playground THEN 0 ELSE arg[s]

\* A request that was rejected, or failed unsettled and has been refunded, has
\* got everything back, Reserve's extra subscription hold included.
ReturnedInFull ==
    \A s \in Sessions \ harmed :
        pc[s] \in {"rejected", "failed"} /\ ~ses[s].settled =>
            paid[s] = 0 /\ tok[s] = 0

\* Once Settle has finished, nothing moves quota for that request again: a late
\* Refund, a second Settle and a refund goroutine are all void.
SettledIsFinal ==
    [][\A s \in Sessions : ses[s].settled => paid'[s] = paid[s] /\ tok'[s] = tok[s]]_vars

\* Quota taken by a request that has not settled is in the end charged by
\* Settle or given back, unless the handler answered without a settlement
\* (the error of Settle is only logged) or an error or crash hit the request.
HoldIsResolved ==
    \A s \in Sessions :
        (paid[s] > 0 /\ ~ses[s].settled)
            ~> (ses[s].settled \/ paid[s] = 0 \/ pc[s] = "success" \/ s \in harmed)

-----------------------------------------------------------------------------
(* The session implements the promise of BillingSettler. *)

Phase(s) ==
    IF ses[s].fundingSettled \/ ses[s].settled THEN "charged"
    ELSE IF ses[s].refunded THEN "released"
    ELSE "open"

Promise == INSTANCE Escrow WITH
    Requests <- Sessions,
    phase <- [s \in Sessions |-> Phase(s)],
    paid <- paid,
    faulty <- harmed

\* Whatever the interleavings, errors, retries and crashes, each request's
\* account is charged or released, never both, and a charge is final.
ImplementsEscrow == Promise!Spec

-----------------------------------------------------------------------------
(* The inductive invariant: what the session's fields say was taken is what *)
(* was taken (exactly without an error, at least that much after one).      *)

FundHeld(s) == IF fund[s] = "wallet" THEN ses[s].consumed ELSE ses[s].consumed + ses[s].extra
TokHeld(s) == IF s \in Playground THEN 0 ELSE ses[s].tokenConsumed

Committed(s) == ses[s].fundingSettled \/ ses[s].settled

ExpectedPaid(s) ==
    IF Committed(s) THEN arg[s] + FundHeld(s) - ses[s].pre
    ELSE IF pc[s] \in {"reserveToken", "reserveUndo"} /\ fund[s] = "sub" THEN FundHeld(s) + Raise(s)
    ELSE IF ~ses[s].refunded THEN FundHeld(s)
    ELSE IF pc[s] = "refundFund" THEN
             IF fund[s] = "sub" /\ record[s] = "refunded" THEN ses[s].extra ELSE FundHeld(s)
    ELSE IF pc[s] = "refundExtra" THEN ses[s].extra
    ELSE 0

TokenSettled(s) == ses[s].settled \/ pc[s] \in {"guardRead", "guardDisable"}

ExpectedTok(s) ==
    IF s \in Playground THEN 0
    ELSE IF TokenSettled(s) THEN arg[s]
    ELSE IF ses[s].refunded /\ pc[s] = "failed" THEN 0
    ELSE TokHeld(s)

Opening == {"new", "readQuota", "tokenPre", "rejected"}
Raising == {"reserveFund", "reserveToken", "reserveUndo"}
Committing == {"settleToken", "guardRead", "guardDisable"}
Returning == {"refundFund", "refundExtra", "refundToken"}

\* A raise the wallet source has already added to consumed.
Unreserved(s) ==
    IF pc[s] \in {"reserveToken", "reserveUndo"} /\ fund[s] = "wallet" THEN Raise(s) ELSE 0

\* How the fields relate to each other and to where the request is.
FieldsOK(s) ==
    /\ pc[s] \in Opening => ses[s] = Fresh \/ pc[s] = "rejected"
    /\ pc[s] \in {"fundPre", "rollback"} =>
           ses[s] = [Fresh EXCEPT !.tokenConsumed = Hold(s)]
    /\ pc[s] \notin {"fundPre", "rollback", "rejected", "crashed"} => ses[s].tokenConsumed = ses[s].pre
    /\ FundHeld(s) >= ses[s].pre + Unreserved(s)
    /\ s \notin harmed => FundHeld(s) = ses[s].pre + Unreserved(s)
    /\ pc[s] \in Raising => arg[s] > ses[s].pre
    /\ ses[s].settled => pc[s] \in {"returned", "success", "failed", "crashed"}
    /\ ses[s].refunded => pc[s] \in Returning \cup {"failed", "crashed"}
    /\ pc[s] \in Returning => ses[s].refunded /\ ~Committed(s)
    /\ pc[s] \in Committing => ses[s].fundingSettled
    /\ ses[s].fundingSettled => pc[s] \in Committing \/ ses[s].settled \/ pc[s] = "crashed"
    /\ ses[s].fundingSettled => ~ses[s].refunded
    /\ pc[s] = "refundExtra" => fund[s] = "sub"
    /\ pc[s] = "rejected" => ses[s].pre = 0 /\ FundHeld(s) = 0 /\ ~Committed(s) /\ ~ses[s].refunded
    /\ pc[s] = "crashed" => s \in harmed
    /\ record[s] = "refunded" => ses[s].refunded
    /\ pc[s] = "failed" /\ ~ses[s].settled /\ ~ses[s].refunded => ses[s].pre = 0
    /\ pc[s] = "settleFund" \/ Committed(s) => arg[s] \in Prices

PaidOK(s) ==
    /\ paid[s] >= ExpectedPaid(s)
    /\ s \notin harmed => paid[s] = ExpectedPaid(s)

TokOK(s) ==
    /\ tok[s] >= 0
    /\ ~TokenSettled(s) /\ pc[s] \notin {"rejected", "failed", "crashed"} => tok[s] >= TokHeld(s)
    /\ s \notin harmed =>
           tok[s] = IF pc[s] = "rejected" THEN 0 ELSE ExpectedTok(s)

Local(s) == FieldsOK(s) /\ PaidOK(s) /\ TokOK(s)

IInv == \A s \in Sessions : Local(s)
=============================================================================
