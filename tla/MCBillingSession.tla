-------------------------- MODULE MCBillingSession --------------------------
(* BillingSession for TLC: properties that add over the requests. *)
EXTENDS BillingSession, FiniteSetsExt, TLC

CONSTANTS s1, s2, s3

MCSessions1 == {s1}
MCSessions2 == {s1, s2}
MCSessions3 == {s1, s2, s3}
MCPlayground == {s2}
NoSessions == {}
MCForced == {s1, s3}
Symmetry == Permutations({s1, s3})

\* With more than one error the second request never starts: two requests meet
\* every single error, and one of them meets as many as its refund has attempts.
FaultsMeetOne == faults' > 1 => pc'[s2] = "new"

Excess(v, hold) == IF v > hold THEN v - hold ELSE 0

\* Only settlement above a hold may overdraw: however the balance checks and
\* the decrements of concurrent requests interleave, the holds alone never
\* take the wallet or a limited token below zero.
OverdraftOnlyBySettlement ==
    LET FromWallet == {s \in Sessions : fund[s] = "wallet"}
    IN  /\ wallet + MapThenSumSet(LAMBDA s : Excess(paid[s], ses[s].consumed), FromWallet) >= 0
        /\ TokenUnlimited \/
           tokenRemain + MapThenSumSet(LAMBDA s : Excess(tok[s], ses[s].tokenConsumed), Sessions) >= 0

\* The usage of the subscription is the sum of what its requests have taken
\* (the clamp at zero never swallows a refund) and stays within the total.
SubscriptionBalances ==
    /\ subUsed = MapThenSumSet(LAMBDA s : paid[s], {s \in Sessions : fund[s] = "sub"})
    /\ SubTotal > 0 => subUsed <= SubTotal

\* When the wallet is below the tolerance, the user's tokens are disabled, or a
\* settlement on its way to the guard will do it; only requests the guard skips
\* (playground) or whose guard failed can leave it so.
OverspendStopsTokens ==
    wallet < -Tolerance =>
        \/ ~tokenEnabled
        \/ \E s \in Sessions :
              \/ pc[s] \in {"settleToken", "guardRead", "guardDisable"}
              \/ s \in harmed
              \/ s \in Playground /\ ses[s].settled /\ paid[s] > ses[s].consumed
=============================================================================
