--------------------------- MODULE MCSubscription ---------------------------
(* Catalogues of plans for the model checker. *)
EXTENDS Subscription, TLC

\* A plan that starts again with the calendar, and one that does not start again
\* until an administrator gives it a period, which it then counts on its own.
Quotas == [p \in {"calendar", "custom"} |->
    [total |-> 2, duration |-> 3, period |-> IF p = "calendar" THEN 2 ELSE 0,
     aligned |-> (p = "calendar"), upgrade |-> "none", limit |-> 0]]

\* The same plans and one that may be owned once.
Limited == [p \in {"calendar", "custom", "once"} |->
    IF p = "once" THEN [Quotas["custom"] EXCEPT !.limit = 1] ELSE Quotas[p]]

Single == CHOOSE b \in Buyers : TRUE

\* For one run with two subjects: a single subscription without a limit, bought by
\* one grant, in everything that happens to it; or several of the limited plan, at once
\* after the start, by grants that overlap and administrators alone.
OneSubject ==
    \/ /\ bought' <= 1 /\ sub'[1].plan # "once" /\ period'["once"] = 0
       /\ \A b \in Buyers : buyer'[b].at = "read" => b = Single /\ buyer'[b].row.plan # "once"
    \/ /\ now' = 1 /\ period' = [p \in Plans |-> Catalog[p].period] /\ UNCHANGED hold
       /\ \A m \in Masters : job'[m] = Idle
       /\ \A s \in 1 .. bought' : sub'[s].plan = "once"
       /\ \A b \in Buyers : buyer'[b].at = "read" => buyer'[b].row.plan = "once"

\* A plan of plain quota, and one that upgrades the user and may be owned once.
Upgraded == [p \in {"plain", "vip"} |->
    [total |-> 0, duration |-> 2, period |-> 0, aligned |-> TRUE,
     upgrade |-> IF p = "vip" THEN "vip" ELSE "none", limit |-> IF p = "vip" THEN 1 ELSE 0]]

\* Two plans that upgrade the user and start again; one of them may be renewed, the
\* other may be owned once.
Mixed == [p \in {"vip", "svip"} |->
    [total |-> 1, duration |-> IF p = "vip" THEN 3 ELSE 2, period |-> IF p = "vip" THEN 2 ELSE 1,
     aligned |-> TRUE, upgrade |-> p, limit |-> IF p = "svip" THEN 1 ELSE 0]]

\* Two plans that upgrade the user, start again and may be renewed.
Renewed == [p \in {"vip", "svip"} |->
    [total |-> 1, duration |-> IF p = "vip" THEN 3 ELSE 2, period |-> IF p = "vip" THEN 2 ELSE 1,
     aligned |-> TRUE, upgrade |-> p, limit |-> 0]]

\* Requests that are alike.
Symmetry == Permutations(Requests)

=============================================================================
