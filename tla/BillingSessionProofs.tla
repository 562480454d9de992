------------------------ MODULE BillingSessionProofs ------------------------
(***************************************************************************)
(* Proofs about BillingSession, for every number of requests and every     *)
(* value of the constants.                                                 *)
(*                                                                         *)
(* IInv is inductive: it says of each request that the quota taken for it  *)
(* is what the fields of its session account for.  It reads nothing that   *)
(* another request writes, so each action is proved for its own request    *)
(* (the lemmas named after the actions) and Framing adds the others.       *)
(*                                                                         *)
(* The rows the requests share are compared with sums over all of them:    *)
(* Balanced says what the sums come to, and a step moves a row by what it  *)
(* moves one term.  The lemmas on sums come first.  Guarded, of the        *)
(* overspend guard, is inductive together with IInv.                       *)
(***************************************************************************)
EXTENDS MCBillingSession, FiniteSetTheorems, WellFoundedInduction, TLAPS

USE SetsAssumption, NumbersAssumption

\* What TypeOK says of one request.
LEMMA SessionTypes ==
    ASSUME TypeOK, NEW s \in Sessions
    PROVE  /\ ses[s] \in Session
           /\ ses[s].pre \in Nat /\ ses[s].tokenConsumed \in Nat
           /\ ses[s].consumed \in Nat /\ ses[s].extra \in Nat
           /\ ses[s].trusted \in BOOLEAN /\ ses[s].fundingSettled \in BOOLEAN
           /\ ses[s].settled \in BOOLEAN /\ ses[s].refunded \in BOOLEAN
           /\ arg[s] \in Nat /\ estimate[s] \in Nat
           /\ paid[s] \in Int /\ tok[s] \in Int
           /\ fund[s] \in {"wallet", "sub"}
           /\ Hold(s) \in Nat /\ Delta(s) \in Int /\ Raise(s) \in Int
BY DEF TypeOK, Session, Sources, Hold, Delta, Raise

\* A step of request s leaves every other request alone.
Others(s) ==
    \A t \in Sessions : t # s =>
        /\ pc'[t] = pc[t] /\ ses'[t] = ses[t] /\ fund'[t] = fund[t] /\ arg'[t] = arg[t]
        /\ record'[t] = record[t] /\ paid'[t] = paid[t] /\ tok'[t] = tok[t]
        /\ estimate'[t] = estimate[t] /\ (t \in harmed' <=> t \in harmed)

\* Moving a request changes its location only.
LEMMA GotoEffect ==
    ASSUME TypeOK, NEW s \in Sessions, NEW l \in Locations, Goto(s, l)
    PROVE  /\ pc' \in [Sessions -> Locations]
           /\ pc'[s] = l
           /\ \A t \in Sessions : t # s => pc'[t] = pc[t]
BY DEF TypeOK, Goto

\* Storing a session changes that session only.
LEMMA UpdateEffect ==
    ASSUME TypeOK, NEW s \in Sessions, NEW r \in Session, Update(s, r)
    PROVE  /\ ses' \in [Sessions -> Session]
           /\ ses'[s] = r
           /\ \A t \in Sessions : t # s => ses'[t] = ses[t]
BY DEF TypeOK, Update

\* Take changes one account, whatever the source and whatever the clamp at zero
\* does to the usage of the subscription.
LEMMA TakeEffect ==
    ASSUME TypeOK, NEW s \in Sessions, NEW n \in Int, Take(s, n)
    PROVE  /\ wallet' \in Int
           /\ subUsed' \in Nat
           /\ paid' \in [Sessions -> Int]
           /\ paid'[s] = paid[s] + n
           /\ \A t \in Sessions : t # s => paid'[t] = paid[t]
BY DEF TypeOK, Take, UsedAfter

\* TakeToken changes the token account of one request only.
LEMMA TakeTokenEffect ==
    ASSUME TypeOK, NEW s \in Sessions, NEW n \in Int, TakeToken(s, n)
    PROVE  /\ tokenRemain' \in Int
           /\ tok' \in [Sessions -> Int]
           /\ tok'[s] = tok[s] + n
           /\ \A t \in Sessions : t # s => tok'[t] = tok[t]
BY DEF TypeOK, TakeToken

\* The invariant of a request reads nothing that another request's step changes.
LEMMA Frame ==
    ASSUME NEW t \in Sessions, TypeOK, TypeOK', Local(t),
           pc'[t] = pc[t], ses'[t] = ses[t], fund'[t] = fund[t], arg'[t] = arg[t],
           record'[t] = record[t], paid'[t] = paid[t], tok'[t] = tok[t],
           estimate'[t] = estimate[t], t \in harmed' <=> t \in harmed
    PROVE  Local(t)'
BY DEF Local, FieldsOK, PaidOK, TokOK, Fresh, FundHeld, TokHeld, Unreserved, Raise, Hold,
       Committed, ExpectedPaid, ExpectedTok, TokenSettled, Opening, Raising, Committing, Returning

\* A step that keeps the types and the invariant of its own request, and leaves
\* the others alone, keeps the invariant.
LEMMA Framing ==
    ASSUME TypeOK, IInv, TypeOK', NEW s \in Sessions, Others(s), Local(s)'
    PROVE  IInv'
<1>1. ASSUME NEW t \in Sessions, t # s PROVE Local(t)'
  <2>1. Local(t)
      BY DEF IInv
  <2> QED BY <1>1, <2>1, Frame DEF Others
<1> QED BY <1>1 DEF IInv

-----------------------------------------------------------------------------
(* The initial states. *)

\* The invariant holds initially.
LEMMA InitInv == Init => TypeOK /\ IInv
<1> SUFFICES ASSUME Init PROVE TypeOK /\ IInv
    OBVIOUS
<1>1. TypeOK
    BY DEF Init, TypeOK, Fresh, Session, Locations, Final, Sources
<1>2. IInv
    BY DEF Init, IInv, Local, FieldsOK, PaidOK, TokOK, Fresh, FundHeld, TokHeld, Unreserved,
           Committed, ExpectedPaid, ExpectedTok, TokenSettled, Opening, Raising, Committing, Returning
<1> QED BY <1>1, <1>2

-----------------------------------------------------------------------------
(* NewBillingSession and preConsume. *)

\* Authentication and the choice of a source take nothing.
LEMMA StartInv ==
    ASSUME TypeOK, IInv, NEW s \in Sessions, Start(s)
    PROVE  TypeOK' /\ Others(s) /\ Local(s)'
<1>1. TypeOK'
    BY DEF Start, TypeOK, rows, Goto, Locations, Final, Sources
<1>2. Local(s)'
    BY <1>1 DEF Start, TypeOK, IInv, rows, Goto, Local, FieldsOK, PaidOK, TokOK, FundHeld, TokHeld,
       Unreserved, Raise, Hold, Fresh, Committed, ExpectedPaid, ExpectedTok, TokenSettled,
       Opening, Raising, Committing, Returning
<1>3. Others(s)
    BY DEF Start, TypeOK, rows, Goto, Others
<1> QED BY <1>1, <1>2, <1>3

\* The bypass was not taken: the session is a fresh one.
LEMMA NoTrust ==
    ASSUME NEW s, NEW quota, ~ShouldTrust(s, quota)
    PROVE  [Fresh EXCEPT !.trusted = ShouldTrust(s, quota)] = Fresh
<1>1. ShouldTrust(s, quota) = FALSE
    BY Zenon DEF ShouldTrust
<1>2. Fresh \in Session /\ Fresh.trusted = FALSE
    BY DEF Fresh, Session
<1>3. ASSUME NEW r \in Session, r.trusted = FALSE PROVE [r EXCEPT !.trusted = FALSE] = r
    BY <1>3 DEF Session
<1> QED BY <1>1, <1>2, <1>3, Zenon

\* The balance check moves on, tries the other source, or rejects; nothing is taken.
LEMMA ReadQuotaInv ==
    ASSUME TypeOK, IInv, NEW s \in Sessions, ReadQuota(s)
    PROVE  TypeOK' /\ Others(s) /\ Local(s)'
<1> USE SessionTypes DEF rows, Update, Goto, NextSource
<1>0. FieldsOK(s) /\ PaidOK(s) /\ TokOK(s) /\ pc[s] = "readQuota" /\ ses[s] = Fresh
    BY DEF IInv, Local, FieldsOK, Opening, ReadQuota
<1>1. PICK quota \in {wallet} \cup StaleQuotas :
          \/ NextSource(s) /\ ses' = ses
          \/ /\ Update(s, [Fresh EXCEPT !.trusted = ShouldTrust(s, quota)])
             /\ Goto(s, "holding") \/ (~ShouldTrust(s, quota) /\ Goto(s, "tokenPre"))
             /\ UNCHANGED <<fund, fallback>>
    BY DEF ReadQuota
<1>2. UNCHANGED <<rows, estimate, tokenSeen, arg, attempts, paid, tok, harmed, faults, topUps>>
    BY DEF ReadQuota
<1>3. CASE NextSource(s) /\ ses' = ses
  <2>1. /\ pc' \in [Sessions -> Locations] /\ fund' \in [Sessions -> Sources]
        /\ fallback' \in [Sessions -> Sources \cup {"none"}]
      BY <1>3 DEF TypeOK, Locations, Final, Sources
  <2>2. TypeOK'
      BY <1>2, <1>3, <2>1 DEF TypeOK
  <2>3. Others(s)
      BY <1>2, <1>3 DEF TypeOK, Others
  <2>4. pc'[s] \in {"rejected", "readQuota"} /\ ses'[s] = Fresh
      BY <1>0, <1>3 DEF TypeOK
  <2>5. Local(s)'
      BY <1>0, <1>2, <2>2, <2>4
      DEF Local, FieldsOK, PaidOK, TokOK, Fresh, FundHeld, TokHeld, Unreserved, Committed, ExpectedPaid,
          ExpectedTok, TokenSettled, Opening, Raising, Committing, Returning, TypeOK
  <2> QED BY <2>2, <2>3, <2>5
<1>4. CASE /\ Update(s, [Fresh EXCEPT !.trusted = ShouldTrust(s, quota)])
           /\ Goto(s, "holding") \/ (~ShouldTrust(s, quota) /\ Goto(s, "tokenPre"))
           /\ UNCHANGED <<fund, fallback>>
  <2> DEFINE r == [Fresh EXCEPT !.trusted = ShouldTrust(s, quota)]
  <2>1. /\ r \in Session
        /\ r.pre = 0 /\ r.tokenConsumed = 0 /\ r.consumed = 0 /\ r.extra = 0
        /\ ~r.fundingSettled /\ ~r.settled /\ ~r.refunded
      BY DEF Session, Fresh, ShouldTrust
  <2> HIDE DEF r
  <2>2. ses' \in [Sessions -> Session] /\ ses'[s] = r
      BY <1>4, <2>1, UpdateEffect DEF r
  <2>3. TypeOK'
      BY <1>2, <1>4, <2>2 DEF TypeOK, Locations
  <2>4. Others(s)
      BY <1>2, <1>4 DEF TypeOK, Others
  <2>5. CASE Goto(s, "holding")
      BY <1>0, <1>2, <1>4, <2>1, <2>2, <2>3, <2>4, <2>5
      DEF Local, FieldsOK, PaidOK, TokOK, Fresh, FundHeld, TokHeld, Unreserved, Committed, ExpectedPaid,
          ExpectedTok, TokenSettled, Opening, Raising, Committing, Returning, TypeOK
  <2>6. CASE ~ShouldTrust(s, quota) /\ Goto(s, "tokenPre")
    <3>1. r = Fresh
        BY <2>6, NoTrust DEF r
    <3> QED
        BY <1>0, <1>2, <1>4, <2>1, <2>2, <2>3, <2>4, <2>6, <3>1
        DEF Local, FieldsOK, PaidOK, TokOK, Fresh, FundHeld, TokHeld, Unreserved, Committed, ExpectedPaid,
            ExpectedTok, TokenSettled, Opening, Raising, Committing, Returning, TypeOK
  <2> QED BY <1>4, <2>5, <2>6
<1> QED BY <1>1, <1>3, <1>4

\* A failed read takes nothing.
LEMMA ReadQuotaFailsInv ==
    ASSUME TypeOK, IInv, NEW s \in Sessions, ReadQuotaFails(s)
    PROVE  TypeOK' /\ Others(s) /\ Local(s)'
<1> USE SessionTypes DEF ReadQuotaFails, Fault, Goto, rows, request
<1>0. FieldsOK(s) /\ PaidOK(s) /\ TokOK(s)
    BY DEF IInv, Local
<1>1. TypeOK'
    BY <1>0 DEF TypeOK, Session, Fresh, Sources, Locations, Final, FieldsOK, Raise, Opening, Raising,
       Committing, Returning, FundHeld, Unreserved
<1>2. Others(s)
    BY DEF TypeOK, Others
<1>3. FieldsOK(s)'
    BY <1>0, <1>1 DEF FieldsOK, Hold, Fresh, FundHeld, Unreserved, Raise, Committed, Opening, Raising,
       Committing, Returning, Session, TypeOK, Sources
<1>4. PaidOK(s)'
    BY <1>0, <1>1 DEF PaidOK, ExpectedPaid, Committed, Delta, Raise, FundHeld, Session, FieldsOK, Fresh,
       Opening, Raising, Committing, Returning, TypeOK, Hold, Unreserved, Sources
<1>5. TokOK(s)'
    BY <1>0, <1>1 DEF TokOK, ExpectedTok, TokHeld, TokenSettled, Session, FieldsOK, Fresh, Opening,
       Raising, Committing, Returning, TypeOK, Delta, Raise, Committed, Hold, Sources
<1> QED BY <1>1, <1>2, <1>3, <1>4, <1>5 DEF Local

\* The token charge is recorded in tokenConsumed.
LEMMA TokenPreInv ==
    ASSUME TypeOK, IInv, NEW s \in Sessions, TokenPre(s)
    PROVE  TypeOK' /\ Others(s) /\ Local(s)'
<1> USE SessionTypes DEF TokenPre, ChargeToken, Update, Goto, request, NoTakeToken, TakeToken
<1>0. FieldsOK(s) /\ PaidOK(s) /\ TokOK(s)
    BY DEF IInv, Local
<1> DEFINE r == [ses[s] EXCEPT !.tokenConsumed = Hold(s)]
<1>1. /\ r \in Session
      /\ r.tokenConsumed = Hold(s)
      /\ r.pre = ses[s].pre /\ r.consumed = ses[s].consumed /\ r.extra = ses[s].extra
      /\ r.trusted = ses[s].trusted /\ r.fundingSettled = ses[s].fundingSettled /\ r.settled = ses[s].settled /\ r.refunded = ses[s].refunded
    BY <1>0 DEF Session, Fresh, FieldsOK, Raising, Unreserved, FundHeld
<1>2. ses' \in [Sessions -> Session] /\ ses'[s] = r
    BY <1>1, UpdateEffect
<1>b. r = [Fresh EXCEPT !.tokenConsumed = Hold(s)]
    BY <1>0 DEF FieldsOK, Opening
<1> HIDE DEF r
<1>3. TypeOK'
    BY <1>1, <1>2, TakeEffect, TakeTokenEffect DEF TypeOK, Locations, Final, Sources
<1>4. Others(s)
    BY DEF TypeOK, Others
<1>5. FieldsOK(s)'
    BY <1>0, <1>1, <1>2, <1>3, <1>b DEF FieldsOK, Hold, Fresh, FundHeld, Unreserved, Raise, Committed,
       Opening, Raising, Committing, Returning, Session, TypeOK, Sources
<1>6. PaidOK(s)'
    BY <1>0, <1>1, <1>2, <1>3, <1>b DEF PaidOK, ExpectedPaid, Committed, Delta, Raise, FundHeld, Session,
       FieldsOK, Fresh, Opening, Raising, Committing, Returning, TypeOK, Hold, Unreserved, Sources
<1>7. TokOK(s)'
    BY <1>0, <1>1, <1>2, <1>3, <1>b DEF TokOK, ExpectedTok, TokHeld, TokenSettled, Session, FieldsOK,
       Fresh, Opening, Raising, Committing, Returning, TypeOK, Delta, Raise, Committed, Hold, Sources
<1> QED BY <1>3, <1>4, <1>5, <1>6, <1>7 DEF Local

\* A failed token charge takes nothing.
LEMMA TokenPreFailsInv ==
    ASSUME TypeOK, IInv, NEW s \in Sessions, TokenPreFails(s)
    PROVE  TypeOK' /\ Others(s) /\ Local(s)'
<1> USE SessionTypes DEF TokenPreFails, Fault, Goto, rows, request
<1>0. FieldsOK(s) /\ PaidOK(s) /\ TokOK(s)
    BY DEF IInv, Local
<1>1. TypeOK'
    BY <1>0 DEF TypeOK, Session, Fresh, Sources, Locations, Final, FieldsOK, Raise, Opening, Raising,
       Committing, Returning, FundHeld, Unreserved
<1>2. Others(s)
    BY DEF TypeOK, Others
<1>3. FieldsOK(s)'
    BY <1>0, <1>1 DEF FieldsOK, Hold, Fresh, FundHeld, Unreserved, Raise, Committed, Opening, Raising,
       Committing, Returning, Session, TypeOK, Sources
<1>4. PaidOK(s)'
    BY <1>0, <1>1 DEF PaidOK, ExpectedPaid, Committed, Delta, Raise, FundHeld, Session, FieldsOK, Fresh,
       Opening, Raising, Committing, Returning, TypeOK, Hold, Unreserved, Sources
<1>5. TokOK(s)'
    BY <1>0, <1>1 DEF TokOK, ExpectedTok, TokHeld, TokenSettled, Session, FieldsOK, Fresh, Opening,
       Raising, Committing, Returning, TypeOK, Delta, Raise, Committed, Hold, Sources
<1> QED BY <1>1, <1>2, <1>3, <1>4, <1>5 DEF Local

\* The hold is recorded in pre and consumed.
LEMMA FundPreInv ==
    ASSUME TypeOK, IInv, NEW s \in Sessions, FundPre(s)
    PROVE  TypeOK' /\ Others(s) /\ Local(s)'
<1> USE SessionTypes DEF FundPre, Affordable, Take, Update, Goto, request, UsedAfter
<1>0. FieldsOK(s) /\ PaidOK(s) /\ TokOK(s)
    BY DEF IInv, Local
<1> DEFINE r == [ses[s] EXCEPT !.consumed = Hold(s), !.pre = Hold(s)]
<1>1. /\ r \in Session
      /\ r.pre = Hold(s)
      /\ r.consumed = Hold(s)
      /\ r.tokenConsumed = ses[s].tokenConsumed /\ r.extra = ses[s].extra /\ r.trusted = ses[s].trusted
      /\ r.fundingSettled = ses[s].fundingSettled /\ r.settled = ses[s].settled /\ r.refunded = ses[s].refunded
    BY <1>0 DEF Session, Fresh, FieldsOK, Raising, Unreserved, FundHeld
<1>2. ses' \in [Sessions -> Session] /\ ses'[s] = r
    BY <1>1, UpdateEffect
<1> HIDE DEF r
<1>3. TypeOK'
    BY <1>1, <1>2, TakeEffect, TakeTokenEffect DEF TypeOK, Locations, Final, Sources
<1>4. Others(s)
    BY DEF TypeOK, Others
<1>5. FieldsOK(s)'
    BY <1>0, <1>1, <1>2, <1>3 DEF FieldsOK, Hold, Fresh, FundHeld, Unreserved, Raise, Committed, Opening,
       Raising, Committing, Returning, Session, TypeOK, Sources
<1>6. PaidOK(s)'
  <2>1. /\ ses[s].consumed = 0 /\ ses[s].extra = 0
        /\ ~ses[s].fundingSettled /\ ~ses[s].settled /\ ~ses[s].refunded
      BY <1>0 DEF FieldsOK, Fresh
  <2>2. paid'[s] = paid[s] + Hold(s)
      BY DEF TypeOK
  <2>3. ExpectedPaid(s) = 0
      BY <2>1 DEF ExpectedPaid, Committed, FundHeld
  <2>4. FundHeld(s)' = Hold(s)
      BY <1>1, <1>2, <2>1 DEF FundHeld
  <2>5. pc'[s] = "holding"
      BY DEF TypeOK
  <2>6. ExpectedPaid(s)' = Hold(s)
      BY <1>1, <1>2, <2>1, <2>4, <2>5 DEF ExpectedPaid, Committed
  <2> QED BY <1>0, <2>2, <2>3, <2>6 DEF PaidOK
<1>7. TokOK(s)'
    BY <1>0, <1>1, <1>2, <1>3 DEF TokOK, ExpectedTok, TokHeld, TokenSettled, Session, FieldsOK, Fresh,
       Opening, Raising, Committing, Returning, TypeOK, Delta, Raise, Committed, Hold, Sources
<1> QED BY <1>3, <1>4, <1>5, <1>6, <1>7 DEF Local

\* A failed hold takes nothing.
LEMMA FundPreFailsInv ==
    ASSUME TypeOK, IInv, NEW s \in Sessions, FundPreFails(s)
    PROVE  TypeOK' /\ Others(s) /\ Local(s)'
<1> USE SessionTypes DEF FundPreFails, Affordable, Fault, Goto, rows, UsedAfter
<1>0. FieldsOK(s) /\ PaidOK(s) /\ TokOK(s)
    BY DEF IInv, Local
<1>1. TypeOK'
    BY <1>0 DEF TypeOK, Session, Fresh, Sources, Locations, Final, FieldsOK, Raise, Opening, Raising,
       Committing, Returning, FundHeld, Unreserved
<1>2. Others(s)
    BY DEF TypeOK, Others
<1>3. FieldsOK(s)'
    BY <1>0, <1>1 DEF FieldsOK, Hold, Fresh, FundHeld, Unreserved, Raise, Committed, Opening, Raising,
       Committing, Returning, Session, TypeOK, Sources
<1>4. PaidOK(s)'
    BY <1>0, <1>1 DEF PaidOK, ExpectedPaid, Committed, Delta, Raise, FundHeld, Session, FieldsOK, Fresh,
       Opening, Raising, Committing, Returning, TypeOK, Hold, Unreserved, Sources
<1>5. TokOK(s)'
    BY <1>0, <1>1 DEF TokOK, ExpectedTok, TokHeld, TokenSettled, Session, FieldsOK, Fresh, Opening,
       Raising, Committing, Returning, TypeOK, Delta, Raise, Committed, Hold, Sources
<1> QED BY <1>1, <1>2, <1>3, <1>4, <1>5 DEF Local

\* The rollback returns the token charge, or an error harms the request.
LEMMA RollbackInv ==
    ASSUME TypeOK, IInv, NEW s \in Sessions, Rollback(s)
    PROVE  TypeOK' /\ Others(s) /\ Local(s)'
<1> USE SessionTypes DEF Rollback, TakeToken, NoTakeToken, Fault, Harm, Update, NextSource, Goto
<1>0. FieldsOK(s) /\ PaidOK(s) /\ TokOK(s)
    BY DEF IInv, Local
<1> DEFINE r == Fresh
<1>1. /\ r \in Session
      /\ r.pre = 0 /\ r.tokenConsumed = 0 /\ r.consumed = 0 /\ r.extra = 0
      /\ ~r.trusted /\ ~r.fundingSettled /\ ~r.settled /\ ~r.refunded
    BY <1>0 DEF Session, Fresh, FieldsOK, Raising, Unreserved, FundHeld
<1>2. ses' \in [Sessions -> Session] /\ ses'[s] = r
    BY <1>1, UpdateEffect
<1> HIDE DEF r
<1>c. pc' \in [Sessions -> Locations] /\ fund' \in [Sessions -> Sources] /\ fallback' \in [Sessions -> Sources \cup {"none"}]
    BY DEF TypeOK, Locations, Final, Sources
<1>3. TypeOK'
    BY <1>1, <1>2, <1>c, TakeEffect, TakeTokenEffect DEF TypeOK, Locations, Final, Sources
<1>4. Others(s)
    BY DEF TypeOK, Others
<1>5. FieldsOK(s)'
    BY <1>0, <1>1, <1>2, <1>3 DEF FieldsOK, Hold, Fresh, FundHeld, Unreserved, Raise, Committed, Opening,
       Raising, Committing, Returning, Session, TypeOK, Sources
<1>6. PaidOK(s)'
    BY <1>0, <1>1, <1>2, <1>3 DEF PaidOK, ExpectedPaid, Committed, Delta, Raise, FundHeld, Session,
       FieldsOK, Fresh, Opening, Raising, Committing, Returning, TypeOK, Hold, Unreserved, Sources
<1>7. TokOK(s)'
    BY <1>0, <1>1, <1>2, <1>3 DEF TokOK, ExpectedTok, TokHeld, TokenSettled, Session, FieldsOK, Fresh,
       Opening, Raising, Committing, Returning, TypeOK, Delta, Raise, Committed, Hold, Sources
<1> QED BY <1>3, <1>4, <1>5, <1>6, <1>7 DEF Local

-----------------------------------------------------------------------------
(* Reserve. *)

\* Reserve fixes a target above the hold.
LEMMA ReserveInv ==
    ASSUME TypeOK, IInv, NEW s \in Sessions, Reserve(s)
    PROVE  TypeOK' /\ Others(s) /\ Local(s)'
<1> USE SessionTypes DEF Reserve, Goto, rows, request
<1>0. FieldsOK(s) /\ PaidOK(s) /\ TokOK(s)
    BY DEF IInv, Local
<1>1. TypeOK'
    BY <1>0 DEF TypeOK, Session, Fresh, Sources, Locations, Final, FieldsOK, Raise, Opening, Raising,
       Committing, Returning, FundHeld, Unreserved
<1>2. Others(s)
    BY DEF TypeOK, Others
<1>3. FieldsOK(s)'
    BY <1>0, <1>1 DEF FieldsOK, Hold, Fresh, FundHeld, Unreserved, Raise, Committed, Opening, Raising,
       Committing, Returning, Session, TypeOK, Sources
<1>4. PaidOK(s)'
    BY <1>0, <1>1 DEF PaidOK, ExpectedPaid, Committed, Delta, Raise, FundHeld, Session, FieldsOK, Fresh,
       Opening, Raising, Committing, Returning, TypeOK, Hold, Unreserved, Sources
<1>5. TokOK(s)'
    BY <1>0, <1>1 DEF TokOK, ExpectedTok, TokHeld, TokenSettled, Session, FieldsOK, Fresh, Opening,
       Raising, Committing, Returning, TypeOK, Delta, Raise, Committed, Hold, Sources
<1> QED BY <1>1, <1>2, <1>3, <1>4, <1>5 DEF Local

\* The raise is taken from the source before it is recorded in the hold.
LEMMA ReserveFundInv ==
    ASSUME TypeOK, IInv, NEW s \in Sessions, ReserveFund(s)
    PROVE  TypeOK' /\ Others(s) /\ Local(s)'
<1> USE SessionTypes DEF ReserveFund, Affordable, Take, Update, Goto, request, UsedAfter
<1>0. FieldsOK(s) /\ PaidOK(s) /\ TokOK(s)
    BY DEF IInv, Local
<1>a. Raise(s) \in Nat
  <2>1. arg[s] > ses[s].pre
      BY <1>0 DEF FieldsOK, Raising
  <2> QED BY <2>1 DEF Raise
<1> DEFINE r == [ses[s] EXCEPT !.consumed = IF fund[s] = "wallet" THEN ses[s].consumed + Raise(s) ELSE ses[s].consumed]
<1>1. /\ r \in Session
      /\ r.consumed = (IF fund[s] = "wallet" THEN ses[s].consumed + Raise(s) ELSE ses[s].consumed)
      /\ r.pre = ses[s].pre /\ r.tokenConsumed = ses[s].tokenConsumed /\ r.extra = ses[s].extra
      /\ r.trusted = ses[s].trusted /\ r.fundingSettled = ses[s].fundingSettled /\ r.settled = ses[s].settled /\ r.refunded = ses[s].refunded
    BY <1>a DEF Session
<1>2. ses' \in [Sessions -> Session] /\ ses'[s] = r
    BY <1>1, UpdateEffect
<1> HIDE DEF r
<1>3. TypeOK'
    BY <1>1, <1>2, TakeEffect, TakeTokenEffect DEF TypeOK, Locations, Final, Sources
<1>4. Others(s)
    BY DEF TypeOK, Others
<1>5. FieldsOK(s)'
    BY <1>0, <1>1, <1>2, <1>3 DEF FieldsOK, Hold, Fresh, FundHeld, Unreserved, Raise, Committed, Opening,
       Raising, Committing, Returning, Session, TypeOK, Sources
<1>6. PaidOK(s)'
    BY <1>0, <1>1, <1>2, <1>3 DEF PaidOK, ExpectedPaid, Committed, Delta, Raise, FundHeld, Session,
       FieldsOK, Fresh, Opening, Raising, Committing, Returning, TypeOK, Hold, Unreserved, Sources
<1>7. TokOK(s)'
    BY <1>0, <1>1, <1>2, <1>3 DEF TokOK, ExpectedTok, TokHeld, TokenSettled, Session, FieldsOK, Fresh,
       Opening, Raising, Committing, Returning, TypeOK, Delta, Raise, Committed, Hold, Sources
<1> QED BY <1>3, <1>4, <1>5, <1>6, <1>7 DEF Local

\* A failed raise takes nothing.
LEMMA ReserveFundFailsInv ==
    ASSUME TypeOK, IInv, NEW s \in Sessions, ReserveFundFails(s)
    PROVE  TypeOK' /\ Others(s) /\ Local(s)'
<1> USE SessionTypes DEF ReserveFundFails, Affordable, Fault, Goto, rows, request, UsedAfter
<1>0. FieldsOK(s) /\ PaidOK(s) /\ TokOK(s)
    BY DEF IInv, Local
<1>1. TypeOK'
    BY <1>0 DEF TypeOK, Session, Fresh, Sources, Locations, Final, FieldsOK, Raise, Opening, Raising,
       Committing, Returning, FundHeld, Unreserved
<1>2. Others(s)
    BY DEF TypeOK, Others
<1>3. FieldsOK(s)'
    BY <1>0, <1>1 DEF FieldsOK, Hold, Fresh, FundHeld, Unreserved, Raise, Committed, Opening, Raising,
       Committing, Returning, Session, TypeOK, Sources
<1>4. PaidOK(s)'
    BY <1>0, <1>1 DEF PaidOK, ExpectedPaid, Committed, Delta, Raise, FundHeld, Session, FieldsOK, Fresh,
       Opening, Raising, Committing, Returning, TypeOK, Hold, Unreserved, Sources
<1>5. TokOK(s)'
    BY <1>0, <1>1 DEF TokOK, ExpectedTok, TokHeld, TokenSettled, Session, FieldsOK, Fresh, Opening,
       Raising, Committing, Returning, TypeOK, Delta, Raise, Committed, Hold, Sources
<1> QED BY <1>1, <1>2, <1>3, <1>4, <1>5 DEF Local

\* With the token charged too, the raise becomes part of the hold.
LEMMA ReserveTokenInv ==
    ASSUME TypeOK, IInv, NEW s \in Sessions, ReserveToken(s)
    PROVE  TypeOK' /\ Others(s) /\ Local(s)'
<1> USE SessionTypes DEF ReserveToken, ChargeToken, Update, Goto, request, NoTakeToken, TakeToken
<1>0. FieldsOK(s) /\ PaidOK(s) /\ TokOK(s)
    BY DEF IInv, Local
<1>a. Raise(s) \in Nat /\ ses[s].tokenConsumed + Raise(s) \in Nat /\ ses[s].extra + Raise(s) \in Nat
  <2>1. arg[s] > ses[s].pre
      BY <1>0 DEF FieldsOK, Raising
  <2> QED BY <2>1 DEF Raise
<1> DEFINE r == [ses[s] EXCEPT !.pre = arg[s], !.tokenConsumed = ses[s].tokenConsumed + Raise(s),
!.extra = ses[s].extra + Raise(s)]
<1>1. /\ r \in Session
      /\ r.pre = arg[s]
      /\ r.tokenConsumed = ses[s].tokenConsumed + Raise(s)
      /\ r.extra = ses[s].extra + Raise(s)
      /\ r.consumed = ses[s].consumed /\ r.trusted = ses[s].trusted /\ r.fundingSettled = ses[s].fundingSettled
      /\ r.settled = ses[s].settled /\ r.refunded = ses[s].refunded
    BY <1>a DEF Session
<1>2. ses' \in [Sessions -> Session] /\ ses'[s] = r
    BY <1>1, UpdateEffect
<1> HIDE DEF r
<1>3. TypeOK'
    BY <1>1, <1>2, TakeEffect, TakeTokenEffect DEF TypeOK, Locations, Final, Sources
<1>4. Others(s)
    BY DEF TypeOK, Others
<1>5. FieldsOK(s)'
    BY <1>0, <1>1, <1>2, <1>3 DEF FieldsOK, Hold, Fresh, FundHeld, Unreserved, Raise, Committed, Opening,
       Raising, Committing, Returning, Session, TypeOK, Sources
<1>6. PaidOK(s)'
    BY <1>0, <1>1, <1>2, <1>3 DEF PaidOK, ExpectedPaid, Committed, Delta, Raise, FundHeld, Session,
       FieldsOK, Fresh, Opening, Raising, Committing, Returning, TypeOK, Hold, Unreserved, Sources
<1>7. TokOK(s)'
    BY <1>0, <1>1, <1>2, <1>3 DEF TokOK, ExpectedTok, TokHeld, TokenSettled, Session, FieldsOK, Fresh,
       Opening, Raising, Committing, Returning, TypeOK, Delta, Raise, Committed, Hold, Sources
<1> QED BY <1>3, <1>4, <1>5, <1>6, <1>7 DEF Local

\* A failed token charge leaves the raise to be undone.
LEMMA ReserveTokenFailsInv ==
    ASSUME TypeOK, IInv, NEW s \in Sessions, ReserveTokenFails(s)
    PROVE  TypeOK' /\ Others(s) /\ Local(s)'
<1> USE SessionTypes DEF ReserveTokenFails, Fault, Goto, rows, request
<1>0. FieldsOK(s) /\ PaidOK(s) /\ TokOK(s)
    BY DEF IInv, Local
<1>1. TypeOK'
    BY <1>0 DEF TypeOK, Session, Fresh, Sources, Locations, Final, FieldsOK, Raise, Opening, Raising,
       Committing, Returning, FundHeld, Unreserved
<1>2. Others(s)
    BY DEF TypeOK, Others
<1>3. FieldsOK(s)'
    BY <1>0, <1>1 DEF FieldsOK, Hold, Fresh, FundHeld, Unreserved, Raise, Committed, Opening, Raising,
       Committing, Returning, Session, TypeOK, Sources
<1>4. PaidOK(s)'
    BY <1>0, <1>1 DEF PaidOK, ExpectedPaid, Committed, Delta, Raise, FundHeld, Session, FieldsOK, Fresh,
       Opening, Raising, Committing, Returning, TypeOK, Hold, Unreserved, Sources
<1>5. TokOK(s)'
    BY <1>0, <1>1 DEF TokOK, ExpectedTok, TokHeld, TokenSettled, Session, FieldsOK, Fresh, Opening,
       Raising, Committing, Returning, TypeOK, Delta, Raise, Committed, Hold, Sources
<1> QED BY <1>1, <1>2, <1>3, <1>4, <1>5 DEF Local

\* The raise goes back, or an error leaves it in consumed and harms the request.
LEMMA ReserveUndoInv ==
    ASSUME TypeOK, IInv, NEW s \in Sessions, ReserveUndo(s)
    PROVE  TypeOK' /\ Others(s) /\ Local(s)'
<1> USE SessionTypes DEF rows, request, Goto, Fault, Harm
<1>0. FieldsOK(s) /\ PaidOK(s) /\ TokOK(s) /\ pc[s] = "reserveUndo" /\ Raise(s) \in Nat
  <2>1. FieldsOK(s) /\ PaidOK(s) /\ TokOK(s) /\ pc[s] = "reserveUndo"
      BY DEF IInv, Local, ReserveUndo
  <2>2. arg[s] > ses[s].pre
      BY <2>1 DEF FieldsOK, Raising
  <2> QED BY <2>1, <2>2 DEF Raise
<1>1. /\ Goto(s, "holding")
      /\ UNCHANGED <<record, tokenRemain, tokenEnabled, request, arg, attempts, tok, topUps>>
    BY DEF ReserveUndo
<1> DEFINE left == IF fund[s] = "wallet" THEN ses[s].consumed - Raise(s) ELSE ses[s].consumed
           r == [ses[s] EXCEPT !.consumed = left]
<1>2. \/ Take(s, -Raise(s)) /\ Update(s, r) /\ UNCHANGED <<faults, harmed>>
      \/ Fault /\ Harm(s) /\ NoTake /\ ses' = ses
    BY DEF ReserveUndo
<1>3. left \in Nat
    BY <1>0 DEF FieldsOK, FundHeld, Unreserved
<1>4. /\ r \in Session /\ r.consumed = left
      /\ r.pre = ses[s].pre /\ r.tokenConsumed = ses[s].tokenConsumed
      /\ r.extra = ses[s].extra /\ r.trusted = ses[s].trusted /\ r.settled = ses[s].settled
      /\ r.fundingSettled = ses[s].fundingSettled /\ r.refunded = ses[s].refunded
    BY <1>3 DEF Session
<1> HIDE DEF r
<1>5. CASE Take(s, -Raise(s)) /\ Update(s, r) /\ UNCHANGED <<faults, harmed>>
  <2>1. ses' \in [Sessions -> Session] /\ ses'[s] = r
      BY <1>4, <1>5, UpdateEffect
  <2>2. /\ wallet' \in Int /\ subUsed' \in Nat /\ paid' \in [Sessions -> Int]
        /\ paid'[s] = paid[s] - Raise(s)
      BY <1>5, TakeEffect
  <2>3. TypeOK'
      BY <1>1, <1>5, <2>1, <2>2 DEF TypeOK, Locations
  <2>4. Others(s)
      BY <1>1, <1>5 DEF TypeOK, Others, Update, Take
  <2>5. FieldsOK(s)'
      BY <1>0, <1>1, <1>4, <1>5, <2>1, <2>3
      DEF FieldsOK, FundHeld, Unreserved, Raise, Committed, Opening, Raising, Committing, Returning, TypeOK
  <2>6. PaidOK(s)'
      BY <1>0, <1>1, <1>4, <1>5, <2>1, <2>2, <2>3
      DEF PaidOK, ExpectedPaid, Committed, FundHeld, FieldsOK, Committing, Returning, Raise, TypeOK
  <2>7. TokOK(s)'
      BY <1>0, <1>1, <1>4, <1>5, <2>1, <2>3
      DEF TokOK, ExpectedTok, TokHeld, TokenSettled, FieldsOK, Returning, TypeOK
  <2> QED BY <2>3, <2>4, <2>5, <2>6, <2>7 DEF Local
<1>6. CASE Fault /\ Harm(s) /\ NoTake /\ ses' = ses
  <2>1. TypeOK'
      BY <1>1, <1>6 DEF TypeOK, Locations, NoTake
  <2>2. Others(s)
      BY <1>1, <1>6 DEF TypeOK, Others, NoTake
  <2>3. FieldsOK(s)'
      BY <1>0, <1>1, <1>6, <2>1
      DEF FieldsOK, FundHeld, Unreserved, Raise, Committed, Opening, Raising, Committing, Returning, TypeOK
  <2>4. PaidOK(s)'
      BY <1>0, <1>1, <1>6, <2>1
      DEF PaidOK, ExpectedPaid, Committed, FundHeld, FieldsOK, Committing, Returning, Raise, TypeOK, NoTake
  <2>5. TokOK(s)'
      BY <1>0, <1>1, <1>6, <2>1
      DEF TokOK, ExpectedTok, TokHeld, TokenSettled, FieldsOK, Returning, TypeOK
  <2> QED BY <2>1, <2>2, <2>3, <2>4, <2>5 DEF Local
<1> QED BY <1>2, <1>5, <1>6

-----------------------------------------------------------------------------
(* Settle. *)

\* Settle fixes the price; with no difference to pay the request is settled.
LEMMA SettleInv ==
    ASSUME TypeOK, IInv, NEW s \in Sessions, Settle(s)
    PROVE  TypeOK' /\ Others(s) /\ Local(s)'
<1> USE SessionTypes DEF Settle, rows, request, Update, Goto
<1>0. FieldsOK(s) /\ PaidOK(s) /\ TokOK(s)
    BY DEF IInv, Local
<1>1. arg' \in [Sessions -> Nat] /\ arg'[s] \in Prices
    BY DEF TypeOK
<1> DEFINE r == [ses[s] EXCEPT !.settled = TRUE]
<1>2. /\ r \in Session
      /\ r.settled
      /\ r.pre = ses[s].pre /\ r.tokenConsumed = ses[s].tokenConsumed /\ r.consumed = ses[s].consumed
      /\ r.extra = ses[s].extra /\ r.trusted = ses[s].trusted
      /\ r.fundingSettled = ses[s].fundingSettled /\ r.refunded = ses[s].refunded
    BY DEF Session
<1>3. \/ arg'[s] = ses[s].pre /\ Update(s, r) /\ Goto(s, "returned")
      \/ arg'[s] # ses[s].pre /\ ses' = ses /\ Goto(s, "settleFund")
    BY DEF TypeOK
<1>4. ~ses[s].refunded /\ ~ses[s].fundingSettled
    BY <1>0 DEF FieldsOK, Returning, Committing
<1> HIDE DEF r
<1>5. CASE arg'[s] = ses[s].pre /\ Update(s, r) /\ Goto(s, "returned")
  <2>1. ses' \in [Sessions -> Session] /\ ses'[s] = r
      BY <1>2, <1>5, UpdateEffect
  <2>2. TypeOK'
      BY <1>1, <1>5, <2>1 DEF TypeOK, Locations
  <2>3. FieldsOK(s)'
      BY <1>0, <1>2, <1>4, <1>5, <2>1, <2>2
      DEF FieldsOK, FundHeld, Unreserved, Raise, Committed, Opening, Raising, Committing, Returning, TypeOK
  <2>4. PaidOK(s)'
      BY <1>0, <1>2, <1>4, <1>5, <2>1, <2>2
      DEF PaidOK, ExpectedPaid, Committed, FundHeld, TypeOK
  <2>5. TokOK(s)'
      BY <1>0, <1>2, <1>4, <1>5, <2>1, <2>2
      DEF TokOK, ExpectedTok, TokHeld, TokenSettled, FieldsOK, TypeOK
  <2> QED BY <1>5, <2>2, <2>3, <2>4, <2>5 DEF Local, Others, TypeOK
<1>6. CASE arg'[s] # ses[s].pre /\ ses' = ses /\ Goto(s, "settleFund")
  <2>1. TypeOK'
      BY <1>1, <1>6 DEF TypeOK, Locations
  <2>2. FieldsOK(s)'
      BY <1>0, <1>4, <1>6, <2>1
      DEF FieldsOK, FundHeld, Unreserved, Raise, Committed, Opening, Raising, Committing, Returning, TypeOK
  <2>3. PaidOK(s)'
      BY <1>0, <1>4, <1>6, <2>1 DEF PaidOK, ExpectedPaid, Committed, FundHeld, TypeOK
  <2>4. TokOK(s)'
      BY <1>0, <1>4, <1>6, <2>1 DEF TokOK, ExpectedTok, TokHeld, TokenSettled, TypeOK
  <2> QED BY <1>6, <2>1, <2>2, <2>3, <2>4 DEF Local, Others, TypeOK
<1> QED BY <1>3, <1>5, <1>6

\* The difference is taken and makes the request's account its price.
LEMMA SettleFundInv ==
    ASSUME TypeOK, IInv, NEW s \in Sessions, SettleFund(s)
    PROVE  TypeOK' /\ Others(s) /\ Local(s)'
<1> USE SessionTypes DEF SettleFund, NoTake, Take, Update, Goto, request, UsedAfter
<1>0. FieldsOK(s) /\ PaidOK(s) /\ TokOK(s)
    BY DEF IInv, Local
<1> DEFINE r == [ses[s] EXCEPT !.fundingSettled = TRUE]
<1>1. /\ r \in Session
      /\ r.fundingSettled = TRUE
      /\ r.pre = ses[s].pre /\ r.tokenConsumed = ses[s].tokenConsumed /\ r.consumed = ses[s].consumed
      /\ r.extra = ses[s].extra /\ r.trusted = ses[s].trusted /\ r.settled = ses[s].settled /\ r.refunded = ses[s].refunded
    BY <1>0 DEF Session, Fresh, FieldsOK, Raising, Unreserved, FundHeld
<1>2. ses' \in [Sessions -> Session] /\ ses'[s] = r
    BY <1>1, UpdateEffect
<1> HIDE DEF r
<1>3. TypeOK'
    BY <1>1, <1>2, TakeEffect, TakeTokenEffect DEF TypeOK, Locations, Final, Sources
<1>4. Others(s)
    BY DEF TypeOK, Others
<1>5. FieldsOK(s)'
    BY <1>0, <1>1, <1>2, <1>3 DEF FieldsOK, Hold, Fresh, FundHeld, Unreserved, Raise, Committed, Opening,
       Raising, Committing, Returning, Session, TypeOK, Sources
<1>6. PaidOK(s)'
    BY <1>0, <1>1, <1>2, <1>3 DEF PaidOK, ExpectedPaid, Committed, Delta, Raise, FundHeld, Session,
       FieldsOK, Fresh, Opening, Raising, Committing, Returning, TypeOK, Hold, Unreserved, Sources
<1>7. TokOK(s)'
    BY <1>0, <1>1, <1>2, <1>3 DEF TokOK, ExpectedTok, TokHeld, TokenSettled, Session, FieldsOK, Fresh,
       Opening, Raising, Committing, Returning, TypeOK, Delta, Raise, Committed, Hold, Sources
<1> QED BY <1>3, <1>4, <1>5, <1>6, <1>7 DEF Local

\* A failed funding settlement takes nothing.
LEMMA SettleFundFailsInv ==
    ASSUME TypeOK, IInv, NEW s \in Sessions, SettleFundFails(s)
    PROVE  TypeOK' /\ Others(s) /\ Local(s)'
<1> USE SessionTypes DEF SettleFundFails, UsedAfter, Fault, Goto, rows, request
<1>0. FieldsOK(s) /\ PaidOK(s) /\ TokOK(s)
    BY DEF IInv, Local
<1>1. TypeOK'
    BY <1>0 DEF TypeOK, Session, Fresh, Sources, Locations, Final, FieldsOK, Raise, Opening, Raising,
       Committing, Returning, FundHeld, Unreserved
<1>2. Others(s)
    BY DEF TypeOK, Others
<1>3. FieldsOK(s)'
    BY <1>0, <1>1 DEF FieldsOK, Hold, Fresh, FundHeld, Unreserved, Raise, Committed, Opening, Raising,
       Committing, Returning, Session, TypeOK, Sources
<1>4. PaidOK(s)'
    BY <1>0, <1>1 DEF PaidOK, ExpectedPaid, Committed, Delta, Raise, FundHeld, Session, FieldsOK, Fresh,
       Opening, Raising, Committing, Returning, TypeOK, Hold, Unreserved, Sources
<1>5. TokOK(s)'
    BY <1>0, <1>1 DEF TokOK, ExpectedTok, TokHeld, TokenSettled, Session, FieldsOK, Fresh, Opening,
       Raising, Committing, Returning, TypeOK, Delta, Raise, Committed, Hold, Sources
<1> QED BY <1>1, <1>2, <1>3, <1>4, <1>5 DEF Local

\* The token account becomes the price, or an error harms the request.
LEMMA SettleTokenInv ==
    ASSUME TypeOK, IInv, NEW s \in Sessions, SettleToken(s)
    PROVE  TypeOK' /\ Others(s) /\ Local(s)'
<1> USE SessionTypes DEF request, Goto, Fault, Harm, NoTakeToken
<1>0. /\ FieldsOK(s) /\ PaidOK(s) /\ TokOK(s) /\ pc[s] = "settleToken"
      /\ ses[s].fundingSettled /\ ~ses[s].settled /\ ~ses[s].refunded
    BY DEF IInv, Local, FieldsOK, Committing, SettleToken
<1>1. UNCHANGED <<wallet, subUsed, record, tokenEnabled, request, arg, attempts, paid, topUps>>
    BY DEF SettleToken
<1>2. /\ tokenRemain' \in Int /\ tok' \in [Sessions -> Int]
      /\ faults' \in Nat /\ harmed' \subseteq Sessions
      /\ \A t \in Sessions : t # s => tok'[t] = tok[t] /\ (t \in harmed' <=> t \in harmed)
    BY TakeTokenEffect DEF SettleToken, TypeOK
<1>3. \/ tok'[s] = tok[s] /\ (s \in Playground \/ s \in harmed')
      \/ s \notin Playground /\ tok'[s] = tok[s] + Delta(s)
    BY TakeTokenEffect DEF SettleToken
<1>4. s \in harmed => s \in harmed'
    BY DEF SettleToken
<1> DEFINE r == [ses[s] EXCEPT !.settled = TRUE]
<1>5. /\ r \in Session /\ r.settled
      /\ r.pre = ses[s].pre /\ r.tokenConsumed = ses[s].tokenConsumed /\ r.consumed = ses[s].consumed
      /\ r.extra = ses[s].extra /\ r.trusted = ses[s].trusted
      /\ r.fundingSettled = ses[s].fundingSettled /\ r.refunded = ses[s].refunded
    BY DEF Session
<1>6. \/ s \notin Playground /\ Goto(s, "guardRead") /\ ses' = ses
      \/ Goto(s, "returned") /\ Update(s, r)
    BY DEF SettleToken
<1> HIDE DEF r
<1>7. tok'[s] >= 0 /\ (s \notin harmed' => tok'[s] = IF s \in Playground THEN 0 ELSE arg[s])
    BY <1>0, <1>3, <1>4 DEF TokOK, TokenSettled, TokHeld, ExpectedTok, FieldsOK, Delta
<1>8. CASE s \notin Playground /\ Goto(s, "guardRead") /\ ses' = ses
  <2>1. TypeOK'
      BY <1>1, <1>2, <1>8 DEF TypeOK, Locations
  <2>2. Others(s)
      BY <1>1, <1>2, <1>8 DEF TypeOK, Others
  <2>3. FieldsOK(s)'
      BY <1>0, <1>1, <1>4, <1>8, <2>1
      DEF FieldsOK, FundHeld, Unreserved, Raise, Committed, Opening, Raising, Committing, Returning, TypeOK
  <2>4. PaidOK(s)'
      BY <1>0, <1>1, <1>4, <1>8, <2>1 DEF PaidOK, ExpectedPaid, Committed, FundHeld, TypeOK
  <2>5. TokOK(s)'
      BY <1>0, <1>1, <1>7, <1>8, <2>1 DEF TokOK, ExpectedTok, TokHeld, TokenSettled, TypeOK
  <2> QED BY <2>1, <2>2, <2>3, <2>4, <2>5 DEF Local
<1>9. CASE Goto(s, "returned") /\ Update(s, r)
  <2>0. ses' \in [Sessions -> Session] /\ ses'[s] = r
      BY <1>5, <1>9, UpdateEffect
  <2>1. TypeOK'
      BY <1>1, <1>2, <1>9, <2>0 DEF TypeOK, Locations
  <2>2. Others(s)
      BY <1>1, <1>2, <1>9 DEF TypeOK, Others, Update
  <2>3. FieldsOK(s)'
      BY <1>0, <1>1, <1>4, <1>5, <1>9, <2>0, <2>1
      DEF FieldsOK, FundHeld, Unreserved, Raise, Committed, Opening, Raising, Committing, Returning, TypeOK
  <2>4. PaidOK(s)'
      BY <1>0, <1>1, <1>4, <1>5, <1>9, <2>0, <2>1 DEF PaidOK, ExpectedPaid, Committed, FundHeld, TypeOK
  <2>5. TokOK(s)'
      BY <1>0, <1>1, <1>5, <1>7, <1>9, <2>0, <2>1 DEF TokOK, ExpectedTok, TokHeld, TokenSettled, TypeOK
  <2> QED BY <2>1, <2>2, <2>3, <2>4, <2>5 DEF Local
<1> QED BY <1>6, <1>8, <1>9

\* The balance check of the overspend guard takes nothing.
LEMMA GuardReadInv ==
    ASSUME TypeOK, IInv, NEW s \in Sessions, GuardRead(s)
    PROVE  TypeOK' /\ Others(s) /\ Local(s)'
<1> USE SessionTypes DEF request, rows, Goto, Fault, Harm
<1>0. /\ FieldsOK(s) /\ PaidOK(s) /\ TokOK(s) /\ pc[s] = "guardRead"
      /\ ses[s].fundingSettled /\ ~ses[s].settled /\ ~ses[s].refunded
    BY DEF IInv, Local, FieldsOK, Committing, GuardRead
<1>1. UNCHANGED <<rows, request, arg, attempts, paid, tok, topUps>>
    BY DEF GuardRead
<1>2. /\ faults' \in Nat /\ harmed' \subseteq Sessions
      /\ \A t \in Sessions : t # s => (t \in harmed' <=> t \in harmed)
      /\ s \in harmed => s \in harmed'
    BY DEF GuardRead, TypeOK
<1> DEFINE r == [ses[s] EXCEPT !.settled = TRUE]
<1>3. /\ r \in Session /\ r.settled
      /\ r.pre = ses[s].pre /\ r.tokenConsumed = ses[s].tokenConsumed /\ r.consumed = ses[s].consumed
      /\ r.extra = ses[s].extra /\ r.trusted = ses[s].trusted
      /\ r.fundingSettled = ses[s].fundingSettled /\ r.refunded = ses[s].refunded
    BY DEF Session
<1>4. \/ Goto(s, "guardDisable") /\ ses' = ses
      \/ Goto(s, "returned") /\ Update(s, r)
    BY DEF GuardRead
<1> HIDE DEF r
<1>5. CASE Goto(s, "guardDisable") /\ ses' = ses
  <2>1. TypeOK'
      BY <1>1, <1>2, <1>5 DEF TypeOK, Locations
  <2>2. Others(s)
      BY <1>1, <1>2, <1>5 DEF TypeOK, Others
  <2>3. FieldsOK(s)'
      BY <1>0, <1>1, <1>2, <1>5, <2>1
      DEF FieldsOK, FundHeld, Unreserved, Raise, Committed, Opening, Raising, Committing, Returning, TypeOK
  <2>4. PaidOK(s)'
      BY <1>0, <1>1, <1>2, <1>5, <2>1 DEF PaidOK, ExpectedPaid, Committed, FundHeld, TypeOK
  <2>5. TokOK(s)'
      BY <1>0, <1>1, <1>2, <1>5, <2>1 DEF TokOK, ExpectedTok, TokHeld, TokenSettled, TypeOK
  <2> QED BY <2>1, <2>2, <2>3, <2>4, <2>5 DEF Local
<1>6. CASE Goto(s, "returned") /\ Update(s, r)
  <2>0. ses' \in [Sessions -> Session] /\ ses'[s] = r
      BY <1>3, <1>6, UpdateEffect
  <2>1. TypeOK'
      BY <1>1, <1>2, <1>6, <2>0 DEF TypeOK, Locations
  <2>2. Others(s)
      BY <1>1, <1>2, <1>6 DEF TypeOK, Others, Update
  <2>3. FieldsOK(s)'
      BY <1>0, <1>1, <1>2, <1>3, <1>6, <2>0, <2>1
      DEF FieldsOK, FundHeld, Unreserved, Raise, Committed, Opening, Raising, Committing, Returning, TypeOK
  <2>4. PaidOK(s)'
      BY <1>0, <1>1, <1>2, <1>3, <1>6, <2>0, <2>1 DEF PaidOK, ExpectedPaid, Committed, FundHeld, TypeOK
  <2>5. TokOK(s)'
      BY <1>0, <1>1, <1>2, <1>3, <1>6, <2>0, <2>1 DEF TokOK, ExpectedTok, TokHeld, TokenSettled, TypeOK
  <2> QED BY <2>1, <2>2, <2>3, <2>4, <2>5 DEF Local
<1> QED BY <1>4, <1>5, <1>6

\* Disabling the tokens takes nothing.
LEMMA GuardDisableInv ==
    ASSUME TypeOK, IInv, NEW s \in Sessions, GuardDisable(s)
    PROVE  TypeOK' /\ Others(s) /\ Local(s)'
<1> USE SessionTypes DEF GuardDisable, Fault, Harm, Update, Goto, request
<1>0. FieldsOK(s) /\ PaidOK(s) /\ TokOK(s)
    BY DEF IInv, Local
<1> DEFINE r == [ses[s] EXCEPT !.settled = TRUE]
<1>1. /\ r \in Session
      /\ r.settled = TRUE
      /\ r.pre = ses[s].pre /\ r.tokenConsumed = ses[s].tokenConsumed /\ r.consumed = ses[s].consumed
      /\ r.extra = ses[s].extra /\ r.trusted = ses[s].trusted /\ r.fundingSettled = ses[s].fundingSettled /\ r.refunded = ses[s].refunded
    BY <1>0 DEF Session, Fresh, FieldsOK, Raising, Unreserved, FundHeld
<1>2. ses' \in [Sessions -> Session] /\ ses'[s] = r
    BY <1>1, UpdateEffect
<1> HIDE DEF r
<1>c. tokenEnabled' \in BOOLEAN
    BY Zenon DEF TypeOK
<1>3. TypeOK'
    BY <1>1, <1>2, <1>c, TakeEffect, TakeTokenEffect DEF TypeOK, Locations, Final, Sources
<1>4. Others(s)
    BY DEF TypeOK, Others
<1>5. FieldsOK(s)'
    BY <1>0, <1>1, <1>2, <1>3 DEF FieldsOK, Hold, Fresh, FundHeld, Unreserved, Raise, Committed, Opening,
       Raising, Committing, Returning, Session, TypeOK, Sources
<1>6. PaidOK(s)'
    BY <1>0, <1>1, <1>2, <1>3 DEF PaidOK, ExpectedPaid, Committed, Delta, Raise, FundHeld, Session,
       FieldsOK, Fresh, Opening, Raising, Committing, Returning, TypeOK, Hold, Unreserved, Sources
<1>7. TokOK(s)'
    BY <1>0, <1>1, <1>2, <1>3 DEF TokOK, ExpectedTok, TokHeld, TokenSettled, Session, FieldsOK, Fresh,
       Opening, Raising, Committing, Returning, TypeOK, Delta, Raise, Committed, Hold, Sources
<1> QED BY <1>3, <1>4, <1>5, <1>6, <1>7 DEF Local

-----------------------------------------------------------------------------
(* The end of the request. *)

\* The refund starts with what the session holds.
LEMMA FailInv ==
    ASSUME TypeOK, IInv, NEW s \in Sessions, Fail(s)
    PROVE  TypeOK' /\ Others(s) /\ Local(s)'
<1> USE SessionTypes DEF Fail, rows, request, Update, Goto, NeedsRefund
<1>0. FieldsOK(s) /\ PaidOK(s) /\ TokOK(s)
    BY DEF IInv, Local
<1> DEFINE r == [ses[s] EXCEPT !.refunded = TRUE]
<1>1. /\ r \in Session
      /\ r.refunded
      /\ r.pre = ses[s].pre /\ r.tokenConsumed = ses[s].tokenConsumed /\ r.consumed = ses[s].consumed
      /\ r.extra = ses[s].extra /\ r.trusted = ses[s].trusted
      /\ r.fundingSettled = ses[s].fundingSettled /\ r.settled = ses[s].settled
    BY DEF Session
<1>2. ~ses[s].refunded /\ (ses[s].fundingSettled => ses[s].settled) /\ record[s] # "refunded"
    BY <1>0 DEF FieldsOK, Returning, Committing
<1> HIDE DEF r
<1>3. CASE NeedsRefund(ses[s], fund[s])
  <2>1. ses' = [ses EXCEPT ![s] = r] /\ pc' = [pc EXCEPT ![s] = "refundFund"]
      BY <1>3 DEF r
  <2>2. ses' \in [Sessions -> Session] /\ ses'[s] = r
      BY <1>1, <2>1, UpdateEffect
  <2>3. TypeOK'
      BY <2>1, <2>2 DEF TypeOK, Locations
  <2>4. FieldsOK(s)'
      BY <1>0, <1>1, <1>2, <1>3, <2>1, <2>2, <2>3
      DEF FieldsOK, FundHeld, Unreserved, Raise, Committed, Opening, Raising, Committing, Returning, TypeOK
  <2>5. PaidOK(s)'
    <3>1. ExpectedPaid(s) = FundHeld(s)
        BY <1>2, <1>3 DEF ExpectedPaid, Committed
    <3>2. FundHeld(s)' = FundHeld(s) /\ FundHeld(s) \in Nat /\ ses[s].extra <= FundHeld(s) + ses[s].extra
        BY <1>1, <2>1, <2>2 DEF FundHeld
    <3>3. fund[s] = "sub" => ses[s].extra <= FundHeld(s)
        BY DEF FundHeld
    <3> QED BY <1>0, <1>1, <1>2, <1>3, <2>1, <2>2, <3>1, <3>2, <3>3 DEF PaidOK, ExpectedPaid, Committed,
    TypeOK
  <2>6. TokOK(s)'
      BY <1>0, <1>1, <1>2, <1>3, <2>1, <2>2, <2>3
      DEF TokOK, ExpectedTok, TokHeld, TokenSettled, FieldsOK, TypeOK
  <2> QED BY <2>1, <2>3, <2>4, <2>5, <2>6 DEF Local, Others, TypeOK
<1>4. CASE ~NeedsRefund(ses[s], fund[s])
  <2>1. ses' = ses /\ pc' = [pc EXCEPT ![s] = "failed"]
      BY <1>4
  <2>2. TypeOK'
      BY <2>1 DEF TypeOK, Locations, Final
  <2>3. FieldsOK(s)'
      BY <1>0, <1>2, <1>4, <2>1, <2>2
      DEF FieldsOK, FundHeld, Unreserved, Raise, Committed, Opening, Raising, Committing, Returning, TypeOK
  <2>4. PaidOK(s)'
      BY <1>0, <1>2, <1>4, <2>1, <2>2 DEF PaidOK, ExpectedPaid, Committed, FundHeld, TypeOK
  <2>5. TokOK(s)'
      BY <1>0, <1>2, <1>4, <2>1, <2>2 DEF TokOK, ExpectedTok, TokHeld, TokenSettled, FieldsOK, TypeOK
  <2> QED BY <2>1, <2>2, <2>3, <2>4, <2>5 DEF Local, Others, TypeOK
<1> QED BY <1>3, <1>4

\* Answering takes nothing.
LEMMA SucceedInv ==
    ASSUME TypeOK, IInv, NEW s \in Sessions, Succeed(s)
    PROVE  TypeOK' /\ Others(s) /\ Local(s)'
<1> USE SessionTypes DEF Succeed, Goto, rows, request
<1>0. FieldsOK(s) /\ PaidOK(s) /\ TokOK(s)
    BY DEF IInv, Local
<1>1. TypeOK'
    BY <1>0 DEF TypeOK, Session, Fresh, Sources, Locations, Final, FieldsOK, Raise, Opening, Raising,
       Committing, Returning, FundHeld, Unreserved
<1>2. Others(s)
    BY DEF TypeOK, Others
<1>3. FieldsOK(s)'
    BY <1>0, <1>1 DEF FieldsOK, Hold, Fresh, FundHeld, Unreserved, Raise, Committed, Opening, Raising,
       Committing, Returning, Session, TypeOK, Sources
<1>4. PaidOK(s)'
    BY <1>0, <1>1 DEF PaidOK, ExpectedPaid, Committed, Delta, Raise, FundHeld, Session, FieldsOK, Fresh,
       Opening, Raising, Committing, Returning, TypeOK, Hold, Unreserved, Sources
<1>5. TokOK(s)'
    BY <1>0, <1>1 DEF TokOK, ExpectedTok, TokHeld, TokenSettled, Session, FieldsOK, Fresh, Opening,
       Raising, Committing, Returning, TypeOK, Delta, Raise, Committed, Hold, Sources
<1> QED BY <1>1, <1>2, <1>3, <1>4, <1>5 DEF Local

\* The wallet refund returns what consumed says.
LEMMA RefundWalletInv ==
    ASSUME TypeOK, IInv, NEW s \in Sessions, RefundWallet(s)
    PROVE  TypeOK' /\ Others(s) /\ Local(s)'
<1> USE SessionTypes DEF RefundWallet, Take, NoTake, Fault, Harm, Goto, AfterRefundFund, request, UsedAfter
<1>0. FieldsOK(s) /\ PaidOK(s) /\ TokOK(s)
    BY DEF IInv, Local
<1>1. TypeOK'
    BY <1>0 DEF TypeOK, Session, Fresh, Sources, Locations, Final, FieldsOK, Raise, Opening, Raising,
       Committing, Returning, FundHeld, Unreserved
<1>2. Others(s)
    BY DEF TypeOK, Others
<1>3. FieldsOK(s)'
    BY <1>0, <1>1 DEF FieldsOK, Hold, Fresh, FundHeld, Unreserved, Raise, Committed, Opening, Raising,
       Committing, Returning, Session, TypeOK, Sources
<1>4. PaidOK(s)'
    BY <1>0, <1>1 DEF PaidOK, ExpectedPaid, Committed, Delta, Raise, FundHeld, Session, FieldsOK, Fresh,
       Opening, Raising, Committing, Returning, TypeOK, Hold, Unreserved, Sources
<1>5. TokOK(s)'
    BY <1>0, <1>1 DEF TokOK, ExpectedTok, TokHeld, TokenSettled, Session, FieldsOK, Fresh, Opening,
       Raising, Committing, Returning, TypeOK, Delta, Raise, Committed, Hold, Sources
<1> QED BY <1>1, <1>2, <1>3, <1>4, <1>5 DEF Local

\* The record makes the subscription refund happen at most once, however often it is tried.
LEMMA RefundSubInv ==
    ASSUME TypeOK, IInv, NEW s \in Sessions, RefundSub(s)
    PROVE  TypeOK' /\ Others(s) /\ Local(s)'
<1> USE SessionTypes DEF request, Goto, Fault, Harm, NoTake
<1>0. /\ FieldsOK(s) /\ PaidOK(s) /\ TokOK(s) /\ pc[s] = "refundFund" /\ fund[s] = "sub"
      /\ ses[s].refunded /\ ~ses[s].fundingSettled /\ ~ses[s].settled
    BY DEF IInv, Local, FieldsOK, Returning, Committed, RefundSub
<1>1. UNCHANGED <<tokenRemain, tokenEnabled, request, ses, arg, tok, topUps>>
    BY DEF RefundSub
<1>2. /\ attempts' \in [Sessions -> Nat] /\ faults' \in Nat /\ harmed' \subseteq Sessions
      /\ \A t \in Sessions : t # s => (t \in harmed' <=> t \in harmed)
      /\ s \in harmed => s \in harmed'
    BY DEF RefundSub, TypeOK
<1>3. \/ wallet' = wallet /\ subUsed' = subUsed /\ paid' = paid /\ record' = record
      \/ /\ Take(s, -ses[s].consumed)
         /\ record[s] # "refunded"
         /\ record' = [record EXCEPT ![s] = "refunded"]
    BY DEF RefundSub, RefundRecord
<1>4. \/ pc' = pc
      \/ Goto(s, AfterRefundFund(s)) /\ (record'[s] = "refunded" \/ s \in harmed')
    BY DEF RefundSub, RefundRecord, TypeOK
<1>5. /\ wallet' \in Int /\ subUsed' \in Nat /\ paid' \in [Sessions -> Int]
      /\ record' \in [Sessions -> {"none", "consumed", "refunded"}]
      /\ \A t \in Sessions : t # s => paid'[t] = paid[t] /\ record'[t] = record[t]
  <2>1. CASE wallet' = wallet /\ subUsed' = subUsed /\ paid' = paid /\ record' = record
      BY <2>1 DEF TypeOK
  <2>2. CASE Take(s, -ses[s].consumed) /\ record' = [record EXCEPT ![s] = "refunded"]
      BY <2>2, TakeEffect DEF TypeOK
  <2> QED BY <1>3, <2>1, <2>2
<1>6. pc' \in [Sessions -> Locations] /\ \A t \in Sessions : t # s => pc'[t] = pc[t]
    BY <1>4 DEF TypeOK, Locations, AfterRefundFund
<1>7. TypeOK'
    BY <1>1, <1>2, <1>5, <1>6 DEF TypeOK
<1>8. Others(s)
    BY <1>1, <1>2, <1>5, <1>6 DEF Others
<1>9. /\ pc'[s] \in {"refundFund", "refundExtra", "refundToken"}
      /\ pc'[s] = "refundToken" => ses[s].extra = 0
      /\ pc'[s] # "refundFund" => record'[s] = "refunded" \/ s \in harmed'
    BY <1>0, <1>4 DEF TypeOK, AfterRefundFund
<1>10. FieldsOK(s)'
    BY <1>0, <1>1, <1>2, <1>7, <1>9
    DEF FieldsOK, FundHeld, Unreserved, Raise, Committed, Opening, Raising, Committing, Returning, TypeOK
<1>11. PaidOK(s)'
  <2>1. /\ paid[s] >= IF record[s] = "refunded" THEN ses[s].extra ELSE ses[s].consumed + ses[s].extra
        /\ s \notin harmed =>
              paid[s] = IF record[s] = "refunded" THEN ses[s].extra ELSE ses[s].consumed + ses[s].extra
      BY <1>0 DEF PaidOK, ExpectedPaid, FundHeld, Committed
  <2>2. /\ paid'[s] >= IF record'[s] = "refunded" THEN ses[s].extra ELSE ses[s].consumed + ses[s].extra
        /\ s \notin harmed =>
              paid'[s] = IF record'[s] = "refunded" THEN ses[s].extra ELSE ses[s].consumed + ses[s].extra
      BY <1>3, <2>1, TakeEffect DEF TypeOK
  <2> QED BY <1>0, <1>1, <1>2, <1>7, <1>9, <2>2 DEF PaidOK, ExpectedPaid, FundHeld, Committed, TypeOK
<1>12. TokOK(s)'
    BY <1>0, <1>1, <1>2, <1>7, <1>9 DEF TokOK, ExpectedTok, TokHeld, TokenSettled, TypeOK
<1> QED BY <1>7, <1>8, <1>10, <1>11, <1>12 DEF Local

\* What Reserve took from the subscription goes back.
LEMMA RefundExtraInv ==
    ASSUME TypeOK, IInv, NEW s \in Sessions, RefundExtra(s)
    PROVE  TypeOK' /\ Others(s) /\ Local(s)'
<1> USE SessionTypes DEF RefundExtra, Take, NoTake, Fault, Harm, Goto, request, UsedAfter
<1>0. FieldsOK(s) /\ PaidOK(s) /\ TokOK(s)
    BY DEF IInv, Local
<1>1. TypeOK'
    BY <1>0 DEF TypeOK, Session, Fresh, Sources, Locations, Final, FieldsOK, Raise, Opening, Raising,
       Committing, Returning, FundHeld, Unreserved
<1>2. Others(s)
    BY DEF TypeOK, Others
<1>3. FieldsOK(s)'
    BY <1>0, <1>1 DEF FieldsOK, Hold, Fresh, FundHeld, Unreserved, Raise, Committed, Opening, Raising,
       Committing, Returning, Session, TypeOK, Sources
<1>4. PaidOK(s)'
    BY <1>0, <1>1 DEF PaidOK, ExpectedPaid, Committed, Delta, Raise, FundHeld, Session, FieldsOK, Fresh,
       Opening, Raising, Committing, Returning, TypeOK, Hold, Unreserved, Sources
<1>5. TokOK(s)'
    BY <1>0, <1>1 DEF TokOK, ExpectedTok, TokHeld, TokenSettled, Session, FieldsOK, Fresh, Opening,
       Raising, Committing, Returning, TypeOK, Delta, Raise, Committed, Hold, Sources
<1> QED BY <1>1, <1>2, <1>3, <1>4, <1>5 DEF Local

\* What tokenConsumed says goes back to the token.
LEMMA RefundTokenInv ==
    ASSUME TypeOK, IInv, NEW s \in Sessions, RefundToken(s)
    PROVE  TypeOK' /\ Others(s) /\ Local(s)'
<1> USE SessionTypes DEF RefundToken, NoTakeToken, TakeToken, Fault, Harm, Goto, request
<1>0. FieldsOK(s) /\ PaidOK(s) /\ TokOK(s)
    BY DEF IInv, Local
<1>1. TypeOK'
    BY <1>0 DEF TypeOK, Session, Fresh, Sources, Locations, Final, FieldsOK, Raise, Opening, Raising,
       Committing, Returning, FundHeld, Unreserved
<1>2. Others(s)
    BY DEF TypeOK, Others
<1>3. FieldsOK(s)'
    BY <1>0, <1>1 DEF FieldsOK, Hold, Fresh, FundHeld, Unreserved, Raise, Committed, Opening, Raising,
       Committing, Returning, Session, TypeOK, Sources
<1>4. PaidOK(s)'
    BY <1>0, <1>1 DEF PaidOK, ExpectedPaid, Committed, Delta, Raise, FundHeld, Session, FieldsOK, Fresh,
       Opening, Raising, Committing, Returning, TypeOK, Hold, Unreserved, Sources
<1>5. TokOK(s)'
    BY <1>0, <1>1 DEF TokOK, ExpectedTok, TokHeld, TokenSettled, Session, FieldsOK, Fresh, Opening,
       Raising, Committing, Returning, TypeOK, Delta, Raise, Committed, Hold, Sources
<1> QED BY <1>1, <1>2, <1>3, <1>4, <1>5 DEF Local

-----------------------------------------------------------------------------
(* The environment, and all steps together. *)

\* A redemption concerns no request.
LEMMA TopUpInv == ASSUME TypeOK, IInv, TopUp PROVE TypeOK' /\ IInv'
<1>1. TypeOK'
    BY DEF TopUp, TypeOK, request
<1>2. ASSUME NEW t \in Sessions PROVE Local(t)'
    BY <1>1, <1>2, Frame DEF TopUp, IInv, request
<1> QED BY <1>1, <1>2 DEF IInv

\* A crash keeps what was taken and harms the requests it hits.
LEMMA CrashInv == ASSUME TypeOK, IInv, Crash PROVE TypeOK' /\ IInv'
<1>1. TypeOK'
    BY DEF Crash, TypeOK, request, rows, Locations, Final
<1>2. ASSUME NEW t \in Sessions, ~Running(t) PROVE Local(t)'
    BY <1>1, <1>2, Frame DEF Crash, IInv, request, rows, TypeOK
<1>3. ASSUME NEW t \in Sessions, Running(t) PROVE Local(t)'
  <2> USE SessionTypes DEF Crash, request, rows
  <2>1. FieldsOK(t) /\ PaidOK(t) /\ TokOK(t)
      BY DEF IInv, Local
  <2>2. pc'[t] = "crashed" /\ t \in harmed'
      BY <1>3 DEF TypeOK
  <2>3. FieldsOK(t)'
      BY <1>1, <2>1, <2>2
      DEF FieldsOK, FundHeld, Unreserved, Raise, Committed, Opening, Raising, Committing, Returning, TypeOK
  <2>4. PaidOK(t)'
      BY <1>1, <2>1, <2>2, <1>3
      DEF PaidOK, ExpectedPaid, FundHeld, Committed, Raise, Raising, Returning, FieldsOK, TypeOK,
      Running, Final
  <2>5. TokOK(t)'
      BY <1>1, <2>1, <2>2 DEF TokOK, ExpectedTok, TokHeld, TokenSettled, TypeOK
  <2> QED BY <2>3, <2>4, <2>5 DEF Local
<1> QED BY <1>2, <1>3, <1>1 DEF IInv

\* Every step of a request keeps the types and that request's invariant, and
\* leaves the other requests alone.
LEMMA StepLocal ==
    ASSUME TypeOK, IInv, NEW s \in Sessions, Step(s)
    PROVE  TypeOK' /\ Others(s) /\ Local(s)'
<1>1. CASE PreConsume(s)
    BY <1>1, StartInv, ReadQuotaInv, ReadQuotaFailsInv, TokenPreInv, TokenPreFailsInv, FundPreInv,
       FundPreFailsInv, RollbackInv DEF PreConsume
<1>2. CASE Reserving(s)
    BY <1>2, ReserveFundInv, ReserveFundFailsInv, ReserveTokenInv, ReserveTokenFailsInv,
       ReserveUndoInv DEF Reserving
<1>3. CASE Settling(s)
    BY <1>3, SettleFundInv, SettleFundFailsInv, SettleTokenInv, GuardReadInv, GuardDisableInv
    DEF Settling
<1>4. CASE Refunding(s)
    BY <1>4, RefundWalletInv, RefundSubInv, RefundExtraInv, RefundTokenInv DEF Refunding
<1>5. CASE Handler(s)
    BY <1>5, ReserveInv, SettleInv, SucceedInv, FailInv DEF Handler
<1> QED BY <1>1, <1>2, <1>3, <1>4, <1>5 DEF Step

\* The invariant is inductive.
LEMMA NextInv == TypeOK /\ IInv /\ [Next]_vars => TypeOK' /\ IInv'
<1> SUFFICES ASSUME TypeOK, IInv, [Next]_vars PROVE TypeOK' /\ IInv'
    OBVIOUS
<1>1. ASSUME NEW s \in Sessions, Step(s) PROVE TypeOK' /\ IInv'
    BY <1>1, StepLocal, Framing
<1>2. CASE TopUp
    BY <1>2, TopUpInv
<1>3. CASE Crash
    BY <1>3, CrashInv
<1>4. CASE UNCHANGED vars
  <2>1. TypeOK'
      BY <1>4 DEF vars, rows, request, TypeOK
  <2>2. ASSUME NEW t \in Sessions PROVE Local(t)'
      BY <1>4, <2>1, Frame DEF vars, rows, request, IInv
  <2> QED BY <2>1, <2>2 DEF IInv
<1> QED BY <1>1, <1>2, <1>3, <1>4 DEF Next

-----------------------------------------------------------------------------
(* The theorems. *)

\* Always, what the fields of a session say was taken is what was taken: exactly,
\* as long as no error or crash has hit the request, and at least that much after one.
THEOREM Invariant == Spec => [](TypeOK /\ IInv)
<1>1. Init => TypeOK /\ IInv
    BY InitInv
<1>2. TypeOK /\ IInv /\ [Next]_vars => (TypeOK /\ IInv)'
    BY NextInv
<1> QED BY <1>1, <1>2, PTL DEF Spec

\* The variables always have their types.
THEOREM TypeCorrect == Spec => []TypeOK
BY Invariant, PTL

\* The invariant bounds both accounts of a request from below.
LEMMA PaidNonNegative == TypeOK /\ IInv => NoFreeQuota
<1> SUFFICES ASSUME TypeOK, IInv, NEW s \in Sessions PROVE paid[s] >= 0 /\ tok[s] >= 0
    BY DEF NoFreeQuota
<1> USE SessionTypes
<1>1. FieldsOK(s) /\ PaidOK(s) /\ TokOK(s)
    BY DEF IInv, Local
<1>2. ExpectedPaid(s) >= 0
    BY <1>1 DEF ExpectedPaid, FundHeld, FieldsOK, Unreserved, Raising, Raise
<1> QED BY <1>1, <1>2 DEF PaidOK, TokOK, ExpectedPaid, FundHeld, Raise

\* However its refund is retried, interrupted or raced by other requests, no request
\* is ever given back more than it paid, to its funding source or to the token.
THEOREM NoQuotaForFree == Spec => []NoFreeQuota
BY Invariant, PaidNonNegative, PTL

\* The invariant fixes both accounts of a settled request at its price.
LEMMA ChargedByInv == TypeOK /\ IInv => ChargedExactly
<1> SUFFICES ASSUME TypeOK, IInv, NEW s \in Sessions, s \notin harmed, ses[s].settled
             PROVE  paid[s] = arg[s] /\ tok[s] = IF s \in Playground THEN 0 ELSE arg[s]
    BY DEF ChargedExactly
<1> USE SessionTypes
<1>1. FieldsOK(s) /\ PaidOK(s) /\ TokOK(s)
    BY DEF IInv, Local
<1>2. FundHeld(s) = ses[s].pre /\ pc[s] # "rejected"
    BY <1>1 DEF FieldsOK, Unreserved, Raising, Committed, FundHeld
<1> QED BY <1>1, <1>2 DEF PaidOK, TokOK, ExpectedPaid, ExpectedTok, TokenSettled, Committed

\* A settled request that no error hit has paid exactly its price, from the source
\* and from the token, whatever was pre-consumed or reserved before.
THEOREM ExactCharge == Spec => []ChargedExactly
BY Invariant, ChargedByInv, PTL

\* The invariant empties both accounts of a rejected or refunded request.
LEMMA ReturnedByInv == TypeOK /\ IInv => ReturnedInFull
<1> SUFFICES ASSUME TypeOK, IInv, NEW s \in Sessions, s \notin harmed,
                    pc[s] \in {"rejected", "failed"}, ~ses[s].settled
             PROVE  paid[s] = 0 /\ tok[s] = 0
    BY DEF ReturnedInFull
<1> USE SessionTypes
<1>1. FieldsOK(s) /\ PaidOK(s) /\ TokOK(s)
    BY DEF IInv, Local
<1>2. ~ses[s].fundingSettled
    BY <1>1 DEF FieldsOK, Committing, Committed
<1>3. ~ses[s].refunded => FundHeld(s) = 0 /\ (pc[s] = "failed" => TokHeld(s) = 0)
    BY <1>1, <1>2 DEF FieldsOK, Unreserved, TokHeld, Raising
<1>4. paid[s] = ExpectedPaid(s) /\ ExpectedPaid(s) = 0
    BY <1>1, <1>2, <1>3 DEF PaidOK, ExpectedPaid, Committed, FieldsOK
<1> QED BY <1>1, <1>2, <1>3, <1>4 DEF TokOK, ExpectedTok, TokenSettled

\* A request that was rejected, or failed and was refunded, without an error, has
\* got back everything it held.
THEOREM FullReturn == Spec => []ReturnedInFull
BY Invariant, ReturnedByInv, PTL

\* No step of a settled request moves quota or changes its session.
LEMMA SettledStays ==
    ASSUME TypeOK, IInv, NEW s \in Sessions, Step(s), ses[s].settled
    PROVE  paid'[s] = paid[s] /\ tok'[s] = tok[s] /\ ses'[s] = ses[s]
<1> USE SessionTypes
<1>1. pc[s] \in {"returned", "success", "failed", "crashed"}
    BY DEF IInv, Local, FieldsOK
<1>2. ~PreConsume(s)
    BY <1>1, Zenon DEF PreConsume, Start, ReadQuota, ReadQuotaFails, TokenPre, TokenPreFails, FundPre,
       FundPreFails, Rollback
<1>3. ~Reserving(s) /\ ~Settling(s) /\ ~Refunding(s)
    BY <1>1 DEF Reserving, ReserveFund, ReserveFundFails, ReserveToken, ReserveTokenFails, ReserveUndo,
       Settling, SettleFund, SettleFundFails, SettleToken, GuardRead, GuardDisable,
       Refunding, RefundWallet, RefundSub, RefundExtra, RefundToken
<1>4. Succeed(s) \/ Fail(s)
    BY <1>2, <1>3 DEF Step, Handler, Settle, Reserve
<1> QED BY <1>4 DEF Succeed, Fail, NeedsRefund

\* No step at all moves the quota of a settled request.
LEMMA FinalStep == TypeOK /\ IInv /\ [Next]_vars =>
    \A s \in Sessions : ses[s].settled => paid'[s] = paid[s] /\ tok'[s] = tok[s]
<1> SUFFICES ASSUME TypeOK, IInv, [Next]_vars, NEW s \in Sessions, ses[s].settled
             PROVE  paid'[s] = paid[s] /\ tok'[s] = tok[s]
    OBVIOUS
<1>1. CASE Step(s)
    BY <1>1, SettledStays
<1>2. ASSUME NEW t \in Sessions, t # s, Step(t) PROVE paid'[s] = paid[s] /\ tok'[s] = tok[s]
    BY <1>2, StepLocal DEF Others
<1>3. CASE TopUp \/ Crash \/ UNCHANGED vars
    BY <1>3 DEF TopUp, Crash, vars
<1> QED BY <1>1, <1>2, <1>3 DEF Next

\* After a settlement no late refund, second settlement or refund goroutine moves
\* the quota of the request.
THEOREM SettlementIsFinal == Spec => SettledIsFinal
<1>1. TypeOK /\ IInv /\ [Next]_vars =>
          [\A s \in Sessions : ses[s].settled => paid'[s] = paid[s] /\ tok'[s] = tok[s]]_vars
    BY FinalStep
<1> QED BY <1>1, Invariant, PTL DEF Spec, SettledIsFinal

-----------------------------------------------------------------------------
(* The refinement of Escrow. *)

\* What a step of a request does to its abstract account.
Simulates(s) ==
    \/ Phase(s)' = Phase(s) /\ paid'[s] = paid[s]
    \/ Phase(s) = "open" /\ Phase(s)' = "open"
    \/ Phase(s) = "open" /\ Phase(s)' = "charged" /\ harmed' = harmed
    \/ Phase(s) = "open" /\ Phase(s)' = "released" /\ harmed' = harmed /\ paid'[s] = paid[s]
    \/ Phase(s) = "released" /\ Phase(s)' = "released" /\ paid'[s] <= paid[s]

\* Before its settlement or refund begins, a request is open.
LEMMA OpenPhase ==
    ASSUME TypeOK, NEW s \in Sessions, FieldsOK(s),
           pc[s] \in {"new", "readQuota", "tokenPre", "fundPre", "rollback", "holding", "reserveFund",
                      "reserveToken", "reserveUndo", "settleFund", "rejected"}
    PROVE  Phase(s) = "open"
BY SessionTypes DEF FieldsOK, Phase, Committing, Returning, Committed

\* The steps of the pre-consumption adjust an open account.
LEMMA PreConsumeSimulates ==
    ASSUME TypeOK, TypeOK', NEW s \in Sessions, FieldsOK(s), FieldsOK(s)', PreConsume(s)
    PROVE  Simulates(s)
<1>1. pc[s] \in {"new", "readQuota", "tokenPre", "fundPre", "rollback"}
    BY DEF PreConsume, Start, ReadQuota, ReadQuotaFails, TokenPre, TokenPreFails, FundPre, FundPreFails,
       Rollback
<1>2. pc'[s] \in {"readQuota", "tokenPre", "fundPre", "rollback", "holding", "rejected"}
  <2> USE DEF Goto, TypeOK
  <2>1. CASE Start(s)
      BY <2>1 DEF Start
  <2>2. CASE ReadQuota(s)
    <3>1. NextSource(s) \/ Goto(s, "holding") \/ Goto(s, "tokenPre")
        BY <2>2, Zenon DEF ReadQuota
    <3> QED BY <3>1 DEF NextSource
  <2>3. CASE ReadQuotaFails(s) \/ TokenPreFails(s)
      BY <2>3 DEF ReadQuotaFails, TokenPreFails
  <2>4. CASE TokenPre(s)
      BY <2>4 DEF TokenPre
  <2>5. CASE FundPre(s) \/ FundPreFails(s)
      BY <2>5 DEF FundPre, FundPreFails
  <2>6. CASE Rollback(s)
      BY <2>6 DEF Rollback, NextSource
  <2> QED BY <2>1, <2>2, <2>3, <2>4, <2>5, <2>6 DEF PreConsume
<1>3. Phase(s) = "open"
    BY <1>1, OpenPhase
<1>4. Phase(s)' = "open"
    BY <1>2, SessionTypes DEF FieldsOK, Phase, Committing, Returning, TypeOK, Session
<1> QED BY <1>3, <1>4 DEF Simulates

\* The steps of Reserve adjust an open account.
LEMMA ReservingSimulates ==
    ASSUME TypeOK, TypeOK', NEW s \in Sessions, FieldsOK(s), FieldsOK(s)', Reserving(s) \/ Reserve(s)
    PROVE  Simulates(s)
<1>1. pc[s] \in Raising \cup {"holding"}
    BY DEF Reserving, Reserve, ReserveFund, ReserveFundFails, ReserveToken, ReserveTokenFails,
       ReserveUndo, Raising
<1>2. pc'[s] \in Raising \cup {"holding"}
    BY DEF Reserving, Reserve, ReserveFund, ReserveFundFails, ReserveToken, ReserveTokenFails,
       ReserveUndo, Raising,
       Goto, TypeOK
<1>3. Phase(s) = "open"
    BY <1>1, OpenPhase DEF Raising
<1>4. Phase(s)' = "open"
    BY <1>2 DEF FieldsOK, Phase, Committing, Returning, TypeOK, Session, Raising
<1> QED BY <1>3, <1>4 DEF Simulates

\* The funding step of Settle charges the account, the others leave it alone.
LEMMA SettlingSimulates ==
    ASSUME TypeOK, TypeOK', NEW s \in Sessions, FieldsOK(s), FieldsOK(s)', Settling(s) \/ Settle(s)
    PROVE  Simulates(s)
<1>1. CASE SettleFund(s)
  <2>1. Phase(s) = "open"
      BY <1>1, OpenPhase DEF SettleFund
  <2>2. pc'[s] = "settleToken" /\ harmed' = harmed
      BY <1>1 DEF SettleFund, Goto, TypeOK
  <2>3. Phase(s)' = "charged"
      BY <2>2 DEF Phase, FieldsOK, Committing
  <2> QED BY <2>1, <2>2, <2>3 DEF Simulates
<1>2. CASE SettleFundFails(s)
    BY <1>2 DEF SettleFundFails, Simulates, Phase, rows
<1>3. CASE SettleToken(s) \/ GuardRead(s) \/ GuardDisable(s)
  <2>1. pc[s] \in Committing /\ paid' = paid
      BY <1>3 DEF SettleToken, GuardRead, GuardDisable, Committing
  <2>2. ses'[s].settled \/ pc'[s] \in Committing
      BY <1>3, SessionTypes DEF SettleToken, GuardRead, GuardDisable, Committing, Goto, Update, TypeOK,
         Session
  <2>3. Phase(s) = "charged" /\ Phase(s)' = "charged"
      BY <2>1, <2>2 DEF Phase, FieldsOK
  <2> QED BY <2>1, <2>3 DEF Simulates
<1>4. CASE Settle(s)
  <2>1. Phase(s) = "open"
      BY <1>4, SessionTypes DEF Settle, Phase, FieldsOK, Committing, Returning
  <2>2. harmed' = harmed /\ (ses'[s].settled \/ ses' = ses)
      BY <1>4, SessionTypes DEF Settle, Update, TypeOK, Session
  <2>3. Phase(s)' \in {"open", "charged"}
      BY <2>1, <2>2 DEF Phase
  <2> QED BY <2>1, <2>2, <2>3 DEF Simulates
<1> QED BY <1>1, <1>2, <1>3, <1>4 DEF Settling

\* Fail releases the account and the refund goroutine gives quota back.
LEMMA EndingSimulates ==
    ASSUME TypeOK, TypeOK', NEW s \in Sessions, FieldsOK(s), FieldsOK(s)',
           Refunding(s) \/ Succeed(s) \/ Fail(s)
    PROVE  Simulates(s)
<1>1. CASE Refunding(s)
  <2>1. pc[s] \in Returning /\ ses' = ses
      BY <1>1 DEF Refunding, RefundWallet, RefundSub, RefundExtra, RefundToken, Returning
  <2>2. Phase(s) = "released" /\ Phase(s)' = "released"
      BY <2>1, SessionTypes DEF Phase, FieldsOK, Committed
  <2>3. paid'[s] <= paid[s]
    <3> USE SessionTypes, TakeEffect
    <3>1. CASE RefundWallet(s)
        BY <3>1 DEF RefundWallet, NoTake
    <3>2. CASE RefundSub(s)
        BY <3>2 DEF RefundSub, RefundRecord, NoTake
    <3>3. CASE RefundExtra(s)
        BY <3>3 DEF RefundExtra, NoTake
    <3>4. CASE RefundToken(s)
        BY <3>4 DEF RefundToken
    <3> QED BY <1>1, <3>1, <3>2, <3>3, <3>4 DEF Refunding
  <2> QED BY <2>2, <2>3 DEF Simulates
<1>2. CASE Succeed(s)
    BY <1>2 DEF Succeed, Simulates, Phase, rows
<1>3. CASE Fail(s)
  <2>1. paid' = paid /\ harmed' = harmed
      BY <1>3 DEF Fail
  <2>2. CASE ses' = ses
      BY <2>1, <2>2 DEF Simulates, Phase
  <2>3. CASE NeedsRefund(ses[s], fund[s])
    <3>1. ses'[s].refunded /\ ses'[s].fundingSettled = ses[s].fundingSettled /\ ses'[s].settled = ses[s].settled
        BY <1>3, <2>3, SessionTypes DEF Fail, Update, TypeOK, Session
    <3> QED BY <2>1, <2>3, <3>1 DEF Simulates, Phase, NeedsRefund
  <2> QED BY <1>3, <2>2, <2>3 DEF Fail
<1> QED BY <1>1, <1>2, <1>3

\* A step of a request harms that request at most.
LEMMA HarmEffect ==
    ASSUME NEW s \in Sessions, Step(s)
    PROVE  harmed' \in {harmed, harmed \cup {s}}
<1>1. CASE PreConsume(s)
    BY <1>1 DEF PreConsume, Start, ReadQuota, ReadQuotaFails, TokenPre, TokenPreFails, FundPre,
       FundPreFails,
       Rollback, Harm
<1>2. CASE Reserving(s)
    BY <1>2 DEF Reserving, ReserveFund, ReserveFundFails, ReserveToken, ReserveTokenFails, ReserveUndo, Harm
<1>3. CASE Settling(s)
    BY <1>3 DEF Settling, SettleFund, SettleFundFails, SettleToken, GuardRead, GuardDisable, Harm
<1>4. CASE Refunding(s)
    BY <1>4 DEF Refunding, RefundWallet, RefundSub, RefundExtra, RefundToken, Harm
<1>5. CASE Handler(s)
    BY <1>5 DEF Handler, Reserve, Settle, Succeed, Fail
<1> QED BY <1>1, <1>2, <1>3, <1>4, <1>5 DEF Step

\* A step of a request is a step of its abstract account, or none.
LEMMA StepRefines ==
    ASSUME TypeOK, IInv, NEW s \in Sessions, Step(s)
    PROVE  [Promise!Next]_(Promise!vars)
<1> DEFINE phase == [t \in Sessions |-> Phase(t)]
<1>1. TypeOK' /\ Others(s) /\ FieldsOK(s) /\ FieldsOK(s)' /\ PaidOK(s) /\ PaidOK(s)'
    BY StepLocal DEF IInv, Local
<1>2. Simulates(s)
    BY <1>1, PreConsumeSimulates, ReservingSimulates, SettlingSimulates, EndingSimulates DEF Step, Handler
<1>3. \A t \in Sessions : t # s => Phase(t)' = Phase(t)
    BY <1>1 DEF Others, Phase
<1>4. paid' = [paid EXCEPT ![s] = paid'[s]]
    BY <1>1 DEF Others, TypeOK
<1>5. harmed' \in {harmed, harmed \cup {s}}
    BY HarmEffect
<1>6. phase' = [phase EXCEPT ![s] = Phase(s)']
    BY <1>3
<1>7. phase[s] = Phase(s)
    OBVIOUS
<1>8. Phase(s)' = Phase(s) => phase' = phase
    BY <1>3
<1> HIDE DEF phase
<1>9. CASE Phase(s)' = Phase(s) /\ paid'[s] = paid[s]
  <2>1. paid' = paid
      BY <1>4, <1>9 DEF TypeOK
  <2>2. phase' = phase
      BY <1>8, <1>9
  <2>3. \E R \in SUBSET Sessions : harmed' = harmed \cup R
    <3>1. harmed' = harmed \cup {} \/ harmed' = harmed \cup {s}
        BY <1>5
    <3>2. {} \in SUBSET Sessions /\ {s} \in SUBSET Sessions
        OBVIOUS
    <3> QED BY <3>1, <3>2, Zenon
  <2> QED BY <2>1, <2>2, <2>3 DEF Promise!Next, Promise!Break, phase
<1>10. CASE Phase(s) = "open" /\ Phase(s)' = "open"
  <2>1. paid'[s] \in Nat
    <3>1. Phase(s)' = "open" => ~ses'[s].fundingSettled /\ ~ses'[s].settled /\ ~ses'[s].refunded
        BY DEF Phase
    <3>2. paid'[s] \in Int /\ ExpectedPaid(s)' >= 0
        BY <1>1, <1>10, <3>1 DEF ExpectedPaid, Committed, FundHeld, Raise, Raising, FieldsOK, TypeOK,
           Session
    <3>3. ExpectedPaid(s)' \in Int
        BY <1>1, <1>10, <3>1 DEF ExpectedPaid, Committed, FundHeld, Raise, TypeOK, Session
    <3> QED BY <1>1, <3>2, <3>3 DEF PaidOK
  <2>2. Promise!Adjust(s)
      BY <1>4, <1>5, <1>7, <1>8, <1>10, <2>1 DEF Promise!Adjust, Promise!Only, Promise!MayFail, phase
  <2> QED BY <2>2 DEF Promise!Next
<1>11. CASE Phase(s) = "open" /\ Phase(s)' = "charged" /\ harmed' = harmed
  <2>1. ses'[s].fundingSettled \/ ses'[s].settled
      BY <1>11 DEF Phase
  <2>2. arg'[s] \in Prices /\ pc'[s] \notin Raising
      BY <1>1, <2>1 DEF FieldsOK, Raising, Committing, Committed
  <2>3. FundHeld(s)' \in Nat /\ FundHeld(s)' >= ses'[s].pre /\ (s \notin harmed' => FundHeld(s)' = ses'[s].pre)
      BY <1>1, <2>2 DEF FieldsOK, Unreserved, Raising, FundHeld, TypeOK, Session
  <2>4. ExpectedPaid(s)' = arg'[s] + FundHeld(s)' - ses'[s].pre
      BY <2>1 DEF ExpectedPaid, Committed
  <2>5. paid'[s] >= arg'[s] /\ (s \notin harmed => paid'[s] = arg'[s])
      BY <1>1, <1>11, <2>2, <2>3, <2>4 DEF PaidOK, TypeOK, Session
  <2>6. Promise!Charge(s)
      BY <1>4, <1>6, <1>7, <1>11, <2>2, <2>5 DEF Promise!Charge, Promise!Only, phase
  <2> QED BY <2>6 DEF Promise!Next
<1>12. CASE Phase(s) = "open" /\ Phase(s)' = "released" /\ harmed' = harmed /\ paid'[s] = paid[s]
  <2>1. paid' = paid
      BY <1>4, <1>12 DEF TypeOK
  <2>2. Promise!Release(s)
      BY <1>6, <1>7, <1>12, <2>1 DEF Promise!Release, phase
  <2> QED BY <2>2 DEF Promise!Next
<1>13. CASE Phase(s) = "released" /\ Phase(s)' = "released" /\ paid'[s] <= paid[s]
  <2>1. paid'[s] \in 0 .. paid[s]
    <3>1. ExpectedPaid(s)' \in Nat
        BY <1>1, <1>13 DEF ExpectedPaid, Committed, FundHeld, Phase, TypeOK, Session, FieldsOK,
           Returning, Raising, Raise
    <3> QED BY <1>1, <1>13, <3>1 DEF PaidOK, TypeOK
  <2>2. Promise!GiveBack(s)
      BY <1>4, <1>5, <1>7, <1>8, <1>13, <2>1 DEF Promise!GiveBack, Promise!Only, Promise!MayFail, phase
  <2> QED BY <2>2 DEF Promise!Next
<1> QED BY <1>2, <1>9, <1>10, <1>11, <1>12, <1>13 DEF Simulates

\* Every step of the system is a step of Escrow, or none.
LEMMA NextRefines == TypeOK /\ IInv /\ [Next]_vars => [Promise!Next]_(Promise!vars)
<1> SUFFICES ASSUME TypeOK, IInv, [Next]_vars PROVE [Promise!Next]_(Promise!vars)
    OBVIOUS
<1>1. ASSUME NEW s \in Sessions, Step(s) PROVE [Promise!Next]_(Promise!vars)
    BY <1>1, StepRefines
<1>2. CASE TopUp \/ UNCHANGED vars
    BY <1>2 DEF TopUp, vars, Promise!vars, Phase
<1>3. CASE Crash
  <2>1. ses' = ses /\ paid' = paid /\ \E R \in SUBSET Sessions : harmed' = harmed \cup R
      BY <1>3 DEF Crash
  <2>2. [s \in Sessions |-> Phase(s)]' = [s \in Sessions |-> Phase(s)]
      BY <2>1 DEF Phase
  <2> QED BY <2>1, <2>2 DEF Promise!Next, Promise!Break
<1> QED BY <1>1, <1>2, <1>3 DEF Next

\* The system starts where Escrow starts.
LEMMA InitRefines == Init => Promise!Init
BY DEF Init, Promise!Init, Phase, Fresh

\* Billing sessions implement Escrow, the promise of BillingSettler: each request is
\* charged once and for good or released, never both, under every interleaving of
\* any number of requests, with any errors, retries and crashes.
THEOREM SessionImplementsEscrow == Spec => ImplementsEscrow
<1>1. TypeOK /\ IInv /\ [Next]_vars => [Promise!Next]_(Promise!vars)
    BY NextRefines
<1> QED BY <1>1, InitRefines, Invariant, PTL DEF Spec, ImplementsEscrow, Promise!Spec

-----------------------------------------------------------------------------
(* Sums over a finite set.  The library adds with a recursive function whose *)
(* value is found by choosing elements; that it does not depend on the order *)
(* follows by taking a smallest part of the set for which it would.          *)

\* The sum of f over T, as the properties write it.
Total(f, T) == MapThenSumSet(LAMBDA s : f[s], T)

\* g adds up f over every part of S.
Adds(g, f, S) ==
    g = [T \in SUBSET S |->
           IF T = {} THEN 0 ELSE LET x == CHOOSE x \in T : TRUE IN f[x] + g[T \ {x}]]

\* Among the parts of a finite set that have a property one has no smaller one.
LEMMA Smallest ==
    ASSUME NEW S, IsFiniteSet(S), NEW Bad \in SUBSET SUBSET S, Bad # {}
    PROVE  \E T \in Bad : IsFiniteSet(T) /\ \A x \in T : T \ {x} \notin Bad
<1>1. Bad \subseteq FiniteSubsetsOf(S)
  BY FS_Subset DEF FiniteSubsetsOf
<1>2. PICK T \in Bad : \A U \in Bad : ~(<<U, T>> \in StrictSubsetOrdering(S))
  BY <1>1, FS_StrictSubsetOrderingWellFounded, WFMin
<1>3. ASSUME NEW x \in T, T \ {x} \in Bad PROVE FALSE
  <2>1. <<T \ {x}, T>> \in StrictSubsetOrdering(S)
    BY <1>1, <1>3 DEF StrictSubsetOrdering, FiniteSubsetsOf
  <2> QED BY <2>1, <1>2, <1>3
<1>4. IsFiniteSet(T)
  BY FS_Subset
<1> QED BY <1>2, <1>3, <1>4

\* Two functions that add up agree where what they add agrees.
LEMMA AddsAgree ==
    ASSUME NEW S, IsFiniteSet(S), NEW U, S \subseteq U, NEW V, S \subseteq V,
           NEW f, NEW h, \A x \in S : f[x] = h[x],
           NEW g, Adds(g, f, U), NEW k, Adds(k, h, V)
    PROVE  g[S] = k[S]
<1> DEFINE Bad == {T \in SUBSET S : g[T] # k[T]}
<1>1. ASSUME Bad # {} PROVE FALSE
  <2>1. PICK T \in Bad : \A x \in T : T \ {x} \notin Bad
    BY <1>1, Smallest
  <2> DEFINE x == CHOOSE x \in T : TRUE
  <2>2. /\ g[T] = IF T = {} THEN 0 ELSE f[x] + g[T \ {x}]
        /\ k[T] = IF T = {} THEN 0 ELSE h[x] + k[T \ {x}]
    BY <2>1 DEF Adds
  <2>3. T # {}
    BY <2>1, <2>2
  <2>4. x \in T /\ g[T \ {x}] = k[T \ {x}] /\ f[x] = h[x]
    BY <2>1, <2>3
  <2> QED BY <2>1, <2>2, <2>3, <2>4
<1> QED BY <1>1

\* There is one for every finite set.
LEMMA AddsExists ==
    ASSUME NEW f, NEW S, IsFiniteSet(S)
    PROVE  \E g : Adds(g, f, S)
<1> DEFINE Bad == {T \in SUBSET S : ~\E g : Adds(g, f, T)}
<1>1. ASSUME Bad # {} PROVE FALSE
  <2>1. PICK T \in Bad : IsFiniteSet(T) /\ \A x \in T : T \ {x} \notin Bad
    BY <1>1, Smallest
  <2> DEFINE Of(U) == CHOOSE g : Adds(g, f, U)
             c(U) == CHOOSE x \in U : TRUE
  <2>2. \A U \in SUBSET T : U # T => Adds(Of(U), f, U)
    <3>1. SUFFICES ASSUME NEW U \in SUBSET T, U # T PROVE \E g : Adds(g, f, U)
      OBVIOUS
    <3>2. PICK x \in T : U \subseteq T \ {x}
      BY <3>1
    <3>3. PICK g : Adds(g, f, T \ {x})
      BY <2>1, <3>2
    <3> DEFINE k == [W \in SUBSET U |-> g[W]]
    <3>4. \A W \in SUBSET U : g[W] = IF W = {} THEN 0 ELSE f[c(W)] + g[W \ {c(W)}]
      BY <3>2, <3>3 DEF Adds
    <3>5. \A W \in SUBSET U : k[W] = g[W] /\ (W # {} => k[W \ {c(W)}] = g[W \ {c(W)}])
      OBVIOUS
    <3>6. k = [W \in SUBSET U |-> IF W = {} THEN 0 ELSE f[c(W)] + k[W \ {c(W)}]]
      <4>1. \A W \in SUBSET U : k[W] = IF W = {} THEN 0 ELSE f[c(W)] + k[W \ {c(W)}]
        BY <3>4, <3>5
      <4> HIDE DEF c
      <4>2. k = [W \in SUBSET U |-> k[W]]
        OBVIOUS
      <4> HIDE DEF k
      <4> QED BY <4>1, <4>2
    <3> QED BY <3>6 DEF Adds
  <2> HIDE DEF Of
  <2> DEFINE v == [U \in SUBSET T |-> IF U = {} THEN 0 ELSE f[c(U)] + Of(U \ {c(U)})[U \ {c(U)}]]
  <2>3. \A U \in SUBSET T : U # T => v[U] = Of(U)[U]
    <3> SUFFICES ASSUME NEW U \in SUBSET T, U # T PROVE v[U] = Of(U)[U]
      OBVIOUS
    <3>1. Adds(Of(U), f, U)
      BY <2>2
    <3>2. Of(U)[U] = IF U = {} THEN 0 ELSE f[c(U)] + Of(U)[U \ {c(U)}]
      BY <3>1 DEF Adds
    <3>3. CASE U = {}
      BY <3>2, <3>3
    <3>4. CASE U # {}
      <4>1. Adds(Of(U \ {c(U)}), f, U \ {c(U)}) /\ IsFiniteSet(U \ {c(U)})
        <5>1. U \ {c(U)} \in SUBSET T /\ U \ {c(U)} # T
          BY <3>4
        <5>2. IsFiniteSet(U \ {c(U)})
          BY <2>1, FS_Subset
        <5> QED BY <5>1, <5>2, <2>2
      <4> DEFINE W == U \ {c(U)}
      <4>2. W \subseteq U /\ W \subseteq W /\ \A x \in W : f[x] = f[x]
        OBVIOUS
      <4> HIDE DEF W, c
      <4>3. Of(W)[W] = Of(U)[W]
        BY <3>1, <4>1, <4>2, AddsAgree DEF W
      <4> QED BY <3>2, <3>4, <4>3 DEF W
    <3> QED BY <3>3, <3>4
  <2>4. v = [U \in SUBSET T |-> IF U = {} THEN 0 ELSE f[c(U)] + v[U \ {c(U)}]]
    <3>1. ASSUME NEW U \in SUBSET T, U # {} PROVE v[U] = f[c(U)] + v[U \ {c(U)}]
      <4>1. U \ {c(U)} \in SUBSET T /\ U \ {c(U)} # T
        BY <3>1
      <4>2. v[U \ {c(U)}] = Of(U \ {c(U)})[U \ {c(U)}]
        BY <4>1, <2>3
      <4> HIDE DEF c
      <4> QED BY <3>1, <4>2
    <3>2. {} \in SUBSET T /\ v[{}] = 0
      OBVIOUS
    <3>3. v = [U \in SUBSET T |-> v[U]]
      OBVIOUS
    <3> HIDE DEF v, c
    <3> QED BY <3>1, <3>2, <3>3
  <2>5. Adds(v, f, T)
    BY <2>4 DEF Adds
  <2> QED BY <2>1, <2>5
<1> QED BY <1>1

LEMMA TotalDef ==
    ASSUME NEW f, NEW S, IsFiniteSet(S)
    PROVE  \E g : Adds(g, f, S) /\ Total(f, S) = g[S]
<1> DEFINE h == CHOOSE g : Adds(g, f, S)
<1>1. Adds(h, f, S)
  BY AddsExists
<1>2. Total(f, S) = h[S]
  BY DEF Total, MapThenSumSet, MapThenFoldSet, Adds
<1> QED BY <1>1, <1>2

\* The sum over a set is that over what remains and one of its elements.
LEMMA TotalStep ==
    ASSUME NEW f, NEW S, IsFiniteSet(S)
    PROVE  /\ S = {} => Total(f, S) = 0
           /\ S # {} => \E x \in S : Total(f, S) = f[x] + Total(f, S \ {x})
<1>1. PICK g : Adds(g, f, S) /\ Total(f, S) = g[S]
  BY TotalDef
<1> DEFINE x == CHOOSE x \in S : TRUE
<1>2. g[S] = IF S = {} THEN 0 ELSE f[x] + g[S \ {x}]
  BY <1>1 DEF Adds
<1>3. ASSUME S # {} PROVE x \in S /\ g[S \ {x}] = Total(f, S \ {x})
  <2>1. x \in S
    BY <1>3
  <2> HIDE DEF x
  <2>2. IsFiniteSet(S \ {x})
    BY FS_Subset
  <2>3. PICK k : Adds(k, f, S \ {x}) /\ Total(f, S \ {x}) = k[S \ {x}]
    BY <2>2, TotalDef
  <2>4. g[S \ {x}] = k[S \ {x}]
    BY <1>1, <2>2, <2>3, AddsAgree
  <2> QED BY <2>1, <2>3, <2>4
<1> QED BY <1>1, <1>2, <1>3

LEMMA TotalInt ==
    ASSUME NEW S, IsFiniteSet(S), NEW f, \A x \in S : f[x] \in Int
    PROVE  Total(f, S) \in Int
<1> DEFINE Bad == {T \in SUBSET S : Total(f, T) \notin Int}
<1>1. ASSUME Bad # {} PROVE FALSE
  <2>1. PICK T \in Bad : IsFiniteSet(T) /\ \A x \in T : T \ {x} \notin Bad
    BY <1>1, Smallest
  <2>2. T # {} /\ \E x \in T : Total(f, T) = f[x] + Total(f, T \ {x})
    BY <2>1, TotalStep
  <2>3. PICK x \in T : Total(f, T) = f[x] + Total(f, T \ {x})
    BY <2>2
  <2> HIDE DEF Total
  <2>4. Total(f, T \ {x}) \in Int /\ f[x] \in Int
    BY <2>1
  <2> QED BY <2>1, <2>3, <2>4
<1> QED BY <1>1

\* Any element may be taken out first.
LEMMA TotalOut ==
    ASSUME NEW S, IsFiniteSet(S), NEW f, \A x \in S : f[x] \in Int, NEW y \in S
    PROVE  Total(f, S) = f[y] + Total(f, S \ {y})
<1> DEFINE Bad == {T \in SUBSET S : \E z \in T : Total(f, T) # f[z] + Total(f, T \ {z})}
<1>1. ASSUME Bad # {} PROVE FALSE
  <2>1. PICK T \in Bad : IsFiniteSet(T) /\ \A x \in T : T \ {x} \notin Bad
    BY <1>1, Smallest
  <2>2. PICK z \in T : Total(f, T) # f[z] + Total(f, T \ {z})
    BY <2>1
  <2>3. PICK x \in T : Total(f, T) = f[x] + Total(f, T \ {x})
    BY <2>1, <2>2, TotalStep
  <2>4. x # z
    BY <2>2, <2>3
  <2> DEFINE R == T \ {x, z}
  <2>5. /\ T \ {x} \in SUBSET S /\ z \in T \ {x} /\ (T \ {x}) \ {z} = R
        /\ T \ {z} \in SUBSET S /\ x \in T \ {z} /\ (T \ {z}) \ {x} = R
    BY <2>1, <2>4
  <2>6. Total(f, T \ {x}) = f[z] + Total(f, (T \ {x}) \ {z})
    BY <2>1, <2>5
  <2>7. Total(f, T \ {z}) = f[x] + Total(f, (T \ {z}) \ {x})
    BY <2>1, <2>5
  <2>8. Total(f, R) \in Int /\ f[x] \in Int /\ f[z] \in Int
    <3>1. IsFiniteSet(R) /\ \A u \in R : f[u] \in Int
      BY <2>1, FS_Subset
    <3> HIDE DEF R
    <3> QED BY <3>1, TotalInt, <2>1
  <2>9. Total(f, T) = f[x] + (f[z] + Total(f, R))
    BY <2>3, <2>5, <2>6
  <2>10. Total(f, T) # f[z] + (f[x] + Total(f, R))
    BY <2>2, <2>5, <2>7
  <2>11. PICK r \in Int : r = Total(f, R)
    BY <2>8
  <2> HIDE DEF R
  <2> QED BY <2>8, <2>9, <2>10, <2>11
<1> QED BY <1>1

\* Functions that agree have the same sum.
LEMMA TotalSame ==
    ASSUME NEW S, IsFiniteSet(S), NEW f, NEW h, \A x \in S : f[x] = h[x]
    PROVE  Total(f, S) = Total(h, S)
<1>1. PICK g : Adds(g, f, S) /\ Total(f, S) = g[S]
  BY TotalDef
<1>2. PICK k : Adds(k, h, S) /\ Total(h, S) = k[S]
  BY TotalDef
<1> QED BY <1>1, <1>2, AddsAgree

\* Changing the function at one place.
LEMMA TotalChange ==
    ASSUME NEW S, IsFiniteSet(S), NEW f, NEW h, NEW y \in S,
           \A x \in S : f[x] \in Int /\ h[x] \in Int, \A x \in S : x # y => f[x] = h[x]
    PROVE  Total(h, S) = Total(f, S) + (h[y] - f[y])
<1>1. Total(f, S) = f[y] + Total(f, S \ {y}) /\ Total(h, S) = h[y] + Total(h, S \ {y})
  BY TotalOut
<1>2. IsFiniteSet(S \ {y}) /\ \A x \in S \ {y} : f[x] = h[x] /\ f[x] \in Int
  BY FS_Subset
<1>3. Total(f, S \ {y}) = Total(h, S \ {y})
  BY <1>2, TotalSame
<1>4. Total(f, S \ {y}) \in Int
  BY <1>2, TotalInt
<1> QED BY <1>1, <1>3, <1>4

\* A sum of numbers that are not negative is at least each of them.
LEMMA TotalBound ==
    ASSUME NEW S, IsFiniteSet(S), NEW f, \A x \in S : f[x] \in Nat
    PROVE  Total(f, S) \in Nat /\ \A y \in S : f[y] <= Total(f, S)
<1>1. \A T \in SUBSET S : Total(f, T) \in Nat
  <2> DEFINE Bad == {T \in SUBSET S : Total(f, T) \notin Nat}
  <2>1. ASSUME Bad # {} PROVE FALSE
    <3>1. PICK T \in Bad : IsFiniteSet(T) /\ \A x \in T : T \ {x} \notin Bad
      BY <2>1, Smallest
    <3>2. T # {} /\ \E x \in T : Total(f, T) = f[x] + Total(f, T \ {x})
      BY <3>1, TotalStep
    <3>3. PICK x \in T : Total(f, T) = f[x] + Total(f, T \ {x})
      BY <3>2
    <3>4. Total(f, T \ {x}) \in Nat /\ f[x] \in Nat
      BY <3>1
    <3> QED BY <3>1, <3>3, <3>4
  <2> QED BY <2>1
<1>2. ASSUME NEW y \in S PROVE f[y] <= Total(f, S)
  <2>1. Total(f, S) = f[y] + Total(f, S \ {y})
    BY TotalOut
  <2>2. Total(f, S \ {y}) \in Nat /\ f[y] \in Nat
    BY <1>1
  <2> QED BY <2>1, <2>2
<1> QED BY <1>1, <1>2

\* What does not count may be left out or counted as zero.
LEMMA TotalSome ==
    ASSUME NEW S, IsFiniteSet(S), NEW A, NEW f, NEW h,
           \A x \in S : f[x] \in Int /\ h[x] = IF x \in A THEN f[x] ELSE 0
    PROVE  Total(f, S \cap A) = Total(h, S)
<1> DEFINE Bad == {T \in SUBSET S : Total(f, T \cap A) # Total(h, T)}
<1>1. ASSUME Bad # {} PROVE FALSE
  <2>1. PICK T \in Bad : IsFiniteSet(T) /\ \A x \in T : T \ {x} \notin Bad
    BY <1>1, Smallest
  <2>2. T # {}
    <3>1. ASSUME T = {} PROVE FALSE
      <4>1. T \cap A = {}
        BY <3>1
      <4>2. Total(f, T \cap A) = 0 /\ Total(h, T) = 0
        BY <2>1, <3>1, <4>1, TotalStep
      <4> QED BY <2>1, <4>2
    <3> QED BY <3>1
  <2>3. PICK x \in T : Total(h, T) = h[x] + Total(h, T \ {x})
    BY <2>1, <2>2, TotalStep
  <2>4. Total(f, (T \ {x}) \cap A) = Total(h, T \ {x})
    BY <2>1
  <2>5. Total(h, T \ {x}) \in Int
    <3>1. IsFiniteSet(T \ {x}) /\ \A y \in T \ {x} : h[y] \in Int
      BY <2>1, FS_Subset
    <3> QED BY <3>1, TotalInt
  <2>6. CASE x \in A
    <3>1. IsFiniteSet(T \cap A) /\ x \in T \cap A /\ \A y \in T \cap A : f[y] \in Int
      BY <2>1, <2>6, FS_Subset
    <3>2. Total(f, T \cap A) = f[x] + Total(f, (T \cap A) \ {x})
      BY <3>1, TotalOut
    <3>3. (T \cap A) \ {x} = (T \ {x}) \cap A /\ h[x] = f[x]
      BY <2>1, <2>6
    <3> QED BY <2>1, <2>3, <2>4, <3>2, <3>3
  <2>7. CASE x \notin A
    <3>1. (T \ {x}) \cap A = T \cap A /\ h[x] = 0
      BY <2>1, <2>7
    <3> QED BY <2>1, <2>3, <2>4, <2>5, <3>1
  <2> QED BY <2>6, <2>7
<1> QED BY <1>1

-----------------------------------------------------------------------------
(* The rows the requests share, against the accounts of the requests. *)

Before == Opening \cup {"fundPre", "rollback"}

\* A request has taken nothing before its source is charged, and one of the
\* playground never charges a token.
Unfunded(s) ==
    /\ pc[s] \in Before => paid[s] = 0
    /\ s \in Playground => tok[s] = 0

SubShare(s) == IF fund[s] = "sub" THEN paid[s] ELSE 0
WalletOver(s) == IF fund[s] = "wallet" THEN Excess(paid[s], ses[s].consumed) ELSE 0
TokenOver(s) == Excess(tok[s], ses[s].tokenConsumed)

\* What a step of a request does to the wallet and the subscription: it leaves the
\* wallet at zero at least or takes no more than its settlement exceeds the hold,
\* and the usage moves by what the request's share moves, within the total.
FundFair(s) ==
    /\ wallet' >= 0 \/ wallet' + WalletOver(s)' >= wallet + WalletOver(s)
    /\ subUsed' - SubShare(s)' = subUsed - SubShare(s)
    /\ SubTotal > 0 /\ subUsed <= SubTotal => subUsed' <= SubTotal
    /\ pc'[s] \in Before => paid'[s] = 0

\* The same of the token.
TokenFair(s) ==
    /\ TokenUnlimited \/ tokenRemain' >= 0 \/ tokenRemain' + TokenOver(s)' >= tokenRemain + TokenOver(s)
    /\ s \in Playground => tok'[s] = 0

LEMMA QuietFund ==
    ASSUME TypeOK, TypeOK', NEW s \in Sessions, UNCHANGED <<wallet, subUsed>>, paid'[s] = paid[s],
           \/ paid[s] = 0
           \/ fund'[s] = fund[s] /\ ses'[s].consumed <= ses[s].consumed /\ pc'[s] \notin Before
    PROVE  FundFair(s)
<1>1. /\ ses[s].consumed \in Nat /\ ses'[s].consumed \in Nat /\ paid[s] \in Int
      /\ wallet \in Int /\ subUsed \in Nat
  BY DEF TypeOK, Session
<1> QED BY <1>1 DEF FundFair, WalletOver, SubShare, Excess

LEMMA QuietToken ==
    ASSUME TypeOK, TypeOK', NEW s \in Sessions, Unfunded(s), UNCHANGED tokenRemain, tok'[s] = tok[s],
           tok[s] = 0 \/ ses'[s].tokenConsumed <= ses[s].tokenConsumed
    PROVE  TokenFair(s)
<1>1. /\ ses[s].tokenConsumed \in Nat /\ ses'[s].tokenConsumed \in Nat /\ tok[s] \in Int
      /\ tokenRemain \in Int
  BY DEF TypeOK, Session
<1> QED BY <1>1 DEF TokenFair, TokenOver, Excess, Unfunded

\* A charge or a refund of the source.
LEMMA TakeFund ==
    ASSUME TypeOK, TypeOK', NEW s \in Sessions, NEW n \in Int, Take(s, n), fund'[s] = fund[s],
           subUsed >= SubShare(s), paid'[s] >= 0, pc'[s] \notin Before,
           fund[s] = "wallet" => (wallet >= n \/ WalletOver(s)' >= WalletOver(s) + n)
    PROVE  FundFair(s)
<1>1. wallet \in Int /\ subUsed \in Nat /\ paid[s] \in Int /\ SubTotal \in Nat
  BY DEF TypeOK
<1>2. paid'[s] = paid[s] + n
  BY TakeEffect
<1>3. CASE fund[s] = "wallet"
  <2>1. wallet' = wallet - n /\ subUsed' = subUsed
    BY <1>3 DEF Take
  <2>2. WalletOver(s) \in Int /\ WalletOver(s)' \in Int
    BY <1>1, <1>2 DEF WalletOver, Excess, TypeOK, Session
  <2>3. wallet' >= 0 \/ wallet' + WalletOver(s)' >= wallet + WalletOver(s)
    BY <2>1, <2>2, <1>1, <1>3
  <2>4. SubShare(s) = 0 /\ SubShare(s)' = 0
    BY <1>3 DEF SubShare
  <2> QED BY <1>1, <2>1, <2>3, <2>4 DEF FundFair
<1>4. CASE fund[s] = "sub"
  <2>1. wallet' = wallet /\ Fits(n) /\ subUsed' = UsedAfter(n)
    BY <1>4 DEF Take
  <2>2. SubShare(s) = paid[s] /\ SubShare(s)' = paid[s] + n
    BY <1>2, <1>4 DEF SubShare
  <2>3. subUsed' = subUsed + n
    BY <1>1, <1>2, <2>1, <2>2 DEF UsedAfter
  <2>4. SubTotal > 0 => subUsed' <= SubTotal
    BY <1>1, <2>1 DEF Fits
  <2>5. WalletOver(s) = 0 /\ WalletOver(s)' = 0
    BY <1>4 DEF WalletOver
  <2> QED BY <1>1, <2>1, <2>2, <2>3, <2>4, <2>5 DEF FundFair
<1> QED BY <1>3, <1>4 DEF TypeOK, Sources

\* A charge of the token or a return to it.
LEMMA TakeTokenFair ==
    ASSUME TypeOK, TypeOK', NEW s \in Sessions, NEW n \in Int, TakeToken(s, n), s \notin Playground,
           TokenUnlimited \/ tokenRemain >= n \/ TokenOver(s)' >= TokenOver(s) + n
    PROVE  TokenFair(s)
<1>1. tokenRemain \in Int /\ tokenRemain' = tokenRemain - n
  BY DEF TypeOK, TakeToken
<1>2. TokenOver(s) \in Int /\ TokenOver(s)' \in Int
  BY DEF TokenOver, Excess, TypeOK, Session
<1> QED BY <1>1, <1>2 DEF TokenFair

\* What the session of a request says of its own accounts.
LEMMA Accounts ==
    ASSUME TypeOK, IInv, NEW s \in Sessions
    PROVE  /\ paid[s] >= 0 /\ tok[s] >= 0
           /\ pc[s] \in Before => ses[s].consumed = 0
           /\ pc[s] \in Opening \ {"rejected"} => ses[s] = Fresh
           /\ pc[s] \in Raising => Raise(s) > 0
           /\ pc[s] = "settleFund" => ~ses[s].fundingSettled
           /\ pc[s] = "settleFund" /\ fund[s] = "wallet" => paid[s] >= ses[s].consumed
           /\ pc[s] \in {"rollback", "settleToken"} /\ s \notin Playground => tok[s] >= ses[s].tokenConsumed
           /\ pc[s] = "refundExtra" => fund[s] = "sub"
           /\ pc[s] = "reserveUndo" => paid[s] >= Raise(s)
<1> USE SessionTypes
<1>1. FieldsOK(s) /\ PaidOK(s) /\ TokOK(s)
  BY DEF IInv, Local
<1>2. paid[s] >= 0 /\ tok[s] >= 0
  BY PaidNonNegative DEF NoFreeQuota
<1>3. /\ pc[s] \in Before => ses[s].consumed = 0
      /\ pc[s] \in Opening \ {"rejected"} => ses[s] = Fresh
  BY <1>1 DEF FieldsOK, Before, Opening, Fresh, FundHeld
<1>4. pc[s] \in Raising => Raise(s) > 0
  BY <1>1 DEF FieldsOK, Raise
<1>5. pc[s] = "settleFund" => ~ses[s].fundingSettled /\ ~Committed(s) /\ ~ses[s].refunded
  BY <1>1 DEF FieldsOK, Committing, Committed, Returning
<1>6. pc[s] = "settleFund" /\ fund[s] = "wallet" => paid[s] >= ses[s].consumed
  BY <1>1, <1>5 DEF PaidOK, ExpectedPaid, FundHeld
<1>7. pc[s] \in {"rollback", "settleToken"} /\ s \notin Playground => tok[s] >= ses[s].tokenConsumed
  BY <1>1 DEF TokOK, TokHeld, TokenSettled, FieldsOK
<1>8. pc[s] = "refundExtra" => fund[s] = "sub"
  BY <1>1 DEF FieldsOK
<1>9. pc[s] = "reserveUndo" => paid[s] >= Raise(s)
  <2>1. pc[s] = "reserveUndo" => ~Committed(s) /\ ~ses[s].refunded /\ ses[s].pre >= 0
    BY <1>1 DEF FieldsOK, Committing, Committed, Returning
  <2>2. pc[s] = "reserveUndo" /\ fund[s] = "sub" => paid[s] >= FundHeld(s) + Raise(s) /\ FundHeld(s) >= 0
    BY <1>1, <2>1 DEF PaidOK, ExpectedPaid, FundHeld
  <2>3. pc[s] = "reserveUndo" /\ fund[s] = "wallet" => paid[s] >= FundHeld(s) /\ FundHeld(s) >= ses[s].pre + Raise(s)
    BY <1>1, <2>1 DEF PaidOK, ExpectedPaid, FundHeld, FieldsOK, Unreserved
  <2> QED BY <2>1, <2>2, <2>3 DEF FundHeld
<1> QED BY <1>2, <1>3, <1>4, <1>5, <1>6, <1>7, <1>8, <1>9

\* What PreConsume does to the rows.
LEMMA PreConsumeFair ==
    ASSUME TypeOK, IInv, TypeOK', NEW s \in Sessions, Unfunded(s), subUsed >= SubShare(s),
           paid'[s] >= 0, PreConsume(s)
    PROVE  FundFair(s) /\ TokenFair(s)
<1> USE SessionTypes
<1>a. /\ ses \in [Sessions -> Session] /\ pc \in [Sessions -> Locations]
      /\ fund \in [Sessions -> Sources]
  BY DEF TypeOK
<1>1. CASE Start(s)
  <2>1. /\ UNCHANGED <<wallet, subUsed, tokenRemain, paid, tok, ses>> /\ pc[s] = "new"
    BY <1>1 DEF Start, rows
  <2>2. paid[s] = 0
    BY <2>1 DEF Unfunded, Before, Opening
  <2> QED BY <2>1, <2>2, <1>a, QuietFund, QuietToken
<1>2. CASE ReadQuota(s)
  <2>1. UNCHANGED <<wallet, subUsed, tokenRemain, paid, tok>> /\ pc[s] = "readQuota"
    BY <1>2 DEF ReadQuota, rows
  <2>2. paid[s] = 0 /\ ses[s] = Fresh
    BY <2>1, Accounts DEF Unfunded, Before, Opening
  <2>3. ses'[s] = ses[s] \/ \E t : ses'[s] = [Fresh EXCEPT !.trusted = t]
    BY <1>2, <1>a DEF ReadQuota, Update
  <2>4. ses'[s].tokenConsumed = 0 /\ ses[s].tokenConsumed = 0
    <3>1. Fresh.tokenConsumed = 0 /\ \A t : [Fresh EXCEPT !.trusted = t].tokenConsumed = 0
      BY DEF Fresh
    <3> QED BY <2>2, <2>3, <3>1
  <2> QED BY <2>1, <2>2, <2>4, QuietFund, QuietToken
<1>3. CASE ReadQuotaFails(s) \/ TokenPreFails(s) \/ FundPreFails(s)
  <2>1. /\ UNCHANGED <<wallet, subUsed, tokenRemain, paid, tok, ses>>
        /\ pc[s] \in {"readQuota", "tokenPre", "fundPre"}
    BY <1>3 DEF ReadQuotaFails, TokenPreFails, FundPreFails, rows
  <2>2. paid[s] = 0
    BY <2>1 DEF Unfunded, Before, Opening
  <2> QED BY <2>1, <2>2, <1>a, QuietFund, QuietToken
<1>4. CASE TokenPre(s)
  <2>1. /\ UNCHANGED <<wallet, subUsed, paid>> /\ pc[s] = "tokenPre" /\ ChargeToken(s, Hold(s))
    BY <1>4 DEF TokenPre
  <2>2. paid[s] = 0
    BY <2>1 DEF Unfunded, Before, Opening
  <2>3. CASE s \in Playground
    <3>1. UNCHANGED <<tokenRemain, tok>> /\ tok[s] = 0
      BY <2>1, <2>3 DEF ChargeToken, NoTakeToken, Unfunded
    <3> QED BY <2>1, <2>2, <3>1, QuietFund, QuietToken
  <2>4. CASE s \notin Playground
    <3>1. TakeToken(s, Hold(s)) /\ (TokenUnlimited \/ tokenRemain >= Hold(s)) /\ Hold(s) \in Int
      BY <2>1, <2>4 DEF ChargeToken
    <3> QED BY <2>1, <2>2, <2>4, <3>1, QuietFund, TakeTokenFair
  <2> QED BY <2>3, <2>4
<1>5. CASE FundPre(s)
  <2>1. /\ UNCHANGED <<tokenRemain, tok, fund>> /\ pc[s] = "fundPre" /\ Affordable(s, Hold(s))
        /\ Take(s, Hold(s)) /\ Goto(s, "holding")
        /\ Update(s, [ses[s] EXCEPT !.consumed = Hold(s), !.pre = Hold(s)])
    BY <1>5 DEF FundPre, request
  <2>2. pc'[s] \notin Before
    BY <2>1, <1>a DEF Goto, Before, Opening
  <2>3. fund[s] = "wallet" => wallet >= Hold(s)
    BY <2>1 DEF Affordable
  <2>4. FundFair(s)
    BY <2>1, <2>2, <2>3, TakeFund
  <2>5. ses'[s].tokenConsumed = ses[s].tokenConsumed /\ ses[s].tokenConsumed \in Nat
    BY <2>1, <1>a DEF Update, Session
  <2> QED BY <2>1, <2>4, <2>5, QuietToken
<1>6. CASE Rollback(s)
  <2>1. /\ UNCHANGED <<wallet, subUsed, paid>> /\ pc[s] = "rollback" /\ Update(s, Fresh)
        /\ \/ s \notin Playground /\ TakeToken(s, -ses[s].tokenConsumed)
           \/ NoTakeToken
    BY <1>6 DEF Rollback
  <2>2. paid[s] = 0
    BY <2>1 DEF Unfunded, Before, Opening
  <2>3. ses'[s].tokenConsumed = 0 /\ ses[s].tokenConsumed \in Nat
    BY <2>1, <1>a DEF Update, Fresh
  <2>4. FundFair(s)
    BY <2>1, <2>2, QuietFund
  <2>5. CASE NoTakeToken
    <3>1. tokenRemain' = tokenRemain /\ tok'[s] = tok[s] /\ ses'[s].tokenConsumed <= ses[s].tokenConsumed
      BY <2>3, <2>5 DEF NoTakeToken
    <3>2. TokenFair(s)
      BY <3>1, QuietToken
    <3> QED BY <2>4, <3>2
  <2>6. CASE s \notin Playground /\ TakeToken(s, -ses[s].tokenConsumed)
    <3>1. tok'[s] = tok[s] + (-ses[s].tokenConsumed) /\ tok[s] >= ses[s].tokenConsumed
      BY <2>1, <2>3, <2>6, TakeTokenEffect, Accounts
    <3>2. TokenOver(s)' >= TokenOver(s) + (-ses[s].tokenConsumed)
      BY <2>3, <3>1 DEF TokenOver, Excess
    <3> QED BY <2>3, <2>4, <2>6, <3>2, TakeTokenFair
  <2> QED BY <2>1, <2>4, <2>5, <2>6
<1> QED BY <1>1, <1>2, <1>3, <1>4, <1>5, <1>6 DEF PreConsume

\* What Reserve does to them.
LEMMA ReservingFair ==
    ASSUME TypeOK, IInv, TypeOK', NEW s \in Sessions, Unfunded(s), subUsed >= SubShare(s),
           paid'[s] >= 0, Reserving(s)
    PROVE  FundFair(s) /\ TokenFair(s)
<1> USE SessionTypes
<1>a. /\ ses \in [Sessions -> Session] /\ pc \in [Sessions -> Locations]
      /\ fund \in [Sessions -> Sources]
  BY DEF TypeOK
<1>1. CASE ReserveFundFails(s) \/ ReserveTokenFails(s)
  <2>1. /\ UNCHANGED <<wallet, subUsed, tokenRemain, paid, tok, ses, fund>>
        /\ pc'[s] \in {"holding", "reserveUndo"}
    BY <1>1, <1>a DEF ReserveFundFails, ReserveTokenFails, rows, request, Goto
  <2> QED BY <2>1, QuietFund, QuietToken DEF Before, Opening
<1>2. CASE ReserveFund(s)
  <2> DEFINE r == [ses[s] EXCEPT !.consumed = IF fund[s] = "wallet" THEN @ + Raise(s) ELSE @]
  <2>1. /\ UNCHANGED <<tokenRemain, tok, fund>> /\ Affordable(s, Raise(s))
        /\ Take(s, Raise(s)) /\ Goto(s, "reserveToken") /\ Update(s, r)
    BY <1>2 DEF ReserveFund, request
  <2>2. pc'[s] \notin Before
    BY <2>1, <1>a DEF Goto, Before, Opening
  <2>3. FundFair(s)
    BY <2>1, <2>2, TakeFund DEF Affordable
  <2>4. ses'[s].tokenConsumed = ses[s].tokenConsumed
    BY <2>1, <1>a DEF Update, Session
  <2> QED BY <2>1, <2>3, <2>4, QuietToken
<1>3. CASE ReserveToken(s)
  <2> DEFINE r == [ses[s] EXCEPT !.pre = arg[s], !.tokenConsumed = @ + Raise(s), !.extra = @ + Raise(s)]
  <2>1. /\ UNCHANGED <<wallet, subUsed, paid, fund>> /\ ChargeToken(s, Raise(s))
        /\ Goto(s, "holding") /\ Update(s, r)
    BY <1>3 DEF ReserveToken, request
  <2>2. ses'[s].consumed = ses[s].consumed /\ pc'[s] \notin Before
    BY <2>1, <1>a DEF Update, Session, Goto, Before, Opening
  <2>3. FundFair(s)
    BY <2>1, <2>2, QuietFund
  <2>4. CASE s \in Playground
    <3>1. tokenRemain' = tokenRemain /\ tok'[s] = tok[s] /\ tok[s] = 0
      BY <2>1, <2>4 DEF ChargeToken, NoTakeToken, Unfunded
    <3>2. TokenFair(s)
      BY <3>1, QuietToken
    <3> QED BY <2>3, <3>2
  <2>5. CASE s \notin Playground
    <3>1. TakeToken(s, Raise(s)) /\ (TokenUnlimited \/ tokenRemain >= Raise(s)) /\ Raise(s) \in Int
      BY <2>1, <2>5 DEF ChargeToken
    <3>2. TokenFair(s)
      BY <2>5, <3>1, TakeTokenFair
    <3> QED BY <2>3, <3>2
  <2> QED BY <2>4, <2>5
<1>4. CASE ReserveUndo(s)
  <2> DEFINE r == [ses[s] EXCEPT !.consumed = IF fund[s] = "wallet" THEN @ - Raise(s) ELSE @]
  <2>1. /\ UNCHANGED <<tokenRemain, tok, fund>> /\ pc[s] = "reserveUndo" /\ Goto(s, "holding")
        /\ \/ Take(s, -Raise(s)) /\ Update(s, r)
           \/ NoTake /\ UNCHANGED ses
    BY <1>4 DEF ReserveUndo, request
  <2>2. pc'[s] \notin Before
    BY <2>1, <1>a DEF Goto, Before, Opening
  <2>3. CASE NoTake /\ UNCHANGED ses
    BY <2>1, <2>2, <2>3, QuietFund, QuietToken DEF NoTake
  <2>4. CASE Take(s, -Raise(s)) /\ Update(s, r)
    <3>1. /\ ses'[s].consumed = IF fund[s] = "wallet" THEN ses[s].consumed - Raise(s) ELSE ses[s].consumed
          /\ ses'[s].tokenConsumed = ses[s].tokenConsumed
      BY <2>4, <1>a DEF Update, Session
    <3>2. paid'[s] = paid[s] + (-Raise(s))
      BY <2>4, TakeEffect
    <3>3. fund[s] = "wallet" => WalletOver(s)' >= WalletOver(s) + (-Raise(s))
      <4>1. SUFFICES ASSUME fund[s] = "wallet" PROVE WalletOver(s)' >= WalletOver(s) + (-Raise(s))
        OBVIOUS
      <4>2. fund'[s] = "wallet" /\ ses'[s].consumed = ses[s].consumed - Raise(s)
        BY <2>1, <3>1, <4>1
      <4>3. WalletOver(s)' = Excess(paid[s] + (-Raise(s)), ses[s].consumed - Raise(s))
        BY <3>2, <4>2 DEF WalletOver, Excess
      <4>4. WalletOver(s) = Excess(paid[s], ses[s].consumed) /\ Raise(s) > 0
        BY <2>1, <4>1, Accounts DEF WalletOver, Raising
      <4> QED BY <4>3, <4>4 DEF Excess
    <3>4. FundFair(s)
      BY <2>1, <2>2, <2>4, <3>3, TakeFund
    <3> QED BY <2>1, <3>1, <3>4, QuietToken
  <2> QED BY <2>1, <2>3, <2>4
<1> QED BY <1>1, <1>2, <1>3, <1>4 DEF Reserving

\* What Settle does to them: here alone a wallet or a token goes below zero, by what
\* the price exceeds the hold.
LEMMA SettlingFair ==
    ASSUME TypeOK, IInv, TypeOK', NEW s \in Sessions, Unfunded(s), subUsed >= SubShare(s),
           paid'[s] >= 0, Settling(s)
    PROVE  FundFair(s) /\ TokenFair(s)
<1> USE SessionTypes
<1>a. /\ ses \in [Sessions -> Session] /\ pc \in [Sessions -> Locations]
      /\ fund \in [Sessions -> Sources]
  BY DEF TypeOK
<1>1. CASE SettleFundFails(s) \/ GuardRead(s) \/ GuardDisable(s)
  <2>1. /\ UNCHANGED <<wallet, subUsed, tokenRemain, paid, tok, fund>>
        /\ pc'[s] \in {"returned", "guardDisable"}
    BY <1>1, <1>a DEF SettleFundFails, GuardRead, GuardDisable, rows, request, Goto
  <2>2. ses'[s] = ses[s] \/ ses'[s] = [ses[s] EXCEPT !.settled = TRUE]
    BY <1>1, <1>a DEF SettleFundFails, GuardRead, GuardDisable, Update
  <2>3. ses'[s].consumed = ses[s].consumed /\ ses'[s].tokenConsumed = ses[s].tokenConsumed
    BY <2>2, <1>a DEF Session
  <2>4. FundFair(s)
    BY <2>1, <2>3, QuietFund DEF Before, Opening
  <2>5. TokenFair(s)
    BY <2>1, <2>3, QuietToken
  <2> QED BY <2>4, <2>5
<1>2. CASE SettleFund(s)
  <2>1. /\ UNCHANGED <<tokenRemain, tok, fund>> /\ pc[s] = "settleFund" /\ Goto(s, "settleToken")
        /\ Update(s, [ses[s] EXCEPT !.fundingSettled = TRUE])
        /\ IF ses[s].fundingSettled THEN NoTake ELSE Take(s, Delta(s))
    BY <1>2 DEF SettleFund, request
  <2>2. Take(s, Delta(s)) /\ (fund[s] = "wallet" => paid[s] >= ses[s].consumed)
    BY <2>1, Accounts
  <2>3. ses'[s].consumed = ses[s].consumed /\ ses'[s].tokenConsumed = ses[s].tokenConsumed
    BY <2>1, <1>a DEF Update, Session
  <2>4. pc'[s] \notin Before
    BY <2>1, <1>a DEF Goto, Before, Opening
  <2>5. paid'[s] = paid[s] + Delta(s) /\ Delta(s) \in Int
    BY <2>2, TakeEffect
  <2>6. fund[s] = "wallet" => WalletOver(s)' >= WalletOver(s) + Delta(s)
    <3>1. SUFFICES ASSUME fund[s] = "wallet" PROVE WalletOver(s)' >= WalletOver(s) + Delta(s)
      OBVIOUS
    <3>2. WalletOver(s)' = Excess(paid[s] + Delta(s), ses[s].consumed)
      BY <2>1, <2>3, <2>5, <3>1 DEF WalletOver, Excess
    <3>3. WalletOver(s) = Excess(paid[s], ses[s].consumed)
      BY <3>1 DEF WalletOver
    <3> QED BY <2>2, <2>5, <3>1, <3>2, <3>3 DEF Excess
  <2>7. FundFair(s)
    BY <2>1, <2>2, <2>4, <2>5, <2>6, TakeFund
  <2>8. TokenFair(s)
    BY <2>1, <2>3, QuietToken
  <2> QED BY <2>7, <2>8
<1>3. CASE SettleToken(s)
  <2>1. /\ UNCHANGED <<wallet, subUsed, paid, fund>> /\ pc[s] = "settleToken"
        /\ pc'[s] \in {"guardRead", "returned"}
        /\ ses'[s] = ses[s] \/ ses'[s] = [ses[s] EXCEPT !.settled = TRUE]
        /\ \/ NoTakeToken
           \/ s \notin Playground /\ TakeToken(s, Delta(s))
    BY <1>3, <1>a DEF SettleToken, request, Goto, Update
  <2>2. ses'[s].consumed = ses[s].consumed /\ ses'[s].tokenConsumed = ses[s].tokenConsumed
    BY <2>1, <1>a DEF Session
  <2>3. FundFair(s)
    BY <2>1, <2>2, QuietFund DEF Before, Opening
  <2>4. CASE NoTakeToken
    <3>1. TokenFair(s)
      BY <2>2, <2>4, QuietToken DEF NoTakeToken
    <3> QED BY <2>3, <3>1
  <2>5. CASE s \notin Playground /\ TakeToken(s, Delta(s))
    <3>1. tok'[s] = tok[s] + Delta(s) /\ tok[s] >= ses[s].tokenConsumed /\ Delta(s) \in Int
      BY <2>1, <2>5, TakeTokenEffect, Accounts
    <3>2. TokenOver(s)' = Excess(tok[s] + Delta(s), ses[s].tokenConsumed)
      BY <2>2, <3>1 DEF TokenOver, Excess
    <3>3. TokenOver(s)' >= TokenOver(s) + Delta(s)
      BY <3>1, <3>2 DEF TokenOver, Excess
    <3>4. TokenFair(s)
      BY <2>5, <3>1, <3>3, TakeTokenFair
    <3> QED BY <2>3, <3>4
  <2> QED BY <2>1, <2>4, <2>5
<1> QED BY <1>1, <1>2, <1>3 DEF Settling

\* What Refund and the handler do to them.
LEMMA EndingFair ==
    ASSUME TypeOK, IInv, TypeOK', NEW s \in Sessions, Unfunded(s), subUsed >= SubShare(s),
           paid'[s] >= 0, Refunding(s) \/ Handler(s)
    PROVE  FundFair(s) /\ TokenFair(s)
<1> USE SessionTypes
<1>a. /\ ses \in [Sessions -> Session] /\ pc \in [Sessions -> Locations]
      /\ fund \in [Sessions -> Sources]
  BY DEF TypeOK
<1>1. CASE Handler(s)
  <2>1. /\ UNCHANGED <<wallet, subUsed, tokenRemain, paid, tok, fund>>
        /\ pc'[s] \notin Before
    BY <1>1, <1>a DEF Handler, Reserve, Settle, Succeed, Fail, rows, request, Goto, Before, Opening
  <2>2. \/ ses'[s] = ses[s] \/ ses'[s] = [ses[s] EXCEPT !.settled = TRUE]
        \/ ses'[s] = [ses[s] EXCEPT !.refunded = TRUE]
    BY <1>1, <1>a DEF Handler, Reserve, Settle, Succeed, Fail, Update
  <2>3. ses'[s].consumed = ses[s].consumed /\ ses'[s].tokenConsumed = ses[s].tokenConsumed
    BY <2>2, <1>a DEF Session
  <2>4. FundFair(s)
    BY <2>1, <2>3, QuietFund
  <2>5. TokenFair(s)
    BY <2>1, <2>3, QuietToken
  <2> QED BY <2>4, <2>5
<1>2. CASE RefundWallet(s) \/ RefundSub(s) \/ RefundExtra(s)
  <2>1. /\ UNCHANGED <<tokenRemain, tok, ses, fund>>
        /\ pc[s] \in Returning /\ pc'[s] \in Returning
    BY <1>2, <1>a DEF RefundWallet, RefundSub, RefundExtra, Returning, request, Goto, AfterRefundFund
  <2>2. TokenFair(s)
    BY <2>1, QuietToken
  <2>3. pc'[s] \notin Before
    BY <2>1 DEF Returning, Before, Opening
  <2>4. \/ NoTake
        \/ Take(s, -ses[s].consumed)
        \/ fund[s] = "sub" /\ Take(s, -ses[s].extra)
    BY <1>2, Accounts DEF RefundWallet, RefundSub, RefundRecord, RefundExtra
  <2>5. CASE NoTake
    BY <2>1, <2>2, <2>3, <2>5, QuietFund DEF NoTake
  <2>6. CASE Take(s, -ses[s].consumed)
    <3>1. paid'[s] = paid[s] + (-ses[s].consumed)
      BY <2>6, TakeEffect
    <3>2. fund[s] = "wallet" => WalletOver(s)' >= WalletOver(s) + (-ses[s].consumed)
      <4>1. SUFFICES ASSUME fund[s] = "wallet" PROVE WalletOver(s)' >= WalletOver(s) + (-ses[s].consumed)
        OBVIOUS
      <4>2. WalletOver(s)' = Excess(paid[s] + (-ses[s].consumed), ses[s].consumed)
        BY <2>1, <3>1, <4>1 DEF WalletOver, Excess
      <4>3. WalletOver(s) = Excess(paid[s], ses[s].consumed)
        BY <4>1 DEF WalletOver
      <4> QED BY <3>1, <4>1, <4>2, <4>3 DEF Excess
    <3>3. FundFair(s)
      BY <2>1, <2>3, <2>6, <3>2, TakeFund
    <3> QED BY <2>2, <3>3
  <2>7. CASE fund[s] = "sub" /\ Take(s, -ses[s].extra)
    <3>1. FundFair(s)
      BY <2>1, <2>3, <2>7, TakeFund
    <3> QED BY <2>2, <3>1
  <2> QED BY <2>4, <2>5, <2>6, <2>7
<1>3. CASE RefundToken(s)
  <2>1. /\ UNCHANGED <<wallet, subUsed, paid, fund, ses>> /\ pc'[s] = "failed"
        /\ \/ NoTakeToken
           \/ s \notin Playground /\ TakeToken(s, -ses[s].tokenConsumed)
    BY <1>3, <1>a DEF RefundToken, request, Goto
  <2>2. FundFair(s)
    BY <2>1, QuietFund DEF Before, Opening
  <2>3. CASE NoTakeToken
    <3>1. TokenFair(s)
      BY <2>1, <2>3, QuietToken DEF NoTakeToken
    <3> QED BY <2>2, <3>1
  <2>4. CASE s \notin Playground /\ TakeToken(s, -ses[s].tokenConsumed)
    <3>1. tok'[s] = tok[s] + (-ses[s].tokenConsumed)
      BY <2>4, TakeTokenEffect
    <3>2. TokenOver(s)' = Excess(tok[s] + (-ses[s].tokenConsumed), ses[s].tokenConsumed)
      BY <2>1, <3>1 DEF TokenOver
    <3>3. TokenOver(s)' >= TokenOver(s) + (-ses[s].tokenConsumed)
      BY <3>1, <3>2 DEF TokenOver, Excess
    <3>4. TokenFair(s)
      BY <2>4, <3>3, TakeTokenFair
    <3> QED BY <2>2, <3>4
  <2> QED BY <2>1, <2>3, <2>4
<1> QED BY <1>1, <1>2, <1>3 DEF Refunding

LEMMA StepFair ==
    ASSUME TypeOK, IInv, TypeOK', IInv', NEW s \in Sessions, Unfunded(s), subUsed >= SubShare(s), Step(s)
    PROVE  FundFair(s) /\ TokenFair(s)
<1>1. paid'[s] >= 0
  <2>1. NoFreeQuota'
    BY PaidNonNegative, PTL
  <2> QED BY <2>1 DEF NoFreeQuota
<1> QED BY <1>1, PreConsumeFair, ReservingFair, SettlingFair, EndingFair DEF Step

\* The rows balance with the accounts of all requests together.
SubShares == [s \in Sessions |-> SubShare(s)]
WalletOvers == [s \in Sessions |-> WalletOver(s)]
TokenOvers == [s \in Sessions |-> TokenOver(s)]

Balanced ==
    /\ \A s \in Sessions : Unfunded(s)
    /\ subUsed = Total(SubShares, Sessions)
    /\ SubTotal > 0 => subUsed <= SubTotal
    /\ wallet + Total(WalletOvers, Sessions) >= 0
    /\ TokenUnlimited \/ tokenRemain + Total(TokenOvers, Sessions) >= 0

\* The terms of the three sums.
Termwise ==
    \A s \in Sessions :
        /\ SubShares[s] = SubShare(s) /\ SubShare(s) \in Nat
        /\ WalletOvers[s] = WalletOver(s) /\ WalletOver(s) \in Nat
        /\ TokenOvers[s] = TokenOver(s) /\ TokenOver(s) \in Nat

LEMMA Terms == TypeOK /\ IInv => Termwise
<1> SUFFICES ASSUME TypeOK, IInv PROVE Termwise
  OBVIOUS
<1> SUFFICES ASSUME NEW s \in Sessions
             PROVE  /\ SubShares[s] = SubShare(s) /\ SubShare(s) \in Nat
                    /\ WalletOvers[s] = WalletOver(s) /\ WalletOver(s) \in Nat
                    /\ TokenOvers[s] = TokenOver(s) /\ TokenOver(s) \in Nat
  BY DEF Termwise
<1>1. paid[s] >= 0 /\ tok[s] >= 0
  BY Accounts
<1> QED BY <1>1, SessionTypes
        DEF SubShares, SubShare, WalletOvers, WalletOver, TokenOvers, TokenOver, Excess

LEMMA InitBalanced == ASSUME Init, IsFiniteSet(Sessions) PROVE Balanced
<1>1. TypeOK /\ IInv
  BY InitInv
<1>2. \A s \in Sessions : Unfunded(s) /\ SubShares[s] = 0
  BY DEF Init, Unfunded, SubShares, SubShare
<1>3. /\ Total(WalletOvers, Sessions) \in Nat /\ Total(TokenOvers, Sessions) \in Nat
  BY <1>1, Terms, TotalBound DEF Termwise
<1>4. Total(SubShares, Sessions) = 0
  <2> DEFINE zero == [s \in Sessions |-> 0]
  <2>1. \A x \in Sessions : SubShares[x] \in Int /\ zero[x] = IF x \in {} THEN SubShares[x] ELSE 0
    BY <1>2
  <2>2. Total(SubShares, Sessions \cap {}) = Total(zero, Sessions)
    BY <2>1, TotalSome
  <2>3. Total(zero, Sessions) = Total(SubShares, Sessions)
    BY <1>2, TotalSame
  <2>4. Sessions \cap {} = {} /\ IsFiniteSet({})
    BY FS_EmptySet
  <2>5. Total(SubShares, {}) = 0
    BY <2>4, TotalStep
  <2> QED BY <2>2, <2>3, <2>4, <2>5
<1>5. wallet = InitialWallet /\ tokenRemain = InitialToken /\ subUsed = 0
  BY DEF Init
<1> QED BY <1>2, <1>3, <1>4, <1>5 DEF Balanced

\* What one request changes in the sums.
LEMMA SumsMove ==
    ASSUME TypeOK, IInv, TypeOK', IInv', IsFiniteSet(Sessions), NEW s \in Sessions,
           \A t \in Sessions : t # s =>
               pc'[t] = pc[t] /\ ses'[t] = ses[t] /\ fund'[t] = fund[t] /\ paid'[t] = paid[t] /\ tok'[t] = tok[t]
    PROVE  /\ Total(SubShares, Sessions)' = Total(SubShares, Sessions) + (SubShare(s)' - SubShare(s))
           /\ Total(WalletOvers, Sessions)' = Total(WalletOvers, Sessions) + (WalletOver(s)' - WalletOver(s))
           /\ Total(TokenOvers, Sessions)' = Total(TokenOvers, Sessions) + (TokenOver(s)' - TokenOver(s))
<1>1. \A t \in Sessions :
        /\ SubShares[t] = SubShare(t) /\ SubShare(t) \in Nat
        /\ WalletOvers[t] = WalletOver(t) /\ WalletOver(t) \in Nat
        /\ TokenOvers[t] = TokenOver(t) /\ TokenOver(t) \in Nat
  BY Terms DEF Termwise
<1>2. \A t \in Sessions :
        /\ SubShares'[t] = SubShare(t)' /\ SubShare(t)' \in Nat
        /\ WalletOvers'[t] = WalletOver(t)' /\ WalletOver(t)' \in Nat
        /\ TokenOvers'[t] = TokenOver(t)' /\ TokenOver(t)' \in Nat
  <2>1. Termwise'
    BY Terms, PTL
  <2> QED BY <2>1 DEF Termwise
<1>3. \A t \in Sessions : t # s =>
        /\ SubShare(t)' = SubShare(t) /\ WalletOver(t)' = WalletOver(t) /\ TokenOver(t)' = TokenOver(t)
  BY DEF SubShare, WalletOver, TokenOver
<1>4. /\ \A t \in Sessions : SubShares[t] \in Int /\ SubShares'[t] \in Int
      /\ \A t \in Sessions : t # s => SubShares[t] = SubShares'[t]
  BY <1>1, <1>2, <1>3
<1>5. /\ \A t \in Sessions : WalletOvers[t] \in Int /\ WalletOvers'[t] \in Int
      /\ \A t \in Sessions : t # s => WalletOvers[t] = WalletOvers'[t]
  BY <1>1, <1>2, <1>3
<1>6. /\ \A t \in Sessions : TokenOvers[t] \in Int /\ TokenOvers'[t] \in Int
      /\ \A t \in Sessions : t # s => TokenOvers[t] = TokenOvers'[t]
  BY <1>1, <1>2, <1>3
<1>7. Total(SubShares', Sessions) = Total(SubShares, Sessions) + (SubShares'[s] - SubShares[s])
  BY <1>4, TotalChange, SMTT(30)
<1>8. Total(WalletOvers', Sessions) = Total(WalletOvers, Sessions) + (WalletOvers'[s] - WalletOvers[s])
  BY <1>5, TotalChange, SMTT(30)
<1>9. Total(TokenOvers', Sessions) = Total(TokenOvers, Sessions) + (TokenOvers'[s] - TokenOvers[s])
  BY <1>6, TotalChange, SMTT(30)
<1> QED BY <1>1, <1>2, <1>7, <1>8, <1>9

LEMMA StepBalanced ==
    ASSUME TypeOK, IInv, TypeOK', IInv', IsFiniteSet(Sessions), Balanced, NEW s \in Sessions, Step(s)
    PROVE  Balanced'
<1>1. Others(s)
  BY StepLocal
<1>2. /\ Total(SubShares, Sessions)' = Total(SubShares, Sessions) + (SubShare(s)' - SubShare(s))
      /\ Total(WalletOvers, Sessions)' = Total(WalletOvers, Sessions) + (WalletOver(s)' - WalletOver(s))
      /\ Total(TokenOvers, Sessions)' = Total(TokenOvers, Sessions) + (TokenOver(s)' - TokenOver(s))
  BY <1>1, SumsMove DEF Others
<1>3. /\ Total(SubShares, Sessions) \in Nat /\ Total(WalletOvers, Sessions) \in Nat
      /\ Total(TokenOvers, Sessions) \in Nat /\ SubShare(s) <= Total(SubShares, Sessions)
      /\ SubShare(s) \in Nat /\ WalletOver(s) \in Nat /\ TokenOver(s) \in Nat
  BY Terms, TotalBound DEF Termwise
<1>4. /\ Total(WalletOvers', Sessions) \in Nat /\ Total(TokenOvers', Sessions) \in Nat
      /\ SubShare(s)' \in Nat /\ WalletOver(s)' \in Nat /\ TokenOver(s)' \in Nat
  <2>1. Termwise'
    BY Terms, PTL
  <2> QED BY <2>1, TotalBound DEF Termwise
<1>5. subUsed >= SubShare(s) /\ Unfunded(s)
  BY <1>3 DEF Balanced
<1>6. FundFair(s) /\ TokenFair(s)
  BY <1>5, StepFair
<1>7. /\ wallet \in Int /\ wallet' \in Int /\ subUsed \in Nat /\ subUsed' \in Nat
      /\ tokenRemain \in Int /\ tokenRemain' \in Int /\ SubTotal \in Nat
  BY DEF TypeOK
<1>8. \A t \in Sessions : Unfunded(t)'
  BY <1>1, <1>6 DEF Others, Balanced, Unfunded, FundFair, TokenFair
<1>9. subUsed' = Total(SubShares, Sessions)' /\ (SubTotal > 0 => subUsed' <= SubTotal)
  BY <1>2, <1>3, <1>4, <1>6, <1>7 DEF Balanced, FundFair
<1>10. wallet' + Total(WalletOvers, Sessions)' >= 0
  <2>1. wallet + Total(WalletOvers, Sessions) >= 0
    BY DEF Balanced
  <2>2. wallet' >= 0 \/ wallet' + WalletOver(s)' >= wallet + WalletOver(s)
    BY <1>6 DEF FundFair
  <2> QED BY <2>1, <2>2, <1>2, <1>3, <1>4, <1>7
<1>11. TokenUnlimited \/ tokenRemain' + Total(TokenOvers, Sessions)' >= 0
  <2>1. TokenUnlimited \/ tokenRemain + Total(TokenOvers, Sessions) >= 0
    BY DEF Balanced
  <2>2. TokenUnlimited \/ tokenRemain' >= 0 \/ tokenRemain' + TokenOver(s)' >= tokenRemain + TokenOver(s)
    BY <1>6 DEF TokenFair
  <2> QED BY <2>1, <2>2, <1>2, <1>3, <1>4, <1>7
<1> QED BY <1>8, <1>9, <1>10, <1>11 DEF Balanced

LEMMA NextBalanced ==
    ASSUME TypeOK, IInv, TypeOK', IInv', IsFiniteSet(Sessions), Balanced, [Next]_vars
    PROVE  Balanced'
<1>1. CASE \E s \in Sessions : Step(s)
  BY <1>1, StepBalanced
<1>2. ASSUME UNCHANGED <<subUsed, tokenRemain, request, ses, paid, tok>>, wallet' >= wallet,
             \A s \in Sessions : pc'[s] \in Before => pc'[s] = pc[s]
      PROVE  Balanced'
  <2>1. SubShares' = SubShares /\ WalletOvers' = WalletOvers /\ TokenOvers' = TokenOvers
    BY <1>2 DEF SubShares, SubShare, WalletOvers, WalletOver, TokenOvers, TokenOver, request
  <2>2. \A s \in Sessions : Unfunded(s)'
    BY <1>2 DEF Balanced, Unfunded
  <2>3. Total(WalletOvers, Sessions) \in Int
    BY Terms, TotalBound DEF Termwise
  <2>4. wallet \in Int /\ wallet' \in Int
    BY DEF TypeOK
  <2>5. wallet' + Total(WalletOvers, Sessions)' >= 0
    BY <1>2, <2>1, <2>3, <2>4 DEF Balanced
  <2>6. /\ subUsed' = Total(SubShares, Sessions)'
        /\ SubTotal > 0 => subUsed' <= SubTotal
        /\ TokenUnlimited \/ tokenRemain' + Total(TokenOvers, Sessions)' >= 0
    BY <1>2, <2>1 DEF Balanced
  <2> QED BY <2>2, <2>5, <2>6 DEF Balanced
<1>3. CASE TopUp
  <2>1. wallet' >= wallet
    BY <1>3 DEF TopUp, TypeOK
  <2> QED BY <1>2, <1>3, <2>1 DEF TopUp
<1>4. CASE Crash
  <2>1. \A s \in Sessions : pc'[s] \in Before => pc'[s] = pc[s]
    BY <1>4 DEF Crash, Before, Opening, TypeOK
  <2>2. wallet' >= wallet
    BY <1>4 DEF Crash, rows, TypeOK
  <2> QED BY <1>2, <1>4, <2>1, <2>2 DEF Crash, rows
<1>5. CASE UNCHANGED vars
  <2>1. wallet' >= wallet
    BY <1>5 DEF vars, rows, TypeOK
  <2> QED BY <1>2, <1>5, <2>1 DEF vars, rows
<1> QED BY <1>1, <1>3, <1>4, <1>5 DEF Next

\* The sums of the properties, term by term.
LEMMA PaidSum ==
    ASSUME NEW S, IsFiniteSet(S), NEW F, \A x \in S : F[x] = paid[x]
    PROVE  MapThenSumSet(LAMBDA s : paid[s], S) = Total(F, S)
<1>1. MapThenSumSet(LAMBDA s : paid[s], S) = Total(paid, S)
  BY DEF Total
<1>2. Total(paid, S) = Total(F, S)
  BY TotalSame
<1> QED BY <1>1, <1>2

LEMMA WalletSum ==
    ASSUME NEW S, IsFiniteSet(S), NEW F, \A x \in S : F[x] = Excess(paid[x], ses[x].consumed)
    PROVE  MapThenSumSet(LAMBDA s : Excess(paid[s], ses[s].consumed), S) = Total(F, S)
<1> DEFINE AddsUp(g) == g = [T \in SUBSET S |->
                 IF T = {} THEN 0
                 ELSE LET x == CHOOSE x \in T : TRUE IN Excess(paid[x], ses[x].consumed) + g[T \ {x}]]
           h == CHOOSE g : AddsUp(g)
<1>1. PICK k : Adds(k, F, S)
  BY AddsExists
<1>2. \A T \in SUBSET S : T # {} =>
        LET x == CHOOSE x \in T : TRUE IN F[x] = Excess(paid[x], ses[x].consumed)
  OBVIOUS
<1>3. AddsUp(k)
  BY <1>1, <1>2 DEF Adds
<1>4. AddsUp(h)
  <2> HIDE DEF AddsUp
  <2> QED BY <1>3
<1>5. MapThenSumSet(LAMBDA s : Excess(paid[s], ses[s].consumed), S) = h[S]
  BY DEF MapThenSumSet, MapThenFoldSet
<1> HIDE DEF h
<1>6. Adds(h, F, S)
  BY <1>4, <1>2 DEF Adds
<1>7. PICK g : Adds(g, F, S) /\ Total(F, S) = g[S]
  BY TotalDef
<1>8. g[S] = h[S]
  BY <1>6, <1>7, AddsAgree
<1> QED BY <1>5, <1>7, <1>8

LEMMA TokenSum ==
    ASSUME NEW S, IsFiniteSet(S), NEW F, \A x \in S : F[x] = Excess(tok[x], ses[x].tokenConsumed)
    PROVE  MapThenSumSet(LAMBDA s : Excess(tok[s], ses[s].tokenConsumed), S) = Total(F, S)
<1> DEFINE AddsUp(g) == g = [T \in SUBSET S |->
                 IF T = {} THEN 0
                 ELSE LET x == CHOOSE x \in T : TRUE IN Excess(tok[x], ses[x].tokenConsumed) + g[T \ {x}]]
           h == CHOOSE g : AddsUp(g)
<1>1. PICK k : Adds(k, F, S)
  BY AddsExists
<1>2. \A T \in SUBSET S : T # {} =>
        LET x == CHOOSE x \in T : TRUE IN F[x] = Excess(tok[x], ses[x].tokenConsumed)
  OBVIOUS
<1>3. AddsUp(k)
  BY <1>1, <1>2 DEF Adds
<1>4. AddsUp(h)
  <2> HIDE DEF AddsUp
  <2> QED BY <1>3
<1>5. MapThenSumSet(LAMBDA s : Excess(tok[s], ses[s].tokenConsumed), S) = h[S]
  BY DEF MapThenSumSet, MapThenFoldSet
<1> HIDE DEF h
<1>6. Adds(h, F, S)
  BY <1>4, <1>2 DEF Adds
<1>7. PICK g : Adds(g, F, S) /\ Total(F, S) = g[S]
  BY TotalDef
<1>8. g[S] = h[S]
  BY <1>6, <1>7, AddsAgree
<1> QED BY <1>5, <1>7, <1>8

\* What the sums of the rows say of them at any time.
LEMMA Sums == TypeOK /\ IInv /\ IsFiniteSet(Sessions) /\ Balanced => SubscriptionBalances /\ OverdraftOnlyBySettlement
<1> SUFFICES ASSUME TypeOK, IInv, IsFiniteSet(Sessions), Balanced
             PROVE  SubscriptionBalances /\ OverdraftOnlyBySettlement
  OBVIOUS
<1>1. /\ \A s \in Sessions : paid[s] \in Int /\ fund[s] \in Sources
      /\ \A s \in Sessions : /\ SubShares[s] = SubShare(s) /\ SubShare(s) \in Nat
                             /\ WalletOvers[s] = WalletOver(s) /\ WalletOver(s) \in Nat
                             /\ TokenOvers[s] = TokenOver(s)
  BY Terms DEF TypeOK, Termwise
<1>2. SubscriptionBalances
  <2>1. PICK A : A = {s \in Sessions : fund[s] = "sub"}
    OBVIOUS
  <2>2. IsFiniteSet(A) /\ Sessions \cap A = A
    BY <2>1, FS_Subset
  <2>3. \A x \in Sessions : SubShares[x] \in Int /\ SubShares[x] = IF x \in A THEN SubShares[x] ELSE 0
    BY <1>1, <2>1 DEF SubShare
  <2>4. Total(SubShares, Sessions \cap A) = Total(SubShares, Sessions)
    BY <2>3, TotalSome
  <2>5. \A x \in A : SubShares[x] = paid[x]
    BY <1>1, <2>1 DEF SubShare
  <2>6. MapThenSumSet(LAMBDA s : paid[s], A) = Total(SubShares, A)
    BY <2>2, <2>5, PaidSum
  <2> QED BY <2>1, <2>2, <2>4, <2>6 DEF SubscriptionBalances, Balanced
<1>3. wallet + MapThenSumSet(LAMBDA s : Excess(paid[s], ses[s].consumed), {s \in Sessions : fund[s] = "wallet"}) >= 0
  <2>1. PICK A : A = {s \in Sessions : fund[s] = "wallet"}
    OBVIOUS
  <2>2. IsFiniteSet(A) /\ Sessions \cap A = A
    BY <2>1, FS_Subset
  <2>3. \A x \in Sessions : WalletOvers[x] \in Int /\ WalletOvers[x] = IF x \in A THEN WalletOvers[x] ELSE 0
    BY <1>1, <2>1 DEF WalletOver
  <2>4. Total(WalletOvers, Sessions \cap A) = Total(WalletOvers, Sessions)
    BY <2>3, TotalSome
  <2>5. \A x \in A : WalletOvers[x] = Excess(paid[x], ses[x].consumed)
    BY <1>1, <2>1 DEF WalletOver
  <2>6. MapThenSumSet(LAMBDA s : Excess(paid[s], ses[s].consumed), A) = Total(WalletOvers, A)
    BY <2>2, <2>5, WalletSum
  <2> QED BY <2>1, <2>2, <2>4, <2>6 DEF Balanced
<1>4. TokenUnlimited \/
      tokenRemain + MapThenSumSet(LAMBDA s : Excess(tok[s], ses[s].tokenConsumed), Sessions) >= 0
  <2>1. \A x \in Sessions : TokenOvers[x] = Excess(tok[x], ses[x].tokenConsumed)
    BY <1>1 DEF TokenOver
  <2>2. MapThenSumSet(LAMBDA s : Excess(tok[s], ses[s].tokenConsumed), Sessions) = Total(TokenOvers, Sessions)
    BY <2>1, TokenSum
  <2> QED BY <2>2 DEF Balanced
<1> QED BY <1>2, <1>3, <1>4 DEF OverdraftOnlyBySettlement

\* Between any finite number of requests the rows never lose or gain quota: the
\* invariant that says so reads all of them at once, where IInv reads one.
LEMMA AlwaysBalanced == ASSUME IsFiniteSet(Sessions) PROVE Spec => [](TypeOK /\ IInv /\ Balanced)
<1>1. Init => TypeOK /\ IInv /\ Balanced
  BY InitInv, InitBalanced
<1>2. (TypeOK /\ IInv /\ Balanced) /\ [Next]_vars => (TypeOK /\ IInv /\ Balanced)'
  BY NextInv, NextBalanced
<1> QED BY <1>1, <1>2, PTL DEF Spec

\* The usage of the subscription is the sum of what its requests have taken, so
\* the clamp at zero of postConsumeUserSubscriptionDelta never swallows a refund,
\* and it stays within the total of the plan.
THEOREM SubscriptionIsBalanced == ASSUME IsFiniteSet(Sessions) PROVE Spec => []SubscriptionBalances
<1>1. TypeOK /\ IInv /\ Balanced => SubscriptionBalances
  BY Sums
<1> QED BY <1>1, AlwaysBalanced, PTL

\* However the balance checks and the guarded decrements of the requests
\* interleave, the holds alone never take the wallet or a limited token below
\* zero: only what a settlement charges above its hold can.
THEOREM OverdraftIsSettlement == ASSUME IsFiniteSet(Sessions) PROVE Spec => []OverdraftOnlyBySettlement
<1>1. TypeOK /\ IInv /\ Balanced => OverdraftOnlyBySettlement
  BY Sums
<1> QED BY <1>1, AlwaysBalanced, PTL

-----------------------------------------------------------------------------
(* The overspend guard. *)

\* A settlement above the hold is on its way to the guard, an error or a crash
\* kept it from it, or the guard does not apply to it.
Guarding(s) ==
    \/ pc[s] \in Committing /\ fund[s] = "wallet" /\ Delta(s) > 0
    \/ s \in harmed
    \/ s \in Playground /\ ses[s].settled /\ paid[s] > ses[s].consumed

\* OverspendStopsTokens says less of a request before the guard: that it is there.
Guarded == wallet < -Tolerance => ~tokenEnabled \/ \E s \in Sessions : Guarding(s)

\* Only a settlement that will reach the guard takes the wallet below zero.
LEMMA OverspendGuards ==
    ASSUME TypeOK, IInv, TypeOK', NEW s \in Sessions, Step(s)
    PROVE  wallet' >= wallet \/ wallet' >= 0 \/ Guarding(s)'
<1> USE SessionTypes
<1>a. /\ ses \in [Sessions -> Session] /\ pc \in [Sessions -> Locations]
      /\ fund \in [Sessions -> Sources] /\ wallet \in Int
  BY DEF TypeOK
<1>1. CASE UNCHANGED wallet
  BY <1>1, <1>a
<1>2. ASSUME NEW n \in Int, Take(s, n), n <= 0 \/ (fund[s] = "wallet" => wallet >= n)
      PROVE  wallet' >= wallet \/ wallet' >= 0
  BY <1>2, <1>a DEF Take
<1>3. CASE FundPre(s)
  BY <1>2, <1>3 DEF FundPre, Affordable
<1>4. CASE ReserveFund(s)
  BY <1>2, <1>4 DEF ReserveFund, Affordable
<1>5. CASE ReserveUndo(s)
  <2>1. Raise(s) > 0
    BY <1>5, Accounts DEF ReserveUndo, Raising
  <2>2. Take(s, -Raise(s)) \/ wallet' = wallet
    BY <1>5 DEF ReserveUndo, NoTake
  <2> QED BY <2>1, <2>2, <1>2, <1>a
<1>6. CASE RefundWallet(s) \/ RefundSub(s) \/ RefundExtra(s)
  <2>1. Take(s, -ses[s].consumed) \/ Take(s, -ses[s].extra) \/ wallet' = wallet
    BY <1>6 DEF RefundWallet, RefundSub, RefundRecord, RefundExtra, NoTake
  <2> QED BY <2>1, <1>2, <1>a
<1>7. CASE SettleFund(s)
  <2>1. /\ pc'[s] = "settleToken" /\ fund'[s] = fund[s] /\ arg'[s] = arg[s]
        /\ ses'[s] = [ses[s] EXCEPT !.fundingSettled = TRUE]
        /\ Take(s, Delta(s)) \/ wallet' = wallet
    BY <1>7, <1>a DEF SettleFund, request, Goto, Update, NoTake
  <2>2. Delta(s)' = Delta(s)
    BY <2>1 DEF Delta, Session
  <2>3. CASE fund[s] = "wallet" /\ Delta(s) > 0
    <3>1. Delta(s)' > 0
      BY <2>2, <2>3
    <3> QED BY <2>1, <2>3, <3>1 DEF Guarding, Committing
  <2>4. CASE Delta(s) <= 0
    BY <2>1, <2>4, <1>2, <1>a
  <2>5. CASE fund[s] = "sub"
    BY <2>1, <2>5, <1>a DEF Take
  <2> QED BY <2>3, <2>4, <2>5
<1>8. CASE ~(FundPre(s) \/ ReserveFund(s) \/ ReserveUndo(s) \/ RefundWallet(s) \/ RefundSub(s)
             \/ RefundExtra(s) \/ SettleFund(s))
  <2>1. CASE PreConsume(s)
    BY <2>1, <1>8, <1>1 DEF PreConsume, Start, ReadQuota, ReadQuotaFails, TokenPre, TokenPreFails,
       FundPreFails, Rollback, rows
  <2>2. CASE Reserving(s)
    BY <2>2, <1>8, <1>1 DEF Reserving, ReserveFundFails, ReserveToken, ReserveTokenFails, rows
  <2>3. CASE Settling(s)
    BY <2>3, <1>8, <1>1 DEF Settling, SettleFundFails, SettleToken, GuardRead, GuardDisable, rows
  <2>4. CASE Refunding(s) \/ Handler(s)
    BY <2>4, <1>8, <1>1 DEF Refunding, RefundToken, Handler, Reserve, Settle, Succeed, Fail, rows
  <2> QED BY <2>1, <2>2, <2>3, <2>4 DEF Step
<1> QED BY <1>3, <1>4, <1>5, <1>6, <1>7, <1>8

\* A step never forgets an error, nor enables the tokens again.
LEMMA ErrorsStand ==
    ASSUME NEW s \in Sessions, Step(s)
    PROVE  /\ harmed' = harmed \/ Harm(s)
           /\ tokenEnabled' = tokenEnabled \/ tokenEnabled' = FALSE
<1>1. CASE Start(s) \/ ReadQuota(s) \/ ReadQuotaFails(s)
  BY <1>1, Zenon DEF Start, ReadQuota, ReadQuotaFails, rows
<1>2. CASE TokenPre(s) \/ TokenPreFails(s) \/ FundPre(s) \/ FundPreFails(s)
  BY <1>2, Zenon DEF TokenPre, TokenPreFails, FundPre, FundPreFails, rows
<1>3. CASE Rollback(s)
  BY <1>3, Zenon DEF Rollback
<1>4. CASE Reserving(s)
  BY <1>4, Zenon DEF Reserving, ReserveFund, ReserveFundFails, ReserveToken, ReserveTokenFails,
     ReserveUndo, rows
<1>5. CASE Settling(s)
  BY <1>5, Zenon DEF Settling, SettleFund, SettleFundFails, SettleToken, GuardRead, GuardDisable, rows
<1>6. CASE Refunding(s)
  BY <1>6, Zenon DEF Refunding, RefundWallet, RefundSub, RefundExtra, RefundToken
<1>7. CASE Handler(s)
  BY <1>7, Zenon DEF Handler, Reserve, Settle, Succeed, Fail, rows
<1> QED BY <1>1, <1>2, <1>3, <1>4, <1>5, <1>6, <1>7 DEF Step, PreConsume

\* The request stays on its way to the guard until the guard has stopped the
\* tokens or found the wallet within the tolerance.
LEMMA GuardComes ==
    ASSUME TypeOK, IInv, TypeOK', NEW s \in Sessions, Step(s), Guarding(s)
    PROVE  Guarding(s)' \/ tokenEnabled' = FALSE \/ wallet' >= -Tolerance
<1> USE SessionTypes
<1>a. /\ ses \in [Sessions -> Session] /\ pc \in [Sessions -> Locations]
      /\ fund \in [Sessions -> Sources] /\ wallet \in Int
  BY DEF TypeOK
<1>1. CASE s \in harmed
  BY <1>1, ErrorsStand DEF Guarding, Harm
<1>2. CASE s \in Playground /\ ses[s].settled /\ paid[s] > ses[s].consumed
  BY <1>2, SettledStays DEF Guarding
<1>3. CASE pc[s] \in Committing /\ fund[s] = "wallet" /\ Delta(s) > 0
  <2>1. SettleToken(s) \/ GuardRead(s) \/ GuardDisable(s)
    <3>1. ~PreConsume(s)
      BY <1>3, Zenon DEF Committing, PreConsume, Start, ReadQuota, ReadQuotaFails, TokenPre, TokenPreFails,
         FundPre, FundPreFails, Rollback
    <3>2. ~Reserving(s) /\ ~Refunding(s) /\ ~Handler(s)
      BY <1>3 DEF Committing, Reserving, ReserveFund, ReserveFundFails, ReserveToken, ReserveTokenFails,
         ReserveUndo, Refunding, RefundWallet, RefundSub, RefundExtra, RefundToken,
         Handler, Reserve, Settle, Succeed, Fail
    <3>3. ~SettleFund(s) /\ ~SettleFundFails(s)
      BY <1>3 DEF Committing, SettleFund, SettleFundFails
    <3> QED BY <3>1, <3>2, <3>3 DEF Step, Settling
  <2>2. CASE SettleToken(s)
    <3>1. /\ UNCHANGED <<paid, fund, arg>>
          /\ \/ s \notin Playground /\ pc'[s] = "guardRead" /\ ses' = ses
             \/ s \in Playground /\ ses'[s] = [ses[s] EXCEPT !.settled = TRUE]
      BY <2>2, <1>3, <1>a DEF SettleToken, request, Goto, Update
    <3>2. CASE s \notin Playground /\ pc'[s] = "guardRead" /\ ses' = ses
      <4>1. Delta(s)' = Delta(s)
        BY <3>1, <3>2 DEF Delta
      <4> QED BY <1>3, <3>1, <3>2, <4>1 DEF Guarding, Committing
    <3>3. CASE s \in Playground /\ ses'[s] = [ses[s] EXCEPT !.settled = TRUE]
      <4>1. ses'[s].settled /\ ses'[s].consumed = ses[s].consumed
        BY <3>3, <1>a DEF Session
      <4>2. paid[s] > ses[s].consumed
        <5>1. FieldsOK(s) /\ PaidOK(s)
          BY DEF IInv, Local
        <5>2. Committed(s)
          BY <5>1, <1>3 DEF FieldsOK, Committed
        <5>3. paid[s] >= arg[s] + ses[s].consumed - ses[s].pre
          BY <5>1, <5>2, <1>3 DEF PaidOK, ExpectedPaid, FundHeld
        <5> QED BY <5>3, <1>3 DEF Delta
      <4> QED BY <3>1, <3>3, <4>1, <4>2 DEF Guarding
    <3> QED BY <3>1, <3>2, <3>3
  <2>3. CASE GuardRead(s)
    <3>1. UNCHANGED <<wallet, fund, arg>>
      BY <2>3 DEF GuardRead, rows, request
    <3>2. CASE pc'[s] = "guardDisable" /\ ses' = ses
      <4>1. Delta(s)' = Delta(s)
        BY <3>1, <3>2 DEF Delta
      <4> QED BY <1>3, <3>1, <3>2, <4>1 DEF Guarding, Committing
    <3>3. CASE Harm(s)
      BY <3>3 DEF Harm, Guarding
    <3>4. (pc'[s] = "guardDisable" /\ ses' = ses) \/ Harm(s) \/ wallet >= -Tolerance
      BY <2>3, <1>a DEF GuardRead, Goto
    <3> QED BY <3>1, <3>2, <3>3, <3>4
  <2>4. CASE GuardDisable(s)
    BY <2>4 DEF GuardDisable, Harm, Guarding
  <2> QED BY <2>1, <2>2, <2>3, <2>4
<1> QED BY <1>1, <1>2, <1>3 DEF Guarding

LEMMA StepGuarded ==
    ASSUME TypeOK, IInv, TypeOK', Guarded, NEW s \in Sessions, Step(s)
    PROVE  Guarded'
<1>1. SUFFICES ASSUME wallet' < -Tolerance, tokenEnabled' # FALSE
               PROVE  \E t \in Sessions : Guarding(t)'
  BY DEF Guarded, Tolerance, TypeOK
<1>2. Others(s) /\ (harmed' = harmed \/ Harm(s))
  BY StepLocal, ErrorsStand
<1>3. wallet \in Int /\ wallet' \in Int /\ Tolerance \in Nat /\ tokenEnabled # FALSE
  BY <1>1, ErrorsStand DEF TypeOK, Tolerance
<1>4. CASE wallet < -Tolerance
  <2>1. PICK t \in Sessions : Guarding(t)
    BY <1>3, <1>4 DEF Guarded, TypeOK
  <2>2. CASE t = s
    <3>1. ~(wallet' >= -Tolerance)
      BY <1>1, <1>3
    <3> QED BY <2>1, <2>2, <3>1, <1>1, GuardComes
  <2>3. CASE t # s
    BY <2>1, <2>3, <1>2 DEF Others, Guarding, Delta
  <2> QED BY <2>2, <2>3
<1>5. CASE wallet >= -Tolerance
  <2>1. ~(wallet' >= wallet) /\ ~(wallet' >= 0)
    BY <1>1, <1>3, <1>5
  <2> QED BY <2>1, OverspendGuards
<1> QED BY <1>3, <1>4, <1>5

LEMMA NextGuarded ==
    ASSUME TypeOK, IInv, TypeOK', Guarded, [Next]_vars
    PROVE  Guarded'
<1>1. CASE \E s \in Sessions : Step(s)
  BY <1>1, StepGuarded
<1>2. CASE TopUp
  <2>1. wallet' >= wallet
    BY <1>2 DEF TopUp, TypeOK
  <2> QED BY <1>2, <2>1 DEF TopUp, request, Guarded, Guarding, Delta, Tolerance, TypeOK
<1>3. CASE Crash
  <2>1. UNCHANGED <<wallet, tokenEnabled, fund, arg, ses, paid>>
    BY <1>3 DEF Crash, rows, request
  <2>2. ASSUME NEW s \in Sessions, Guarding(s) PROVE Guarding(s)'
    <3>1. CASE Running(s)
      BY <1>3, <3>1 DEF Crash, Guarding
    <3>2. CASE ~Running(s)
      <4>1. pc[s] \notin Committing
        BY <3>2 DEF Running, Committing, Final
      <4> QED BY <1>3, <2>1, <2>2, <4>1 DEF Crash, Guarding
    <3> QED BY <3>1, <3>2
  <2> QED BY <2>1, <2>2 DEF Guarded, Tolerance
<1>4. CASE UNCHANGED vars
  BY <1>4 DEF vars, rows, request, Guarded, Guarding, Delta, Tolerance
<1> QED BY <1>1, <1>2, <1>3, <1>4 DEF Next

\* Once settlements have taken the wallet below the tolerance, the tokens of the
\* user are disabled or a settlement on its way to the guard will do it; only an
\* error, a crash or the playground, which the guard skips, can leave it so.
THEOREM OverspendIsStopped == Spec => []OverspendStopsTokens
<1>1. Init => Guarded
  BY DEF Init, Guarded, Tolerance
<1>2. TypeOK /\ IInv /\ (TypeOK /\ IInv)' /\ Guarded /\ [Next]_vars => Guarded'
  BY NextGuarded
<1>3. Guarded => OverspendStopsTokens
  BY DEF Guarded, Guarding, OverspendStopsTokens, Committing
<1> QED BY <1>1, <1>2, <1>3, Invariant, PTL DEF Spec

=============================================================================
