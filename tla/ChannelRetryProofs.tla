-------------------------- MODULE ChannelRetryProofs --------------------------
(***************************************************************************)
(* Theorems of ChannelRetry, for any number of groups, priorities, retries *)
(* and changes of the channels.                                            *)
(***************************************************************************)
EXTENDS ChannelRetry, TLAPS

Places == {"start", "try", "pick", "answered", "refused", "failed"}
Tokens == [auto : BOOLEAN, cross : BOOLEAN, times : Nat, stay : BOOLEAN, tiered : BOOLEAN]

TypeInv ==
    /\ token \in Tokens /\ level \in [Groups -> Nat] /\ at \in Places
    /\ retry \in Nat /\ held \in BOOLEAN /\ index \in 1 .. Last + 1
    /\ channel \in [group : 0 .. Last, priority : Int] /\ billed \in 0 .. Last /\ frozen \in 0 .. Last
    /\ affine \in BOOLEAN /\ tries \in [Groups -> Nat] /\ changes \in Nat
    /\ ~token.auto => index = 1

\* The attempt that the affinity channel may add to a group.
Extra == IF affine THEN 1 ELSE 0

\* How many attempts the group at the index can have had: as many as are counted, one
\* more while the last is not, none when the group has just been reached.
SoFar == IF held THEN Extra ELSE IF at = "try" THEN retry + 1 + Extra ELSE retry + Extra

\* TriesBounded, with what is left to the groups from the index on.
BoundInv ==
    /\ TriesBounded
    /\ at = "start" =>
         /\ retry = 0 /\ held = FALSE /\ index = 1 /\ affine = FALSE
         /\ tries = [g \in Groups |-> 0] /\ channel.group = 0
    /\ at = "pick" => held = FALSE
    /\ held = TRUE => retry = 0
    /\ at \in {"try", "pick"} =>
         /\ retry <= token.times
         /\ \A g \in Groups : (g > index => tries[g] <= Extra) /\ (g = index => tries[g] <= SoFar)

\* The groups are tried in their order: the request is not past the group at the index,
\* but for its first attempt when that was of the affinity cache.
OrderInv ==
    /\ inOrder = TRUE
    /\ at \in {"try", "pick"} =>
         \/ channel.group <= index
         \/ affine /\ channel.group \in Groups /\ tries[channel.group] = 1

\* EveryGroupTried, with what the groups before the index and the group at it have had.
Followed == token.auto /\ token.cross /\ token.times > 0 /\ changes = 0

Missing(g) == IF affine /\ FirstWith(1) = {g} THEN 1 ELSE 0

TriedInv == Followed =>
    /\ at \in {"try", "pick", "failed"} =>
         \A g \in Groups : g < index /\ level[g] > 0 => tries[g] + Missing(g) >= token.times + 1
    /\ at \in {"try", "pick"} /\ held = FALSE =>
         \A g \in Groups : g = index /\ level[g] > 0 =>
             tries[g] + Missing(g) >= IF at = "try" THEN retry + 1 ELSE retry
    /\ at = "try" /\ held = FALSE => retry < token.times
    /\ at = "failed" /\ ~token.stay => index = Last + 1

\* BilledAsAsked, with what the snapshot and the ratio keep while the request is moved.
PriceInv ==
    /\ BilledAsAsked
    /\ at \in {"try", "pick"} /\ token.tiered =>
         /\ frozen \in Groups /\ tries[frozen] > 0
         /\ ~affine => frozen <= index /\ \A g \in Groups : tries[g] > 0 => frozen <= g

CountInv == TypeInv /\ BoundInv /\ OrderInv /\ TriedInv

IInv == CountInv /\ PriceInv

-----------------------------------------------------------------------------
(* What CacheGetRandomSatisfiedChannel chooses. *)

LEMMA FirstWithFacts ==
  ASSUME TypeInv, NEW i \in 1 .. Last + 1, NEW g \in FirstWith(i)
  PROVE  /\ g \in Groups /\ i <= g /\ level[g] > 0
         /\ \A h \in Groups : i <= h /\ h < g => level[h] = 0
  BY RetryAssumption DEF FirstWith, Groups, TypeInv

\* What is chosen from index i with the counter at r: the first group with channels, with
\* the counter at 0 in a new group; it is left at once when its attempts are used up.
Sound(c, i, r) ==
    /\ c.g \in Groups /\ c.p \in Int /\ i <= c.g /\ level[c.g] > 0
    /\ \A h \in Groups : i <= h /\ h < c.g => level[h] = 0
    /\ c.i \in 1 .. Last + 1 /\ c.r \in Nat /\ c.h \in BOOLEAN /\ (~token.auto => c.i = 1)
    /\ c.h = TRUE =>
         /\ token.auto /\ c.i = c.g + 1 /\ c.r = 0
         /\ (IF c.g > i THEN 0 ELSE r) >= token.times
    /\ c.h = FALSE =>
         /\ c.i = c.g
         /\ c.r = (IF c.g > i THEN 0 ELSE r)
         /\ (token.auto /\ token.cross => c.r < token.times)

LEMMA ChoiceSound ==
  ASSUME TypeInv, NEW i, i \in 1 .. Last + 1, NEW r, r \in Nat, ~token.auto => i = 1,
         NEW c, c \in Chosen(i, r)
  PROVE  Sound(c, i, r)
<1>0. Last \in Nat \ {0} /\ token.times \in Nat
  BY RetryAssumption DEF TypeInv, Tokens
<1> DEFINE Q == IF c.g > i THEN 0 ELSE r
<1>1. CASE token.auto
  <2>0. PICK g \in FirstWith(i) :
          LET q == IF g > i THEN 0 ELSE r
          IN  c = IF token.cross /\ q >= token.times
                  THEN [g |-> g, p |-> Priority(g, q), i |-> g + 1, r |-> 0, h |-> TRUE]
                  ELSE [g |-> g, p |-> Priority(g, q), i |-> g, r |-> q, h |-> FALSE]
    BY <1>1 DEF Chosen
  <2>1. \A q \in Nat : Priority(g, q) \in Int
    BY FirstWithFacts DEF Priority, TypeInv
  <2>2. c.g = g /\ c.p \in Int
    BY <2>0, <2>1
  <2>3. /\ c.g \in Groups /\ i <= c.g /\ level[c.g] > 0
        /\ \A h \in Groups : i <= h /\ h < c.g => level[h] = 0
    BY <1>0, <2>0, <2>2 DEF FirstWith, TypeInv, Groups
  <2>4. c.g \in Int /\ i \in Int /\ 1 <= c.g /\ c.g <= Last
    BY <1>0, <2>3 DEF Groups
  <2>5. CASE token.cross /\ Q >= token.times
    <3>1. c.i = c.g + 1 /\ c.r = 0 /\ c.h = TRUE
      BY <2>0, <2>2, <2>5
    <3>2. c.i \in 1 .. Last + 1 /\ c.r \in Nat
      BY <1>0, <2>4, <3>1
    <3>3. QED
      BY <1>1, <2>2, <2>3, <2>5, <3>1, <3>2 DEF Sound
  <2>6. CASE ~(token.cross /\ Q >= token.times)
    <3>1. c.i = c.g /\ c.r = Q /\ c.h = FALSE
      BY <2>0, <2>2, <2>6
    <3>2. c.i \in 1 .. Last + 1 /\ c.r \in Nat /\ (token.cross => c.r < token.times)
      BY <1>0, <2>4, <2>6, <3>1
    <3>3. QED
      BY <1>1, <2>2, <2>3, <3>1, <3>2 DEF Sound
  <2>7. QED
    BY <2>5, <2>6
<1>2. CASE ~token.auto
  <2>1. level[1] > 0 /\ c.g = 1 /\ c.p \in Int /\ c.i = i /\ c.r = r /\ c.h = FALSE
    BY <1>0, <1>2 DEF Chosen, Priority, TypeInv, Groups
  <2>2. i = 1 /\ 1 \in Groups /\ Groups \subseteq Int
    BY <1>0, <1>2 DEF Groups
  <2>3. c.g = i /\ ~(c.g > i) /\ i <= c.g
    BY <2>1, <2>2
  <2>4. c.h # TRUE
    BY <2>1
  <2>5. \A h \in Groups : ~(i <= h /\ h < c.g)
    BY <2>1, <2>2
  <2>6. i \in 1 .. Last + 1 /\ level[c.g] > 0 /\ c.g \in Groups
    BY <2>1, <2>2
  <2>7. c.r = Q /\ c.r \in Nat /\ c.i = c.g /\ c.i = 1 /\ c.i \in 1 .. Last + 1 /\ c.h \in BOOLEAN
    BY <2>1, <2>2, <2>3, <2>6
  <2> HIDE DEF Q
  <2>8. QED
    BY <1>2, <2>1, <2>3, <2>4, <2>5, <2>6, <2>7, Zenon DEF Q, Sound
<1>3. QED
  BY <1>1, <1>2

\* The distributor finds nothing, or takes a choice of its own.
LEMMA FirstChoice ==
  ASSUME TypeInv, FromGroups
  PROVE  \/ at' = "refused" /\ UNCHANGED <<channel, tries, inOrder, billed, frozen, index>>
         \/ \E c : /\ Sound(c, 1, 0) /\ Use(c.g, c.p)
                 /\ SetPrice(c.g) /\ index' = c.i /\ at' = "try"
<1>1. 1 \in 1 .. Last + 1 /\ 0 \in Nat /\ (~token.auto => 1 = 1)
  BY RetryAssumption
<1>2. \A c : c \in Chosen(1, 0) => Sound(c, 1, 0)
  BY <1>1, ChoiceSound, Zenon
<1>3. QED
  BY <1>2, Zenon DEF FromGroups

\* A later attempt finds nothing in the groups left, or takes a choice from the index on.
LEMMA NextChoice ==
  ASSUME TypeInv, Pick
  PROVE  \/ /\ NoneFrom(index) /\ at' = "failed" /\ UNCHANGED <<held, channel, billed, tries, inOrder>>
            /\ retry' = (IF token.auto THEN 0 ELSE retry)
            /\ index' = (IF token.auto THEN Last + 1 ELSE index)
         \/ \E c : /\ Sound(c, index, retry) /\ Use(c.g, c.p) /\ billed' = c.g
                 /\ index' = c.i /\ retry' = c.r /\ held' = (held \/ c.h)
                 /\ at' \in {"try", "refused"}
<1>1. index \in 1 .. Last + 1 /\ retry \in Nat /\ (~token.auto => index = 1)
  BY DEF TypeInv
<1>2. \A c : c \in Chosen(index, retry) => Sound(c, index, retry)
  BY <1>1, ChoiceSound, Zenon
<1>3. QED
  BY <1>2, Zenon DEF Pick

-----------------------------------------------------------------------------
(* Types. *)

LEMMA UseTyped ==
  ASSUME TypeInv, NEW g \in Groups, NEW p \in Int, Use(g, p)
  PROVE  /\ channel' = [group |-> g, priority |-> p]
         /\ channel' \in [group : 0 .. Last, priority : Int] /\ channel'.group = g
         /\ tries' = [tries EXCEPT ![g] = tries[g] + 1] /\ tries' \in [Groups -> Nat]
         /\ \A h \in Groups : tries'[h] = IF h = g THEN tries[h] + 1 ELSE tries[h]
  BY RetryAssumption DEF Use, TypeInv, Groups

LEMMA TypeInit == Init => TypeInv
<1> SUFFICES ASSUME Init PROVE TypeInv
  OBVIOUS
<1>1. token \in Tokens /\ level \in [Groups -> Nat] /\ tries \in [Groups -> Nat]
  BY RetryAssumption DEF Init, Tokens
<1>2. channel \in [group : 0 .. Last, priority : Int] /\ index \in 1 .. Last + 1 /\ billed \in 0 .. Last
  BY RetryAssumption DEF Init, NoChannel
<1>3. QED
  BY <1>1, <1>2 DEF Init, TypeInv, Places

LEMMA TypeStep == TypeInv /\ [Next]_vars => TypeInv'
<1> SUFFICES ASSUME TypeInv, [Next]_vars PROVE TypeInv'
  OBVIOUS
<1>1. CASE FromAffinity
  <2>1. PICK g \in IF token.auto THEN Groups ELSE {1} :
          level[g] > 0 /\ (\E p \in 0 .. level[g] - 1 : Use(g, p)) /\ SetPrice(g)
    BY <1>1 DEF FromAffinity
  <2>2. g \in Groups /\ level[g] \in Nat
    BY RetryAssumption, <2>1 DEF Groups, TypeInv
  <2>3. PICK p \in 0 .. level[g] - 1 : Use(g, p)
    BY <2>1
  <2>4. p \in Int
    BY <2>2, <2>3
  <2>5. billed' \in 0 .. Last /\ frozen' \in 0 .. Last
    BY RetryAssumption, <2>1, <2>2 DEF SetPrice, Groups
  <2>6. QED
    BY <1>1, <2>2, <2>3, <2>4, <2>5, UseTyped DEF FromAffinity, TypeInv, Places
<1>2. CASE FromGroups
  <2>0. UNCHANGED <<token, level, retry, held, affine, changes>>
    BY <1>2 DEF FromGroups
  <2>1. CASE at' = "refused" /\ UNCHANGED <<channel, tries, inOrder, billed, frozen, index>>
    BY <2>0, <2>1 DEF TypeInv, Places
  <2>2. ASSUME NEW c, Sound(c, 1, 0), Use(c.g, c.p), SetPrice(c.g), index' = c.i, at' = "try"
        PROVE  TypeInv'
    <3>1. c.g \in Groups /\ c.p \in Int /\ c.i \in 1 .. Last + 1 /\ (~token.auto => c.i = 1)
      BY <2>2 DEF Sound
    <3>2. billed' \in 0 .. Last /\ frozen' \in 0 .. Last
      BY RetryAssumption, <2>2, <3>1 DEF SetPrice, Groups
    <3>3. QED
      BY <2>0, <2>2, <3>1, <3>2, UseTyped DEF TypeInv, Places
  <2>3. QED
    BY <1>2, <2>1, <2>2, FirstChoice
<1>3. CASE Succeed
  BY <1>3 DEF Succeed, TypeInv, Places
<1>9. CASE AffinityDisabled
  BY <1>9 DEF AffinityDisabled, TypeInv, Places
<1>4. CASE Pick
  <2>1. CASE /\ NoneFrom(index) /\ at' = "failed" /\ UNCHANGED <<held, channel, billed, tries, inOrder>>
             /\ retry' = (IF token.auto THEN 0 ELSE retry)
             /\ index' = (IF token.auto THEN Last + 1 ELSE index)
    BY RetryAssumption, <1>4, <2>1 DEF Pick, TypeInv, Places
  <2>2. ASSUME NEW c, Sound(c, index, retry), Use(c.g, c.p), billed' = c.g,
               index' = c.i, retry' = c.r, held' = (held \/ c.h), at' \in {"try", "refused"}
        PROVE  TypeInv'
    BY <1>4, <2>2, UseTyped DEF Sound, Pick, TypeInv, Places, Groups
  <2>3. QED
    BY <1>4, <2>1, <2>2, NextChoice
<1>5. CASE CacheChanges
  <2>1. PICK g \in Groups : \E l \in Levels : level' = [level EXCEPT ![g] = l]
    BY <1>5 DEF CacheChanges
  <2>2. level' \in [Groups -> Nat] /\ changes' \in Nat
    BY RetryAssumption, <1>5, <2>1 DEF CacheChanges, TypeInv
  <2>3. QED
    BY <1>5, <2>2 DEF CacheChanges, TypeInv
<1>6. ASSUME NEW kind \in {"channel", "retryable", "final"}, Fail(kind) PROVE TypeInv'
  <2>1. Counted \in Nat
    BY DEF Counted, TypeInv
  <2>2. retry' \in Nat /\ held' \in BOOLEAN
    BY <1>6, <2>1 DEF Fail, TypeInv
  <2>3. at' \in Places
    BY <1>6 DEF Fail, Places
  <2>4. QED
    BY <1>6, <2>2, <2>3 DEF Fail, TypeInv
<1>7. CASE UNCHANGED vars
  BY <1>7 DEF vars, TypeInv
<1>8. QED
  BY <1>1, <1>2, <1>3, <1>4, <1>5, <1>6, <1>7, <1>9 DEF Next

-----------------------------------------------------------------------------
(* Induction. *)

LEMMA CountInit == Init => CountInv
<1> SUFFICES ASSUME Init PROVE CountInv
  OBVIOUS
<1>1. TypeInv
  BY TypeInit
<1>2. BoundInv
  BY <1>1 DEF Init, TypeInv, Tokens, BoundInv, TriesBounded, NoChannel
<1>3. OrderInv /\ TriedInv
  BY DEF Init, OrderInv, TriedInv
<1>4. QED
  BY <1>1, <1>2, <1>3 DEF CountInv

LEMMA ExtraFacts == TypeInv => Extra \in {0, 1} /\ (affine = TRUE => Extra = 1)
  BY DEF TypeInv, Extra

LEMMA FirstWithOne == ASSUME level[1] > 0 PROVE FirstWith(1) = {1}
<1>1. 1 \in FirstWith(1)
  BY RetryAssumption DEF FirstWith
<1>2. \A g \in FirstWith(1) : g = 1
  BY RetryAssumption DEF FirstWith
<1>3. QED
  BY <1>1, <1>2

LEMMA MissingFacts ==
  ASSUME TypeInv
  PROVE  /\ \A g : Missing(g) \in {0, 1}
         /\ affine /\ level[1] > 0 => Missing(1) = 1
<1>1. \A g : Missing(g) \in {0, 1}
  BY DEF Missing
<1>2. QED
  BY <1>1, FirstWithOne DEF Missing

\* The first channel of the affinity cache.
LEMMA AffinityStep == CountInv /\ TypeInv' /\ FromAffinity => CountInv'
<1> SUFFICES ASSUME CountInv, TypeInv', FromAffinity PROVE CountInv'
  OBVIOUS
<1>1. TypeInv /\ BoundInv /\ OrderInv /\ TriedInv
  BY DEF CountInv
<1>2. PICK g \in Groups : \E p \in Int : Use(g, p) /\ SetPrice(g)
  <2>1. PICK g \in IF token.auto THEN Groups ELSE {1} :
          level[g] > 0 /\ (\E p \in 0 .. level[g] - 1 : Use(g, p)) /\ SetPrice(g)
    BY DEF FromAffinity
  <2>2. g \in Groups
    BY RetryAssumption, <2>1 DEF Groups
  <2>3. QED
    BY <1>1, <2>1, <2>2 DEF TypeInv
<1>3. PICK p \in Int : Use(g, p) /\ SetPrice(g)
  BY <1>2
<1>4. /\ channel'.group = g
      /\ \A h \in Groups : tries'[h] = IF h = g THEN tries[h] + 1 ELSE tries[h]
  BY <1>1, <1>3, UseTyped
<1>5. /\ at = "start" /\ at' = "try" /\ affine' = TRUE /\ retry' = 0 /\ held' = FALSE /\ index' = 1
      /\ token' = token /\ level' = level /\ changes' = changes
      /\ tries = [h \in Groups |-> 0] /\ channel.group = 0
  BY <1>1 DEF FromAffinity, BoundInv
<1>6. \A h \in Groups : tries'[h] = IF h = g THEN 1 ELSE 0
  BY <1>4, <1>5
<1>7. Extra' = 1 /\ SoFar' = 2 /\ token.times \in Nat
  BY <1>1, <1>5 DEF Extra, SoFar, TypeInv, Tokens
<1>8. BoundInv'
  BY <1>3, <1>4, <1>5, <1>6, <1>7 DEF BoundInv, TriesBounded
<1>9. OrderInv'
  <2>1. channel.group <= g /\ inOrder = TRUE
    BY <1>1, <1>5 DEF OrderInv, Groups
  <2>2. inOrder' = TRUE
    BY <1>3, <2>1, Zenon DEF Use
  <2>3. channel'.group \in Groups /\ tries'[channel'.group] = 1
    BY <1>4, <1>6
  <2>4. QED
    BY <1>5, <2>2, <2>3 DEF OrderInv, Groups
<1>10. TriedInv'
  <2>1. Missing(1)' = 1 \/ ~(level'[1] > 0)
    BY <1>5, FirstWithOne DEF Missing, FirstWith
  <2>2. QED
    BY <1>5, <1>6, <1>7, <2>1 DEF TriedInv, Groups, Followed
<1>11. QED
  BY <1>8, <1>9, <1>10 DEF CountInv

\* The first channel of a group.
LEMMA GroupsStep == CountInv /\ TypeInv' /\ FromGroups => CountInv'
<1> SUFFICES ASSUME CountInv, TypeInv', FromGroups PROVE CountInv'
  OBVIOUS
<1>1. TypeInv /\ BoundInv /\ OrderInv /\ TriedInv /\ token.times \in Nat
  BY DEF CountInv, TypeInv, Tokens
<1>2. /\ at = "start" /\ affine' = FALSE /\ retry' = 0 /\ held' = FALSE
      /\ token' = token /\ level' = level /\ changes' = changes
      /\ tries = [h \in Groups |-> 0] /\ channel.group = 0 /\ index = 1
  BY <1>1 DEF FromGroups, BoundInv
<1>3. CASE at' = "refused" /\ UNCHANGED <<channel, tries, inOrder, billed, frozen, index>>
  <2>1. BoundInv'
    BY <1>1, <1>2, <1>3 DEF BoundInv, TriesBounded
  <2>2. OrderInv' /\ TriedInv'
    BY <1>1, <1>2, <1>3 DEF OrderInv, TriedInv
  <2>3. QED
    BY <2>1, <2>2 DEF CountInv
<1>4. ASSUME NEW c, Sound(c, 1, 0), Use(c.g, c.p), SetPrice(c.g), index' = c.i, at' = "try"
      PROVE  CountInv'
  <2>1. c.g \in Groups /\ c.g \in Int /\ 1 <= c.g /\ c.p \in Int
    BY <1>4 DEF Sound, Groups
  <2>2. /\ channel'.group = c.g
        /\ \A h \in Groups : tries'[h] = IF h = c.g THEN 1 ELSE 0
    BY <1>1, <1>2, <1>4, <2>1, UseTyped
  <2>3. Extra' = 0 /\ SoFar' = 1
    BY <1>2, <1>4 DEF Extra, SoFar
  <2>4. /\ index' = c.g \/ (index' = c.g + 1 /\ token.times = 0)
        /\ \A h \in Groups : h < c.g => level[h] = 0
    <3>1. c.h \in BOOLEAN /\ \A h \in Groups : 1 <= h /\ h < c.g => level[h] = 0
      BY <1>4 DEF Sound
    <3>2. CASE c.h = TRUE
      BY <1>1, <1>4, <2>1, <3>1, <3>2 DEF Sound, Groups
    <3>3. CASE c.h = FALSE
      BY <1>1, <1>4, <2>1, <3>1, <3>3 DEF Sound, Groups
    <3>4. QED
      BY <3>1, <3>2, <3>3
  <2>5. BoundInv'
    BY <1>1, <1>2, <1>4, <2>1, <2>2, <2>3, <2>4 DEF BoundInv, TriesBounded, Groups
  <2>6. OrderInv'
    <3>1. channel.group <= c.g /\ inOrder = TRUE
      BY <1>1, <1>2, <2>1 DEF OrderInv
    <3>2. inOrder' = TRUE
      BY <1>4, <3>1, Zenon DEF Use
    <3>3. QED
      BY <2>1, <2>2, <2>4, <3>2 DEF OrderInv
  <2>7. TriedInv'
    <3>1. Missing(c.g)' \in {0, 1}
      BY DEF Missing
    <3>2. QED
      BY <1>1, <1>2, <1>4, <2>1, <2>2, <2>4, <3>1 DEF TriedInv, Followed, Groups, Missing
  <2>8. QED
    BY <2>5, <2>6, <2>7 DEF CountInv
<1>5. QED
  BY <1>1, <1>3, <1>4, FirstChoice

\* A later attempt.
LEMMA PickStep == CountInv /\ TypeInv' /\ Pick => CountInv'
<1> SUFFICES ASSUME CountInv, TypeInv', Pick PROVE CountInv'
  OBVIOUS
<1>1. /\ TypeInv /\ BoundInv /\ OrderInv /\ TriedInv /\ token.times \in Nat /\ Extra \in {0, 1}
      /\ index \in 1 .. Last + 1 /\ retry \in Nat /\ tries \in [Groups -> Nat] /\ Last \in Nat
  BY RetryAssumption DEF CountInv, TypeInv, Tokens, Extra
<1>2. /\ at = "pick" /\ held = FALSE /\ retry <= token.times
      /\ token' = token /\ level' = level /\ changes' = changes /\ affine' = affine
      /\ Extra' = Extra /\ SoFar = retry + Extra
      /\ \A h : Missing(h)' = Missing(h)
  BY <1>1 DEF Pick, BoundInv, Extra, SoFar, Missing, FirstWith
<1>3. /\ \A h \in Groups : tries[h] <= token.times + 1 + Extra
      /\ \A h \in Groups : (h > index => tries[h] <= Extra) /\ (h = index => tries[h] <= retry + Extra)
  BY <1>1, <1>2 DEF BoundInv, TriesBounded, Extra
<1>4. CASE /\ NoneFrom(index) /\ at' = "failed" /\ UNCHANGED <<held, channel, billed, tries, inOrder>>
           /\ retry' = (IF token.auto THEN 0 ELSE retry)
           /\ index' = (IF token.auto THEN Last + 1 ELSE index)
  <2>1. BoundInv'
    BY <1>1, <1>2, <1>3, <1>4 DEF BoundInv, TriesBounded, Extra
  <2>2. OrderInv'
    BY <1>1, <1>4 DEF OrderInv
  <2>3. TriedInv'
    <3>1. ASSUME token.auto, NEW g \in Groups, level[g] > 0 PROVE g < index
      BY <1>1, <1>4, <3>1 DEF NoneFrom, Groups
    <3>2. QED
      BY <1>1, <1>2, <1>4, <3>1 DEF TriedInv, Followed
  <2>4. QED
    BY <2>1, <2>2, <2>3 DEF CountInv
<1>5. ASSUME NEW c, Sound(c, index, retry), Use(c.g, c.p), billed' = c.g,
             index' = c.i, retry' = c.r, held' = (held \/ c.h), at' \in {"try", "refused"}
      PROVE  CountInv'
  <2>1. c.g \in Groups /\ c.g \in Int /\ index <= c.g /\ c.p \in Int /\ c.h \in BOOLEAN
    BY <1>5 DEF Sound, Groups
  <2>2. /\ channel'.group = c.g
        /\ \A h \in Groups : tries'[h] = IF h = c.g THEN tries[h] + 1 ELSE tries[h]
    BY <1>1, <1>5, <2>1, UseTyped
  <2>3. held' = c.h
    BY <1>2, <1>5, <2>1
  <2>4. \A h \in Groups : index <= h /\ h < c.g => level[h] = 0
    BY <1>5 DEF Sound
  <2>5. /\ c.h = TRUE => index' = c.g + 1 /\ retry' = 0
                          /\ (IF c.g > index THEN 0 ELSE retry) >= token.times
        /\ c.h = FALSE => index' = c.g /\ retry' = (IF c.g > index THEN 0 ELSE retry)
                          /\ (token.auto /\ token.cross => retry' < token.times)
    BY <1>5 DEF Sound
  <2>6. tries[c.g] <= retry' + Extra \/ (c.h = TRUE /\ tries[c.g] <= retry + Extra)
    BY <1>1, <1>2, <1>3, <2>1, <2>5
  <2>7. BoundInv'
    <3>1. \A h \in Groups : tries'[h] <= token.times + 1 + Extra
      <4>1. CASE c.h = TRUE
        BY <1>1, <1>2, <1>3, <2>1, <2>2, <2>5, <2>6, <4>1
      <4>2. CASE c.h = FALSE
        BY <1>1, <1>2, <1>3, <2>1, <2>2, <2>5, <2>6, <4>2
      <4>3. QED
        BY <2>1, <4>1, <4>2
    <3>2. retry' <= token.times /\ retry' \in Nat
      BY <1>1, <1>2, <2>1, <2>5
    <3>3. ASSUME NEW h \in Groups, h > c.g PROVE tries'[h] <= Extra
      <4>1. h \in Int /\ index \in Int
        BY <1>1 DEF Groups
      <4>2. h # c.g /\ h > index
        BY <2>1, <3>3, <4>1
      <4>3. tries'[h] = tries[h]
        BY <2>2, <4>2
      <4>4. QED
        BY <1>3, <4>2, <4>3
    <3>4. ASSUME NEW h \in Groups, at' = "try"
          PROVE  (h > index' => tries'[h] <= Extra') /\ (h = index' => tries'[h] <= SoFar')
      <4>1. CASE c.h = TRUE
        <5>1. SoFar' = Extra
          BY <1>2, <2>3, <4>1 DEF SoFar
        <5>2. QED
          BY <1>2, <2>1, <2>5, <3>3, <3>4, <4>1, <5>1 DEF Groups
      <4>2. CASE c.h = FALSE
        <5>1. SoFar' = retry' + 1 + Extra
          BY <1>2, <2>3, <3>4, <4>2 DEF SoFar
        <5>2. tries[c.g] <= retry' + Extra
          BY <2>6, <4>2
        <5>3. QED
          BY <1>1, <1>2, <2>1, <2>2, <2>5, <3>2, <3>3, <4>2, <5>1, <5>2 DEF Groups
      <4>3. QED
        BY <2>1, <4>1, <4>2
    <3>5. TriesBounded'
      BY <1>2, <3>1 DEF TriesBounded, Extra
    <3>7. held' = TRUE => retry' = 0
      BY <2>3, <2>5
    <3>8. at' = "try" \/ at' = "refused"
      BY <1>5
    <3>9. QED
      BY <1>2, <3>2, <3>4, <3>5, <3>7, <3>8 DEF BoundInv
  <2>8. OrderInv'
    <3>1. /\ inOrder = TRUE
          /\ channel.group <= c.g \/ (affine /\ tries[channel.group] = 1)
      <4>1. channel.group \in Int
        BY <1>1 DEF TypeInv
      <4>2. QED
        BY <1>1, <1>2, <2>1, <4>1 DEF OrderInv
    <3>2. inOrder' = TRUE
      BY <1>5, <3>1, Zenon DEF Use
    <3>3. channel'.group <= index'
      BY <2>1, <2>2, <2>5
    <3>4. QED
      BY <3>2, <3>3 DEF OrderInv
  <2>9. TriedInv'
    <3>1. SUFFICES ASSUME Followed PROVE
            /\ \A h \in Groups : h < index' /\ level[h] > 0 => tries'[h] + Missing(h) >= token.times + 1
            /\ at' = "try" /\ c.h = FALSE =>
                 /\ \A h \in Groups : h = index' => tries'[h] + Missing(h) >= retry' + 1
                 /\ retry' < token.times
      BY <1>2, <1>5, <2>3 DEF TriedInv, Followed
    <3>2. /\ token.auto /\ token.cross /\ token.times > 0
          /\ \A h \in Groups : h < index /\ level[h] > 0 => tries[h] + Missing(h) >= token.times + 1
          /\ \A h \in Groups : h = index /\ level[h] > 0 => tries[h] + Missing(h) >= retry
      BY <1>1, <1>2, <3>1 DEF TriedInv, Followed
    <3>3. \A h \in Groups : Missing(h) \in {0, 1} /\ tries[h] \in Nat /\ level[h] \in Nat /\ h \in Int
      BY <1>1 DEF Missing, TypeInv, Groups
    <3>4. level[c.g] > 0
      BY <1>5 DEF Sound
    <3>5. \A h \in Groups : h < c.g /\ level[h] > 0 => tries'[h] + Missing(h) >= token.times + 1
      <4> SUFFICES ASSUME NEW h \in Groups, h < c.g, level[h] > 0
                   PROVE  tries'[h] + Missing(h) >= token.times + 1
        OBVIOUS
      <4>1. h < index
        BY <1>1, <2>1, <2>4, <3>3
      <4>2. QED
        BY <2>1, <2>2, <3>2, <3>3, <4>1
    <3>6. CASE c.h = TRUE
      <4>1. c.g = index /\ retry >= token.times
        BY <1>1, <2>1, <2>5, <3>2, <3>6
      <4>2. tries'[c.g] + Missing(c.g) >= token.times + 1
        BY <1>1, <2>1, <2>2, <3>2, <3>3, <3>4, <4>1
      <4>3. QED
        BY <1>1, <2>1, <2>5, <3>3, <3>5, <3>6, <4>2
    <3>7. CASE c.h = FALSE
      <4>1. tries'[c.g] + Missing(c.g) >= retry' + 1
        <5>1. CASE c.g = index
          BY <1>1, <2>1, <2>2, <2>5, <3>2, <3>3, <3>4, <3>7, <5>1
        <5>2. CASE c.g # index
          BY <1>1, <2>1, <2>2, <2>5, <3>3, <3>7, <5>2
        <5>3. QED
          BY <5>1, <5>2
      <4>2. QED
        BY <2>1, <2>5, <3>2, <3>3, <3>5, <3>7, <4>1
    <3>8. QED
      BY <2>1, <3>6, <3>7
  <2>10. QED
    BY <2>7, <2>8, <2>9 DEF CountInv
<1>6. QED
  BY <1>1, <1>4, <1>5, NextChoice

\* An attempt that failed.
LEMMA FailStep ==
  ASSUME NEW kind \in {"channel", "retryable", "final"}
  PROVE  CountInv /\ TypeInv' /\ Fail(kind) => CountInv'
<1> SUFFICES ASSUME CountInv, TypeInv', Fail(kind) PROVE CountInv'
  OBVIOUS
<1>1. /\ TypeInv /\ BoundInv /\ OrderInv /\ TriedInv /\ token.times \in Nat /\ Extra \in {0, 1}
      /\ retry \in Nat /\ held \in BOOLEAN /\ tries \in [Groups -> Nat]
  BY DEF CountInv, TypeInv, Tokens, Extra
<1>2. /\ at = "try" /\ UNCHANGED <<token, level, index, channel, billed, frozen, affine, tries, inOrder, changes>>
      /\ Extra' = Extra /\ \A h : Missing(h)' = Missing(h)
  BY DEF Fail, Extra, Missing, FirstWith
<1>3. /\ retry <= token.times
      /\ held = TRUE => retry = 0 /\ Counted = 0 /\ SoFar = Extra
      /\ held = FALSE => Counted = retry + 1 /\ SoFar = retry + 1 + Extra
  BY <1>1, <1>2 DEF BoundInv, Counted, SoFar
<1>4. CASE at' = "pick"
  <2>1. retry' = Counted /\ held' = FALSE /\ Counted <= token.times
    BY <1>4 DEF Fail
  <2>2. SoFar' = SoFar /\ retry' \in Nat
    BY <1>1, <1>2, <1>3, <1>4, <2>1 DEF SoFar
  <2>3. BoundInv'
    BY <1>1, <1>2, <1>4, <2>1, <2>2 DEF BoundInv, TriesBounded, Groups
  <2>4. OrderInv'
    BY <1>1, <1>2, <1>4 DEF OrderInv
  <2>5. TriedInv'
    <3>1. Followed => \A g \in Groups : g = index /\ level[g] > 0 => tries[g] + Missing(g) >= retry'
      <4> SUFFICES ASSUME Followed, NEW g \in Groups, g = index, level[g] > 0
                   PROVE  tries[g] + Missing(g) >= retry'
        OBVIOUS
      <4>1. Missing(g) \in {0, 1} /\ tries[g] \in Nat
        BY <1>1 DEF Missing
      <4>2. CASE held = TRUE
        BY <1>3, <2>1, <4>1, <4>2
      <4>3. CASE held = FALSE
        BY <1>1, <1>2, <1>3, <2>1, <4>3 DEF TriedInv
      <4>4. QED
        BY <1>1, <4>2, <4>3
    <3>2. QED
      BY <1>1, <1>2, <1>4, <2>1, <3>1 DEF TriedInv, Followed
  <2>6. QED
    BY <2>3, <2>4, <2>5 DEF CountInv
<1>5. CASE at' \in {"failed", "refused"}
  <2>1. held' = TRUE => retry' = 0
    BY <1>1, <1>3 DEF Fail
  <2>2. BoundInv'
    BY <1>1, <1>2, <1>5, <2>1 DEF BoundInv, TriesBounded
  <2>3. OrderInv'
    BY <1>1, <1>2, <1>5 DEF OrderInv
  <2>4. ASSUME at' = "failed", Followed PROVE token.stay
    <3>1. token.times > 0 /\ (held = FALSE => retry < token.times)
      BY <1>1, <1>2, <2>4 DEF TriedInv, Followed
    <3>2. Counted <= token.times /\ token.times - retry > 0
      BY <1>1, <1>3, <3>1
    <3>3. ~ShouldRetry(kind) /\ kind # "final"
      BY <2>4, <3>2 DEF Fail
    <3>4. QED
      BY <3>2, <3>3 DEF ShouldRetry
  <2>5. TriedInv'
    BY <1>1, <1>2, <1>5, <2>4 DEF TriedInv, Followed
  <2>6. QED
    BY <2>2, <2>3, <2>5 DEF CountInv
<1>6. QED
  BY <1>4, <1>5 DEF Fail

LEMMA CountStep == CountInv /\ [Next]_vars => CountInv'
<1> SUFFICES ASSUME CountInv, [Next]_vars PROVE CountInv'
  OBVIOUS
<1>1. TypeInv /\ TypeInv'
  BY TypeStep DEF CountInv
<1>2. CASE FromAffinity
  BY <1>1, <1>2, AffinityStep
<1>3. CASE FromGroups
  BY <1>1, <1>3, GroupsStep
<1>4. CASE Succeed
  BY <1>1, <1>4 DEF Succeed, CountInv, BoundInv, OrderInv, TriedInv, TriesBounded
<1>5. CASE Pick
  BY <1>1, <1>5, PickStep
<1>10. CASE AffinityDisabled
  BY <1>1, <1>10 DEF AffinityDisabled, CountInv, BoundInv, OrderInv, TriedInv, TriesBounded
<1>6. CASE CacheChanges
  <2>1. UNCHANGED <<token, at, retry, held, index, channel, billed, frozen, affine, tries, inOrder>> /\ ~Followed'
    BY <1>1, <1>6 DEF CacheChanges, Followed, TypeInv
  <2>2. BoundInv' /\ OrderInv'
    BY <2>1 DEF CountInv, BoundInv, OrderInv, TriesBounded, Extra, SoFar
  <2>3. QED
    BY <1>1, <2>1, <2>2 DEF CountInv, TriedInv
<1>7. ASSUME NEW kind \in {"channel", "retryable", "final"}, Fail(kind) PROVE CountInv'
  BY <1>1, <1>7, FailStep
<1>8. CASE UNCHANGED vars
  BY <1>1, <1>8 DEF vars, CountInv, BoundInv, OrderInv, TriedInv, TriesBounded,
     Extra, SoFar, Followed, Missing, FirstWith
<1>9. QED
  BY <1>2, <1>3, <1>4, <1>5, <1>6, <1>7, <1>8, <1>10 DEF Next

-----------------------------------------------------------------------------
(* The group that is billed. *)

\* The first channel: what is billed, and kept by the snapshot, is its group.
LEMMA FirstPrice ==
  ASSUME IInv, NEW g \in Groups, NEW p \in Int, Use(g, p), SetPrice(g),
         at = "start", at' = "try", token' = token,
         affine' = TRUE \/ (affine' = FALSE /\ index' \in Int /\ g <= index')
  PROVE  PriceInv'
<1>1. TypeInv /\ tries = [h \in Groups |-> 0] /\ (token.tiered => frozen' = g) /\ billed' = g
  BY DEF IInv, CountInv, BoundInv, SetPrice
<1>2. /\ channel'.group = g
      /\ \A h \in Groups : tries'[h] = IF h = g THEN tries[h] + 1 ELSE tries[h]
  BY <1>1, UseTyped
<1>3. tries'[g] > 0 /\ g <= g /\ \A h \in Groups : tries'[h] > 0 => h = g
  BY <1>1, <1>2 DEF Groups
<1>4. BilledAsAsked'
  BY <1>1, <1>2, <1>3 DEF BilledAsAsked, Settled
<1>5. QED
  BY <1>1, <1>3, <1>4 DEF PriceInv

LEMMA PriceInit == Init => PriceInv
  BY DEF Init, PriceInv, BilledAsAsked

LEMMA PriceStep == IInv /\ TypeInv' /\ [Next]_vars => PriceInv'
<1> SUFFICES ASSUME IInv, TypeInv', [Next]_vars PROVE PriceInv'
  OBVIOUS
<1>1. TypeInv /\ BoundInv /\ PriceInv
  BY DEF IInv, CountInv
<1>2. CASE FromAffinity
  <2>1. PICK g \in IF token.auto THEN Groups ELSE {1} :
          level[g] > 0 /\ (\E p \in 0 .. level[g] - 1 : Use(g, p)) /\ SetPrice(g)
    BY <1>2 DEF FromAffinity
  <2>2. g \in Groups
    BY RetryAssumption, <2>1 DEF Groups
  <2>3. PICK p \in Int : Use(g, p)
    BY <1>1, <2>1, <2>2 DEF TypeInv
  <2>4. QED
    BY <1>2, <2>1, <2>2, <2>3, FirstPrice DEF FromAffinity
<1>3. CASE FromGroups
  <2>1. at = "start" /\ token' = token /\ affine' = FALSE
    BY <1>1, <1>3 DEF FromGroups, BoundInv
  <2>2. CASE at' = "refused" /\ UNCHANGED <<channel, tries, inOrder, billed, frozen, index>>
    BY <2>2 DEF PriceInv, BilledAsAsked
  <2>3. ASSUME NEW c, Sound(c, 1, 0), Use(c.g, c.p), SetPrice(c.g), index' = c.i, at' = "try"
        PROVE  PriceInv'
    <3>1. /\ c.g \in Groups /\ c.p \in Int /\ c.i \in Int
          /\ c.h \in BOOLEAN /\ (c.h = TRUE => c.i = c.g + 1) /\ (c.h = FALSE => c.i = c.g)
      BY <2>3 DEF Sound
    <3>2. c.g <= c.i
      BY <3>1 DEF Groups
    <3>3. QED
      BY <2>1, <2>3, <3>1, <3>2, FirstPrice
  <2>4. QED
    BY <1>1, <1>3, <2>2, <2>3, FirstChoice
<1>4. CASE Pick
  <2>1. at = "pick" /\ UNCHANGED <<token, affine, frozen>>
    BY <1>4 DEF Pick
  <2>2. CASE at' = "failed"
    BY <2>2 DEF PriceInv, BilledAsAsked
  <2>3. ASSUME NEW c, Sound(c, index, retry), Use(c.g, c.p), billed' = c.g, index' = c.i,
               at' \in {"try", "refused"}
        PROVE  PriceInv'
    <3>1. /\ c.g \in Groups /\ c.p \in Int /\ index <= c.g /\ c.i \in Int /\ index \in Int
          /\ c.h \in BOOLEAN /\ (c.h = TRUE => c.i = c.g + 1) /\ (c.h = FALSE => c.i = c.g)
      BY <1>1, <2>3 DEF Sound, TypeInv
    <3>2. /\ channel'.group = c.g
          /\ \A h \in Groups : tries'[h] = IF h = c.g THEN tries[h] + 1 ELSE tries[h]
      BY <1>1, <2>3, <3>1, UseTyped
    <3>3. c.g <= index' /\ Groups \subseteq Int
      BY <2>3, <3>1 DEF Groups
    <3>4. ASSUME token.tiered
          PROVE  /\ frozen' \in Groups /\ tries'[frozen'] > 0
                 /\ ~affine => frozen' <= index' /\ \A h \in Groups : tries'[h] > 0 => frozen' <= h
      <4>1. /\ frozen \in Groups /\ tries[frozen] > 0 /\ frozen' = frozen
            /\ ~affine => frozen <= index /\ \A h \in Groups : tries[h] > 0 => frozen <= h
        BY <1>1, <2>1, <3>4 DEF PriceInv
      <4>2. tries \in [Groups -> Nat]
        BY <1>1 DEF TypeInv
      <4>3. tries'[frozen] > 0
        BY <3>2, <4>1, <4>2
      <4>4. ~affine => frozen <= index' /\ frozen <= c.g
        BY <2>3, <3>1, <3>3, <4>1 DEF Groups
      <4>5. QED
        BY <3>2, <4>1, <4>3, <4>4
    <3>5. BilledAsAsked'
      BY <2>1, <2>3, <3>2, <3>4 DEF BilledAsAsked, Settled
    <3>6. QED
      BY <2>1, <3>4, <3>5 DEF PriceInv
  <2>4. QED
    BY <1>1, <1>4, <2>2, <2>3, NextChoice
<1>5. CASE CacheChanges
  BY <1>1, <1>5 DEF CacheChanges, PriceInv, BilledAsAsked, Settled
<1>6. ASSUME NEW kind \in {"channel", "retryable", "final"}, Fail(kind) PROVE PriceInv'
  <2>1. /\ at = "try" /\ at' \in {"pick", "failed", "refused"}
        /\ UNCHANGED <<token, index, frozen, affine, tries>>
    BY <1>6 DEF Fail
  <2>2. QED
    BY <1>1, <2>1 DEF PriceInv, BilledAsAsked
<1>7. CASE Succeed
  BY <1>1, <1>7 DEF Succeed, PriceInv, BilledAsAsked, Settled
<1>8. CASE AffinityDisabled
  BY <1>8 DEF AffinityDisabled, PriceInv, BilledAsAsked
<1>9. CASE UNCHANGED vars
  BY <1>1, <1>9 DEF vars, PriceInv, BilledAsAsked, Settled
<1>10. QED
  BY <1>2, <1>3, <1>4, <1>5, <1>6, <1>7, <1>8, <1>9 DEF Next

LEMMA Initially == Init => IInv
  BY CountInit, PriceInit DEF IInv

LEMMA Inductively == IInv /\ [Next]_vars => IInv'
<1> SUFFICES ASSUME IInv, [Next]_vars PROVE IInv'
  OBVIOUS
<1>1. CountInv' /\ TypeInv'
  BY CountStep DEF IInv, CountInv
<1>2. QED
  BY <1>1, PriceStep DEF IInv

-----------------------------------------------------------------------------
(* Theorems. *)

\* However often the counter is set back and however the channels change, a request is
\* sent to a group at most RetryTimes + 1 times, beside the affinity channel (the loop of
\* Relay, SetRetry and ResetRetryNextTry).
THEOREM RetriesBounded == Spec => []TriesBounded
<1>1. IInv => TriesBounded
  BY DEF IInv, CountInv, BoundInv
<1>2. QED
  BY Initially, Inductively, <1>1, PTL DEF Spec

\* With cross-group retry no group with channels is passed over, left early or tried out
\* of order (CacheGetRandomSatisfiedChannel).
THEOREM GroupsExhausted == Spec => []EveryGroupTried
<1>1. IInv => EveryGroupTried
  <2> SUFFICES ASSUME IInv, at = "failed", token.auto, token.cross, token.times > 0, changes = 0,
                      ~token.stay
               PROVE  /\ inOrder
                      /\ \A g \in Groups : level[g] > 0 =>
                           tries[g] >= IF affine /\ FirstWith(1) = {g}
                                       THEN token.times ELSE token.times + 1
    BY DEF EveryGroupTried
  <2>1. TypeInv /\ inOrder = TRUE /\ index = Last + 1 /\ token.times \in Nat
    BY DEF IInv, CountInv, OrderInv, TriedInv, Followed, TypeInv, Tokens
  <2>2. \A g \in Groups : level[g] > 0 => tries[g] + Missing(g) >= token.times + 1
    BY RetryAssumption, <2>1 DEF IInv, CountInv, TriedInv, Followed, Groups
  <2>3. QED
    BY <2>1, <2>2 DEF Missing, TypeInv
<1>2. QED
  BY Initially, Inductively, <1>1, PTL DEF Spec

\* An answer is settled with the ratio of the group whose channel has given it, after any
\* moves between groups (HandleGroupRatio); a tiered price with that of the first group
\* asked, or of the affinity channel, which the snapshot keeps (modelPriceHelperTiered).
THEOREM BilledCorrectly == Spec => []BilledAsAsked
<1>1. IInv => BilledAsAsked
  BY DEF IInv, CountInv, PriceInv
<1>2. QED
  BY Initially, Inductively, <1>1, PTL DEF Spec
=============================================================================
