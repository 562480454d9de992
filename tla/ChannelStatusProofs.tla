------------------------ MODULE ChannelStatusProofs ------------------------
(***************************************************************************)
(* For any number of server processes and keys, any errors and any changes *)
(* by administrators: the variables have their types, a key is disabled    *)
(* automatically only after a request has failed with it, a process lists  *)
(* a disabled channel only when it is behind, and the abilities are those  *)
(* of the row.                                                             *)
(***************************************************************************)
EXTENDS ChannelStatus, TLAPS, FiniteSetTheorems, WellFoundedInduction

USE ChannelAssumption

KeyTexts == Keys \cup {NoKey}
Marks == {"manual", "auto"}

-----------------------------------------------------------------------------
(* Rows. *)

\* Row builds rows.
LEMMA RowIsRow ==
    ASSUME NEW status \in Statuses, NEW off, NEW keys \in Seq(KeyTexts), keys # <<>>,
           off = [i \in DOMAIN off |-> off[i]],
           \A i \in DOMAIN off : i \in Nat /\ off[i] \in Marks
    PROVE  IsRow(Row(status, off, keys))
<1>1. Len(keys) \in Nat
  OBVIOUS
<1> QED BY <1>1 DEF IsRow, Row, KeyTexts, Marks

LEMMA BlankIsRow == IsRow(Blank)
<1>1. NoOff = [i \in DOMAIN NoOff |-> NoOff[i]] /\ \A i \in DOMAIN NoOff : FALSE
  BY DEF NoOff
<1>2. <<NoKey>> \in Seq(KeyTexts) /\ <<NoKey>> # <<>> /\ "on" \in Statuses
  BY DEF KeyTexts, Statuses
<1> QED BY <1>1, <1>2, RowIsRow DEF Blank

\* A list of statuses with one position changed, or without it.
LEMMA OffChanged ==
    ASSUME NEW off, off = [i \in DOMAIN off |-> off[i]],
           \A i \in DOMAIN off : i \in Nat /\ off[i] \in Marks,
           NEW i \in Nat, NEW st \in Marks
    PROVE  /\ Off(off, i, st) = [j \in DOMAIN Off(off, i, st) |-> Off(off, i, st)[j]]
           /\ \A j \in DOMAIN Off(off, i, st) : j \in Nat /\ Off(off, i, st)[j] \in Marks
           /\ Without(off, i) = [j \in DOMAIN Without(off, i) |-> Without(off, i)[j]]
           /\ \A j \in DOMAIN Without(off, i) : j \in Nat /\ Without(off, i)[j] \in Marks
BY DEF Off, Without

LEMMA OffWithout ==
    ASSUME NEW off, off = [i \in DOMAIN off |-> off[i]],
           \A i \in DOMAIN off : i \in Nat /\ off[i] \in Marks, NEW i
    PROVE  /\ Without(off, i) = [j \in DOMAIN Without(off, i) |-> Without(off, i)[j]]
           /\ \A j \in DOMAIN Without(off, i) : j \in Nat /\ Without(off, i)[j] \in Marks
BY DEF Without

Less == {ss \in Nat \X Nat : ss[1] < ss[2]}

LEMMA LessWellFounded == IsWellFoundedOn(Less, Nat)
BY NatLessThanWellFounded DEF Less, OpToRel

\* A key that is there is found.
LEMMA PositionFound ==
    ASSUME NEW x, IsRow(x), NEW k
    PROVE  /\ Position(x, k) \in DOMAIN x.keys
           /\ (\E i \in DOMAIN x.keys : x.keys[i] = k) => x.keys[Position(x, k)] = k
<1> DEFINE P == {i \in DOMAIN x.keys : x.keys[i] = k}
<1>1. DOMAIN x.keys = 1 .. Len(x.keys) /\ Len(x.keys) \in Nat \ {0}
  BY DEF IsRow
<1>2. CASE P = {}
  BY <1>1, <1>2 DEF Position
<1>3. CASE P # {}
  <2>1. P \subseteq Nat
    BY <1>1
  <2>2. PICK m \in P : \A j \in P : ~(<<j, m>> \in Less)
    BY <2>1, <1>3, LessWellFounded, WFMin
  <2>3. \A j \in P : m <= j
    <3> SUFFICES ASSUME NEW j \in P, ~(m <= j) PROVE FALSE
      OBVIOUS
    <3>1. j < m /\ j \in Nat /\ m \in Nat
      BY <2>1
    <3>2. <<j, m>> \in Less
      BY <3>1 DEF Less
    <3> QED BY <2>2, <3>2
  <2>4. (CHOOSE i \in P : \A j \in P : i <= j) \in P
    BY <2>3
  <2>5. Position(x, k) = CHOOSE i \in P : \A j \in P : i <= j
    BY <1>3 DEF Position
  <2> QED BY <2>4, <2>5
<1> QED BY <1>2, <1>3

\* What handlerMultiKeyUpdate leaves as it is and what it changes.
LEMMA KeyUpdatedIsRow ==
    ASSUME NEW x, IsRow(x), NEW k, NEW st \in {"on", "auto"}
    PROVE  /\ IsRow(KeyUpdated(x, k, st))
           /\ KeyUpdated(x, k, st).keys = x.keys
           /\ KeyUpdated(x, k, st).off =
                IF st = "on" THEN Without(x.off, Position(x, k))
                ELSE Off(x.off, Position(x, k), st)
<1> DEFINE i == Position(x, k)
           off == IF st = "on" THEN Without(x.off, i) ELSE Off(x.off, i, st)
           y == KeyUpdated(x, k, st)
<1>1. i \in Nat
  <2>1. DOMAIN x.keys = 1 .. Len(x.keys) /\ Len(x.keys) \in Nat
    BY DEF IsRow
  <2> QED BY <2>1, PositionFound
<1> HIDE DEF i
<1>2. off = [j \in DOMAIN off |-> off[j]] /\ \A j \in DOMAIN off : j \in Nat /\ off[j] \in Marks
  <2>1. x.off = [j \in DOMAIN x.off |-> x.off[j]]
        /\ \A j \in DOMAIN x.off : j \in Nat /\ x.off[j] \in Marks
    BY DEF IsRow, Marks
  <2>2. CASE st = "on"
    BY <2>1, <2>2, OffWithout
  <2>3. CASE st = "auto"
    BY <2>1, <2>3, <1>1, OffChanged DEF Marks
  <2> QED BY <2>2, <2>3
<1> HIDE DEF off
<1>3. PICK s \in Statuses : y = [x EXCEPT !.off = off, !.status = s]
  <2>1. y = [x EXCEPT !.off = off,
                      !.status = IF Cardinality(DOMAIN off) >= x.size THEN "auto" ELSE x.status]
    BY DEF KeyUpdated, off, i
  <2> QED BY <2>1 DEF IsRow, Statuses
<1>4. y = [status |-> s, off |-> off, keys |-> x.keys, size |-> x.size]
  BY <1>3 DEF IsRow
<1>5. IsRow(y)
  BY <1>2, <1>4 DEF IsRow, Marks
<1>6. y.keys = x.keys /\ y.off = off
  BY <1>4
<1> QED BY <1>5, <1>6 DEF off, i

\* A row with the positions of e only is a row.
LEMMA KeptIsRow ==
    ASSUME NEW x, IsRow(x), NEW keep \in SUBSET DOMAIN x.keys, keep # {}, NEW e \in Orders(keep)
    PROVE  IsRow(Kept(x, e))
<1>1. PICK m \in Nat : e \in [1 .. m -> keep]
  BY DEF Orders
<1>2. m # 0
  <2>1. \E k \in 1 .. m : TRUE
    BY <1>1 DEF Orders
  <2> QED BY <2>1
<1> DEFINE keys == [k \in DOMAIN e |-> x.keys[e[k]]]
           off == [k \in {j \in DOMAIN e : e[j] \in DOMAIN x.off} |-> x.off[e[k]]]
<1>3. keys \in Seq(KeyTexts) /\ keys # <<>>
  <2>1. \A k \in 1 .. m : x.keys[e[k]] \in KeyTexts
    BY <1>1 DEF IsRow, KeyTexts
  <2>2. keys \in [1 .. m -> KeyTexts]
    BY <1>1, <2>1
  <2>3. Len(keys) = m
    BY <2>2
  <2> QED BY <2>2, <2>3, <1>2
<1>4. off = [k \in DOMAIN off |-> off[k]] /\ \A k \in DOMAIN off : k \in Nat /\ off[k] \in Marks
  BY <1>1 DEF IsRow, Marks
<1>5. x.status \in Statuses
  BY DEF IsRow
<1> QED BY <1>3, <1>4, <1>5, RowIsRow DEF Kept

\* Channel.Update writes rows.
LEMMA TrimmedIsRow ==
    ASSUME NEW status \in Statuses, NEW keys \in Seq(KeyTexts), keys # <<>>,
           NEW off, \A i \in DOMAIN off : i \in Nat /\ off[i] \in Marks
    PROVE  IsRow(Trimmed(status, off, keys))
<1> DEFINE new == [i \in DOMAIN off \cap DOMAIN keys |-> off[i]]
<1>1. new = [i \in DOMAIN new |-> new[i]] /\ \A i \in DOMAIN new : i \in Nat /\ new[i] \in Marks
  OBVIOUS
<1> QED BY <1>1, RowIsRow DEF Trimmed

\* A row with another status, or with other keys.
LEMMA StatusChanged ==
    ASSUME NEW x, IsRow(x), NEW s \in Statuses
    PROVE  /\ IsRow([x EXCEPT !.status = s])
           /\ [x EXCEPT !.status = s] = [status |-> s, off |-> x.off, keys |-> x.keys, size |-> x.size]
<1>1. [x EXCEPT !.status = s] = [status |-> s, off |-> x.off, keys |-> x.keys, size |-> x.size]
  <2>1. PICK y : y = [x EXCEPT !.status = s]
    OBVIOUS
  <2>2. x = [status |-> x.status, off |-> x.off, keys |-> x.keys, size |-> x.size]
    BY DEF IsRow
  <2>3. y = [status |-> s, off |-> x.off, keys |-> x.keys, size |-> x.size]
    BY <2>1, <2>2
  <2> QED BY <2>1, <2>3
<1> QED BY <1>1 DEF IsRow

LEMMA KeysChanged ==
    ASSUME NEW x, IsRow(x), NEW keys \in Seq(KeyTexts), keys # <<>>
    PROVE  /\ IsRow([x EXCEPT !.keys = keys])
           /\ [x EXCEPT !.keys = keys] = [status |-> x.status, off |-> x.off, keys |-> keys, size |-> x.size]
<1>1. [x EXCEPT !.keys = keys] = [status |-> x.status, off |-> x.off, keys |-> keys, size |-> x.size]
  <2>1. PICK y : y = [x EXCEPT !.keys = keys]
    OBVIOUS
  <2>2. x = [status |-> x.status, off |-> x.off, keys |-> x.keys, size |-> x.size]
    BY DEF IsRow
  <2>3. y = [status |-> x.status, off |-> x.off, keys |-> keys, size |-> x.size]
    BY <2>1, <2>2
  <2> QED BY <2>1, <2>3
<1> QED BY <1>1 DEF IsRow, KeyTexts

\* A row with the statuses and the size of another.
LEMMA InfoChanged ==
    ASSUME NEW x, IsRow(x), NEW y, IsRow(y)
    PROVE  /\ IsRow([x EXCEPT !.off = y.off, !.size = y.size])
           /\ [x EXCEPT !.off = y.off, !.size = y.size]
                = [status |-> x.status, off |-> y.off, keys |-> x.keys, size |-> y.size]
<1>1. [x EXCEPT !.off = y.off, !.size = y.size]
        = [status |-> x.status, off |-> y.off, keys |-> x.keys, size |-> y.size]
  <2>1. PICK z : z = [x EXCEPT !.off = y.off, !.size = y.size]
    OBVIOUS
  <2>2. x = [status |-> x.status, off |-> x.off, keys |-> x.keys, size |-> x.size]
    BY DEF IsRow
  <2>3. z = [status |-> x.status, off |-> y.off, keys |-> x.keys, size |-> y.size]
    BY <2>1, <2>2
  <2> QED BY <2>1, <2>3
<1> QED BY <1>1 DEF IsRow

\* A poll writes a row that has the keys and the status of before, or none.
LEMMA InfoSavedRow ==
    ASSUME IsRow(row), NEW x, IsRow(x), InfoSaved(x)
    PROVE  \/ Fault /\ UNCHANGED <<row, tangled>>
           \/ /\ IsRow(row') /\ UNCHANGED left
              /\ row'.off = x.off /\ row'.keys = row.keys /\ row'.status = row.status
              /\ row' = row \/ tangled'
              /\ tangled \in BOOLEAN => tangled' \in BOOLEAN
              /\ tangled => tangled'
<1>1. CASE Fault /\ UNCHANGED <<row, tangled>>
  BY <1>1
<1>2. CASE /\ row' = [row EXCEPT !.off = x.off, !.size = x.size]
           /\ tangled' = (tangled \/ x.off # row.off \/ x.size # row.size)
           /\ UNCHANGED left
  <2>1. IsRow(row') /\ row' = [status |-> row.status, off |-> x.off, keys |-> row.keys, size |-> x.size]
    BY <1>2, InfoChanged
  <2>2. row'.off = x.off /\ row'.keys = row.keys /\ row'.status = row.status
    BY <2>1
  <2>3. row = [status |-> row.status, off |-> row.off, keys |-> row.keys, size |-> row.size]
    BY DEF IsRow
  <2>4. x.off = row.off /\ x.size = row.size => row' = row
    BY <2>1, <2>3
  <2> QED BY <1>2, <2>1, <2>2, <2>4
<1> QED BY <1>1, <1>2 DEF InfoSaved

-----------------------------------------------------------------------------
(* Types. *)

\* What an action does to the types of the row and of its history.
LEMMA WrittenTypes ==
    ASSUME TypeOK, NEW n \in Rebuilders, NEW x, IsRow(x), Written(n, x)
    PROVE  /\ IsRow(row')
           /\ reb' = [r \in Rebuilders |-> reb'[r]] /\ \A r \in Rebuilders : IsRebuild(reb'[r])
           /\ behind' \in [Nodes -> BOOLEAN] /\ tangled' \in BOOLEAN
<1>1. IsRow(row')
  BY DEF Written
<1>2. reb' = [r \in Rebuilders |-> [reb[r] EXCEPT !.old = @ \/ reb[r].at = "read"]]
  BY DEF Written
<1>3. \A r \in Rebuilders : IsRebuild(reb'[r])
  <2> TAKE r \in Rebuilders
  <2>1. IsRebuild(reb[r])
    BY DEF TypeOK
  <2>2. reb'[r] = [at |-> reb[r].at, x |-> reb[r].x, old |-> reb[r].old \/ reb[r].at = "read"]
    BY <1>2, <2>1 DEF IsRebuild
  <2> QED BY <2>1, <2>2 DEF IsRebuild
<1>4. behind' \in [Nodes -> BOOLEAN] /\ tangled' \in BOOLEAN
  <2>1. /\ mode.multi \in BOOLEAN /\ behind \in [Nodes -> BOOLEAN] /\ tangled \in BOOLEAN
    BY DEF TypeOK
  <2>2. behind' = [m \in Nodes |-> behind[m] \/ m # n \/ mode.multi]
    BY DEF Written
  <2>3. \A m \in Nodes : (behind[m] \/ m # n \/ mode.multi) \in BOOLEAN
    OBVIOUS
  <2>4. behind' \in [Nodes -> BOOLEAN]
    BY <2>2, <2>3
  <2>5. tangled' \in BOOLEAN
    BY DEF Written, Others
  <2> QED BY <2>4, <2>5
<1> QED BY <1>1, <1>2, <1>3, <1>4

\* The types hold at the start.
LEMMA InitTypes == Init => TypeOK
<1> SUFFICES ASSUME Init PROVE TypeOK
  OBVIOUS
<1>1. IsRow(row) /\ IsRow(Blank)
  <2>1. NoOff = [i \in DOMAIN NoOff |-> NoOff[i]] /\ \A i \in DOMAIN NoOff : FALSE
    BY DEF NoOff
  <2> DEFINE keys == IF mode.multi THEN InitialKeys ELSE <<InitialKeys[1]>>
  <2>2. keys \in Seq(KeyTexts) /\ keys # <<>>
    <3>1. InitialKeys \in Seq(KeyTexts) /\ InitialKeys # <<>>
      BY DEF KeyTexts
    <3>2. InitialKeys[1] \in KeyTexts
      BY DEF KeyTexts
    <3>3. <<InitialKeys[1]>> \in Seq(KeyTexts) /\ <<InitialKeys[1]>> # <<>>
      BY <3>2
    <3> QED BY <3>1, <3>3
  <2>3. row = Row("on", NoOff, keys) /\ "on" \in Statuses
    BY DEF Init, Statuses
  <2> HIDE DEF keys
  <2>4. IsRow(row)
    BY <2>1, <2>2, <2>3, RowIsRow
  <2> QED BY <2>4, BlankIsRow
<1>2. mode \in [cached : BOOLEAN, multi : BOOLEAN]
  BY DEF Init
<1>3. /\ cache = [n \in Nodes |-> cache[n]] /\ \A n \in Nodes : IsRow(cache[n])
      /\ listed \in [Nodes -> BOOLEAN] /\ behind \in [Nodes -> BOOLEAN]
      /\ ability \in BOOLEAN /\ blind \in BOOLEAN /\ tangled \in BOOLEAN
  BY <1>1 DEF Init
<1>4. /\ pending \in [Nodes -> SUBSET [st : {"on", "auto"}, key : Keys \cup {NoKey}]]
      /\ inflight \in [Nodes -> SUBSET (Keys \cup {NoKey})]
      /\ failed \subseteq Keys \cup {NoKey}
      /\ left \in [events : Nat, faults : Nat]
  BY DEF Init
<1>5. upd = [n \in Nodes |-> upd[n]] /\ \A n \in Nodes : IsUpdate(upd[n])
  BY <1>1 DEF Init, NoUpdate, IsUpdate
<1>6. reb = [r \in Rebuilders |-> reb[r]] /\ \A r \in Rebuilders : IsRebuild(reb[r])
  BY <1>1 DEF Init, NoRebuild, IsRebuild
<1>7. IsAdmin(adm)
  BY <1>1 DEF Init, IsAdmin
<1>8. test = [at |-> test.at, x |-> test.x] /\ IsRow(test.x)
  BY <1>1 DEF Init
<1> QED BY <1>1, <1>2, <1>3, <1>4, <1>5, <1>6, <1>7, <1>8 DEF TypeOK

\* An update of one process changes its own record only.
LEMMA UpdateTypes ==
    ASSUME TypeOK, NEW n \in Nodes, NEW u, IsUpdate(u), upd' = [upd EXCEPT ![n] = u]
    PROVE  upd' = [m \in Nodes |-> upd'[m]] /\ \A m \in Nodes : IsUpdate(upd'[m])
BY DEF TypeOK

\* An update goes from step to step.
LEMMA UpdateMoves ==
    ASSUME NEW u, IsUpdate(u), NEW at \in {"idle", "read", "save", "ability"},
           NEW x, IsRow(x), NEW ab \in BOOLEAN
    PROVE  /\ IsUpdate([u EXCEPT !.at = at])
           /\ IsUpdate([u EXCEPT !.at = at, !.x = x, !.ab = ab])
<1>1. [u EXCEPT !.at = at] = [at |-> at, st |-> u.st, key |-> u.key, x |-> u.x, ab |-> u.ab]
  <2>1. PICK y : y = [u EXCEPT !.at = at]
    OBVIOUS
  <2>2. u = [at |-> u.at, st |-> u.st, key |-> u.key, x |-> u.x, ab |-> u.ab]
    BY DEF IsUpdate
  <2>3. y = [at |-> at, st |-> u.st, key |-> u.key, x |-> u.x, ab |-> u.ab]
    BY <2>1, <2>2
  <2> QED BY <2>1, <2>3
<1>2. [u EXCEPT !.at = at, !.x = x, !.ab = ab] = [at |-> at, st |-> u.st, key |-> u.key, x |-> x, ab |-> ab]
  <2>1. PICK y : y = [u EXCEPT !.at = at, !.x = x, !.ab = ab]
    OBVIOUS
  <2>2. u = [at |-> u.at, st |-> u.st, key |-> u.key, x |-> u.x, ab |-> u.ab]
    BY DEF IsUpdate
  <2>3. y = [at |-> at, st |-> u.st, key |-> u.key, x |-> x, ab |-> ab]
    BY <2>1, <2>2
  <2> QED BY <2>1, <2>3
<1> QED BY <1>1, <1>2 DEF IsUpdate

LEMMA BegunIsUpdate ==
    ASSUME NEW p \in [st : {"on", "auto"}, key : KeyTexts]
    PROVE  /\ IsUpdate(Begun(p))
           /\ Begun(p) = [at |-> "read", st |-> p.st, key |-> p.key, x |-> Blank, ab |-> FALSE]
<1>1. Begun(p) = [at |-> "read", st |-> p.st, key |-> p.key, x |-> Blank, ab |-> FALSE]
  <2>1. PICK y : y = Begun(p)
    OBVIOUS
  <2>2. y = [[at |-> "idle", st |-> "on", key |-> NoKey, x |-> Blank, ab |-> FALSE]
               EXCEPT !.at = "read", !.st = p.st, !.key = p.key]
    BY <2>1 DEF Begun, NoUpdate
  <2>3. y = [at |-> "read", st |-> p.st, key |-> p.key, x |-> Blank, ab |-> FALSE]
    BY <2>2
  <2> QED BY <2>1, <2>3
<1>2. p.st \in {"on", "auto"} /\ p.key \in KeyTexts
  OBVIOUS
<1> QED BY <1>1, <1>2, BlankIsRow DEF IsUpdate, KeyTexts

\* The rows a step of an update makes.
LEMMA ChangedIsRow ==
    ASSUME NEW u, IsUpdate(u), IsRow(row)
    PROVE  IsRow(Changed(u)) /\ Changed(u).keys = row.keys
<1>1. u.st \in {"on", "auto"} /\ u.st \in Statuses
  BY DEF IsUpdate, Statuses
<1>2. /\ IsRow(KeyUpdated(row, u.key, u.st))
      /\ KeyUpdated(row, u.key, u.st).keys = row.keys
  BY <1>1, KeyUpdatedIsRow
<1>3. IsRow([row EXCEPT !.status = u.st]) /\ [row EXCEPT !.status = u.st].keys = row.keys
  <2>1. /\ IsRow([row EXCEPT !.status = u.st])
        /\ [row EXCEPT !.status = u.st]
             = [status |-> u.st, off |-> row.off, keys |-> row.keys, size |-> row.size]
    BY <1>1, StatusChanged
  <2> DEFINE y == [row EXCEPT !.status = u.st]
  <2> HIDE DEF y
  <2>2. y = [status |-> u.st, off |-> row.off, keys |-> row.keys, size |-> row.size]
    BY <2>1 DEF y
  <2>3. y.keys = row.keys
    BY <2>2
  <2> QED BY <2>1, <2>3 DEF y
<1> QED BY <1>2, <1>3 DEF Changed

LEMMA AdminMoves ==
    ASSUME NEW a, IsAdmin(a), NEW at \in {"idle", "write", "reload", "abilities", "rebuild"},
           NEW x, IsRow(x)
    PROVE  IsAdmin([a EXCEPT !.at = at, !.x = x])
<1>1. [a EXCEPT !.at = at, !.x = x] = [at |-> at, x |-> x, node |-> a.node]
  <2>1. PICK y : y = [a EXCEPT !.at = at, !.x = x]
    OBVIOUS
  <2>2. a = [at |-> a.at, x |-> a.x, node |-> a.node]
    BY DEF IsAdmin
  <2>3. y = [at |-> at, x |-> x, node |-> a.node]
    BY <2>1, <2>2
  <2> QED BY <2>1, <2>3
<1> QED BY <1>1 DEF IsAdmin

\* The types hold after every step.
LEMMA StepTypes == TypeOK /\ [Next]_vars => TypeOK'
<1> SUFFICES ASSUME TypeOK, [Next]_vars PROVE TypeOK'
  OBVIOUS
<1> USE DEF KeyTexts
<1>0. IsUpdate(NoUpdate) /\ IsRebuild(NoRebuild) /\ IsRow(Blank)
  BY BlankIsRow DEF IsUpdate, IsRebuild, NoUpdate, NoRebuild
<1>e. ASSUME Event PROVE left' \in [events : Nat, faults : Nat]
  BY <1>e DEF Event, TypeOK
<1>f. ASSUME Fault PROVE left' \in [events : Nat, faults : Nat]
  BY <1>f DEF Fault, TypeOK
<1>1. ASSUME NEW n \in Nodes, Select(n) PROVE TypeOK'
  <2>1. ASSUME NEW x, IsRow(x) PROVE Usable(x) \subseteq KeyTexts
    <3>1. x.keys \in Seq(KeyTexts) /\ x.keys # <<>>
      BY <2>1 DEF IsRow
    <3>2. \A i \in DOMAIN x.keys : x.keys[i] \in KeyTexts
      BY <3>1
    <3>3. x.keys[1] \in KeyTexts
      BY <3>1
    <3> QED BY <3>2, <3>3 DEF Usable, EnabledKeys
  <2>2. inflight' \in [Nodes -> SUBSET KeyTexts]
    <3>1. IsRow(IF mode.cached THEN cache[n] ELSE row)
      BY DEF TypeOK
    <3>2. Usable(IF mode.cached THEN cache[n] ELSE row) \subseteq KeyTexts
      BY <3>1, <2>1
    <3>3. PICK k \in KeyTexts : inflight' = [inflight EXCEPT ![n] = @ \cup {k}]
      BY <3>2, <1>1 DEF Select
    <3> QED BY <3>3 DEF TypeOK
  <2> QED BY <1>1, <1>e, <2>2 DEF Select, TypeOK
<1>2. ASSUME NEW n \in Nodes, NEW k \in KeyTexts, RequestFails(n, k) PROVE TypeOK'
  <2>1. inflight' \in [Nodes -> SUBSET KeyTexts]
    BY <1>2 DEF RequestFails, TypeOK
  <2>2. pending' \in [Nodes -> SUBSET [st : {"on", "auto"}, key : KeyTexts]]
    BY <1>2 DEF RequestFails, TypeOK
  <2>3. failed' \subseteq KeyTexts /\ blind' \in BOOLEAN
    BY <1>2 DEF RequestFails, TypeOK
  <2> QED BY <1>2, <2>1, <2>2, <2>3 DEF RequestFails, TypeOK
<1>3. ASSUME NEW n \in Nodes, UpdateCache(n) PROVE TypeOK'
  <2>1. PICK p \in pending[n] : pending' = [pending EXCEPT ![n] = @ \ {p}] /\ CacheTakes(n, p)
    BY <1>3 DEF UpdateCache
  <2>2. p \in [st : {"on", "auto"}, key : KeyTexts]
    BY DEF TypeOK
  <2>3. IsUpdate(Begun(p))
    BY <2>2, BegunIsUpdate
  <2>4. upd' = [m \in Nodes |-> upd'[m]] /\ \A m \in Nodes : IsUpdate(upd'[m])
    <3>1. upd' = upd \/ upd' = [upd EXCEPT ![n] = Begun(p)]
      BY <2>1 DEF CacheTakes
    <3> QED BY <3>1, <2>3, UpdateTypes DEF TypeOK
  <2>5. cache' = [m \in Nodes |-> cache'[m]] /\ \A m \in Nodes : IsRow(cache'[m])
    <3>1. CASE cache' = cache
      BY <3>1 DEF TypeOK
    <3>2. CASE cache' = [cache EXCEPT ![n] = KeyUpdated(@, p.key, p.st)]
      BY <3>2, <2>2, KeyUpdatedIsRow DEF TypeOK
    <3>3. CASE cache' = [cache EXCEPT ![n].status = p.st]
      <4>1. IsRow([cache[n] EXCEPT !.status = p.st])
        BY <2>2, StatusChanged DEF TypeOK, Statuses
      <4> QED BY <4>1, <3>3 DEF TypeOK
    <3> QED BY <2>1, <3>1, <3>2, <3>3 DEF CacheTakes
  <2>6. listed' \in [Nodes -> BOOLEAN]
    BY <2>1 DEF CacheTakes, Delisted, TypeOK
  <2>7. pending' \in [Nodes -> SUBSET [st : {"on", "auto"}, key : KeyTexts]]
    BY <2>1 DEF TypeOK
  <2> QED BY <1>3, <2>4, <2>5, <2>6, <2>7 DEF UpdateCache, TypeOK
<1>4. ASSUME NEW n \in Nodes, UpdateRead(n) PROVE TypeOK'
  <2> DEFINE u == upd[n]
  <2>1. IsUpdate(u)
    BY DEF TypeOK
  <2>2. IsRow(Changed(u)) /\ (Changed(u).status # row.status) \in BOOLEAN
    BY <2>1, ChangedIsRow DEF TypeOK
  <2>3. IsUpdate([u EXCEPT !.at = "save", !.x = Changed(u), !.ab = (Changed(u).status # row.status)])
    BY <2>1, <2>2, UpdateMoves
  <2>4. \/ upd' = [upd EXCEPT ![n] = NoUpdate]
        \/ upd' = [upd EXCEPT ![n] = [u EXCEPT !.at = "save", !.x = Changed(u),
                                               !.ab = (Changed(u).status # row.status)]]
    BY <1>4 DEF UpdateRead
  <2>5. upd' = [m \in Nodes |-> upd'[m]] /\ \A m \in Nodes : IsUpdate(upd'[m])
    BY <1>0, <2>3, <2>4, UpdateTypes
  <2> QED BY <1>4, <2>5 DEF UpdateRead, TypeOK
<1>5. ASSUME NEW n \in Nodes, UpdateSave(n) PROVE TypeOK'
  <2> DEFINE u == upd[n]
  <2>1. IsUpdate(u) /\ IsRow(row)
    BY DEF TypeOK
  <2>2. IsUpdate([u EXCEPT !.at = "ability"])
    BY <2>1, <1>0, UpdateMoves
  <2>3. upd' = [m \in Nodes |-> upd'[m]] /\ \A m \in Nodes : IsUpdate(upd'[m])
    <3>1. \/ upd' = [upd EXCEPT ![n] = NoUpdate]
          \/ upd' = [upd EXCEPT ![n] = [u EXCEPT !.at = "ability"]]
      BY <1>5 DEF UpdateSave
    <3> QED BY <1>0, <2>2, <3>1, UpdateTypes
  <2>4. IsRow([u.x EXCEPT !.keys = row.keys])
    <3>1. IsRow(u.x) /\ row.keys \in Seq(KeyTexts) /\ row.keys # <<>>
      BY <2>1 DEF IsRow, IsUpdate
    <3> QED BY <3>1, KeysChanged
  <2>5. /\ IsRow(row') /\ left' \in [events : Nat, faults : Nat]
        /\ reb' = [r \in Rebuilders |-> reb'[r]] /\ \A r \in Rebuilders : IsRebuild(reb'[r])
        /\ behind' \in [Nodes -> BOOLEAN] /\ tangled' \in BOOLEAN
    <3>1. CASE Written(n, [u.x EXCEPT !.keys = row.keys]) /\ UNCHANGED left
      <4>1. n \in Rebuilders
        BY DEF Rebuilders
      <4> QED BY <3>1, <4>1, <2>4, WrittenTypes DEF TypeOK
    <3>2. CASE Fault /\ UNCHANGED <<row, reb, behind, tangled>>
      BY <3>2, <1>f DEF TypeOK
    <3> QED BY <1>5, <3>1, <3>2 DEF UpdateSave
  <2> QED BY <1>5, <2>3, <2>5 DEF UpdateSave, TypeOK
<1>6. ASSUME NEW n \in Nodes, UpdateAbility(n) PROVE TypeOK'
  <2>1. upd' = [m \in Nodes |-> upd'[m]] /\ \A m \in Nodes : IsUpdate(upd'[m])
    BY <1>6, <1>0, UpdateTypes DEF UpdateAbility
  <2>2. ability' \in BOOLEAN
    BY <1>6 DEF UpdateAbility, TypeOK
  <2>3. left' \in [events : Nat, faults : Nat]
    BY <1>6, <1>f DEF UpdateAbility, TypeOK
  <2> QED BY <1>6, <2>1, <2>2, <2>3 DEF UpdateAbility, TypeOK
<1>7. ASSUME NEW n \in Nodes, TestEnds(n) PROVE TypeOK'
  <2>1. test.x.keys \in Seq(KeyTexts) /\ test.x.keys # <<>>
    BY DEF TypeOK, IsRow
  <2>2. Usable(test.x) \subseteq KeyTexts
    <3>1. test.x.keys[1] \in KeyTexts /\ \A i \in DOMAIN test.x.keys : test.x.keys[i] \in KeyTexts
      BY <2>1
    <3> QED BY <3>1 DEF Usable, EnabledKeys
  <2>3. PICK k \in KeyTexts :
          \/ /\ pending' = [pending EXCEPT ![n] = @ \cup {[st |-> "auto", key |-> k]}]
             /\ failed' = failed \cup {k} /\ blind' = (blind \/ k = NoKey)
          \/ /\ pending' = [pending EXCEPT ![n] = @ \cup {[st |-> "on", key |-> k]}]
             /\ UNCHANGED <<failed, blind>>
          \/ UNCHANGED <<pending, failed, blind>>
    BY <1>7, <2>2 DEF TestEnds
  <2>4. pending' \in [Nodes -> SUBSET [st : {"on", "auto"}, key : KeyTexts]]
    BY <2>3 DEF TypeOK
  <2>5. failed' \subseteq KeyTexts /\ blind' \in BOOLEAN
    BY <2>3 DEF TypeOK
  <2>6. test' = [at |-> test'.at, x |-> test'.x] /\ IsRow(test'.x)
    BY <1>7, <1>0 DEF TestEnds
  <2> QED BY <1>7, <2>4, <2>5, <2>6 DEF TestEnds, TypeOK
<1>8. ASSUME NEW r \in Rebuilders, RebuildRead(r) PROVE TypeOK'
  <2>1. IsRebuild([at |-> "read", x |-> row, old |-> FALSE])
    BY DEF TypeOK, IsRebuild
  <2>2. reb' = [q \in Rebuilders |-> reb'[q]] /\ \A q \in Rebuilders : IsRebuild(reb'[q])
    BY <1>8, <2>1 DEF RebuildRead, TypeOK
  <2> QED BY <1>8, <2>2 DEF RebuildRead, TypeOK
<1>9. ASSUME NEW r \in Rebuilders, RebuildPublish(r) PROVE TypeOK'
  <2>1. Home(r) \in Nodes
    BY DEF Home, Rebuilders, TypeOK, IsAdmin
  <2>2. IsRow(reb[r].x) /\ reb[r].old \in BOOLEAN
    BY DEF TypeOK, IsRebuild
  <2>3. reb' = [q \in Rebuilders |-> reb'[q]] /\ \A q \in Rebuilders : IsRebuild(reb'[q])
    BY <1>9, <1>0 DEF RebuildPublish, TypeOK
  <2>4. cache' = [m \in Nodes |-> cache'[m]] /\ \A m \in Nodes : IsRow(cache'[m])
    BY <1>9, <2>1, <2>2 DEF RebuildPublish, TypeOK
  <2>5. listed' \in [Nodes -> BOOLEAN] /\ behind' \in [Nodes -> BOOLEAN]
    <3>1. Overtaken(r) \in BOOLEAN
      BY <2>2 DEF Overtaken
    <3> QED BY <1>9, <2>1, <3>1 DEF RebuildPublish, TypeOK
  <2>6. IsAdmin(adm')
    <3>1. adm' = adm \/ adm' = [adm EXCEPT !.at = "idle", !.x = Blank]
      BY <1>9 DEF RebuildPublish
    <3>2. IsAdmin(adm) /\ IsRow(Blank)
      BY <1>0 DEF TypeOK
    <3>3. IsAdmin([adm EXCEPT !.at = "idle", !.x = Blank])
      BY <3>2, AdminMoves
    <3> QED BY <3>1, <3>2, <3>3
  <2> QED BY <1>9, <2>3, <2>4, <2>5, <2>6 DEF RebuildPublish, TypeOK
<1>a. ASSUME NEW at \in {"idle", "write", "reload", "abilities", "rebuild"},
             NEW x, IsRow(x), adm' = [adm EXCEPT !.at = at, !.x = x]
      PROVE  IsAdmin(adm')
  BY <1>a, AdminMoves DEF TypeOK
<1>w. ASSUME NEW x, IsRow(x), AdminWrites(x)
      PROVE  /\ IsRow(row')
             /\ reb' = [r \in Rebuilders |-> reb'[r]] /\ \A r \in Rebuilders : IsRebuild(reb'[r])
             /\ behind' \in [Nodes -> BOOLEAN] /\ tangled' \in BOOLEAN
  BY <1>w, WrittenTypes DEF AdminWrites, Rebuilders
<1>r. IsRow(row) /\ IsRow(adm.x)
  BY DEF TypeOK, IsAdmin
<1>10. CASE AdminRead
  <2>1. IsAdmin(adm')
    BY <1>10, <1>a, <1>r DEF AdminRead
  <2> QED BY <1>10, <1>e, <2>1 DEF AdminRead, TypeOK
<1>11. CASE AdminTag
  <2>1. PICK status \in {"on", "manual"} :
          /\ AdminWrites([row EXCEPT !.status = status])
          /\ adm' = [adm EXCEPT !.at = "abilities", !.x = [row EXCEPT !.status = status]]
    BY <1>11 DEF AdminTag
  <2>2. IsRow([row EXCEPT !.status = status])
    BY <1>r, StatusChanged DEF Statuses
  <2>3. IsAdmin(adm')
    BY <2>1, <2>2, <1>a
  <2> QED BY <1>11, <1>e, <1>w, <2>1, <2>2, <2>3 DEF AdminTag, TypeOK
<1>12. CASE AdminKeys
  <2> DEFINE x == adm.x
  <2>1. /\ x.status \in Statuses /\ x.keys \in Seq(KeyTexts) /\ x.keys # <<>>
        /\ x.off = [i \in DOMAIN x.off |-> x.off[i]]
        /\ \A i \in DOMAIN x.off : i \in Nat /\ x.off[i] \in Marks
        /\ \A i \in DOMAIN x.keys : i \in Nat
    BY <1>r DEF IsRow, Marks
  <2>2. PICK off :
          /\ off \in {Off(x.off, i, "manual") : i \in DOMAIN x.keys}
                     \cup {Without(x.off, i) : i \in DOMAIN x.keys} \cup {NoOff}
                     \cup {[i \in DOMAIN x.keys |-> IF i \in DOMAIN x.off THEN x.off[i] ELSE "manual"]}
          /\ AdminWrites(Trimmed(x.status, off, x.keys))
    BY <1>12 DEF AdminKeys
  <2> HIDE DEF x
  <2>3. \A i \in DOMAIN off : i \in Nat /\ off[i] \in Marks
    <3>1. CASE \E i \in DOMAIN x.keys : off = Off(x.off, i, "manual")
      BY <2>1, <3>1, OffChanged DEF Marks
    <3>2. CASE \E i \in DOMAIN x.keys : off = Without(x.off, i)
      BY <2>1, <3>2, OffWithout
    <3>3. CASE off = NoOff
      BY <3>3 DEF NoOff
    <3>4. CASE off = [i \in DOMAIN x.keys |-> IF i \in DOMAIN x.off THEN x.off[i] ELSE "manual"]
      BY <2>1, <3>4 DEF Marks
    <3> QED BY <2>2, <3>1, <3>2, <3>3, <3>4
  <2>4. IsRow(Trimmed(x.status, off, x.keys))
    BY <2>1, <2>3, TrimmedIsRow
  <2>5. IsAdmin(adm')
    BY <1>12, <1>0, <1>a DEF AdminKeys
  <2> QED BY <1>12, <1>w, <2>2, <2>4, <2>5 DEF AdminKeys, TypeOK
<1>13. CASE AdminDeleteKeys
  <2> DEFINE x == adm.x
             auto == {i \in DOMAIN x.off : x.off[i] = "auto"}
             all == DOMAIN x.keys
  <2>1. PICK y : IsRow(y) /\ AdminWrites(y)
    <3>1. ASSUME NEW keep \in SUBSET all, keep # {}, KeepOnly(keep)
          PROVE  \E y : IsRow(y) /\ AdminWrites(y)
      <4>1. PICK e \in Orders(keep) : AdminWrites(Kept(x, e))
        BY <3>1 DEF KeepOnly
      <4>2. IsRow(Kept(x, e))
        BY <1>r, <3>1, KeptIsRow
      <4> QED BY <4>1, <4>2
    <3>2. CASE \E i \in all : Len(x.keys) > 1 /\ KeepOnly(all \ {i})
      <4>1. PICK i \in all : Len(x.keys) > 1 /\ KeepOnly(all \ {i})
        BY <3>2
      <4>2. all = 1 .. Len(x.keys) /\ Len(x.keys) \in Nat
        BY <1>r DEF IsRow
      <4>3. 1 \in all /\ 2 \in all
        BY <4>1, <4>2
      <4>4. all \ {i} # {}
        BY <4>3
      <4> QED BY <3>1, <4>1, <4>4
    <3>3. CASE ~(all \subseteq auto) /\ KeepOnly(all \ auto)
      BY <3>1, <3>3
    <3>4. CASE AdminWrites(Row(x.status, NoOff, row.keys))
      <4>1. /\ x.status \in Statuses /\ row.keys \in Seq(KeyTexts) /\ row.keys # <<>>
        BY <1>r DEF IsRow
      <4>2. NoOff = [i \in DOMAIN NoOff |-> NoOff[i]] /\ \A i \in DOMAIN NoOff : FALSE
        BY DEF NoOff
      <4>3. IsRow(Row(x.status, NoOff, row.keys))
        BY <4>1, <4>2, RowIsRow
      <4> QED BY <3>4, <4>3
    <3> QED BY <1>13, <3>2, <3>3, <3>4 DEF AdminDeleteKeys
  <2>2. IsAdmin(adm')
    BY <1>13, <1>0, <1>a DEF AdminDeleteKeys
  <2> QED BY <1>13, <1>w, <2>1, <2>2 DEF AdminDeleteKeys, TypeOK
<1>14. CASE AdminForm
  <2>1. /\ adm.x.off = [i \in DOMAIN adm.x.off |-> adm.x.off[i]]
        /\ \A i \in DOMAIN adm.x.off : i \in Nat /\ adm.x.off[i] \in Marks
    BY <1>r DEF IsRow, Marks
  <2>2. PICK status \in Statuses :
          \/ AdminWrites(Trimmed(status, adm.x.off, row.keys)) /\ UNCHANGED blind
          \/ /\ blind' = TRUE
             /\ \E k \in Keys : \E keys \in {<<k>>, Appended(adm.x.keys, k)} :
                  AdminWrites(Trimmed(status, adm.x.off, keys))
    BY <1>14, <1>r DEF AdminForm, IsRow, Statuses
  <2>3. PICK keys \in Seq(KeyTexts) : keys # <<>> /\ AdminWrites(Trimmed(status, adm.x.off, keys))
    <3>1. CASE AdminWrites(Trimmed(status, adm.x.off, row.keys))
      BY <1>r, <3>1 DEF IsRow
    <3>2. CASE \E k \in Keys : \E keys \in {<<k>>, Appended(adm.x.keys, k)} :
                 AdminWrites(Trimmed(status, adm.x.off, keys))
      <4>1. PICK k \in Keys : \/ AdminWrites(Trimmed(status, adm.x.off, <<k>>))
                               \/ AdminWrites(Trimmed(status, adm.x.off, Appended(adm.x.keys, k)))
        BY <3>2
      <4>2. <<k>> \in Seq(KeyTexts) /\ <<k>> # <<>>
        OBVIOUS
      <4>3. adm.x.keys \in Seq(KeyTexts) /\ adm.x.keys # <<>>
        BY <1>r DEF IsRow
      <4>4. Appended(adm.x.keys, k) \in Seq(KeyTexts) /\ Appended(adm.x.keys, k) # <<>>
        BY <4>3 DEF Appended
      <4> QED BY <4>1, <4>2, <4>4
    <3> QED BY <2>2, <3>1, <3>2
  <2>4. IsRow(Trimmed(status, adm.x.off, keys))
    BY <2>1, <2>3, TrimmedIsRow
  <2>5. IsAdmin(adm') /\ blind' \in BOOLEAN
    <3>1. IsAdmin(adm')
      BY <1>14, <1>0, <1>a DEF AdminForm
    <3> QED BY <3>1, <2>2 DEF TypeOK
  <2> QED BY <1>14, <1>w, <2>3, <2>4, <2>5 DEF AdminForm, TypeOK
<1>15. CASE AdminReload
  <2>1. IsAdmin(adm')
    BY <1>15, <1>a, <1>r DEF AdminReload
  <2> QED BY <1>15, <2>1 DEF AdminReload, TypeOK
<1>16. CASE AdminAbilities
  <2>1. PICK at \in {"idle", "rebuild"} : adm' = [adm EXCEPT !.at = at, !.x = Blank]
    BY <1>16 DEF AdminAbilities
  <2>2. IsAdmin(adm')
    BY <2>1, <1>0, <1>a
  <2>3. ability' \in BOOLEAN /\ left' \in [events : Nat, faults : Nat]
    BY <1>16, <1>f DEF AdminAbilities, TypeOK
  <2> QED BY <1>16, <2>2, <2>3 DEF AdminAbilities, TypeOK
<1>17. CASE TestStart
  <2>1. test' = [at |-> test'.at, x |-> test'.x] /\ IsRow(test'.x)
    <3>1. CASE test' = [at |-> "running", x |-> row]
      BY <3>1, <1>r
    <3>2. CASE test' = [test EXCEPT !.at = "stuck"]
      <4>1. test = [at |-> test.at, x |-> test.x] /\ IsRow(test.x)
        BY DEF TypeOK
      <4>2. test' = [at |-> "stuck", x |-> test.x]
        BY <3>2, <4>1
      <4> QED BY <4>1, <4>2
    <3> QED BY <1>17, <3>1, <3>2 DEF TestStart
  <2>2. left' \in [events : Nat, faults : Nat]
    BY <1>17, <1>e, <1>f DEF TestStart
  <2> QED BY <1>17, <2>1, <2>2 DEF TestStart, TypeOK
<1>i. ASSUME NEW x, IsRow(x), InfoSaved(x)
      PROVE  IsRow(row') /\ tangled' \in BOOLEAN /\ left' \in [events : Nat, faults : Nat]
  BY <1>i, <1>f, InfoSavedRow DEF TypeOK
<1>18. ASSUME NEW n \in Nodes, PollRead(n) PROVE TypeOK'
  <2>1. IsRebuild([at |-> "poll", x |-> row, old |-> FALSE])
    BY DEF TypeOK, IsRebuild
  <2>2. reb' = [q \in Rebuilders |-> reb'[q]] /\ \A q \in Rebuilders : IsRebuild(reb'[q])
    BY <1>18, <2>1 DEF PollRead, TypeOK
  <2> QED BY <1>18, <1>e, <2>2 DEF PollRead, TypeOK
<1>19. ASSUME NEW n \in Nodes, PollSave(n) PROVE TypeOK'
  <2>1. n \in Rebuilders /\ IsRow(reb[n].x)
    BY DEF TypeOK, IsRebuild, Rebuilders
  <2>2. reb' = [q \in Rebuilders |-> reb'[q]] /\ \A q \in Rebuilders : IsRebuild(reb'[q])
    BY <1>19, <1>0 DEF PollSave, TypeOK
  <2>3. EnabledKeys(reb[n].x) \subseteq KeyTexts
    BY <2>1 DEF EnabledKeys, IsRow
  <2>4. inflight' \in [Nodes -> SUBSET KeyTexts]
    <3>1. PICK k \in KeyTexts : inflight' = [inflight EXCEPT ![n] = @ \cup {k}]
      BY <1>19, <2>3 DEF PollSave
    <3> QED BY <3>1 DEF TypeOK
  <2>5. InfoSaved(reb[n].x)
    BY <1>19 DEF PollSave
  <2>6. IsRow(row') /\ tangled' \in BOOLEAN /\ left' \in [events : Nat, faults : Nat]
    BY <2>1, <2>5, <1>i
  <2> QED BY <1>19, <2>2, <2>4, <2>6 DEF PollSave, TypeOK
<1>20. CASE TestPolls
  <2>1. IsRow(test.x) /\ test = [at |-> test.at, x |-> test.x]
    BY DEF TypeOK
  <2>2. InfoSaved(test.x) /\ test' = [test EXCEPT !.at = "polled"]
    BY <1>20 DEF TestPolls
  <2>3. IsRow(row') /\ tangled' \in BOOLEAN /\ left' \in [events : Nat, faults : Nat]
    BY <2>1, <2>2, <1>i
  <2>4. test' = [at |-> "polled", x |-> test.x]
    BY <2>1, <2>2
  <2>5. test' = [at |-> test'.at, x |-> test'.x] /\ IsRow(test'.x)
    BY <2>1, <2>4
  <2> QED BY <1>20, <2>3, <2>5 DEF TestPolls, TypeOK
<1>21. CASE UNCHANGED vars
  BY <1>21 DEF vars, TypeOK
<1> QED BY <1>1, <1>2, <1>3, <1>4, <1>5, <1>6, <1>7, <1>8, <1>9, <1>10, <1>11, <1>12, <1>13,
           <1>14, <1>15, <1>16, <1>17, <1>18, <1>19, <1>20, <1>21
        DEF Next, Poll, Update, Rebuild, AdminStep

\* The variables have their types (TypeOK) in every reachable state.
THEOREM TypeCorrect == Spec => []TypeOK
<1> QED BY InitTypes, StepTypes, PTL DEF Spec

-----------------------------------------------------------------------------
(* The lists. *)

Listing == DisabledLeavesLists /\ ListsKept

\* A write makes every snapshot that has been read old, and every cache but that of
\* its own process behind.
LEMMA WrittenLists ==
    ASSUME TypeOK, Listing, NEW n \in Rebuilders, NEW x, Written(n, x),
           UNCHANGED <<mode, listed>>, mode.cached,
           n \in Nodes /\ ~mode.multi => (listed[n] /\ x.status # "on" => behind[n])
    PROVE  /\ \A r \in Rebuilders : reb'[r].at = "read" => reb'[r].old
           /\ \A m \in Nodes : behind[m] => behind'[m]
           /\ DisabledLeavesLists'
<1>1. /\ row' = x
      /\ reb' = [r \in Rebuilders |-> [reb[r] EXCEPT !.old = @ \/ reb[r].at = "read"]]
      /\ behind' = [m \in Nodes |-> behind[m] \/ m # n \/ mode.multi]
  BY DEF Written
<1>2. \A r \in Rebuilders : reb'[r].at = "read" => reb'[r].old
  <2> TAKE r \in Rebuilders
  <2>1. IsRebuild(reb[r])
    BY DEF TypeOK
  <2>2. reb'[r] = [at |-> reb[r].at, x |-> reb[r].x, old |-> reb[r].old \/ reb[r].at = "read"]
    BY <1>1, <2>1 DEF IsRebuild
  <2>3. PICK y : y = reb'[r]
    OBVIOUS
  <2>4. y.at = reb[r].at /\ y.old = (reb[r].old \/ reb[r].at = "read")
    BY <2>2, <2>3
  <2>5. y.at = "read" => y.old
    BY <2>4
  <2> QED BY <2>3, <2>5
<1>3. \A m \in Nodes : behind[m] => behind'[m]
  BY <1>1
<1>4. \A m \in Nodes : listed[m] /\ x.status # "on" => behind'[m]
  BY <1>1
<1>5. DisabledLeavesLists'
  BY <1>1, <1>4 DEF DisabledLeavesLists
<1> QED BY <1>2, <1>3, <1>5

\* Writes of others than a process that is disabling keep the lists.
LEMMA WrittenListing ==
    ASSUME TypeOK, Listing, NEW n \in Rebuilders, NEW x, Written(n, x),
           UNCHANGED <<mode, listed>>,
           n \in Nodes /\ mode.cached /\ ~mode.multi => (listed[n] /\ x.status # "on" => behind[n]),
           \A m \in Nodes :
              upd'[m].at \in {"read", "save"} =>
                  upd'[m].at = upd[m].at /\ upd'[m].st = upd[m].st /\ upd'[m].x = upd[m].x
    PROVE  Listing'
<1>1. CASE ~mode.cached
  BY <1>1 DEF Listing, DisabledLeavesLists, ListsKept
<1>2. CASE mode.cached
  <2>1. /\ \A r \in Rebuilders : reb'[r].at = "read" => reb'[r].old
        /\ \A m \in Nodes : behind[m] => behind'[m]
        /\ DisabledLeavesLists'
    BY <1>2, WrittenLists
  <2>2. ListsKept'
    BY <1>2, <2>1 DEF Listing, ListsKept
  <2> QED BY <2>1, <2>2 DEF Listing
<1> QED BY <1>1, <1>2

\* Steps that neither write the row nor touch a list or an update.
LEMMA ElsewhereListing ==
    ASSUME Listing, UNCHANGED <<mode, row, listed, behind, upd>>,
           \A r \in Rebuilders : reb'[r] = reb[r] \/ reb'[r].x.status = row.status
    PROVE  Listing'
BY DEF Listing, DisabledLeavesLists, ListsKept

LEMMA InitListing == Init => Listing
<1> SUFFICES ASSUME Init PROVE Listing
  OBVIOUS
<1>1. row.status = "on"
  BY DEF Init, Row
<1>2. \A r \in Rebuilders : reb[r].at = "idle"
  BY DEF Init, NoRebuild
<1>3. \A n \in Nodes : upd[n].at = "idle"
  BY DEF Init, NoUpdate
<1> QED BY <1>1, <1>2, <1>3 DEF Listing, DisabledLeavesLists, ListsKept

LEMMA StepListing == TypeOK /\ Listing /\ [Next]_vars => Listing'
<1> SUFFICES ASSUME TypeOK, Listing, [Next]_vars PROVE Listing'
  OBVIOUS
<1>1. ASSUME NEW n \in Nodes, Select(n) \/ TestEnds(n) PROVE Listing'
  BY <1>1, ElsewhereListing DEF Select, TestEnds
<1>2. ASSUME NEW n \in Nodes, NEW k, RequestFails(n, k) PROVE Listing'
  BY <1>2, ElsewhereListing DEF RequestFails
<1>3. ASSUME NEW n \in Nodes, UpdateCache(n) PROVE Listing'
  <2>1. PICK p \in pending[n] : CacheTakes(n, p) /\ UNCHANGED <<mode, row, reb, behind>>
    BY <1>3 DEF UpdateCache
  <2>2. Begun(p).at = "read" /\ Begun(p).st = p.st
    BY BegunIsUpdate DEF TypeOK, KeyTexts
  <2>3. CASE ~mode.cached
    BY <2>1, <2>3 DEF Listing, DisabledLeavesLists, ListsKept
  <2>4. CASE mode.cached /\ mode.multi
    <3>1. UNCHANGED listed
      BY <2>1, <2>4 DEF CacheTakes
    <3> QED BY <2>1, <2>4, <3>1 DEF Listing, DisabledLeavesLists, ListsKept
  <2>5. CASE mode.cached /\ ~mode.multi /\ cache[n].status = p.st
    <3>1. UNCHANGED <<listed, upd>>
      BY <2>1, <2>5 DEF CacheTakes
    <3> QED BY <2>1, <3>1 DEF Listing, DisabledLeavesLists, ListsKept
  <2>6. CASE mode.cached /\ ~mode.multi /\ cache[n].status # p.st
    <3>1. listed' = Delisted(n, p.st) /\ upd' = [upd EXCEPT ![n] = Begun(p)]
      BY <2>1, <2>6 DEF CacheTakes
    <3>2. \A m \in Nodes : listed'[m] => listed[m]
      BY <3>1 DEF Delisted, TypeOK
    <3>3. p.st # "on" => ~listed'[n]
      BY <3>1 DEF Delisted, TypeOK
    <3>4. upd'[n] = Begun(p) /\ \A m \in Nodes \ {n} : upd'[m] = upd[m]
      BY <3>1 DEF TypeOK
    <3>5. DisabledLeavesLists'
      BY <2>1, <3>2 DEF Listing, DisabledLeavesLists
    <3>6. ListsKept'
      <4>1. ASSUME NEW m \in Nodes
            PROVE  /\ upd'[m].at \in {"read", "save"} /\ upd'[m].st # "on" /\ listed'[m] => behind'[m]
                   /\ upd'[m].at = "save" => upd'[m].x.status = upd'[m].st
        <5>1. CASE m = n
          BY <5>1, <3>4, <3>3, <2>2
        <5>2. CASE m # n
          BY <5>2, <2>6, <3>4, <3>2, <2>1 DEF Listing, ListsKept
        <5> QED BY <5>1, <5>2
      <4> QED BY <4>1, <2>1 DEF Listing, ListsKept
    <3> QED BY <3>5, <3>6 DEF Listing
  <2> QED BY <2>3, <2>4, <2>5, <2>6
<1>4. ASSUME NEW n \in Nodes, UpdateRead(n) PROVE Listing'
  <2> DEFINE u == upd[n]
             v == [u EXCEPT !.at = "save", !.x = Changed(u), !.ab = (Changed(u).status # row.status)]
  <2>1. /\ u.at = "read" /\ UNCHANGED <<mode, row, listed, behind, reb>>
        /\ upd' = [upd EXCEPT ![n] = NoUpdate] \/ upd' = [upd EXCEPT ![n] = v]
    BY <1>4 DEF UpdateRead
  <2>2. v = [at |-> "save", st |-> u.st, key |-> u.key, x |-> Changed(u),
             ab |-> (Changed(u).status # row.status)]
    <3>1. PICK y : y = v
      OBVIOUS
    <3>2. u = [at |-> u.at, st |-> u.st, key |-> u.key, x |-> u.x, ab |-> u.ab]
      BY DEF TypeOK, IsUpdate
    <3> HIDE DEF u
    <3>3. y = [at |-> "save", st |-> u.st, key |-> u.key, x |-> Changed(u),
               ab |-> (Changed(u).status # row.status)]
      BY <3>1, <3>2
    <3> QED BY <3>1, <3>3
  <2>3. ~mode.multi => Changed(u).status = u.st
    <3>1. IsRow(row) /\ u.st \in Statuses
      BY DEF TypeOK, IsUpdate, Statuses
    <3>2. [row EXCEPT !.status = u.st]
            = [status |-> u.st, off |-> row.off, keys |-> row.keys, size |-> row.size]
      BY <3>1, StatusChanged
    <3>3. PICK y : y = [row EXCEPT !.status = u.st]
      OBVIOUS
    <3>4. y.status = u.st
      BY <3>2, <3>3
    <3> QED BY <3>3, <3>4 DEF Changed
  <2> HIDE DEF u, v
  <2>4. /\ \A m \in Nodes \ {n} : upd'[m] = upd[m]
        /\ upd'[n] = NoUpdate \/ upd'[n] = v
    BY <2>1 DEF TypeOK
  <2>5. ASSUME mode.cached, ~mode.multi, NEW m \in Nodes
        PROVE  /\ upd'[m].at \in {"read", "save"} /\ upd'[m].st # "on" /\ listed'[m] => behind'[m]
               /\ upd'[m].at = "save" => upd'[m].x.status = upd'[m].st
    <3>1. CASE m # n
      BY <2>1, <2>4, <2>5, <3>1 DEF Listing, ListsKept
    <3>2. CASE m = n /\ upd'[n] = NoUpdate
      BY <3>2 DEF NoUpdate
    <3>3. CASE m = n /\ upd'[n] = v
      <4>1. u.st # "on" /\ listed[n] => behind[n]
        BY <2>1, <2>5 DEF u, Listing, ListsKept
      <4>2. v.at = "save" /\ v.st = u.st /\ v.x = Changed(u)
        BY <2>2
      <4> QED BY <3>3, <4>1, <4>2, <2>1, <2>3, <2>5
    <3> QED BY <2>4, <3>1, <3>2, <3>3
  <2> QED BY <2>1, <2>5 DEF Listing, DisabledLeavesLists, ListsKept
<1>5. ASSUME NEW n \in Nodes, UpdateSave(n) PROVE Listing'
  <2> DEFINE u == upd[n]
  <2>1. \A m \in Nodes :
          upd'[m].at \in {"read", "save"} =>
              upd'[m].at = upd[m].at /\ upd'[m].st = upd[m].st /\ upd'[m].x = upd[m].x
    <3>1. \A m \in Nodes \ {n} : upd'[m] = upd[m]
      BY <1>5 DEF UpdateSave, TypeOK
    <3>2. upd'[n].at \in {"idle", "ability"}
      <4>1. upd'[n] = NoUpdate \/ upd'[n] = [u EXCEPT !.at = "ability"]
        BY <1>5 DEF UpdateSave, TypeOK
      <4>2. u = [at |-> u.at, st |-> u.st, key |-> u.key, x |-> u.x, ab |-> u.ab]
        BY DEF TypeOK, IsUpdate
      <4> HIDE DEF u
      <4> QED BY <4>1, <4>2 DEF NoUpdate
    <3> QED BY <3>1, <3>2
  <2>2. CASE Written(n, [u.x EXCEPT !.keys = row.keys])
    <3>1. mode.cached /\ ~mode.multi =>
            (listed[n] /\ [u.x EXCEPT !.keys = row.keys].status # "on" => behind[n])
      <4>1. IsRow(u.x) /\ row.keys \in Seq(KeyTexts) /\ row.keys # <<>>
        BY DEF TypeOK, IsUpdate, IsRow, KeyTexts
      <4>2. [u.x EXCEPT !.keys = row.keys]
              = [status |-> u.x.status, off |-> u.x.off, keys |-> row.keys, size |-> u.x.size]
        BY <4>1, KeysChanged
      <4>3. PICK y : y = [u.x EXCEPT !.keys = row.keys]
        OBVIOUS
      <4>4. y.status = u.x.status
        BY <4>2, <4>3
      <4>5. u.at = "save"
        BY <1>5 DEF UpdateSave
      <4>6. mode.cached /\ ~mode.multi => (listed[n] /\ u.x.status # "on" => behind[n])
        BY <4>5 DEF Listing, ListsKept
      <4> QED BY <4>3, <4>4, <4>6
    <3>2. UNCHANGED <<mode, listed>> /\ n \in Rebuilders
      BY <1>5 DEF UpdateSave, Rebuilders
    <3> QED BY <2>1, <2>2, <3>1, <3>2, WrittenListing
  <2>3. CASE UNCHANGED <<row, reb, behind, tangled>>
    <3>1. UNCHANGED <<mode, listed>>
      BY <1>5 DEF UpdateSave
    <3> QED BY <2>1, <2>3, <3>1 DEF Listing, DisabledLeavesLists, ListsKept
  <2> QED BY <1>5, <2>2, <2>3 DEF UpdateSave
<1>6. ASSUME NEW n \in Nodes, UpdateAbility(n) PROVE Listing'
  <2>1. /\ UNCHANGED <<mode, row, listed, behind, reb>>
        /\ upd' = [upd EXCEPT ![n] = NoUpdate]
    BY <1>6 DEF UpdateAbility
  <2>2. \A m \in Nodes : upd'[m] = upd[m] \/ upd'[m].at = "idle"
    BY <2>1 DEF TypeOK, NoUpdate
  <2> QED BY <2>1, <2>2 DEF Listing, DisabledLeavesLists, ListsKept
<1>7. ASSUME NEW r \in Rebuilders, RebuildRead(r) PROVE Listing'
  <2>1. /\ UNCHANGED <<mode, row, listed, behind, upd>>
        /\ reb' = [reb EXCEPT ![r] = [at |-> "read", x |-> row, old |-> FALSE]]
    BY <1>7 DEF RebuildRead
  <2>2. \A q \in Rebuilders : reb'[q] = reb[q] \/ reb'[q].x.status = row.status
    BY <2>1 DEF TypeOK
  <2> QED BY <2>1, <2>2, ElsewhereListing
<1>8. ASSUME NEW r \in Rebuilders, RebuildPublish(r) PROVE Listing'
  <2>1. /\ reb[r].at = "read" /\ UNCHANGED <<mode, row, upd>>
        /\ listed' = [listed EXCEPT ![Home(r)] = (reb[r].x.status = "on")]
        /\ behind' = [behind EXCEPT ![Home(r)] = Overtaken(r)]
        /\ reb' = [reb EXCEPT ![r] = NoRebuild]
    BY <1>8 DEF RebuildPublish
  <2>2. Home(r) \in Nodes
    BY DEF Home, Rebuilders, TypeOK, IsAdmin
  <2>3. /\ \A m \in Nodes \ {Home(r)} : listed'[m] = listed[m] /\ behind'[m] = behind[m]
        /\ listed'[Home(r)] = (reb[r].x.status = "on") /\ behind'[Home(r)] = Overtaken(r)
    BY <2>1, <2>2 DEF TypeOK
  <2>4. \A q \in Rebuilders : reb'[q] = reb[q] \/ reb'[q].at = "idle"
    BY <2>1 DEF TypeOK, NoRebuild
  <2>5. DisabledLeavesLists'
    <3>1. mode.cached /\ reb[r].x.status = "on" /\ row.status # "on" => Overtaken(r)
      BY <2>1 DEF Listing, ListsKept, Overtaken
    <3> QED BY <2>1, <2>3, <3>1 DEF Listing, DisabledLeavesLists
  <2>6. ListsKept'
    <3>1. ASSUME mode.cached, ~mode.multi, NEW m \in Nodes
          PROVE  upd[m].at \in {"read", "save"} /\ upd[m].st # "on" /\ listed'[m] => behind'[m]
      <4>1. CASE m = Home(r)
        BY <4>1, <2>3 DEF Overtaken
      <4>2. CASE m # Home(r)
        BY <4>2, <2>3, <3>1 DEF Listing, ListsKept
      <4> QED BY <4>1, <4>2
    <3> QED BY <3>1, <2>1, <2>4 DEF Listing, ListsKept
  <2> QED BY <2>5, <2>6 DEF Listing
<1>9. ASSUME NEW x, AdminWrites(x), UNCHANGED <<mode, listed, upd>> PROVE Listing'
  <2>1. Written(Admin, x) /\ Admin \in Rebuilders /\ Admin \notin Nodes
    BY <1>9 DEF AdminWrites, Rebuilders
  <2> QED BY <1>9, <2>1, WrittenListing
<1>10. CASE AdminKeys
  BY <1>9, <1>10 DEF AdminKeys
<1>11. CASE AdminDeleteKeys
  BY <1>9, <1>11 DEF AdminDeleteKeys, KeepOnly
<1>12. CASE AdminForm
  BY <1>9, <1>12 DEF AdminForm
<1>13. CASE AdminTag
  BY <1>9, <1>13 DEF AdminTag
<1>14. CASE AdminRead \/ AdminReload \/ AdminAbilities \/ TestStart \/ UNCHANGED vars
  BY <1>14, ElsewhereListing DEF AdminRead, AdminReload, AdminAbilities, TestStart, vars
<1>15. ASSUME ~mode.cached, UNCHANGED mode PROVE Listing'
  BY <1>15 DEF Listing, DisabledLeavesLists, ListsKept
<1>16. ASSUME NEW n \in Nodes, Poll(n) PROVE Listing'
  <2>1. CASE PollRead(n)
    BY <2>1, <1>15 DEF PollRead
  <2>2. CASE PollSave(n)
    <3>1. PICK x : x.status = row.status /\ row' = x
      <4>1. n \in Rebuilders /\ IsRow(row) /\ IsRow(reb[n].x)
        BY DEF TypeOK, IsRebuild, Rebuilders
      <4>2. row'.status = row.status
        BY <2>2, <4>1, InfoSavedRow DEF PollSave
      <4> QED BY <4>2
    <3>2. \A q \in Rebuilders : reb'[q] = reb[q] \/ reb'[q].at = "idle"
      BY <2>2 DEF PollSave, TypeOK, NoRebuild
    <3> QED BY <2>2, <3>1, <3>2 DEF PollSave, Listing, DisabledLeavesLists, ListsKept
  <2> QED BY <1>16, <2>1, <2>2 DEF Poll
<1>17. CASE TestPolls
  BY <1>17, <1>15 DEF TestPolls
<1> QED BY <1>1, <1>2, <1>3, <1>4, <1>5, <1>6, <1>7, <1>8, <1>10, <1>11, <1>12, <1>13, <1>14,
           <1>16, <1>17 DEF Next, Update, Rebuild, AdminStep

\* A process that has disabled a channel of one key itself lists it again only while
\* it is behind (DisabledLeavesLists).
THEOREM ListsCorrect == Spec => []DisabledLeavesLists
<1>1. Init => TypeOK /\ Listing
  BY InitTypes, InitListing
<1>2. TypeOK /\ Listing /\ [Next]_vars => (TypeOK /\ Listing)'
  BY StepTypes, StepListing
<1>3. Listing => DisabledLeavesLists
  BY DEF Listing
<1> QED BY <1>1, <1>2, <1>3, PTL DEF Spec

-----------------------------------------------------------------------------
(* The keys. *)

KeyTruth == OnlyFailedKeysDisabled /\ KeysKept

\* What a step that carries rows over has to show about the rows it makes.
LEMMA EarnedGrows ==
    ASSUME NEW x, Earned(x), mode' = mode, failed \subseteq failed'
    PROVE  Earned(x)'
BY DEF Earned, Original

LEMMA EarnedSame ==
    ASSUME NEW x, NEW y, Earned(x), y.keys = x.keys,
           \A i \in DOMAIN y.off : y.off[i] = "auto" => i \in DOMAIN x.off /\ x.off[i] = "auto"
    PROVE  Earned(y)
BY DEF Earned

\* A key that has failed is disabled where it stands.
LEMMA EarnedUpdated ==
    ASSUME NEW x, IsRow(x), Earned(x), NEW k, NEW st \in {"on", "auto"},
           st = "auto" => k \in failed \cap Texts(Original)
    PROVE  Earned(KeyUpdated(x, k, st))
<1> DEFINE i == Position(x, k)
           y == KeyUpdated(x, k, st)
<1>1. /\ y.keys = x.keys
      /\ y.off = IF st = "on" THEN Without(x.off, i) ELSE Off(x.off, i, st)
  BY KeyUpdatedIsRow
<1>2. st = "auto" => x.keys[i] = k
  BY PositionFound DEF Earned, Texts
<1> HIDE DEF y, i
<1>3. ASSUME st = "on" PROVE Earned(y)
  <2>1. y.off = [j \in DOMAIN x.off \ {i} |-> x.off[j]]
    BY <1>1, <1>3 DEF Without
  <2>2. \A j \in DOMAIN y.off : j \in DOMAIN x.off /\ y.off[j] = x.off[j]
    BY <2>1
  <2> QED BY <1>1, <2>2, EarnedSame
<1>4. ASSUME st = "auto" PROVE Earned(y)
  <2>1. \A j \in DOMAIN y.off : y.off[j] = "auto" => x.keys[j] \in failed
    <3> TAKE j \in DOMAIN y.off
    <3>1. j = i => x.keys[j] \in failed
      BY <1>2, <1>4
    <3>2. j # i => j \in DOMAIN x.off /\ y.off[j] = x.off[j]
      BY <1>1, <1>4 DEF Off
    <3> QED BY <3>1, <3>2 DEF Earned
  <2>2. y.keys = Original
    BY <1>1 DEF Earned
  <2> QED BY <2>1, <2>2, <1>1 DEF Earned
<1> QED BY <1>3, <1>4 DEF y

\* The keys a request may use are the channel's.
LEMMA UsableTexts ==
    ASSUME NEW x, IsRow(x), x.keys = Original
    PROVE  Usable(x) \subseteq Texts(Original) \cup {NoKey}
<1>1. 1 \in DOMAIN x.keys
  BY DEF IsRow
<1> QED BY <1>1 DEF Usable, EnabledKeys, Texts

LEMMA InitKeys == Init => KeyTruth
<1> SUFFICES ASSUME Init PROVE KeyTruth
  OBVIOUS
<1>1. /\ row.keys = Original /\ DOMAIN row.off = {}
  BY DEF Init, Row, NoOff, Original
<1>2. Earned(row)
  BY <1>1 DEF Earned
<1>3. \A n \in Nodes : cache[n] = row /\ pending[n] = {} /\ inflight[n] = {}
  BY DEF Init
<1>4. /\ \A n \in Nodes : upd[n].at = "idle"
      /\ \A r \in Rebuilders : reb[r].at = "idle"
      /\ adm.at = "idle" /\ test.at = "idle"
  BY DEF Init, NoUpdate, NoRebuild
<1> QED BY <1>1, <1>2, <1>3, <1>4 DEF KeyTruth, OnlyFailedKeysDisabled, KeysKept, Earned

\* KeysKept gives the property: every row it speaks of has the keys of the start.
LEMMA KeysKeptIsEnough == KeysKept => OnlyFailedKeysDisabled
BY DEF KeysKept, OnlyFailedKeysDisabled, Earned

\* The keys of a row made by UpdateSave and by the writes of administrators.
LEMMA WrittenKeys ==
    ASSUME TypeOK, KeysKept, ~blind', NEW n, NEW x, Written(n, x), Earned(x),
           UNCHANGED <<mode, cache, pending, inflight, failed, blind, test>>,
           \A m \in Nodes :
              /\ upd'[m].at = "save" => upd[m].at = "save" /\ upd'[m].x = upd[m].x
              /\ upd'[m].at = "read" =>
                    upd[m].at = "read" /\ upd'[m].st = upd[m].st /\ upd'[m].key = upd[m].key,
           adm'.at = "write" => adm' = adm
    PROVE  KeysKept'
<1>1. /\ row' = x
      /\ reb' = [r \in Rebuilders |-> [reb[r] EXCEPT !.old = @ \/ reb[r].at = "read"]]
  BY DEF Written
<1>2. \A r \in Rebuilders : reb'[r].at = reb[r].at /\ reb'[r].x = reb[r].x
  <2> TAKE r \in Rebuilders
  <2>1. IsRebuild(reb[r])
    BY DEF TypeOK
  <2>2. PICK y : y = reb'[r]
    OBVIOUS
  <2>3. y = [at |-> reb[r].at, x |-> reb[r].x, old |-> reb[r].old \/ reb[r].at = "read"]
    BY <1>1, <2>1, <2>2 DEF IsRebuild
  <2> QED BY <2>2, <2>3
<1>3. \A y : Earned(y)' <=> Earned(y)
  BY DEF Earned, Original
<1>4. Original' = Original
  BY DEF Original
<1> QED BY <1>1, <1>2, <1>3, <1>4 DEF KeysKept

LEMMA StepKeys == TypeOK /\ KeysKept /\ [Next]_vars => KeysKept'
<1> SUFFICES ASSUME TypeOK, KeysKept, [Next]_vars, ~blind' PROVE KeysKept'
  BY DEF KeysKept
<1>b. ~blind
  BY DEF Next, Poll, Update, Rebuild, AdminStep, Select, RequestFails, UpdateCache, UpdateRead,
         UpdateSave, UpdateAbility, RebuildRead, RebuildPublish, AdminRead, AdminTag, AdminKeys,
         AdminDeleteKeys, AdminForm, AdminReload, AdminAbilities, TestStart, TestEnds,
         PollRead, PollSave, TestPolls, InfoSaved, vars, TypeOK
<1>k. /\ Earned(row) /\ \A n \in Nodes : Earned(cache[n])
      /\ \A n \in Nodes :
           /\ upd[n].at = "save" => Earned(upd[n].x)
           /\ upd[n].at = "read" /\ upd[n].st = "auto" => upd[n].key \in failed \cap Texts(Original)
           /\ \A p \in pending[n] : p.st = "auto" => p.key \in failed \cap Texts(Original)
           /\ inflight[n] \subseteq Texts(Original) \cup {NoKey}
      /\ \A r \in Rebuilders : reb[r].at # "idle" => Earned(reb[r].x)
      /\ adm.at = "write" => Earned(adm.x)
      /\ test.at \in {"running", "polled"} => Earned(test.x)
  BY <1>b DEF KeysKept
<1>m. mode' = mode
  BY DEF Next, Poll, Update, Rebuild, AdminStep, Select, RequestFails, UpdateCache, UpdateRead,
         UpdateSave, UpdateAbility, RebuildRead, RebuildPublish, AdminRead, AdminTag, AdminKeys,
         AdminDeleteKeys, AdminForm, AdminReload, AdminAbilities, TestStart, TestEnds,
         PollRead, PollSave, TestPolls, InfoSaved, vars
<1>o. Original' = Original
  BY <1>m DEF Original
<1>g. \A x : failed \subseteq failed' /\ Earned(x) => Earned(x)'
  BY <1>o DEF Earned
<1>t. \A x : IsRow(x) /\ x.keys = Original => Usable(x) \subseteq Texts(Original) \cup {NoKey}
  BY UsableTexts
<1>1. ASSUME NEW n \in Nodes, Select(n) PROVE KeysKept'
  <2>1. Usable(IF mode.cached THEN cache[n] ELSE row) \subseteq Texts(Original) \cup {NoKey}
    BY <1>k, <1>t DEF TypeOK, Earned
  <2>2. \A m \in Nodes : inflight'[m] \subseteq Texts(Original) \cup {NoKey}
    BY <1>1, <1>k, <2>1 DEF Select, TypeOK
  <2>3. UNCHANGED <<row, cache, pending, upd, reb, adm, test, failed, blind>>
    BY <1>1 DEF Select
  <2> QED BY <1>k, <1>o, <1>g, <2>2, <2>3 DEF KeysKept
<1>2. ASSUME NEW n \in Nodes, NEW k, RequestFails(n, k) PROVE KeysKept'
  <2>1. k \in Texts(Original)
    BY <1>2, <1>k DEF RequestFails
  <2>2. \A m \in Nodes : inflight'[m] \subseteq Texts(Original) \cup {NoKey}
    BY <1>2, <1>k DEF RequestFails, TypeOK
  <2>3. \A m \in Nodes : \A p \in pending'[m] : p.st = "auto" => p.key \in failed' \cap Texts(Original)
    <3>1. \A m \in Nodes : \A p \in pending'[m] : p \in pending[m] \/ p.key = k
      BY <1>2 DEF RequestFails, TypeOK
    <3> QED BY <1>2, <1>k, <2>1, <3>1 DEF RequestFails
  <2>4. failed \subseteq failed' /\ UNCHANGED <<row, cache, upd, reb, adm, test>>
    BY <1>2 DEF RequestFails
  <2> QED BY <1>k, <1>o, <1>g, <2>2, <2>3, <2>4 DEF KeysKept
<1>3. ASSUME NEW n \in Nodes, UpdateCache(n) PROVE KeysKept'
  <2>1. PICK p \in pending[n] : pending' = [pending EXCEPT ![n] = @ \ {p}] /\ CacheTakes(n, p)
    BY <1>3 DEF UpdateCache
  <2>2. p \in [st : {"on", "auto"}, key : KeyTexts] /\ IsRow(cache[n])
    BY DEF TypeOK, KeyTexts
  <2>3. /\ p.st \in {"on", "auto"}
        /\ p.st = "auto" => p.key \in failed \cap Texts(Original)
    BY <1>k, <2>2
  <2>4. \A m \in Nodes : Earned(cache'[m])
    <3>1. CASE cache' = cache
      BY <3>1, <1>k
    <3>2. CASE cache' = [cache EXCEPT ![n] = KeyUpdated(@, p.key, p.st)]
      <4>1. Earned(KeyUpdated(cache[n], p.key, p.st))
        BY <1>k, <2>2, <2>3, EarnedUpdated
      <4> QED BY <3>2, <4>1, <1>k DEF TypeOK
    <3>3. CASE cache' = [cache EXCEPT ![n].status = p.st]
      <4>1. [cache[n] EXCEPT !.status = p.st]
              = [status |-> p.st, off |-> cache[n].off, keys |-> cache[n].keys, size |-> cache[n].size]
        BY <2>2, <2>3, StatusChanged DEF Statuses
      <4>2. PICK y : y = [cache[n] EXCEPT !.status = p.st]
        OBVIOUS
      <4>3. y.keys = cache[n].keys /\ y.off = cache[n].off
        BY <4>1, <4>2
      <4>4. Earned(y)
        BY <4>3, <1>k, EarnedSame
      <4>5. \A m \in Nodes : cache'[m] = IF m = n THEN y ELSE cache[m]
        BY <3>3, <4>2 DEF TypeOK
      <4> QED BY <4>4, <4>5, <1>k
    <3> QED BY <2>1, <3>1, <3>2, <3>3 DEF CacheTakes
  <2>5. \A m \in Nodes : upd'[m] = upd[m] \/ upd'[m] = Begun(p)
    <3>1. upd' = upd \/ upd' = [upd EXCEPT ![n] = Begun(p)]
      BY <2>1 DEF CacheTakes
    <3> QED BY <3>1 DEF TypeOK
  <2>6. Begun(p).at = "read" /\ Begun(p).st = p.st /\ Begun(p).key = p.key
    BY <2>2, BegunIsUpdate
  <2>7. \A m \in Nodes : pending'[m] \subseteq pending[m]
    BY <2>1 DEF TypeOK
  <2>8. UNCHANGED <<row, reb, adm, test, inflight, failed>>
    BY <1>3 DEF UpdateCache
  <2>9. \A m \in Nodes :
          /\ upd'[m].at = "save" => Earned(upd'[m].x)
          /\ upd'[m].at = "read" /\ upd'[m].st = "auto" => upd'[m].key \in failed \cap Texts(Original)
    BY <1>k, <2>3, <2>5, <2>6
  <2> QED BY <1>k, <1>o, <1>g, <2>4, <2>7, <2>8, <2>9 DEF KeysKept
<1>4. ASSUME NEW n \in Nodes, UpdateRead(n) PROVE KeysKept'
  <2> DEFINE u == upd[n]
             v == [u EXCEPT !.at = "save", !.x = Changed(u), !.ab = (Changed(u).status # row.status)]
  <2>1. /\ u.at = "read" /\ UNCHANGED <<row, cache, pending, reb, adm, test, inflight, failed>>
        /\ upd' = [upd EXCEPT ![n] = NoUpdate] \/ upd' = [upd EXCEPT ![n] = v]
    BY <1>4 DEF UpdateRead
  <2>2. v.at = "save" /\ v.x = Changed(u)
    <3>1. PICK y : y = v
      OBVIOUS
    <3>2. u = [at |-> u.at, st |-> u.st, key |-> u.key, x |-> u.x, ab |-> u.ab]
      BY DEF TypeOK, IsUpdate
    <3> HIDE DEF u
    <3>3. y.at = "save" /\ y.x = Changed(u)
      BY <3>1, <3>2
    <3> QED BY <3>1, <3>3
  <2>3. Earned(Changed(u))
    <3>1. IsRow(row) /\ u.st \in {"on", "auto"} /\ u.st \in Statuses
      BY DEF TypeOK, IsUpdate, Statuses
    <3>2. Earned(KeyUpdated(row, u.key, u.st))
      BY <1>k, <2>1, <3>1, EarnedUpdated
    <3>3. [row EXCEPT !.status = u.st]
            = [status |-> u.st, off |-> row.off, keys |-> row.keys, size |-> row.size]
      BY <3>1, StatusChanged
    <3>4. PICK y : y = [row EXCEPT !.status = u.st]
      OBVIOUS
    <3>5. y.keys = row.keys /\ y.off = row.off
      BY <3>3, <3>4
    <3>6. Earned(y)
      BY <3>5, <1>k, EarnedSame
    <3> QED BY <3>2, <3>4, <3>6 DEF Changed
  <2> HIDE DEF u, v
  <2>4. /\ \A m \in Nodes \ {n} : upd'[m] = upd[m]
        /\ upd'[n] = NoUpdate \/ upd'[n] = v
    BY <2>1 DEF TypeOK
  <2>5. \A m \in Nodes :
          /\ upd'[m].at = "save" => Earned(upd'[m].x)
          /\ upd'[m].at = "read" /\ upd'[m].st = "auto" => upd'[m].key \in failed \cap Texts(Original)
    BY <1>k, <2>2, <2>3, <2>4 DEF NoUpdate
  <2> QED BY <1>k, <1>o, <1>g, <2>1, <2>5 DEF KeysKept
<1>5. ASSUME NEW n \in Nodes, UpdateSave(n) PROVE KeysKept'
  <2> DEFINE u == upd[n]
  <2>1. /\ u.at = "save" /\ UNCHANGED <<mode, cache, pending, adm, test, inflight, failed, blind>>
        /\ Written(n, [u.x EXCEPT !.keys = row.keys]) \/ UNCHANGED <<row, reb>>
    BY <1>5 DEF UpdateSave
  <2>2. \A m \in Nodes : upd'[m] = upd[m] \/ upd'[m].at \in {"idle", "ability"}
    <3>1. \A m \in Nodes \ {n} : upd'[m] = upd[m]
      BY <1>5 DEF UpdateSave, TypeOK
    <3>2. upd'[n].at \in {"idle", "ability"}
      <4>1. upd'[n] = NoUpdate \/ upd'[n] = [u EXCEPT !.at = "ability"]
        BY <1>5 DEF UpdateSave, TypeOK
      <4>2. u = [at |-> u.at, st |-> u.st, key |-> u.key, x |-> u.x, ab |-> u.ab]
        BY DEF TypeOK, IsUpdate
      <4> HIDE DEF u
      <4> QED BY <4>1, <4>2 DEF NoUpdate
    <3> QED BY <3>1, <3>2
  <2>3. CASE Written(n, [u.x EXCEPT !.keys = row.keys])
    <3>1. IsRow(u.x) /\ row.keys \in Seq(KeyTexts) /\ row.keys # <<>>
      BY DEF TypeOK, IsUpdate, IsRow, KeyTexts
    <3>2. [u.x EXCEPT !.keys = row.keys]
            = [status |-> u.x.status, off |-> u.x.off, keys |-> row.keys, size |-> u.x.size]
      BY <3>1, KeysChanged
    <3>3. PICK y : y = [u.x EXCEPT !.keys = row.keys]
      OBVIOUS
    <3>4. y.keys = row.keys /\ y.off = u.x.off
      BY <3>2, <3>3
    <3>5. Earned(u.x) /\ u.x.keys = row.keys
      BY <1>k, <2>1 DEF Earned
    <3>6. Earned(y)
      BY <3>4, <3>5, EarnedSame
    <3> HIDE DEF u
    <3>7. Written(n, y)
      BY <2>3, <3>3
    <3> QED BY <2>1, <2>2, <3>6, <3>7, WrittenKeys
  <2>4. CASE UNCHANGED <<row, reb>>
    BY <2>1, <2>2, <2>4, <1>k, <1>o, <1>g DEF KeysKept
  <2> QED BY <2>1, <2>3, <2>4
<1>6. ASSUME NEW n \in Nodes, UpdateAbility(n) PROVE KeysKept'
  <2>1. /\ UNCHANGED <<row, cache, pending, reb, adm, test, inflight, failed>>
        /\ upd' = [upd EXCEPT ![n] = NoUpdate]
    BY <1>6 DEF UpdateAbility
  <2>2. \A m \in Nodes : upd'[m] = upd[m] \/ upd'[m].at = "idle"
    BY <2>1 DEF TypeOK, NoUpdate
  <2> QED BY <1>k, <1>o, <1>g, <2>1, <2>2 DEF KeysKept
<1>7. ASSUME NEW r \in Rebuilders, RebuildRead(r) PROVE KeysKept'
  <2>1. /\ UNCHANGED <<row, cache, pending, upd, adm, test, inflight, failed>>
        /\ reb' = [reb EXCEPT ![r] = [at |-> "read", x |-> row, old |-> FALSE]]
    BY <1>7 DEF RebuildRead
  <2>2. \A q \in Rebuilders : reb'[q] = reb[q] \/ reb'[q].x = row
    BY <2>1 DEF TypeOK
  <2> QED BY <1>k, <1>o, <1>g, <2>1, <2>2 DEF KeysKept
<1>8. ASSUME NEW r \in Rebuilders, RebuildPublish(r) PROVE KeysKept'
  <2>1. /\ reb[r].at = "read" /\ UNCHANGED <<row, pending, upd, test, inflight, failed>>
        /\ cache' = [cache EXCEPT ![Home(r)] = reb[r].x]
        /\ reb' = [reb EXCEPT ![r] = NoRebuild]
        /\ adm' = adm \/ adm' = [adm EXCEPT !.at = "idle", !.x = Blank]
    BY <1>8 DEF RebuildPublish
  <2>2. \A m \in Nodes : cache'[m] = cache[m] \/ cache'[m] = reb[r].x
    BY <2>1 DEF TypeOK
  <2>3. \A q \in Rebuilders : reb'[q] = reb[q] \/ reb'[q].at = "idle"
    BY <2>1 DEF TypeOK, NoRebuild
  <2>4. adm'.at = "write" => adm' = adm
    BY <2>1 DEF TypeOK, IsAdmin
  <2> QED BY <1>k, <1>o, <1>g, <2>1, <2>2, <2>3, <2>4 DEF KeysKept
<1>9. ASSUME NEW n \in Nodes, TestEnds(n) PROVE KeysKept'
  <2>1. test.at \in {"running", "polled"} /\ test'.at = "idle"
        /\ UNCHANGED <<row, cache, upd, reb, adm, inflight>>
    BY <1>9 DEF TestEnds
  <2>2. Usable(test.x) \subseteq Texts(Original) \cup {NoKey}
    BY <1>k, <1>t, <2>1 DEF TypeOK, Earned
  <2>3. PICK k \in Texts(Original) \cup {NoKey} :
          \/ /\ pending' = [pending EXCEPT ![n] = @ \cup {[st |-> "auto", key |-> k]}]
             /\ failed' = failed \cup {k} /\ blind' = (blind \/ k = NoKey)
          \/ /\ pending' = [pending EXCEPT ![n] = @ \cup {[st |-> "on", key |-> k]}]
             /\ UNCHANGED <<failed, blind>>
          \/ UNCHANGED <<pending, failed, blind>>
    BY <1>9, <2>2 DEF TestEnds
  <2>4. failed \subseteq failed'
    BY <2>3
  <2>5. \A m \in Nodes : \A p \in pending'[m] :
          p \in pending[m] \/ p.st = "on" \/ (p.key = k /\ k # NoKey /\ k \in failed')
    <3>1. CASE /\ pending' = [pending EXCEPT ![n] = @ \cup {[st |-> "auto", key |-> k]}]
               /\ failed' = failed \cup {k} /\ blind' = (blind \/ k = NoKey)
      <4>1. k # NoKey /\ k \in failed'
        BY <3>1
      <4>2. \A m \in Nodes : \A p \in pending'[m] : p \in pending[m] \/ p.key = k
        BY <3>1 DEF TypeOK
      <4> QED BY <4>1, <4>2
    <3>2. CASE pending' = [pending EXCEPT ![n] = @ \cup {[st |-> "on", key |-> k]}]
      BY <3>2 DEF TypeOK
    <3>3. CASE UNCHANGED pending
      BY <3>3
    <3> QED BY <2>3, <3>1, <3>2, <3>3
  <2>6. \A m \in Nodes : \A p \in pending'[m] : p.st = "auto" => p.key \in failed' \cap Texts(Original)
    BY <2>4, <2>5, <1>k
  <2> QED BY <1>k, <1>o, <1>g, <2>1, <2>4, <2>6 DEF KeysKept
<1>w. ASSUME NEW y, AdminWrites(y), Earned(y), adm'.at # "write",
             UNCHANGED <<cache, pending, inflight, failed, blind, test, upd>>
      PROVE  KeysKept'
  BY <1>w, <1>m, WrittenKeys DEF AdminWrites
<1>a. IsAdmin(adm) /\ (AdminKeys \/ AdminForm \/ AdminTag => adm'.at # "write")
  <2>1. IsAdmin(adm)
    BY DEF TypeOK
  <2>2. ASSUME NEW at, NEW x, adm' = [adm EXCEPT !.at = at, !.x = x] PROVE adm'.at = at
    BY <2>1, <2>2 DEF IsAdmin
  <2>3. AdminKeys \/ AdminForm \/ AdminTag => adm'.at \in {"reload", "abilities"}
    BY <2>2 DEF AdminKeys, AdminForm, AdminTag
  <2> QED BY <2>1, <2>3
<1>10. CASE AdminKeys
  <2> DEFINE x == adm.x
  <2>1. Earned(x) /\ IsRow(x)
    BY <1>10, <1>k, <1>a DEF AdminKeys, IsAdmin
  <2>2. PICK off :
          /\ off \in {Off(x.off, i, "manual") : i \in DOMAIN x.keys}
                     \cup {Without(x.off, i) : i \in DOMAIN x.keys} \cup {NoOff}
                     \cup {[i \in DOMAIN x.keys |-> IF i \in DOMAIN x.off THEN x.off[i] ELSE "manual"]}
          /\ AdminWrites(Trimmed(x.status, off, x.keys))
    BY <1>10 DEF AdminKeys
  <2> HIDE DEF x
  <2>3. \A i \in DOMAIN off : off[i] = "auto" => i \in DOMAIN x.off /\ x.off[i] = "auto"
    <3>1. CASE \E i \in DOMAIN x.keys : off = Off(x.off, i, "manual")
      BY <3>1 DEF Off
    <3>2. CASE \E i \in DOMAIN x.keys : off = Without(x.off, i)
      BY <3>2 DEF Without
    <3>3. CASE off = NoOff
      BY <3>3 DEF NoOff
    <3>4. CASE off = [i \in DOMAIN x.keys |-> IF i \in DOMAIN x.off THEN x.off[i] ELSE "manual"]
      BY <3>4
    <3> QED BY <2>2, <3>1, <3>2, <3>3, <3>4
  <2>4. Earned(Trimmed(x.status, off, x.keys))
    BY <2>1, <2>3, EarnedSame DEF Trimmed, Row
  <2> QED BY <1>w, <1>10, <1>a, <2>2, <2>4 DEF AdminKeys
<1>11. ~AdminDeleteKeys
  BY DEF AdminDeleteKeys
<1>12. CASE AdminForm
  <2>1. PICK status : AdminWrites(Trimmed(status, adm.x.off, row.keys)) /\ UNCHANGED blind
    BY <1>12 DEF AdminForm
  <2>2. Earned(adm.x) /\ row.keys = adm.x.keys
    BY <1>12, <1>k DEF AdminForm, Earned
  <2>3. Earned(Trimmed(status, adm.x.off, row.keys))
    BY <2>2, EarnedSame DEF Trimmed, Row
  <2> QED BY <1>w, <1>12, <1>a, <2>1, <2>3 DEF AdminForm
<1>13. CASE AdminTag
  <2>1. PICK status \in {"on", "manual"} : AdminWrites([row EXCEPT !.status = status])
    BY <1>13 DEF AdminTag
  <2>2. [row EXCEPT !.status = status]
          = [status |-> status, off |-> row.off, keys |-> row.keys, size |-> row.size]
    BY StatusChanged DEF TypeOK, Statuses
  <2>3. PICK y : y = [row EXCEPT !.status = status]
    OBVIOUS
  <2>4. y.keys = row.keys /\ y.off = row.off
    BY <2>2, <2>3
  <2>5. Earned(y)
    BY <2>4, <1>k, EarnedSame
  <2>6. AdminWrites(y)
    BY <2>1, <2>3
  <2> QED BY <1>w, <1>13, <1>a, <2>5, <2>6 DEF AdminTag
<1>14. CASE AdminRead \/ AdminReload \/ AdminAbilities
  <2>1. UNCHANGED <<row, cache, pending, upd, reb, test, inflight, failed>>
    BY <1>14 DEF AdminRead, AdminReload, AdminAbilities
  <2>2. adm'.at = "write" => adm'.x = row
    <3>1. ASSUME NEW at, NEW x, adm' = [adm EXCEPT !.at = at, !.x = x]
          PROVE  adm'.at = at /\ adm'.x = x
      BY <3>1, <1>a DEF IsAdmin
    <3>2. CASE AdminRead
      <4>1. adm' = [adm EXCEPT !.at = "write", !.x = row]
        BY <3>2 DEF AdminRead
      <4> QED BY <3>1, <4>1
    <3>3. CASE AdminReload
      <4>1. adm' = [adm EXCEPT !.at = "abilities", !.x = row]
        BY <3>3 DEF AdminReload
      <4> QED BY <3>1, <4>1
    <3>4. CASE AdminAbilities
      <4>1. PICK at \in {"idle", "rebuild"} : adm' = [adm EXCEPT !.at = at, !.x = Blank]
        BY <3>4 DEF AdminAbilities
      <4>2. adm'.at = at
        BY <3>1, <4>1
      <4> QED BY <4>2
    <3> QED BY <1>14, <3>2, <3>3, <3>4
  <2> QED BY <1>k, <1>o, <1>g, <2>1, <2>2 DEF KeysKept
<1>15. CASE TestStart
  <2>1. UNCHANGED <<row, cache, pending, upd, reb, adm, inflight, failed>>
    BY <1>15 DEF TestStart
  <2>2. test'.at \in {"running", "polled"} => test'.x = row
    <3>1. test = [at |-> test.at, x |-> test.x]
      BY DEF TypeOK
    <3> QED BY <1>15, <3>1 DEF TestStart
  <2> QED BY <1>k, <1>o, <1>g, <2>1, <2>2 DEF KeysKept, Earned
<1>i. ASSUME NEW x, IsRow(x), Earned(x), InfoSaved(x) PROVE Earned(row')
  <2>1. \/ row' = row
        \/ row'.off = x.off /\ row'.keys = row.keys
    BY <1>i, InfoSavedRow DEF TypeOK
  <2>2. x.keys = row.keys
    BY <1>i, <1>k DEF Earned
  <2>3. CASE row'.off = x.off /\ row'.keys = row.keys
    BY <1>i, <2>2, <2>3 DEF Earned
  <2> QED BY <1>k, <2>1, <2>3
<1>16. ASSUME NEW n \in Nodes, PollRead(n) PROVE KeysKept'
  <2>1. /\ UNCHANGED <<row, cache, pending, upd, adm, test, inflight, failed>>
        /\ reb' = [reb EXCEPT ![n] = [at |-> "poll", x |-> row, old |-> FALSE]]
    BY <1>16 DEF PollRead
  <2>2. \A q \in Rebuilders : reb'[q] = reb[q] \/ reb'[q].x = row
    BY <2>1 DEF TypeOK
  <2> QED BY <1>k, <1>o, <1>g, <2>1, <2>2 DEF KeysKept
<1>17. ASSUME NEW n \in Nodes, PollSave(n) PROVE KeysKept'
  <2> DEFINE x == reb[n].x
  <2>1. n \in Rebuilders /\ IsRow(x) /\ Earned(x)
    BY <1>17, <1>k DEF PollSave, TypeOK, IsRebuild, Rebuilders
  <2>2. Earned(row')
    BY <1>17, <2>1, <1>i DEF PollSave
  <2>3. EnabledKeys(x) \subseteq Texts(Original)
    BY <2>1 DEF EnabledKeys, Earned, Texts
  <2>4. \A m \in Nodes : inflight'[m] \subseteq Texts(Original) \cup {NoKey}
    <3>1. PICK k \in Texts(Original) : inflight' = [inflight EXCEPT ![n] = @ \cup {k}]
      BY <1>17, <2>3 DEF PollSave
    <3> QED BY <3>1, <1>k DEF TypeOK
  <2>5. \A q \in Rebuilders : reb'[q] = reb[q] \/ reb'[q].at = "idle"
    BY <1>17 DEF PollSave, TypeOK, NoRebuild
  <2>6. UNCHANGED <<cache, pending, upd, adm, test, failed>>
    BY <1>17 DEF PollSave
  <2>7. Earned(row)'
    BY <2>2, <2>6, <1>o DEF Earned
  <2> QED BY <1>k, <1>o, <1>g, <2>4, <2>5, <2>6, <2>7 DEF KeysKept
<1>18. CASE TestPolls
  <2>1. IsRow(test.x) /\ Earned(test.x) /\ InfoSaved(test.x)
    BY <1>18, <1>k DEF TestPolls, TypeOK
  <2>2. Earned(row')
    BY <2>1, <1>i
  <2>3. UNCHANGED <<cache, pending, upd, reb, adm, inflight, failed>>
    BY <1>18 DEF TestPolls
  <2>4. test'.x = test.x
    BY <1>18 DEF TestPolls, TypeOK
  <2>5. Earned(row)'
    BY <2>2, <2>3, <1>o DEF Earned
  <2> QED BY <1>k, <1>o, <1>g, <2>1, <2>3, <2>4, <2>5 DEF KeysKept
<1>19. CASE UNCHANGED vars
  BY <1>19, <1>k, <1>o, <1>g DEF KeysKept, vars
<1> QED BY <1>1, <1>2, <1>3, <1>4, <1>5, <1>6, <1>7, <1>8, <1>9, <1>10, <1>11, <1>12, <1>13,
           <1>14, <1>15, <1>16, <1>17, <1>18, <1>19 DEF Next, Poll, Update, Rebuild, AdminStep

\* A key is disabled automatically only after a request has failed with that very
\* key (OnlyFailedKeysDisabled).
THEOREM KeysCorrect == Spec => []OnlyFailedKeysDisabled
<1>1. Init => TypeOK /\ KeysKept
  BY InitTypes, InitKeys DEF KeyTruth
<1>2. TypeOK /\ KeysKept /\ [Next]_vars => (TypeOK /\ KeysKept)'
  BY StepTypes, StepKeys
<1>3. KeysKept => OnlyFailedKeysDisabled
  BY KeysKeptIsEnough
<1> QED BY <1>1, <1>2, <1>3, PTL DEF Spec

\* Both, with what they rest on (IInv).
THEOREM Inductive == Spec => []IInv
<1>1. Init => TypeOK /\ Listing /\ KeysKept
  BY InitTypes, InitListing, InitKeys DEF KeyTruth
<1>2. TypeOK /\ Listing /\ KeysKept /\ [Next]_vars => (TypeOK /\ Listing /\ KeysKept)'
  BY StepTypes, StepListing, StepKeys
<1>3. Listing /\ KeysKept => IInv
  BY KeysKeptIsEnough DEF Listing, IInv
<1> QED BY <1>1, <1>2, <1>3, PTL DEF Spec
-----------------------------------------------------------------------------
(* The abilities. *)

\* No two writers have overlapped and no write has failed.
Apart == ~tangled /\ left.faults = MaxFaults

\* The statuses of a row are those of its keys.
Fits(x) == x.size = Len(x.keys) /\ DOMAIN x.off \subseteq DOMAIN x.keys

\* While writers do not overlap: who is to write the row has the row as it is, with
\* the change to make; who is to write the abilities will write what the row says; and
\* the abilities say it already unless somebody is to write them.
SaveIsFresh(u) ==
    /\ u.x.size = row.size /\ DOMAIN u.x.off \subseteq DOMAIN row.keys
    /\ u.ab = (u.x.status # row.status)
    /\ u.ab => (u.x.status = "on") = (u.st = "on")

AbilitiesInTime ==
    /\ left.faults <= MaxFaults
    /\ reb[Admin].at = "read" => adm.at = "rebuild"
    /\ Apart =>
        /\ Fits(row)
        /\ \A n \in Nodes :
             /\ upd[n].at = "save" => SaveIsFresh(upd[n])
             /\ upd[n].at = "ability" => (upd[n].st = "on") = (row.status = "on")
        /\ adm.at = "abilities" => adm.x.status = row.status
        /\ \/ ability = (row.status = "on")
           \/ adm.at \in {"reload", "abilities"}
           \/ \E n \in Nodes : upd[n].at = "ability"

\* handlerMultiKeyUpdate keeps the size, names keys of the channel only, and changes
\* the status of the channel only when it disables.
LEMMA KeyUpdatedFits ==
    ASSUME NEW x, IsRow(x), NEW k, NEW st \in {"on", "auto"}
    PROVE  /\ KeyUpdated(x, k, st).size = x.size
           /\ Fits(x) => DOMAIN KeyUpdated(x, k, st).off \subseteq DOMAIN x.keys
           /\ KeyUpdated(x, k, st).status \in {x.status, "auto"}
           /\ st = "on" /\ Fits(x) => KeyUpdated(x, k, st).status = x.status
<1> DEFINE i == Position(x, k)
           off == IF st = "on" THEN Without(x.off, i) ELSE Off(x.off, i, st)
           s == IF Cardinality(DOMAIN off) >= x.size THEN "auto" ELSE x.status
<1>1. i \in DOMAIN x.keys
  BY PositionFound
<1> HIDE DEF i
<1>2. x = [status |-> x.status, off |-> x.off, keys |-> x.keys, size |-> x.size]
  BY DEF IsRow
<1>3. KeyUpdated(x, k, st) = [x EXCEPT !.off = off, !.status = s]
  BY DEF KeyUpdated, i
<1>4. Fits(x) => DOMAIN off \subseteq DOMAIN x.keys
  BY <1>1 DEF Fits, Off, Without
<1>5. ASSUME st = "on", Fits(x) PROVE s = x.status
  <2>1. DOMAIN x.keys = 1 .. Len(x.keys) /\ Len(x.keys) \in Nat
    BY DEF IsRow
  <2>2. DOMAIN off \subseteq DOMAIN x.keys \ {i}
    BY <1>5 DEF Fits, Without
  <2>3. IsFiniteSet(DOMAIN x.keys) /\ Cardinality(DOMAIN x.keys) = Len(x.keys)
    BY <2>1, FS_Interval
  <2>4. /\ IsFiniteSet(DOMAIN x.keys \ {i})
        /\ Cardinality(DOMAIN x.keys \ {i}) = Cardinality(DOMAIN x.keys) - 1
    BY <1>1, <2>3, FS_RemoveElement
  <2>5. /\ Cardinality(DOMAIN off) \in Nat
        /\ Cardinality(DOMAIN off) <= Cardinality(DOMAIN x.keys \ {i})
    BY <2>2, <2>4, FS_Subset, FS_CardinalityType
  <2>6. ~(Cardinality(DOMAIN off) >= x.size)
    BY <1>5, <2>1, <2>3, <2>4, <2>5 DEF Fits
  <2> QED BY <2>6
<1>6. s \in {x.status, "auto"}
  OBVIOUS
<1> HIDE DEF off, s
<1>7. PICK y : y = KeyUpdated(x, k, st)
  OBVIOUS
<1>8. y = [status |-> s, off |-> off, keys |-> x.keys, size |-> x.size]
  BY <1>2, <1>3, <1>7
<1>9. y.size = x.size /\ y.off = off /\ y.status = s
  BY <1>8
<1> QED BY <1>4, <1>5, <1>6, <1>7, <1>9

\* What UpdateRead prepares is fresh.
LEMMA ChangedIsFresh ==
    ASSUME TypeOK, Fits(row), NEW u, IsUpdate(u), row.status # u.st
    PROVE  /\ Changed(u).size = row.size /\ DOMAIN Changed(u).off \subseteq DOMAIN row.keys
           /\ Changed(u).status # row.status => (Changed(u).status = "on") = (u.st = "on")
<1>1. IsRow(row) /\ u.st \in {"on", "auto"} /\ u.st \in Statuses
  BY DEF TypeOK, IsUpdate, Statuses
<1>2. CASE mode.multi
  BY <1>1, <1>2, KeyUpdatedFits DEF Changed
<1>3. CASE ~mode.multi
  <2>1. [row EXCEPT !.status = u.st]
          = [status |-> u.st, off |-> row.off, keys |-> row.keys, size |-> row.size]
    BY <1>1, StatusChanged
  <2>2. PICK y : y = [row EXCEPT !.status = u.st]
    OBVIOUS
  <2>3. y.status = u.st /\ y.size = row.size /\ y.off = row.off
    BY <2>1, <2>2
  <2>4. Changed(u) = y
    BY <1>3, <2>2 DEF Changed
  <2> QED BY <2>3, <2>4 DEF Fits
<1> QED BY <1>2, <1>3

\* A write leaves every rebuild where it is.
LEMMA WrittenRebuilds ==
    ASSUME TypeOK, NEW n, NEW x, Written(n, x)
    PROVE  \A r \in Rebuilders : reb'[r].at = reb[r].at
<1> TAKE r \in Rebuilders
<1>1. reb[r] = [at |-> reb[r].at, x |-> reb[r].x, old |-> reb[r].old]
  BY DEF TypeOK, IsRebuild
<1>2. reb'[r] = [reb[r] EXCEPT !.old = @ \/ reb[r].at = "read"]
  BY DEF Written
<1>3. PICK y : y = reb[r]
  OBVIOUS
<1>4. y = [at |-> y.at, x |-> y.x, old |-> y.old]
  BY <1>1, <1>3
<1>5. reb'[r] = [at |-> y.at, x |-> y.x, old |-> y.old \/ y.at = "read"]
  BY <1>2, <1>3, <1>4
<1> QED BY <1>3, <1>5

\* A write of an administrator.
LEMMA AdminInTime ==
    ASSUME TypeOK, AbilitiesInTime, NEW x, Fits(x), AdminWrites(x), UNCHANGED upd,
           left'.faults = left.faults, adm.at # "rebuild",
           adm'.at = "reload" \/ (adm'.at = "abilities" /\ adm'.x.status = x.status)
    PROVE  AbilitiesInTime'
<1>1. row' = x /\ tangled' = (tangled \/ Others(Admin))
  BY DEF AdminWrites, Written
<1>2. Admin \in Rebuilders /\ \A r \in Rebuilders : reb'[r].at = reb[r].at
  BY WrittenRebuilds DEF AdminWrites, Rebuilders
<1>3. ~tangled' => \A n \in Nodes : upd'[n].at \notin {"save", "ability"}
  BY <1>1, ChannelAssumption DEF Others
<1> QED BY <1>1, <1>2, <1>3 DEF AbilitiesInTime, Apart

\* Steps that write neither the row nor the abilities.
LEMMA ElsewhereInTime ==
    ASSUME AbilitiesInTime, UNCHANGED <<row, ability, tangled, upd>>,
           left'.faults = left.faults \/ left'.faults = left.faults - 1, left.faults \in Nat,
           MaxFaults \in Nat,
           UNCHANGED adm \/ (adm.at \notin {"reload", "abilities"} /\ adm'.at \notin {"reload", "abilities"}),
           reb'[Admin].at = "read" => adm'.at = "rebuild"
    PROVE  AbilitiesInTime'
<1>1. left'.faults <= MaxFaults /\ (left'.faults = MaxFaults => left.faults = MaxFaults)
  BY DEF AbilitiesInTime
<1> QED BY <1>1 DEF AbilitiesInTime, Apart, SaveIsFresh

\* The rows an administrator writes.
LEMMA AdminRowsFit ==
    ASSUME NEW x, NEW status, NEW off, NEW keys
    PROVE  /\ Fits(Row(status, NoOff, keys))
           /\ Fits(Trimmed(status, off, keys))
           /\ \A keep : \A e \in Orders(keep) : Fits(Kept(x, e))
<1>1. ASSUME NEW f, DOMAIN f \subseteq DOMAIN keys PROVE Fits(Row(status, f, keys))
  BY <1>1 DEF Fits, Row
<1>2. Fits(Trimmed(status, off, keys))
  BY DEF Fits, Row, Trimmed
<1>3. DOMAIN NoOff = {}
  BY DEF NoOff
<1>4. \A keep : \A e \in Orders(keep) : Fits(Kept(x, e))
  BY DEF Fits, Row, Kept
<1> QED BY <1>1, <1>2, <1>3, <1>4

\* Where a request of an administrator goes next.
LEMMA AdminGoes ==
    ASSUME TypeOK, NEW at, NEW x, adm' = [adm EXCEPT !.at = at, !.x = x]
    PROVE  adm'.at = at /\ adm'.x = x
<1>1. adm = [at |-> adm.at, x |-> adm.x, node |-> adm.node]
  BY DEF TypeOK, IsAdmin
<1>2. adm' = [at |-> at, x |-> x, node |-> adm.node]
  BY <1>1
<1> QED BY <1>2

LEMMA InitInTime == Init => AbilitiesInTime
<1> SUFFICES ASSUME Init PROVE AbilitiesInTime
  OBVIOUS
<1>1. PICK keys : row = Row("on", NoOff, keys)
  BY DEF Init
<1>2. row.status = "on" /\ Fits(row)
  BY <1>1, AdminRowsFit DEF Row
<1>3. Admin \in Rebuilders /\ reb[Admin].at = "idle"
  BY DEF Init, NoRebuild, Rebuilders
<1>4. \A n \in Nodes : upd[n].at = "idle"
  BY DEF Init, NoUpdate
<1>5. adm.at = "idle" /\ ability = TRUE /\ left.faults = MaxFaults
  BY DEF Init
<1>6. ability = (row.status = "on") /\ left.faults <= MaxFaults
  <2>1. (row.status = "on") = TRUE
    BY <1>2, Zenon
  <2>2. left.faults <= MaxFaults
    BY <1>5
  <2> QED BY <2>1, <2>2, <1>5, Zenon
<1> QED BY <1>2, <1>3, <1>4, <1>5, <1>6 DEF AbilitiesInTime

LEMMA StepInTime == TypeOK /\ AbilitiesInTime /\ [Next]_vars => AbilitiesInTime'
<1> SUFFICES ASSUME TypeOK, AbilitiesInTime, [Next]_vars PROVE AbilitiesInTime'
  OBVIOUS
<1>t. /\ left = [events |-> left.events, faults |-> left.faults]
      /\ left.events \in Nat /\ left.faults \in Nat /\ MaxFaults \in Nat
      /\ Admin \in Rebuilders
  BY ChannelAssumption DEF TypeOK, Rebuilders
<1>e. ASSUME Event PROVE left'.faults = left.faults
  BY <1>e, <1>t DEF Event
<1>f. ASSUME Fault PROVE left'.faults = left.faults - 1
  BY <1>f, <1>t DEF Fault
<1>r. reb[Admin].at = "read" => adm.at = "rebuild"
  BY DEF AbilitiesInTime
<1>1. ASSUME NEW n \in Nodes, Select(n) \/ TestEnds(n) PROVE AbilitiesInTime'
  <2>1. UNCHANGED <<row, ability, tangled, upd, adm, reb>> /\ left'.faults = left.faults
    BY <1>1, <1>e DEF Select, TestEnds
  <2> QED BY <2>1, <1>t, <1>r, ElsewhereInTime
<1>2. ASSUME NEW n \in Nodes, NEW k, RequestFails(n, k) PROVE AbilitiesInTime'
  <2>1. UNCHANGED <<row, ability, tangled, upd, adm, reb, left>>
    BY <1>2 DEF RequestFails
  <2> QED BY <2>1, <1>t, <1>r, ElsewhereInTime
<1>3. ASSUME NEW n \in Nodes, UpdateCache(n) PROVE AbilitiesInTime'
  <2>1. PICK p \in pending[n] :
          CacheTakes(n, p) /\ UNCHANGED <<row, ability, tangled, adm, reb, left>>
    BY <1>3 DEF UpdateCache
  <2>2. Begun(p).at = "read"
    BY BegunIsUpdate DEF TypeOK, KeyTexts
  <2>3. upd[n].at = "idle" /\ (UNCHANGED upd \/ upd' = [upd EXCEPT ![n] = Begun(p)])
    BY <1>3, <2>1 DEF UpdateCache, CacheTakes
  <2>4. \A m \in Nodes : upd'[m] = upd[m] \/ (m = n /\ upd'[m].at = "read")
    BY <2>2, <2>3 DEF TypeOK
  <2>5. \A m \in Nodes : upd[m].at = "ability" => upd'[m].at = "ability"
    <3> TAKE m \in Nodes
    <3>1. CASE m = n
      BY <2>3, <3>1
    <3>2. CASE m # n
      BY <2>4, <3>2
    <3> QED BY <3>1, <3>2
  <2> QED BY <2>1, <2>4, <2>5 DEF AbilitiesInTime, Apart, SaveIsFresh
<1>4. ASSUME NEW n \in Nodes, UpdateRead(n) PROVE AbilitiesInTime'
  <2> DEFINE u == upd[n]
             v == [u EXCEPT !.at = "save", !.x = Changed(u), !.ab = (Changed(u).status # row.status)]
  <2>1. /\ u.at = "read" /\ UNCHANGED <<row, ability, tangled, adm, reb, left>>
        /\ \/ upd' = [upd EXCEPT ![n] = NoUpdate]
           \/ row.status # u.st /\ upd' = [upd EXCEPT ![n] = v]
    BY <1>4 DEF UpdateRead
  <2>2. v = [at |-> "save", st |-> u.st, key |-> u.key, x |-> Changed(u),
             ab |-> (Changed(u).status # row.status)]
    <3>1. PICK y : y = v
      OBVIOUS
    <3>2. u = [at |-> u.at, st |-> u.st, key |-> u.key, x |-> u.x, ab |-> u.ab]
      BY DEF TypeOK, IsUpdate
    <3> HIDE DEF u
    <3>3. y = [at |-> "save", st |-> u.st, key |-> u.key, x |-> Changed(u),
               ab |-> (Changed(u).status # row.status)]
      BY <3>1, <3>2
    <3> QED BY <3>1, <3>3
  <2>3. IsUpdate(u) /\ (Apart => Fits(row))
    BY DEF TypeOK, AbilitiesInTime, Apart
  <2> HIDE DEF u, v
  <2>4. ASSUME Apart, row.status # u.st PROVE v.at = "save" /\ SaveIsFresh(v)
    <3>1. /\ Changed(u).size = row.size /\ DOMAIN Changed(u).off \subseteq DOMAIN row.keys
          /\ Changed(u).status # row.status => (Changed(u).status = "on") = (u.st = "on")
      BY <2>3, <2>4, ChangedIsFresh
    <3>2. /\ v.at = "save" /\ v.st = u.st /\ v.x = Changed(u)
          /\ v.ab = (Changed(u).status # row.status)
      BY <2>2
    <3> QED BY <3>1, <3>2 DEF SaveIsFresh
  <2>5. v.at = "save"
    BY <2>2
  <2>6. \A m \in Nodes : \/ upd'[m] = upd[m] /\ m # n
                         \/ m = n /\ upd'[m].at = "idle"
                         \/ m = n /\ upd'[m] = v /\ row.status # u.st
    BY <2>1 DEF TypeOK, NoUpdate
  <2>7. \A m \in Nodes : upd[m].at = "ability" => upd'[m].at = "ability"
    BY <2>1, <2>6 DEF u
  <2>8. Apart' => Apart
    BY <2>1 DEF Apart
  <2>9. \A m \in Nodes : upd'[m].at = "ability" => upd'[m] = upd[m]
    BY <2>5, <2>6
  <2>10. ASSUME Apart, NEW m \in Nodes, upd'[m].at = "save" PROVE SaveIsFresh(upd'[m])
    BY <2>4, <2>6, <2>10 DEF AbilitiesInTime
  <2>11. ASSUME Apart, NEW m \in Nodes, upd'[m].at = "save" PROVE SaveIsFresh(upd[m])'
    BY <2>10, <2>11, <2>1 DEF SaveIsFresh
  <2> QED BY <2>1, <2>7, <2>8, <2>9, <2>11 DEF AbilitiesInTime
<1>5. ASSUME NEW n \in Nodes, UpdateSave(n) PROVE AbilitiesInTime'
  <2> DEFINE u == upd[n]
             y == [u.x EXCEPT !.keys = row.keys]
  <2>1. /\ u.at = "save" /\ UNCHANGED <<ability, adm>>
        /\ upd' = [upd EXCEPT ![n] = IF u.ab THEN [u EXCEPT !.at = "ability"] ELSE NoUpdate]
        /\ \/ Written(n, y) /\ UNCHANGED left
           \/ Fault /\ UNCHANGED <<row, reb, tangled>>
    BY <1>5 DEF UpdateSave
  <2>2. IsUpdate(u) /\ u.ab \in BOOLEAN
    BY DEF TypeOK, IsUpdate
  <2>3. /\ \A m \in Nodes \ {n} : upd'[m] = upd[m]
        /\ upd'[n] = IF u.ab THEN [u EXCEPT !.at = "ability"] ELSE NoUpdate
    BY <2>1 DEF TypeOK
  <2> HIDE DEF u
  <2>4. [u EXCEPT !.at = "ability"].at = "ability" /\ [u EXCEPT !.at = "ability"].st = u.st
    BY <2>2 DEF IsUpdate
  <2>5. /\ upd'[n].at = "ability" <=> u.ab
        /\ u.ab => upd'[n].st = u.st
        /\ upd'[n].at \in {"idle", "ability"}
    BY <2>2, <2>3, <2>4 DEF NoUpdate
  <2>6. CASE Fault /\ UNCHANGED <<row, reb, tangled>>
    <3>1. left'.faults = left.faults - 1 /\ left'.faults # MaxFaults /\ left'.faults <= MaxFaults
      BY <2>6, <1>f, <1>t DEF AbilitiesInTime
    <3> QED BY <3>1, <2>1, <2>6 DEF AbilitiesInTime, Apart
  <2>7. CASE Written(n, y) /\ UNCHANGED left
    <3>1. row' = y /\ tangled' = (tangled \/ Others(n))
      BY <2>7 DEF Written
    <3>2. reb'[Admin].at = reb[Admin].at
      BY <2>7, <1>t, WrittenRebuilds
    <3>3. y.status = u.x.status /\ y.size = u.x.size /\ y.off = u.x.off /\ y.keys = row.keys
      <4>1. IsRow(u.x) /\ row.keys \in Seq(KeyTexts) /\ row.keys # <<>>
        BY <2>2 DEF TypeOK, IsUpdate, IsRow, KeyTexts
      <4>2. y = [status |-> u.x.status, off |-> u.x.off, keys |-> row.keys, size |-> u.x.size]
        BY <4>1, KeysChanged
      <4>3. PICK z : z = y
        OBVIOUS
      <4>4. z.status = u.x.status /\ z.size = u.x.size /\ z.off = u.x.off /\ z.keys = row.keys
        BY <4>2, <4>3
      <4> QED BY <4>3, <4>4
    <3> HIDE DEF y
    <3>4. Admin # n
      BY ChannelAssumption
    <3>5. ASSUME Apart'
          PROVE  /\ Apart /\ Fits(row) /\ SaveIsFresh(u)
                 /\ \A m \in Nodes \ {n} : upd'[m].at \notin {"save", "ability"}
                 /\ adm.at \notin {"reload", "abilities"}
      <4>1. Apart /\ ~Others(n)
        BY <3>1, <3>5, <2>7 DEF Apart
      <4>2. Fits(row) /\ SaveIsFresh(u)
        BY <4>1, <2>1 DEF AbilitiesInTime, Apart, u
      <4>3. /\ \A m \in Nodes \ {n} : upd[m].at \notin {"save", "ability"}
            /\ adm.at \notin {"reload", "abilities"}
        BY <4>1, <3>4 DEF Others
      <4> QED BY <4>1, <4>2, <4>3, <2>3
    <3>6. ASSUME Apart'
          PROVE  /\ Fits(row)'
                 /\ (upd'[n].st = "on") = (row'.status = "on") \/ upd'[n].at # "ability"
                 /\ ~u.ab => row'.status = row.status
      <4>1. Fits(y)
        BY <3>3, <3>5, <3>6 DEF SaveIsFresh, Fits
      <4>2. Fits(row)'
        BY <4>1, <3>1 DEF Fits
      <4>3. u.ab => (y.status = "on") = (u.st = "on")
        BY <3>3, <3>5, <3>6 DEF SaveIsFresh
      <4>4. ~u.ab => y.status = row.status
        BY <3>3, <3>5, <3>6 DEF SaveIsFresh
      <4> QED BY <4>2, <4>3, <4>4, <3>1, <2>5
    <3>8. ASSUME Apart'
          PROVE  \/ ability' = (row'.status = "on")
                 \/ \E m \in Nodes : upd'[m].at = "ability"
      <4>1. CASE u.ab
        BY <4>1, <2>5
      <4>2. CASE ~u.ab
        <5>1. upd[n].at = "save" /\ \A m \in Nodes : upd[m].at # "ability"
          BY <3>5, <3>8, <2>1, <2>3 DEF u
        <5>2. ability = (row.status = "on")
          BY <5>1, <3>5, <3>8 DEF AbilitiesInTime
        <5> QED BY <4>2, <5>2, <3>6, <3>8, <2>1
      <4> QED BY <4>1, <4>2
    <3> QED BY <2>1, <2>7, <3>2, <3>5, <3>6, <3>8, <2>5 DEF AbilitiesInTime
  <2> QED BY <2>1, <2>6, <2>7
<1>6. ASSUME NEW n \in Nodes, UpdateAbility(n) PROVE AbilitiesInTime'
  <2>1. /\ upd[n].at = "ability" /\ UNCHANGED <<row, adm, reb, tangled>>
        /\ upd' = [upd EXCEPT ![n] = NoUpdate]
        /\ \/ ability' = (upd[n].st = "on") /\ UNCHANGED left
           \/ Fault
    BY <1>6 DEF UpdateAbility
  <2>2. \A m \in Nodes : upd'[m] = upd[m] \/ upd'[m].at = "idle"
    BY <2>1 DEF TypeOK, NoUpdate
  <2>3. CASE Fault
    <3>1. left'.faults = left.faults - 1 /\ left'.faults # MaxFaults /\ left'.faults <= MaxFaults
      BY <2>3, <1>f, <1>t DEF AbilitiesInTime
    <3> QED BY <3>1, <2>1 DEF AbilitiesInTime, Apart
  <2>4. CASE ability' = (upd[n].st = "on") /\ UNCHANGED left
    <3>1. Apart' => Apart /\ ability' = (row'.status = "on")
      BY <2>1, <2>4 DEF AbilitiesInTime, Apart
    <3> QED BY <2>1, <2>2, <2>4, <3>1 DEF AbilitiesInTime, SaveIsFresh
  <2> QED BY <2>1, <2>3, <2>4
<1>7. ASSUME NEW r \in Rebuilders, RebuildRead(r) PROVE AbilitiesInTime'
  <2>1. UNCHANGED <<row, ability, tangled, upd, adm, left>> /\ (r = Admin => adm.at = "rebuild")
    BY <1>7 DEF RebuildRead
  <2>2. r # Admin => reb'[Admin] = reb[Admin]
    BY <1>7, <1>t DEF RebuildRead, TypeOK
  <2> QED BY <2>1, <2>2, <1>t, <1>r, ElsewhereInTime
<1>8. ASSUME NEW r \in Rebuilders, RebuildPublish(r) PROVE AbilitiesInTime'
  <2>1. /\ UNCHANGED <<row, ability, tangled, upd, left>> /\ reb[r].at = "read"
        /\ adm' = IF r = Admin THEN [adm EXCEPT !.at = "idle", !.x = Blank] ELSE adm
        /\ reb' = [reb EXCEPT ![r] = NoRebuild]
    BY <1>8 DEF RebuildPublish
  <2>2. CASE r = Admin
    <3>1. reb'[Admin].at = "idle"
      BY <2>1, <2>2 DEF TypeOK, NoRebuild
    <3>2. adm'.at = "idle" /\ adm.at = "rebuild"
      BY <2>1, <2>2, <1>r, AdminGoes
    <3> QED BY <2>1, <3>1, <3>2, <1>t, ElsewhereInTime
  <2>3. CASE r # Admin
    <3>1. reb'[Admin] = reb[Admin]
      BY <2>1, <2>3, <1>t DEF TypeOK
    <3> QED BY <2>1, <2>3, <3>1, <1>r, <1>t, ElsewhereInTime
  <2> QED BY <2>2, <2>3
<1>9. CASE AdminRead
  <2>1. adm'.at = "write" /\ adm.at = "idle"
    BY <1>9, AdminGoes DEF AdminRead
  <2> QED BY <1>9, <2>1, <1>e, <1>t, <1>r, ElsewhereInTime DEF AdminRead
<1>10. ASSUME NEW x, Fits(x), AdminWrites(x), UNCHANGED <<upd, left>>, adm.at = "write",
              adm' = [adm EXCEPT !.at = "reload", !.x = Blank]
       PROVE  AbilitiesInTime'
  <2>1. adm'.at = "reload"
    BY <1>10, AdminGoes
  <2>2. UNCHANGED upd /\ left'.faults = left.faults /\ adm.at # "rebuild"
    BY <1>10
  <2> QED BY <1>10, <2>1, <2>2, AdminInTime
<1>11. CASE AdminKeys
  <2>1. PICK off : AdminWrites(Trimmed(adm.x.status, off, adm.x.keys))
    BY <1>11 DEF AdminKeys
  <2> QED BY <1>10, <1>11, <2>1, AdminRowsFit DEF AdminKeys
<1>12. CASE AdminDeleteKeys
  <2>1. PICK x : Fits(x) /\ AdminWrites(x)
    <3>1. ASSUME NEW keep, KeepOnly(keep) PROVE \E x : Fits(x) /\ AdminWrites(x)
      BY <3>1, AdminRowsFit DEF KeepOnly
    <3>2. CASE \E keep : KeepOnly(keep)
      BY <3>1, <3>2
    <3>3. CASE AdminWrites(Row(adm.x.status, NoOff, row.keys))
      BY <3>3, AdminRowsFit
    <3> QED BY <1>12, <3>2, <3>3 DEF AdminDeleteKeys
  <2> QED BY <1>10, <1>12, <2>1 DEF AdminDeleteKeys
<1>13. CASE AdminForm
  <2>1. PICK x : Fits(x) /\ AdminWrites(x)
    BY <1>13, AdminRowsFit DEF AdminForm
  <2> QED BY <1>10, <1>13, <2>1 DEF AdminForm
<1>14. CASE AdminReload
  <2>1. adm'.at = "abilities" /\ adm'.x = row /\ adm.at = "reload"
    BY <1>14, AdminGoes DEF AdminReload
  <2>2. UNCHANGED <<row, ability, tangled, upd, reb, left>>
    BY <1>14 DEF AdminReload
  <2> QED BY <2>1, <2>2, <1>r DEF AbilitiesInTime, Apart, SaveIsFresh
<1>15. CASE AdminTag
  <2>1. PICK status \in {"on", "manual"} :
          /\ AdminWrites([row EXCEPT !.status = status])
          /\ adm' = [adm EXCEPT !.at = "abilities", !.x = [row EXCEPT !.status = status]]
    BY <1>15 DEF AdminTag
  <2> DEFINE x == [row EXCEPT !.status = status]
  <2>2. IsRow(row) /\ status \in Statuses
    BY DEF TypeOK, Statuses
  <2>3. x = [status |-> status, off |-> row.off, keys |-> row.keys, size |-> row.size]
    BY <2>2, StatusChanged
  <2>4. adm'.at = "abilities" /\ adm'.x = x
    BY <2>1, AdminGoes
  <2>5. /\ AdminWrites(x) /\ UNCHANGED upd /\ left'.faults = left.faults
        /\ adm.at = "idle"
    BY <1>15, <1>e, <2>1 DEF AdminTag
  <2> HIDE DEF x
  <2>6. Fits(row) => Fits(x)
    BY <2>3 DEF Fits
  <2>7. CASE Fits(row)
    BY <2>4, <2>5, <2>6, <2>7, AdminInTime
  <2>8. CASE ~Fits(row)
    <3>1. ~Apart'
      <4>1. ~Apart
        BY <2>8 DEF AbilitiesInTime
      <4>2. tangled' = (tangled \/ Others(Admin))
        BY <2>5 DEF AdminWrites, Written
      <4> QED BY <4>1, <4>2, <2>5 DEF Apart
    <3>2. reb'[Admin].at = reb[Admin].at
      BY <2>5, <1>t, WrittenRebuilds DEF AdminWrites
    <3> QED BY <3>1, <3>2, <2>5, <1>r DEF AbilitiesInTime
  <2> QED BY <2>7, <2>8
<1>16. CASE AdminAbilities
  <2>1. /\ adm.at = "abilities" /\ UNCHANGED <<row, upd, reb, tangled>>
        /\ \/ /\ ability' = (adm.x.status = "on") /\ UNCHANGED left
              /\ adm' = [adm EXCEPT !.at = IF mode.cached THEN "rebuild" ELSE "idle", !.x = Blank]
           \/ /\ Fault
              /\ adm' = [adm EXCEPT !.at = "idle", !.x = Blank]
    BY <1>16 DEF AdminAbilities
  <2>2. adm'.at \in {"idle", "rebuild"} /\ reb'[Admin].at # "read"
    BY <2>1, <1>r, AdminGoes
  <2>3. CASE Fault
    <3>1. left'.faults = left.faults - 1 /\ left'.faults # MaxFaults /\ left'.faults <= MaxFaults
      BY <2>3, <1>f, <1>t DEF AbilitiesInTime
    <3> QED BY <3>1, <2>2 DEF AbilitiesInTime, Apart
  <2>4. CASE ability' = (adm.x.status = "on") /\ UNCHANGED left
    <3>1. Apart' => Apart /\ ability' = (row'.status = "on")
      BY <2>1, <2>4 DEF AbilitiesInTime, Apart
    <3> QED BY <2>1, <2>2, <2>4, <3>1 DEF AbilitiesInTime, SaveIsFresh
  <2> QED BY <2>1, <2>3, <2>4
<1>17. CASE TestStart
  <2>1. /\ UNCHANGED <<row, ability, tangled, upd, adm, reb>>
        /\ left'.faults = left.faults \/ left'.faults = left.faults - 1
    BY <1>17, <1>e, <1>f DEF TestStart
  <2> QED BY <2>1, <1>t, <1>r, ElsewhereInTime
<1>i. ASSUME NEW x, IsRow(x), InfoSaved(x), UNCHANGED <<ability, upd, adm>>,
             reb'[Admin] = reb[Admin]
      PROVE  AbilitiesInTime'
  <2>1. IsRow(row)
    BY DEF TypeOK
  <2>2. CASE Fault /\ UNCHANGED <<row, tangled>>
    BY <1>i, <2>2, <1>f, <1>t, <1>r, ElsewhereInTime
  <2>3. CASE UNCHANGED left /\ row' = row /\ tangled' = tangled
    BY <1>i, <2>3, <1>t, <1>r, ElsewhereInTime
  <2>4. CASE UNCHANGED left /\ tangled'
    BY <1>i, <2>4, <1>r DEF AbilitiesInTime, Apart
  <2>5. \/ Fault /\ UNCHANGED <<row, tangled>>
        \/ UNCHANGED left /\ row' = row /\ tangled' = tangled
        \/ UNCHANGED left /\ tangled'
    <3>1. \/ Fault /\ UNCHANGED <<row, tangled>>
          \/ /\ row' = [row EXCEPT !.off = x.off, !.size = x.size]
             /\ tangled' = (tangled \/ x.off # row.off \/ x.size # row.size)
             /\ UNCHANGED left
      BY <1>i DEF InfoSaved
    <3>2. \/ Fault /\ UNCHANGED <<row, tangled>>
          \/ row' = row /\ UNCHANGED left
          \/ tangled' /\ UNCHANGED left
      BY <1>i, <2>1, InfoSavedRow
    <3>3. tangled \in BOOLEAN
      BY DEF TypeOK
    <3>4. row' = row /\ ~tangled' /\ ~(Fault /\ UNCHANGED <<row, tangled>>) => tangled' = tangled
      BY <3>1, <3>3, Zenon
    <3> QED BY <3>2, <3>4
  <2> QED BY <2>2, <2>3, <2>4, <2>5
<1>18. ASSUME NEW n \in Nodes, PollRead(n) PROVE AbilitiesInTime'
  <2>1. UNCHANGED <<row, ability, tangled, upd, adm>> /\ left'.faults = left.faults
    BY <1>18, <1>e DEF PollRead
  <2>2. reb'[Admin] = reb[Admin]
    BY <1>18, <1>t, ChannelAssumption DEF PollRead, TypeOK
  <2> QED BY <2>1, <2>2, <1>t, <1>r, ElsewhereInTime
<1>19. ASSUME NEW n \in Nodes, PollSave(n) PROVE AbilitiesInTime'
  <2>1. IsRow(reb[n].x) /\ InfoSaved(reb[n].x) /\ UNCHANGED <<ability, upd, adm>>
    BY <1>19 DEF PollSave, TypeOK, IsRebuild, Rebuilders
  <2>2. reb'[Admin] = reb[Admin]
    BY <1>19, <1>t, ChannelAssumption DEF PollSave, TypeOK
  <2> QED BY <2>1, <2>2, <1>i
<1>20. CASE TestPolls
  <2>1. IsRow(test.x) /\ InfoSaved(test.x) /\ UNCHANGED <<ability, upd, adm, reb>>
    BY <1>20 DEF TestPolls, TypeOK
  <2> QED BY <2>1, <1>i
<1>21. CASE UNCHANGED vars
  <2>1. UNCHANGED <<row, ability, tangled, upd, adm, reb, left>>
    BY <1>21 DEF vars
  <2> QED BY <2>1, <1>t, <1>r, ElsewhereInTime
<1> QED BY <1>1, <1>2, <1>3, <1>4, <1>5, <1>6, <1>7, <1>8, <1>9, <1>11, <1>12, <1>13, <1>14,
           <1>15, <1>16, <1>17, <1>18, <1>19, <1>20, <1>21
        DEF Next, Poll, Update, Rebuild, AdminStep

\* When no write is in progress, and none has failed or overlapped another, the
\* abilities of the channel are enabled exactly when the channel is (AbilitiesFollow).
THEOREM AbilitiesCorrect == Spec => []AbilitiesFollow
<1>1. Init => TypeOK /\ AbilitiesInTime
  BY InitTypes, InitInTime
<1>2. TypeOK /\ AbilitiesInTime /\ [Next]_vars => (TypeOK /\ AbilitiesInTime)'
  BY StepTypes, StepInTime
<1>3. AbilitiesInTime => AbilitiesFollow
  BY DEF AbilitiesInTime, AbilitiesFollow, Apart, Quiet
<1> QED BY <1>1, <1>2, <1>3, PTL DEF Spec

=============================================================================
