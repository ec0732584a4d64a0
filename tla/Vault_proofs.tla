---------------------------- MODULE Vault_proofs ----------------------------
(***************************************************************************)
(* Theorems about Vault, for any accounts, requests, values, keys, peppers *)
(* and configurations, with any of them in service side by side.           *)
(*                                                                         *)
(* A request saves a row it read earlier, so each property must hold of    *)
(* the rows in flight as well as of those in the table.                    *)
(***************************************************************************)
EXTENDS Vault, TLAPS

\* The two halves of a cell belong together.
Matched(c) ==
  /\ c.encrypted = Null <=> c.index = Null
  /\ c.index # Null =>
       /\ c.index.value = c.encrypted.value
       /\ [key |-> c.encrypted.key, pepper |-> c.index.pepper] \in Conf

\* A row of u in which every indexed cell is matched and every value audited.
GoodRow(row, u) ==
  /\ \A f \in Indexed : Matched(row[f])
  /\ \A f \in Field : row[f].encrypted # Null =>
       [u |-> u, field |-> f, value |-> row[f].encrypted.value] \in audit

UniqueIndex ==
  \A u, w \in User :
    u # w /\ vault[u]["dni"].index # Null
      => vault[u]["dni"].index # vault[w]["dni"].index

IInv ==
  /\ TypeOK
  /\ \A u \in User : GoodRow(vault[u], u)
  /\ \A r \in Request : req[r] # Null => GoodRow(req[r].row, req[r].u)
  /\ UniqueIndex

LEMMA InvariantImplies ==
  IInv => IndexMatchesValue /\ OneHolder /\ StoredIsAnnounced
<1> SUFFICES ASSUME IInv
             PROVE  IndexMatchesValue /\ OneHolder /\ StoredIsAnnounced
  OBVIOUS
<1>1. IndexMatchesValue
  BY DEF IInv, GoodRow, Matched, IndexMatchesValue
<1>2. StoredIsAnnounced
  BY DEF IInv, GoodRow, StoredIsAnnounced
<1>3. ASSUME NEW u \in User, NEW w \in User, u # w,
             vault[u]["dni"].encrypted # Null, vault[w]["dni"].encrypted # Null,
             vault[u]["dni"].encrypted.value = vault[w]["dni"].encrypted.value,
             vault[u]["dni"].index.pepper = vault[w]["dni"].index.pepper
      PROVE  FALSE
  <2> DEFINE a == vault[u]["dni"] b == vault[w]["dni"]
  <2>1. Matched(a) /\ Matched(b)
    BY DEF IInv, GoodRow, Indexed
  <2>2. a.index \in Digest \cup {Null} /\ b.index \in Digest \cup {Null}
    BY DEF IInv, TypeOK, Row, Field, Cell
  <2>3. a.index # Null /\ b.index # Null /\ a.index.value = b.index.value
    BY <1>3, <2>1 DEF Matched
  <2>4. a.index = b.index
    BY <1>3, <2>2, <2>3 DEF Digest
  <2> QED
    BY <1>3, <2>3, <2>4 DEF IInv, UniqueIndex
<1>4. OneHolder
  BY <1>3 DEF OneHolder
<1> QED
  BY <1>1, <1>2, <1>4

-----------------------------------------------------------------------------
LEMMA BlankRow ==
  /\ Blank \in Row
  /\ \A u : GoodRow(Blank, u)
  /\ \A f \in Field : Blank[f].index = Null
<1>1. Clear \in Cell /\ Clear.index = Null /\ Clear.encrypted = Null
  BY DEF Clear, Cell
<1>2. \A f \in Field : Blank[f] = Clear
  BY DEF Blank
<1>3. Matched(Clear)
  BY <1>1 DEF Matched
<1>4. Indexed \subseteq Field
  BY DEF Indexed, Field
<1> QED
  BY <1>1, <1>2, <1>3, <1>4 DEF Blank, Row, GoodRow

\* What set_sensitive_data makes of a cell.
LEMMA SealedCell ==
  ASSUME NEW f \in Field, NEW v \in Value \cup {Null}, NEW conf \in Conf,
         NEW cell \in Cell, CanSeal(f, v, conf)
  PROVE  LET c == Sealed(f, v, conf, cell) IN
         /\ c \in Cell
         /\ f \in Indexed => Matched(c)
         /\ c.encrypted # Null => c.encrypted.value = v
<1>1. conf.key \in Key \cup {Null} /\ conf.pepper \in Pepper \cup {Null}
      /\ conf = [key |-> conf.key, pepper |-> conf.pepper]
  BY ConfAssumption
<1>2. CASE v = Null
  BY <1>2 DEF Sealed, Encrypted, BlindIndex, Cell, Matched
<1>3. CASE v # Null
  <2> DEFINE e == [value |-> v, key |-> conf.key]
             i == [value |-> v, pepper |-> conf.pepper]
  <2>1. e \in Cipher /\ e # Null
    BY <1>1, <1>3, NullAssumption DEF CanSeal, Cipher
  <2>2. CASE f \in Indexed
    <3>1. i \in Digest /\ i # Null
      BY <1>1, <1>3, <2>2, NullAssumption DEF CanSeal, Digest
    <3>2. Sealed(f, v, conf, cell) = [encrypted |-> e, index |-> i]
      BY <1>3, <2>2 DEF Sealed, Encrypted, BlindIndex
    <3> QED
      BY <1>1, <2>1, <3>1, <3>2 DEF Cell, Matched
  <2>3. CASE f \notin Indexed
    <3>1. Sealed(f, v, conf, cell) = [encrypted |-> e, index |-> cell.index]
      BY <1>3, <2>3 DEF Sealed, Encrypted
    <3> QED
      BY <2>1, <2>3, <3>1 DEF Cell
  <2> QED
    BY <2>2, <2>3
<1> QED
  BY <1>2, <1>3

-----------------------------------------------------------------------------
LEMMA InitInvariant == Init => IInv
  BY BlankRow DEF Init, IInv, TypeOK, UniqueIndex, Field

\* A request is replaced by another flight, or ends.
LEMMA FlightStep ==
  ASSUME IInv, NEW r \in Request, NEW x \in Flight \cup {Null},
         req' = [req EXCEPT ![r] = x],
         x # Null => GoodRow(x.row, x.u),
         UNCHANGED <<vault, closed, audit>>
  PROVE  IInv'
  BY DEF IInv, TypeOK, GoodRow, Matched, UniqueIndex

LEMMA ArriveKeeps ==
  ASSUME IInv, NEW r \in Request, NEW op \in {"secrets", "setup"}, NEW u \in User,
         NEW conf \in Conf, NEW body, Arrive(r, op, u, conf, body)
  PROVE  IInv'
<1> DEFINE x == [op |-> op, at |-> "load", u |-> u, conf |-> conf,
                 row |-> Blank, body |-> body]
<1>1. body \in Body
  BY SubmissionsAssumption DEF Arrive, Nothing, Body
<1>2. x \in Flight /\ GoodRow(x.row, x.u)
  BY <1>1, BlankRow DEF Flight
<1> QED
  BY <1>2, FlightStep DEF Arrive

LEMMA LoadKeeps ==
  ASSUME IInv, NEW r \in Request, Load(r)
  PROVE  IInv'
<1> DEFINE x == [req[r] EXCEPT !.at = "write", !.row = vault[req[r].u]]
<1>1. req[r] \in Flight
  BY DEF IInv, TypeOK, Load, At
<1>2. vault[req[r].u] \in Row /\ GoodRow(vault[req[r].u], req[r].u)
  BY <1>1 DEF IInv, TypeOK, Flight
<1> HIDE DEF IInv
<1>3. x \in Flight /\ x.row = vault[req[r].u] /\ x.u = req[r].u
  BY <1>1, <1>2 DEF Flight
<1>4. req' = [req EXCEPT ![r] = x]
  BY DEF Load
<1> QED
  BY <1>2, <1>3, <1>4, FlightStep DEF Load

LEMMA LeaveKeeps ==
  ASSUME IInv, NEW r \in Request, Leave(r), UNCHANGED <<vault, closed, audit>>
  PROVE  IInv'
  BY FlightStep DEF Leave

LEMMA WriteFieldKeeps ==
  ASSUME IInv, NEW r \in Request, NEW f \in Field, WriteField(r, f)
  PROVE  IInv'
<1> DEFINE v == req[r].body[f]
           c == req[r].conf
           cell == Sealed(f, v, c, req[r].row[f])
           row == [req[r].row EXCEPT ![f] = cell]
           body == [req[r].body EXCEPT ![f] = Absent]
           x == [req[r] EXCEPT !.row = row, !.body = body]
           new == [u |-> req[r].u, field |-> f, value |-> v]
<1>1. req[r] \in Flight /\ req[r] # Null
  BY DEF IInv, TypeOK, WriteField, Turn, At
<1>2. /\ v \in Value \cup {Null} /\ c \in Conf /\ req[r].row \in Row
      /\ req[r].row[f] \in Cell /\ req[r].body \in Body /\ req[r].u \in User
      /\ CanSeal(f, v, c)
  BY <1>1 DEF Flight, Body, Row, WriteField, Turn
<1>3. cell \in Cell /\ (f \in Indexed => Matched(cell))
      /\ (cell.encrypted # Null => cell.encrypted.value = v)
  BY <1>2, SealedCell
<1>4. row \in Row /\ body \in Body
  BY <1>2, <1>3 DEF Row, Body
<1>5. x \in Flight /\ x.row = row /\ x.u = req[r].u
  BY <1>1, <1>4 DEF Flight
<1>6. req' = [req EXCEPT ![r] = x]
  BY <1>1 DEF WriteField, Flight
<1>7. audit' = audit \cup {new} /\ new \in Entry /\ vault' = vault /\ closed' = closed
  BY <1>2 DEF WriteField, Audited, Entry
<1>8. GoodRow(req[r].row, req[r].u)
  BY <1>1 DEF IInv
<1>9. \A g \in Indexed : Matched(row[g])
  BY <1>2, <1>3, <1>8 DEF GoodRow, Row, Indexed, Field
<1>10. ASSUME NEW g \in Field, row[g].encrypted # Null
       PROVE  [u |-> req[r].u, field |-> g, value |-> row[g].encrypted.value]
                \in audit'
  <2>1. CASE g = f
    BY <1>2, <1>3, <1>7, <1>10, <2>1 DEF Row
  <2>2. CASE g # f
    BY <1>2, <1>7, <1>8, <1>10, <2>2 DEF GoodRow, Row
  <2> QED
    BY <2>1, <2>2
<1>11. TypeOK' /\ UniqueIndex'
  BY <1>5, <1>6, <1>7 DEF IInv, TypeOK, UniqueIndex
<1>12. \A u \in User : GoodRow(vault[u], u)'
  BY <1>7 DEF IInv, GoodRow, Matched
<1>13. ASSUME NEW s \in Request, req'[s] # Null
       PROVE  GoodRow(req[s].row, req[s].u)'
  <2>1. CASE s = r
    <3>1. req'[s] = x
      BY <1>6, <2>1 DEF IInv, TypeOK
    <3> QED
      BY <1>5, <1>9, <1>10, <3>1 DEF GoodRow, Matched
  <2>2. CASE s # r
    <3>1. req'[s] = req[s]
      BY <1>6, <2>2 DEF IInv, TypeOK
    <3> QED
      BY <1>7, <1>13, <3>1 DEF IInv, GoodRow, Matched
  <2> QED
    BY <2>1, <2>2
<1> QED
  BY <1>11, <1>12, <1>13 DEF IInv

LEMMA SaveKeeps ==
  ASSUME IInv, NEW r \in Request, Save(r)
  PROVE  IInv'
<1> DEFINE x == req[r]
<1>1. x \in Flight /\ x # Null /\ GoodRow(x.row, x.u)
  BY DEF IInv, TypeOK, Save, At
<1>2. CASE vault' = vault
  BY <1>2, LeaveKeeps DEF Save
<1>3. CASE vault' = [vault EXCEPT ![x.u] = x.row] /\ ~Taken(r)
  <2>1. x.u \in User /\ x.row \in Row
    BY <1>1 DEF Flight
  <2>2. \A u \in User : vault'[u] = IF u = x.u THEN x.row ELSE vault[u]
    BY <1>3, <2>1 DEF IInv, TypeOK
  <2>3. TypeOK'
    BY <1>3, <2>1 DEF IInv, TypeOK, Save, Leave
  <2>4. \A u \in User : GoodRow(vault[u], u)'
    BY <1>1, <2>1, <2>2 DEF IInv, GoodRow, Matched, Save
  <2>5. \A s \in Request : req'[s] # Null => GoodRow(req[s].row, req[s].u)'
    BY DEF IInv, TypeOK, GoodRow, Matched, Save, Leave
  <2>6. UniqueIndex'
    BY <1>3, <2>1, <2>2 DEF IInv, UniqueIndex, Taken
  <2> QED
    BY <2>3, <2>4, <2>5, <2>6 DEF IInv
<1> QED
  BY <1>2, <1>3 DEF Save

LEMMA AnonymizeKeeps ==
  ASSUME IInv, NEW u \in User, Anonymize(u)
  PROVE  IInv'
<1>1. \A w \in User : vault'[w] = IF w = u THEN Blank ELSE vault[w]
  BY DEF IInv, TypeOK, Anonymize
<1>2. TypeOK'
  BY BlankRow DEF IInv, TypeOK, Anonymize
<1>3. ASSUME NEW w \in User PROVE GoodRow(vault[w], w)'
  <2>1. GoodRow(vault'[w], w)
    BY <1>1, BlankRow DEF IInv
  <2> QED
    BY <2>1 DEF GoodRow, Matched, Anonymize
<1>4. \A s \in Request : req'[s] # Null => GoodRow(req[s].row, req[s].u)'
  BY DEF IInv, GoodRow, Matched, Anonymize
<1>5. UniqueIndex'
  BY <1>1, BlankRow DEF IInv, UniqueIndex, Field
<1> QED
  BY <1>2, <1>3, <1>4, <1>5 DEF IInv

LEMMA NextInvariant == IInv /\ [Next]_vars => IInv'
<1> SUFFICES ASSUME IInv, [Next]_vars PROVE IInv'
  OBVIOUS
<1>1. ASSUME NEW r \in Request, NEW u \in User, NEW c \in Conf,
             \/ Arrive(r, "setup", u, c, Nothing)
             \/ \E b \in Submissions : Arrive(r, "secrets", u, c, b)
      PROVE  IInv'
  BY <1>1, ArriveKeeps
<1>2. ASSUME NEW r \in Request, Load(r) \/ Save(r) PROVE IInv'
  BY <1>2, LoadKeeps, SaveKeeps
<1>3. ASSUME NEW r \in Request, Crash(r) PROVE IInv'
  BY <1>3, LeaveKeeps DEF Crash
<1>4. ASSUME NEW r \in Request, NEW f \in Field,
             WriteField(r, f) \/ RefuseField(r, f)
      PROVE  IInv'
  BY <1>4, WriteFieldKeeps, LeaveKeeps DEF RefuseField
<1>5. ASSUME NEW u \in User, Anonymize(u) PROVE IInv'
  BY <1>5, AnonymizeKeeps
<1>6. CASE UNCHANGED vars
  BY <1>6 DEF vars, IInv, TypeOK, GoodRow, Matched, UniqueIndex
<1> QED
  BY <1>1, <1>2, <1>3, <1>4, <1>5, <1>6 DEF Next

-----------------------------------------------------------------------------
\* The vault, the audit trail and the requests keep their types.
THEOREM TypeInvariant == Spec => []TypeOK
<1>1. IInv => TypeOK
  BY DEF IInv
<1> QED
  BY InitInvariant, NextInvariant, <1>1, PTL DEF Spec

\* A value and its blind index agree, whatever is saved over whatever and
\* whichever settings the processes have.
THEOREM IndexesMatch == Spec => []IndexMatchesValue
<1> QED
  BY InitInvariant, NextInvariant, InvariantImplies, PTL DEF Spec

\* A national id is in one vault per pepper.
THEOREM HoldersAreUnique == Spec => []OneHolder
<1> QED
  BY InitInvariant, NextInvariant, InvariantImplies, PTL DEF Spec

\* Nothing is in the vault that no audit row announced.
THEOREM TrailIsComplete == Spec => []StoredIsAnnounced
<1> QED
  BY InitInvariant, NextInvariant, InvariantImplies, PTL DEF Spec
=============================================================================
