----------------------- MODULE AccountLifecycle_proofs -----------------------
(***************************************************************************)
(* Proofs about the life of an account, for any number of users and of     *)
(* concurrent transactions and under either isolation.                     *)
(*                                                                         *)
(* The properties speak of committed rows, but a commit publishes what one *)
(* transaction wrote next to what the others committed meanwhile.  The     *)
(* inductive invariants therefore speak of every transaction's VIEW, and   *)
(* rest on two facts about uncommitted writes: a row has one writer        *)
(* (LockExclusive), and a transaction that changes whether an account      *)
(* exists, or erases it, holds all three of its rows (ExistsWhole).        *)
(***************************************************************************)
EXTENDS AccountLifecycle, TLAPS

Inserting == {"insert_user", "insert_profile", "insert_secret"}

\* u is the account transaction t is creating and has not finished.
Creating(t, u) == pc[t] \in Inserting /\ u \in call[t].ids

LockExclusive ==
  \A t, o \in Txn, tab \in Table, u \in User :
    t # o => dirty[t][tab][u] = Clean \/ dirty[o][tab][u] = Clean

\* Nobody, except perhaps o, has anything to do with u yet.
Unseen(o, u) ==
  /\ \A tab \in Table : db[tab][u] = NoRow
  /\ \A t \in Txn : inst[t][u] = NoRow
  /\ \A t \in Txn \ {o} :
        ~Creating(t, u) /\ \A tab \in Table : dirty[t][tab][u] = Clean

FreshUsers ==
  /\ \A u \in User \ issued, o \in Txn : Unseen(o, u) /\ ~Creating(o, u)
                             /\ \A tab \in Table : dirty[o][tab][u] = Clean
  /\ \A u \in User, o \in Txn : Creating(o, u) => Unseen(o, u)

\* In every view an account has all of its rows or none, except the one the
\* transaction is still creating.
Aligned ==
  \A t \in Txn, u \in User :
    /\ ~Creating(t, u) =>
          \A tab \in Table : View(t, "user", u) = NoRow <=> View(t, tab, u) = NoRow
    /\ Creating(t, u) /\ pc[t] # "insert_user" => View(t, "user", u) # NoRow
    /\ Creating(t, u) /\ pc[t] = "insert_secret" => View(t, "profile", u) # NoRow

\* Uncommitted writes leave every row's existence as committed, or they cover
\* the whole account.
ExistsWhole ==
  \A t \in Txn, u \in User :
    \/ Creating(t, u)
    \/ \A tab \in Table : dirty[t][tab][u] # Clean
    \/ \A tab \in Table : \/ dirty[t][tab][u] = Clean
                          \/ dirty[t][tab][u] = NoRow <=> db[tab][u] = NoRow

Exists == /\ LockExclusive /\ FreshUsers /\ Aligned /\ ExistsWhole
          /\ SatellitesComplete

\* The same for erasure: in every view, what is marked anonymised is erased;
\* a mark that is not committed yet comes with all three rows, and nobody
\* adds personal data to a row that had none.
ErasedInView ==
  \A t \in Txn, u \in User, tab \in Table :
    /\ View(t, "user", u) # NoRow
    /\ View(t, "user", u).anonymized
    /\ View(t, tab, u) # NoRow
    => ~View(t, tab, u).pii

MarkedWhole ==
  \A t \in Txn, u \in User :
    \/ \A tab \in Table : dirty[t][tab][u] # Clean
    \/ dirty[t]["user"][u] \in {Clean, NoRow}
    \/ dirty[t]["user"][u].anonymized => /\ db["user"][u] # NoRow
                                         /\ db["user"][u].anonymized

NothingAdded ==
  \A t \in Txn, u \in User, tab \in Table :
    \/ Creating(t, u)
    \/ \A k \in Table : dirty[t][k][u] # Clean
    \/ dirty[t][tab][u] \in {Clean, NoRow}
    \/ dirty[t][tab][u].pii => db[tab][u] # NoRow /\ db[tab][u].pii

NewcomersAreUnmarked ==
  \A t \in Txn, u \in User :
    Creating(t, u) => \/ View(t, "user", u) = NoRow
                      \/ ~View(t, "user", u).anonymized

Erasure == /\ ErasedInView /\ MarkedWhole /\ NothingAdded
           /\ NewcomersAreUnmarked /\ AnonymizedIsErased

-----------------------------------------------------------------------------
(* Rows: what the operators on rows return.                                *)
LEMMA NewRowType ==
  \A pii \in BOOLEAN : /\ NewRow(pii) \in Row
                       /\ NewRow(pii).pii = pii /\ ~NewRow(pii).anonymized
  BY DEF NewRow, Row

LEMMA StampedType ==
  ASSUME NEW row \in Row, NEW tab \in Table, NEW v \in Stamp \cup {Null}
  PROVE  /\ Stamped(tab, row, v) \in Row
         /\ Stamped(tab, row, v).pii = row.pii
         /\ Stamped(tab, row, v).anonymized = row.anonymized
         /\ Stamped(tab, row, v).deleted = v
  BY DEF Stamped, Row

LEMMA ErasedType ==
  ASSUME NEW row \in Row, NEW tab \in Table
  PROVE  /\ Erased(tab, row) \in Row
         /\ ~Erased(tab, row).pii
         /\ Erased(tab, row).anonymized = (tab = "user")
         /\ Erased(tab, row).deleted = row.deleted
<1>1. (tab = "user") \in BOOLEAN
  OBVIOUS
<1>2. PICK b \in BOOLEAN : b = (tab = "user")
  BY <1>1
<1>3. /\ [row EXCEPT !.pii = FALSE, !.anonymized = b] \in Row
      /\ ~[row EXCEPT !.pii = FALSE, !.anonymized = b].pii
      /\ [row EXCEPT !.pii = FALSE, !.anonymized = b].anonymized = b
      /\ [row EXCEPT !.pii = FALSE, !.anonymized = b].deleted = row.deleted
  BY DEF Row
<1> QED
  BY <1>2, <1>3 DEF Erased

LEMMA ViewType ==
  ASSUME TypeOK, NEW t \in Txn, NEW tab \in Table, NEW u \in User
  PROVE  View(t, tab, u) \in Row \cup {NoRow}
  BY DEF TypeOK, View

(* A write of one table by one transaction keeps dirty in its range.       *)
LEMMA DirtyType ==
  ASSUME TypeOK, NEW t \in Txn,
         NEW f \in [Table -> [User -> Row \cup {NoRow, Clean}]],
         dirty' = [dirty EXCEPT ![t] = f]
  PROVE  dirty' \in [Txn -> [Table -> [User -> Row \cup {NoRow, Clean}]]]
  BY DEF TypeOK

LEMMA DirtyTableType ==
  ASSUME TypeOK, NEW t \in Txn, NEW tab \in Table,
         NEW f \in [User -> Row \cup {NoRow, Clean}],
         dirty' = [dirty EXCEPT ![t][tab] = f]
  PROVE  dirty' \in [Txn -> [Table -> [User -> Row \cup {NoRow, Clean}]]]
  BY DEF TypeOK

(* Types: every step keeps every variable in its range.                    *)
LEMMA InitType == Init => TypeOK
<1> SUFFICES ASSUME Init PROVE TypeOK
  OBVIOUS
<1>1. PICK p \in [User -> BOOLEAN], s \in [User -> BOOLEAN] :
        db = [tab \in Table |-> [u \in User |->
                IF u \notin issued THEN NoRow
                ELSE NewRow(CASE tab = "user" -> TRUE
                              [] tab = "profile" -> p[u]
                              [] tab = "secret" -> s[u])]]
  BY DEF Init
<1>2. \A tab \in Table, u \in User :
        (CASE tab = "user" -> TRUE [] tab = "profile" -> p[u]
           [] tab = "secret" -> s[u]) \in BOOLEAN
  BY DEF Table
<1>3. db \in [Table -> [User -> Row \cup {NoRow}]]
  BY <1>1, <1>2, NewRowType
<1>4. NoCall \in Call
  BY DEF NoCall, Call, OpName, Table
<1> QED
  BY <1>3, <1>4 DEF Init, TypeOK, NoWrites, NoInst, PC

LEMMA StepType == TypeOK /\ [Next]_vars => TypeOK'
<1> SUFFICES ASSUME TypeOK, [Next]_vars PROVE TypeOK'
  OBVIOUS
<1>1. ASSUME NEW t \in Txn, Begin(t)
      PROVE TypeOK'
  <2>1. ASSUME NEW op \in OpName, NEW mgr \in {"objects", "audit"},
               NEW by, NEW ids \in SUBSET User, NEW tab \in Table,
               Start(t, op, mgr, by, ids, tab)
        PROVE call' \in [Txn -> Call]
    <3>1. [op |-> op, mgr |-> mgr, by |-> by, ids |-> ids, tab |-> tab] \in Call
      BY <2>1, LookupsAssumption DEF Start, Call
    <3> QED
      BY <2>1, <3>1 DEF Start, TypeOK
  <2>2. ASSUME NEW mgr \in {"objects", "audit"}, NEW by \in Lookups,
               NEW ids \in SUBSET User, BeginDelete(t, mgr, by, ids)
        PROVE TypeOK'
    BY <2>1, <2>2 DEF BeginDelete, TypeOK, Goto, PC, OpName, Table
  <2>3. ASSUME NEW mgr \in {"objects", "audit"}, NEW by \in Lookups,
               NEW ids \in SUBSET User, BeginRestore(t, mgr, by, ids)
        PROVE TypeOK'
    BY <2>1, <2>3 DEF BeginRestore, TypeOK, Goto, PC, OpName, Table
  <2>4. ASSUME NEW mgr \in {"objects", "audit"}, NEW by \in Lookups,
               NEW ids \in SUBSET User, BeginAnonymize(t, mgr, by, ids)
        PROVE TypeOK'
    BY <2>1, <2>4 DEF BeginAnonymize, TypeOK, Goto, PC, OpName, Table
  <2>5. ASSUME NEW mgr \in {"objects", "audit"}, NEW by \in Lookups,
               NEW ids \in SUBSET User, BeginHardDelete(t, mgr, by, ids)
        PROVE TypeOK'
    BY <2>1, <2>5 DEF BeginHardDelete, TypeOK, Goto, PC, OpName, Table
  <2>6. ASSUME NEW u \in User, BeginCreate(t, u)
        PROVE TypeOK'
    BY <2>1, <2>6 DEF BeginCreate, TypeOK, Goto, PC, OpName, Table
  <2>7. ASSUME NEW u \in User, NEW tab \in Table, BeginSave(t, tab, u)
        PROVE TypeOK'
    BY <2>1, <2>7 DEF BeginSave, TypeOK, Goto, PC, OpName
  <2> QED
    BY <1>1, <2>2, <2>3, <2>4, <2>5, <2>6, <2>7 DEF Begin
<1>2. ASSUME NEW t \in Txn, NEW tab \in Table, NEW from \in PC, NEW to \in PC,
             UpdateTable(t, tab, from, to)
      PROVE TypeOK'
  <2> DEFINE f == [u \in User |->
                     IF u \in Targets(t) /\ View(t, tab, u) # NoRow
                     THEN Stamped(tab, View(t, tab, u), now[t])
                     ELSE dirty[t][tab][u]]
  <2>1. ASSUME NEW u \in User
        PROVE f[u] \in Row \cup {NoRow, Clean}
    BY ViewType, StampedType DEF TypeOK
  <2>2. f \in [User -> Row \cup {NoRow, Clean}]
    BY <2>1
  <2>3. dirty' = [dirty EXCEPT ![t][tab] = f]
    BY <1>2 DEF UpdateTable
  <2> HIDE DEF f
  <2> QED
    BY <1>2, <2>2, <2>3, DirtyTableType DEF UpdateTable, TypeOK, Goto
<1>3. ASSUME NEW t \in Txn, FetchAnonymize(t) \/ Collect(t)
      PROVE TypeOK'
  <2> DEFINE f == [u \in User |->
                     IF u \in Selected(t) THEN View(t, "user", u) ELSE NoRow]
  <2>1. ASSUME NEW u \in User
        PROVE View(t, "user", u) \in Row \cup {NoRow}
    BY ViewType DEF Table
  <2>2. f \in [User -> Row \cup {NoRow}]
    BY <2>1
  <2>3. /\ inst' = [inst EXCEPT ![t] = f]
        /\ pc' \in [Txn -> PC]
        /\ UNCHANGED <<db, dirty, call, now, issued>>
    BY <1>3 DEF FetchAnonymize, Collect, TypeOK, Goto, PC
  <2> HIDE DEF f
  <2> QED
    BY <2>2, <2>3 DEF TypeOK
<1>4. ASSUME NEW t \in Txn, NEW u \in User, AnonymizeOne(t, u)
      PROVE TypeOK'
  <2>1. inst[t][u] \in Row
    BY <1>4 DEF AnonymizeOne, TypeOK
  <2> DEFINE row(tab) == IF tab = "user" THEN Erased("user", inst[t][u])
                         ELSE IF View(t, "user", u) = NoRow THEN NewRow(FALSE)
                         ELSE IF View(t, tab, u) = NoRow THEN dirty[t][tab][u]
                         ELSE Erased(tab, View(t, tab, u))
             f == [tab \in Table |-> [dirty[t][tab] EXCEPT ![u] = row(tab)]]
  <2>2. ASSUME NEW tab \in Table
        PROVE row(tab) \in Row \cup {NoRow, Clean}
    <3>1. View(t, tab, u) \in Row \cup {NoRow}
      BY ViewType
    <3>2. View(t, tab, u) # NoRow => Erased(tab, View(t, tab, u)) \in Row
      BY <3>1, ErasedType
    <3>3. Erased("user", inst[t][u]) \in Row
      BY <2>1, ErasedType DEF Table
    <3>4. dirty[t][tab][u] \in Row \cup {NoRow, Clean}
      BY DEF TypeOK
    <3>5. NewRow(FALSE) \in Row
      BY NewRowType
    <3> QED
      BY <3>2, <3>3, <3>4, <3>5
  <2>3. f \in [Table -> [User -> Row \cup {NoRow, Clean}]]
    <3> HIDE DEF row
    <3> QED
      BY <2>2 DEF TypeOK
  <2>4. dirty' = dirty \/ dirty' = [dirty EXCEPT ![t] = f]
    BY <1>4 DEF AnonymizeOne
  <2>5. inst' \in [Txn -> [User -> Row \cup {NoRow}]]
    BY <1>4 DEF AnonymizeOne, TypeOK
  <2> HIDE DEF f
  <2> QED
    BY <1>4, <2>3, <2>4, <2>5, DirtyType DEF AnonymizeOne, TypeOK
<1>5. ASSUME NEW t \in Txn, FinishLoop(t)
      PROVE TypeOK'
  BY <1>5 DEF FinishLoop, FinalDelete, Goto, TypeOK, PC
<1>6. ASSUME NEW t \in Txn, Purge(t)
      PROVE TypeOK'
  <2> DEFINE f == [tab \in Table |-> [u \in User |->
                     IF u \in {v \in User : inst[t][v] # NoRow} THEN NoRow
                     ELSE dirty[t][tab][u]]]
  <2>1. f \in [Table -> [User -> Row \cup {NoRow, Clean}]]
    BY DEF TypeOK
  <2>2. dirty' = [dirty EXCEPT ![t] = f]
    BY <1>6 DEF Purge
  <2> HIDE DEF f
  <2> QED
    BY <1>6, <2>1, <2>2, DirtyType DEF Purge, TypeOK, Goto, PC, NoInst
<1>7. ASSUME NEW t \in Txn, NEW tab \in Table, NEW from \in PC, NEW to \in PC,
             NEW row \in Row, Insert(t, tab, from, to, row)
      PROVE TypeOK'
  <2> DEFINE f == [u \in User |-> IF u \in call[t].ids THEN row
                                  ELSE dirty[t][tab][u]]
  <2>1. f \in [User -> Row \cup {NoRow, Clean}]
    BY DEF TypeOK
  <2>2. dirty' = [dirty EXCEPT ![t][tab] = f]
    BY <1>7 DEF Insert
  <2> HIDE DEF f
  <2> QED
    BY <1>7, <2>1, <2>2, DirtyTableType DEF Insert, TypeOK, Goto
<1>8. ASSUME NEW t \in Txn, NEW u \in User, FetchSave(t, u)
      PROVE TypeOK'
  BY <1>8, ViewType DEF FetchSave, TypeOK, Goto, PC, Call
<1>9. ASSUME NEW t \in Txn, NEW u \in User, WriteSave(t, u)
      PROVE TypeOK'
  <2>1. inst[t][u] \in Row
    BY <1>9 DEF WriteSave, TypeOK
  <2>2. [inst[t][u] EXCEPT !.pii = TRUE] \in Row
    BY <2>1 DEF Row
  <2> DEFINE row(k) == IF k = call[t].tab THEN [inst[t][u] EXCEPT !.pii = TRUE]
                       ELSE IF View(t, "user", u) = NoRow THEN NewRow(FALSE)
                       ELSE dirty[t][k][u]
             f == [k \in Table |-> [dirty[t][k] EXCEPT ![u] = row(k)]]
  <2>3. ASSUME NEW k \in Table
        PROVE row(k) \in Row \cup {NoRow, Clean}
    <3>1. dirty[t][k][u] \in Row \cup {NoRow, Clean}
      BY DEF TypeOK
    <3>2. NewRow(FALSE) \in Row
      BY NewRowType
    <3> QED
      BY <2>2, <3>1, <3>2
  <2>4. f \in [Table -> [User -> Row \cup {NoRow, Clean}]]
    <3> HIDE DEF row
    <3> QED
      BY <2>3 DEF TypeOK
  <2>5. dirty' = [dirty EXCEPT ![t] = f]
    BY <1>9 DEF WriteSave
  <2> HIDE DEF f
  <2> QED
    BY <1>9, <2>4, <2>5, DirtyType DEF WriteSave, TypeOK, Goto, PC, NoInst
<1>10. ASSUME NEW t \in Txn, NEW rows \in [Table -> [User -> Row \cup {NoRow}]],
              End(t, rows)
       PROVE TypeOK'
  <2>1. NoWrites \in [Table -> [User -> Row \cup {NoRow, Clean}]]
    BY DEF NoWrites
  <2>2. NoCall \in Call /\ NoInst \in [User -> Row \cup {NoRow}]
    BY DEF NoCall, Call, OpName, Table, NoInst
  <2>3. dirty' \in [Txn -> [Table -> [User -> Row \cup {NoRow, Clean}]]]
    BY <1>10, <2>1, DirtyType DEF End
  <2> QED
    BY <1>10, <2>2, <2>3 DEF End, TypeOK, Goto, PC
<1>11. \A t \in Txn : Merged(t) \in [Table -> [User -> Row \cup {NoRow}]]
  BY ViewType DEF Merged
<1>12. ASSUME NEW t \in Txn, Commit(t) \/ Rollback(t)
       PROVE TypeOK'
  BY <1>10, <1>11, <1>12 DEF Commit, Rollback, RolledBack, TypeOK
<1>13. ASSUME NEW t \in Txn,
              UpdateProfiles(t) \/ UpdateSecrets(t) \/ UpdateUsers(t)
       PROVE TypeOK'
  BY <1>2, <1>13 DEF UpdateProfiles, UpdateSecrets, UpdateUsers, Table, PC
<1>14. ASSUME NEW t \in Txn,
              InsertUser(t) \/ InsertProfile(t) \/ InsertSecret(t)
       PROVE TypeOK'
  BY <1>7, <1>14, NewRowType
  DEF InsertUser, InsertProfile, InsertSecret, Table, PC
<1>15. CASE UNCHANGED vars
  BY <1>15 DEF vars, TypeOK
<1> QED
  BY <1>1, <1>3, <1>4, <1>5, <1>6, <1>8, <1>9, <1>12, <1>13, <1>14, <1>15
  DEF Next, Step

(* Types: every variable stays in its range, for every value of the        *)
(* constants (the state managers.py and signals.py can produce).           *)
THEOREM TypeInvariant == Spec => []TypeOK
  BY InitType, StepType, PTL DEF Spec

-----------------------------------------------------------------------------
(* The shape of a step of t that reads or writes rows of finished          *)
(* accounts: per account it rewrites rows that exist and that it may lock  *)
(* (Kept), or it takes hold of the whole account (Whole).                  *)
Kept(t, u) ==
  \A tab \in Table :
    \/ dirty'[t][tab][u] = dirty[t][tab][u]
    \/ /\ Unlocked(t, tab, u) /\ View(t, tab, u) # NoRow
       /\ dirty'[t][tab][u] \in Row

Whole(t, u) ==
  /\ AllUnlocked(t, u) /\ inst[t][u] # NoRow
  /\ \A tab \in Table : dirty'[t][tab][u] # Clean
  /\ \/ \A tab \in Table : dirty'[t][tab][u] = NoRow
     \/ \A tab \in Table : dirty'[t][tab][u] # NoRow

Working(t) ==
  /\ db' = db /\ call' = call /\ issued' = issued
  /\ pc[t] \notin Inserting /\ pc'[t] \notin Inserting
  /\ \A o \in Txn \ {t} : /\ pc'[o] = pc[o] /\ dirty'[o] = dirty[o]
                          /\ inst'[o] = inst[o]
  /\ \A u \in User : \/ inst'[t][u] \in {NoRow, inst[t][u]}
                     \/ View(t, "user", u) # NoRow
  /\ \A u \in User : Kept(t, u) \/ Whole(t, u)

LEMMA WorkingKeepsExists ==
  ASSUME TypeOK, TypeOK', Exists, NEW t \in Txn, Working(t)
  PROVE  Exists'
<1> USE RowAssumption DEF Exists
<1>0. \A o \in Txn, u \in User : Creating(o, u)' <=> Creating(o, u)
  BY DEF Working, Creating
<1>1. LockExclusive'
  BY DEF Working, Kept, Whole, Unlocked, AllUnlocked, LockExclusive
<1>2. FreshUsers'
  <2>1. ASSUME NEW o \in Txn, NEW u \in User, Unseen(o, u),
               o # t \/ \A tab \in Table : dirty[t][tab][u] = Clean
        PROVE /\ Unseen(o, u)'
              /\ \A tab \in Table : dirty'[t][tab][u] = Clean
    <3>1. \A tab \in Table : dirty[t][tab][u] = Clean /\ View(t, tab, u) = NoRow
      BY <2>1 DEF Unseen, View
    <3>2. inst[t][u] = NoRow /\ inst'[t][u] = NoRow
      BY <2>1, <3>1 DEF Unseen, Working, Table
    <3>3. \A tab \in Table : dirty'[t][tab][u] = Clean
      BY <3>1, <3>2 DEF Working, Kept, Whole
    <3> QED
      BY <1>0, <2>1, <3>2, <3>3 DEF Unseen, Working
  <2>2. ASSUME NEW o \in Txn, NEW u \in User, Creating(o, u)'
        PROVE Unseen(o, u)'
    <3>1. Creating(o, u) /\ Unseen(o, u) /\ o # t
      BY <1>0, <2>2 DEF FreshUsers, Creating, Working
    <3> QED
      BY <2>1, <3>1
  <2>3. ASSUME NEW o \in Txn, NEW u \in User \ issued
        PROVE /\ Unseen(o, u)' /\ ~Creating(o, u)'
              /\ \A tab \in Table : dirty'[o][tab][u] = Clean
    <3>1. \A q \in Txn : /\ Unseen(q, u) /\ ~Creating(q, u)
                        /\ \A tab \in Table : dirty[q][tab][u] = Clean
      BY DEF FreshUsers
    <3> QED
      BY <1>0, <2>1, <3>1 DEF Working
  <2> QED
    BY <2>2, <2>3 DEF FreshUsers, Working
<1>3. Aligned'
  <2> SUFFICES ASSUME NEW o \in Txn, NEW u \in User
               PROVE  /\ ~Creating(o, u)' => \A tab \in Table :
                            View(o, "user", u)' = NoRow <=> View(o, tab, u)' = NoRow
                      /\ Creating(o, u)' /\ pc'[o] # "insert_user" =>
                            View(o, "user", u)' # NoRow
                      /\ Creating(o, u)' /\ pc'[o] = "insert_secret" =>
                            View(o, "profile", u)' # NoRow
    BY DEF Aligned
  <2>1. CASE o # t
    <3>1. \A tab \in Table : View(o, tab, u)' = View(o, tab, u)
      BY <2>1 DEF View, Working
    <3> QED
      BY <1>0, <2>1, <3>1 DEF Aligned, Working, Table
  <2>2. CASE o = t
    <3>1. ~Creating(t, u) /\ ~Creating(t, u)'
      BY DEF Working, Creating
    <3>2. CASE Kept(t, u)
      <4>1. ASSUME NEW tab \in Table
            PROVE View(t, tab, u)' = NoRow <=> View(t, tab, u) = NoRow
        BY <3>2 DEF Kept, View, Working
      <4> QED
        BY <2>2, <3>1, <4>1 DEF Aligned, Table
    <3>3. CASE Whole(t, u)
      BY <2>2, <3>1, <3>3 DEF Whole, View, Table
    <3> QED
      BY <3>2, <3>3 DEF Working
  <2> QED
    BY <2>1, <2>2
<1>4. ExistsWhole'
  <2> SUFFICES ASSUME NEW o \in Txn, NEW u \in User
               PROVE  \/ Creating(o, u)'
                      \/ \A tab \in Table : dirty'[o][tab][u] # Clean
                      \/ \A tab \in Table :
                            \/ dirty'[o][tab][u] = Clean
                            \/ dirty'[o][tab][u] = NoRow <=> db[tab][u] = NoRow
    BY DEF ExistsWhole, Working
  <2>1. CASE o # t
    BY <1>0, <2>1 DEF ExistsWhole, Working
  <2>2. CASE o = t /\ Whole(t, u)
    BY <2>2 DEF Whole
  <2>3. CASE o = t /\ Kept(t, u)
    <3>1. ~Creating(t, u)
      BY DEF Working, Creating
    <3>2. CASE \A tab \in Table : dirty[t][tab][u] # Clean
      BY <2>3, <3>2 DEF Kept
    <3>3. CASE \A tab \in Table :
                 \/ dirty[t][tab][u] = Clean
                 \/ dirty[t][tab][u] = NoRow <=> db[tab][u] = NoRow
      BY <2>3, <3>3 DEF Kept, View
    <3> QED
      BY <3>1, <3>2, <3>3 DEF ExistsWhole
  <2> QED
    BY <2>1, <2>2, <2>3 DEF Working
<1>5. SatellitesComplete'
  BY DEF SatellitesComplete, Working
<1> QED
  BY <1>1, <1>2, <1>3, <1>4, <1>5

(* delete() and restore(): one UPDATE statement has the shape.             *)
LEMMA UpdateTableWorks ==
  ASSUME TypeOK, NEW t \in Txn, NEW tab \in Table,
         NEW from \in PC \ Inserting, NEW to \in PC \ Inserting,
         UpdateTable(t, tab, from, to)
  PROVE  Working(t)
<1>1. ASSUME NEW u \in User PROVE Kept(t, u)
  <2>1. ASSUME NEW k \in Table, k # tab
        PROVE dirty'[t][k][u] = dirty[t][k][u]
    BY <2>1 DEF UpdateTable, TypeOK
  <2>2. dirty'[t][tab][u] = IF u \in Targets(t) /\ View(t, tab, u) # NoRow
                            THEN Stamped(tab, View(t, tab, u), now[t])
                            ELSE dirty[t][tab][u]
    BY DEF UpdateTable, TypeOK
  <2>3. CASE u \in Targets(t) /\ View(t, tab, u) # NoRow
    <3>1. Unlocked(t, tab, u)
      BY <2>3 DEF UpdateTable
    <3>2. View(t, tab, u) \in Row /\ now[t] \in Stamp \cup {Null}
      BY <2>3, ViewType DEF TypeOK
    <3>3. dirty'[t][tab][u] \in Row
      BY <2>2, <2>3, <3>2, StampedType
    <3> QED
      BY <2>1, <2>3, <3>1, <3>3 DEF Kept
  <2>4. CASE ~(u \in Targets(t) /\ View(t, tab, u) # NoRow)
    BY <2>1, <2>2, <2>4 DEF Kept
  <2> QED
    BY <2>3, <2>4
<1>2. \A o \in Txn \ {t} : dirty'[o] = dirty[o]
  BY DEF UpdateTable, TypeOK
<1> QED
  BY <1>1, <1>2 DEF Working, UpdateTable, Goto, TypeOK

(* anonymize(): reading the users, and leaving the loop.                   *)
LEMMA FetchesWork ==
  ASSUME TypeOK, NEW t \in Txn,
         \/ FetchAnonymize(t) \/ Collect(t) \/ FinishLoop(t)
         \/ \E u \in User : FetchSave(t, u)
  PROVE  Working(t)
<1>1. \A u \in User : \/ inst'[t][u] \in {NoRow, inst[t][u]}
                      \/ View(t, "user", u) # NoRow
  BY DEF FetchAnonymize, Collect, FinishLoop, FetchSave, TypeOK, Selected,
         Visible
<1>2. \A o \in Txn \ {t} : inst'[o] = inst[o]
  BY DEF FetchAnonymize, Collect, FinishLoop, FetchSave, TypeOK
<1>3. dirty' = dirty /\ db' = db /\ call' = call /\ issued' = issued
  BY DEF FetchAnonymize, Collect, FinishLoop, FetchSave
<1>4. /\ pc[t] \notin Inserting /\ pc'[t] \notin Inserting
      /\ \A o \in Txn \ {t} : pc'[o] = pc[o]
  BY DEF FetchAnonymize, Collect, FinishLoop, FinalDelete, FetchSave, Goto,
         TypeOK, Inserting
<1> QED
  BY <1>1, <1>2, <1>3, <1>4 DEF Working, Kept

(* Writing the rows of one account leaves the others as they were.         *)
LEMMA AccountWrite ==
  ASSUME TypeOK, NEW t \in Txn, NEW u \in User,
         NEW row \in [Table -> Row \cup {NoRow, Clean}],
         dirty' = [dirty EXCEPT ![t] =
                     [k \in Table |-> [dirty[t][k] EXCEPT ![u] = row[k]]]]
  PROVE  /\ \A k \in Table : dirty'[t][k][u] = row[k]
         /\ \A v \in User \ {u}, k \in Table : dirty'[t][k][v] = dirty[t][k][v]
         /\ \A o \in Txn \ {t} : dirty'[o] = dirty[o]
<1>1. \A k \in Table : dirty'[t][k] = [dirty[t][k] EXCEPT ![u] = row[k]]
  BY DEF TypeOK
<1>2. \A k \in Table : dirty[t][k] \in [User -> Row \cup {NoRow, Clean}]
  BY DEF TypeOK
<1>3. \A o \in Txn \ {t} : dirty'[o] = dirty[o]
  BY DEF TypeOK
<1>4. ASSUME NEW k \in Table
      PROVE  /\ dirty'[t][k][u] = row[k]
             /\ \A v \in User \ {u} : dirty'[t][k][v] = dirty[t][k][v]
  <2>1. dirty[t][k] \in [User -> Row \cup {NoRow, Clean}]
    BY <1>2
  <2>2. dirty'[t][k] = [dirty[t][k] EXCEPT ![u] = row[k]]
    BY <1>1
  <2> QED
    BY <2>1, <2>2
<1> QED
  BY <1>3, <1>4

(* anonymize(): one turn of the loop holds the whole account it rewrites.  *)
LEMMA AnonymizeOneWorks ==
  ASSUME TypeOK, Aligned, NEW t \in Txn, NEW u \in User, AnonymizeOne(t, u)
  PROVE  Working(t)
<1> USE RowAssumption
<1>1. /\ pc[t] = "loop" /\ inst[t][u] \in Row
      /\ \A tab \in Table : View(t, tab, u) \in Row \cup {NoRow}
  BY ViewType DEF AnonymizeOne, TypeOK
<1>2. \A tab \in Table : View(t, "user", u) = NoRow <=> View(t, tab, u) = NoRow
  BY <1>1 DEF Aligned, Creating, Inserting
<1>3. CASE inst[t][u].anonymized
  BY <1>3, <1>1 DEF AnonymizeOne, Working, Kept, Inserting, TypeOK
<1>4. CASE ~inst[t][u].anonymized
  <2> DEFINE row == [tab \in Table |->
                       IF tab = "user" THEN Erased("user", inst[t][u])
                       ELSE IF View(t, "user", u) = NoRow THEN NewRow(FALSE)
                       ELSE IF View(t, tab, u) = NoRow THEN dirty[t][tab][u]
                       ELSE Erased(tab, View(t, tab, u))]
  <2>1. ASSUME NEW tab \in Table
        PROVE  row[tab] \in Row
    <3>1. Erased("user", inst[t][u]) \in Row /\ NewRow(FALSE) \in Row
      BY <1>1, ErasedType, NewRowType DEF Table
    <3>2. View(t, "user", u) # NoRow => Erased(tab, View(t, tab, u)) \in Row
      BY <1>1, <1>2, ErasedType
    <3> QED
      BY <1>2, <3>1, <3>2
  <2>2. \A tab \in Table : row[tab] \in Row
    BY <2>1
  <2>3. dirty' = [dirty EXCEPT ![t] = [k \in Table |->
                    [dirty[t][k] EXCEPT ![u] = row[k]]]]
    BY <1>4 DEF AnonymizeOne
  <2>4. row \in [Table -> Row \cup {NoRow, Clean}]
    BY <2>2
  <2> HIDE DEF row
  <2>5. /\ \A k \in Table : dirty'[t][k][u] = row[k]
        /\ \A v \in User \ {u}, k \in Table : dirty'[t][k][v] = dirty[t][k][v]
        /\ \A o \in Txn \ {t} : dirty'[o] = dirty[o]
    BY <2>3, <2>4, AccountWrite
  <2>6. Whole(t, u)
    BY <1>1, <1>4, <2>2, <2>5 DEF Whole, AnonymizeOne
  <2>7. \A v \in User : Kept(t, v) \/ Whole(t, v)
    BY <2>5, <2>6 DEF Kept
  <2>8. /\ \A o \in Txn \ {t} : inst'[o] = inst[o]
        /\ \A v \in User : inst'[t][v] \in {NoRow, inst[t][v]}
    BY DEF AnonymizeOne, TypeOK
  <2>9. /\ pc' = pc /\ db' = db /\ call' = call /\ issued' = issued
        /\ pc[t] \notin Inserting
    BY <1>1 DEF AnonymizeOne, Inserting
  <2> QED
    BY <2>5, <2>7, <2>8, <2>9 DEF Working
<1> QED
  BY <1>3, <1>4

(* hard_delete(): the purge holds the whole of every account it removes.   *)
LEMMA PurgeWorks ==
  ASSUME TypeOK, NEW t \in Txn, Purge(t)
  PROVE  Working(t)
<1> USE RowAssumption
<1>1. \A u \in User, tab \in Table :
        dirty'[t][tab][u] = IF inst[t][u] # NoRow THEN NoRow
                            ELSE dirty[t][tab][u]
  BY DEF Purge, TypeOK
<1>2. \A u \in User : inst[t][u] # NoRow => AllUnlocked(t, u)
  BY DEF Purge
<1>3. \A u \in User : Kept(t, u) \/ Whole(t, u)
  BY <1>1, <1>2 DEF Kept, Whole
<1>4. \A o \in Txn \ {t} : inst'[o] = inst[o] /\ dirty'[o] = dirty[o]
  BY DEF Purge, TypeOK
<1>5. inst' = inst
  BY DEF Purge
<1> QED
  BY <1>3, <1>4, <1>5 DEF Working, Purge, Goto, TypeOK, Inserting

(* save(): it rewrites one existing row, or inserts a purged user anew.    *)
LEMMA WriteSaveWorks ==
  ASSUME TypeOK, Aligned, NEW t \in Txn, NEW u \in User, WriteSave(t, u)
  PROVE  Working(t)
<1> USE RowAssumption
<1> DEFINE tb == call[t].tab
           full == [inst[t][u] EXCEPT !.pii = TRUE]
           row == [k \in Table |->
                     IF k = tb THEN full
                     ELSE IF View(t, "user", u) = NoRow THEN NewRow(FALSE)
                     ELSE dirty[t][k][u]]
<1>1. /\ pc[t] = "write" /\ inst[t][u] \in Row /\ AllUnlocked(t, u)
      /\ tb \in Table
      /\ tb # "user" => View(t, "user", u) # NoRow
  BY DEF WriteSave, TypeOK, Call
<1>2. full \in Row /\ NewRow(FALSE) \in Row
  BY <1>1, NewRowType DEF Row
<1>3. \A k \in Table : dirty[t][k][u] \in Row \cup {NoRow, Clean}
  BY DEF TypeOK
<1>4. dirty' = [dirty EXCEPT ![t] = [k \in Table |->
                  [dirty[t][k] EXCEPT ![u] = row[k]]]]
  BY DEF WriteSave
<1> HIDE DEF tb, full
<1>5. row \in [Table -> Row \cup {NoRow, Clean}]
  BY <1>2, <1>3
<1>6. /\ \A k \in Table : row[k] \in {full, NewRow(FALSE), dirty[t][k][u]}
      /\ View(t, "user", u) = NoRow => \A k \in Table : row[k] \in Row
      /\ View(t, "user", u) # NoRow =>
            \A k \in Table : k # tb => row[k] = dirty[t][k][u]
      /\ row[tb] = full
  BY <1>1, <1>2
<1> HIDE DEF row
<1>7. /\ \A k \in Table : dirty'[t][k][u] = row[k]
      /\ \A v \in User \ {u}, k \in Table : dirty'[t][k][v] = dirty[t][k][v]
      /\ \A o \in Txn \ {t} : dirty'[o] = dirty[o]
  BY <1>4, <1>5, AccountWrite
<1>8. ASSUME View(t, "user", u) = NoRow PROVE Whole(t, u)
  BY <1>1, <1>6, <1>7, <1>8 DEF Whole
<1>9. ASSUME View(t, "user", u) # NoRow PROVE Kept(t, u)
  <2>1. View(t, tb, u) # NoRow
    BY <1>1, <1>9 DEF Aligned, Creating, Inserting
  <2> QED
    BY <1>1, <1>2, <1>6, <1>7, <1>9, <2>1 DEF Kept, AllUnlocked
<1>10. \A v \in User : Kept(t, v) \/ Whole(t, v)
  BY <1>7, <1>8, <1>9 DEF Kept
<1>11. /\ \A o \in Txn \ {t} : inst'[o] = inst[o]
       /\ \A v \in User : inst'[t][v] = NoRow
  BY DEF WriteSave, TypeOK, NoInst
<1> QED
  BY <1>1, <1>7, <1>10, <1>11 DEF Working, WriteSave, Goto, TypeOK, Inserting

(* Initially every account is whole and nobody is at work.                 *)
LEMMA InitExists == Init => Exists
<1> SUFFICES ASSUME Init PROVE Exists
  OBVIOUS
<1> USE RowAssumption
<1>1. PICK p \in [User -> BOOLEAN], s \in [User -> BOOLEAN] :
        db = [tab \in Table |-> [u \in User |->
                IF u \notin issued THEN NoRow
                ELSE NewRow(CASE tab = "user" -> TRUE
                              [] tab = "profile" -> p[u]
                              [] tab = "secret" -> s[u])]]
  BY DEF Init
<1>2. \A tab \in Table, u \in User :
        (CASE tab = "user" -> TRUE [] tab = "profile" -> p[u]
           [] tab = "secret" -> s[u]) \in BOOLEAN
  BY DEF Table
<1>3. ASSUME NEW tab \in Table, NEW u \in User
      PROVE  db[tab][u] = NoRow <=> u \notin issued
  <2> DEFINE pii == CASE tab = "user" -> TRUE [] tab = "profile" -> p[u]
                      [] tab = "secret" -> s[u]
  <2>1. db[tab][u] = IF u \notin issued THEN NoRow ELSE NewRow(pii)
    BY <1>1
  <2>2. pii \in BOOLEAN
    BY <1>2
  <2> HIDE DEF pii
  <2> QED
    BY <2>1, <2>2, NewRowType
<1>4. \A t \in Txn, tab \in Table, u \in User :
        dirty[t][tab][u] = Clean /\ inst[t][u] = NoRow
  BY DEF Init, NoWrites, NoInst
<1>5. \A t \in Txn, u \in User : ~Creating(t, u)
  BY DEF Init, Creating, Inserting
<1> QED
  BY <1>3, <1>4, <1>5
  DEF Exists, LockExclusive, FreshUsers, Unseen, Aligned, ExistsWhole, View,
      SatellitesComplete, Table

(* Starting an operation reads and writes no row.                          *)
LEMMA QuietKeepsExists ==
  ASSUME Exists, UNCHANGED <<db, dirty, inst, issued>>,
         \A o \in Txn, u \in User : /\ Creating(o, u)' <=> Creating(o, u)
                                    /\ Creating(o, u) => pc'[o] = pc[o]
  PROVE  Exists'
<1> USE DEF Exists
<1>1. \A t \in Txn, tab \in Table, u \in User : View(t, tab, u)' = View(t, tab, u)
  BY DEF View
<1>2. \A o \in Txn, u \in User : Unseen(o, u)' <=> Unseen(o, u)
  BY DEF Unseen
<1>3. FreshUsers'
  BY <1>2 DEF FreshUsers
<1>4. Aligned'
  BY <1>1 DEF Aligned, Table
<1>5. ExistsWhole'
  BY DEF ExistsWhole
<1> QED
  BY <1>3, <1>4, <1>5 DEF LockExclusive, SatellitesComplete

LEMMA BeginCreateKeepsExists ==
  ASSUME TypeOK, Exists, NEW t \in Txn, NEW u \in User, BeginCreate(t, u)
  PROVE  Exists'
<1> USE DEF Exists
<1>1. /\ pc[t] = "idle" /\ pc'[t] = "insert_user" /\ u \notin issued
      /\ call'[t].ids = {u} /\ issued' = issued \cup {u}
      /\ \A o \in Txn \ {t} : pc'[o] = pc[o] /\ call'[o] = call[o]
      /\ UNCHANGED <<db, dirty, inst>>
  BY DEF BeginCreate, Start, MayBegin, Goto, TypeOK
<1>2. \A o \in Txn, v \in User :
        Creating(o, v)' <=> Creating(o, v) \/ (o = t /\ v = u)
  BY <1>1 DEF Creating, Inserting
<1>3. \A o \in Txn : /\ Unseen(o, u) /\ ~Creating(o, u)
                     /\ \A tab \in Table : dirty[o][tab][u] = Clean
  BY <1>1 DEF FreshUsers
<1>4. \A o \in Txn, tab \in Table, v \in User : View(o, tab, v)' = View(o, tab, v)
  BY <1>1 DEF View
<1>5. FreshUsers'
  <2>1. ASSUME NEW o \in Txn, NEW v \in User, Unseen(o, v),
               v = u => o = t
        PROVE Unseen(o, v)'
    BY <1>1, <1>2, <2>1 DEF Unseen
  <2> QED
    BY <1>1, <1>2, <1>3, <2>1 DEF FreshUsers
<1>6. \A v \in User : ~Creating(t, v)
  BY <1>1 DEF Creating, Inserting
<1>7. Aligned'
  BY <1>1, <1>2, <1>4, <1>6 DEF Aligned, Creating, Table
<1>8. ExistsWhole'
  BY <1>1, <1>2 DEF ExistsWhole
<1> QED
  BY <1>1, <1>5, <1>7, <1>8 DEF LockExclusive, SatellitesComplete

LEMMA BeginKeepsExists ==
  ASSUME TypeOK, Exists, NEW t \in Txn, Begin(t)
  PROVE  Exists'
<1>1. CASE \E u \in User : BeginCreate(t, u)
  BY <1>1, BeginCreateKeepsExists
<1>2. CASE ~\E u \in User : BeginCreate(t, u)
  <2>1. /\ pc[t] = "idle" /\ pc'[t] \notin Inserting
        /\ \A o \in Txn \ {t} : pc'[o] = pc[o] /\ call'[o] = call[o]
        /\ UNCHANGED <<db, dirty, inst, issued>>
    BY <1>2 DEF Begin, BeginDelete, BeginRestore, BeginAnonymize,
       BeginHardDelete, BeginSave, Start, MayBegin, Goto, TypeOK, Inserting
  <2>2. \A o \in Txn, u \in User : /\ Creating(o, u)' <=> Creating(o, u)
                                   /\ Creating(o, u) => pc'[o] = pc[o]
    BY <2>1 DEF Creating, Inserting
  <2> QED
    BY <2>1, <2>2, QuietKeepsExists
<1> QED
  BY <1>1, <1>2

(* create_user() and its receiver: each INSERT of one of the three rows.   *)
LEMMA InsertKeepsExists ==
  ASSUME TypeOK, Exists, NEW t \in Txn, NEW tab \in Table, NEW row \in Row,
         NEW from \in Inserting, NEW to \in Inserting \cup {"commit"},
         <<tab, from, to>> \in {<<"user", "insert_user", "insert_profile">>,
                                <<"profile", "insert_profile", "insert_secret">>,
                                <<"secret", "insert_secret", "commit">>},
         Insert(t, tab, from, to, row)
  PROVE  Exists'
<1> USE RowAssumption DEF Exists
<1>1. /\ pc[t] = from /\ pc'[t] = to
      /\ \A o \in Txn \ {t} : pc'[o] = pc[o] /\ dirty'[o] = dirty[o]
      /\ UNCHANGED <<db, call, inst, issued>>
  BY DEF Insert, Goto, TypeOK
<1>2. \A k \in Table, u \in User :
        dirty'[t][k][u] = IF k = tab /\ u \in call[t].ids THEN row
                          ELSE dirty[t][k][u]
  BY DEF Insert, TypeOK
<1>3. \A u \in User : Creating(t, u) <=> u \in call[t].ids
  BY <1>1 DEF Creating
<1>4. \A o \in Txn, u \in User : Creating(o, u)' => Creating(o, u)
  BY <1>1 DEF Creating
<1>5. \A u \in call[t].ids : Unlocked(t, tab, u)
  BY DEF Insert
<1>6. LockExclusive'
  BY <1>1, <1>2, <1>5 DEF LockExclusive, Unlocked
<1>7. FreshUsers'
  <2>1. ASSUME NEW o \in Txn, NEW u \in User, Unseen(o, u),
               o = t \/ ~Creating(t, u)
        PROVE Unseen(o, u)'
    BY <1>1, <1>2, <1>3, <1>4, <2>1 DEF Unseen
  <2>2. ASSUME NEW o \in Txn, NEW u \in User, Creating(o, u)'
        PROVE Unseen(o, u)'
    BY <1>4, <2>1, <2>2 DEF FreshUsers, Unseen
  <2>3. ASSUME NEW o \in Txn, NEW u \in User \ issued
        PROVE /\ Unseen(o, u)' /\ ~Creating(o, u)'
              /\ \A k \in Table : dirty'[o][k][u] = Clean
    BY <1>1, <1>2, <1>3, <1>4, <2>1 DEF FreshUsers
  <2> QED
    BY <1>1, <2>2, <2>3 DEF FreshUsers
<1>8. ASSUME NEW u \in User, Creating(t, u)
      PROVE  /\ \A k \in Table : db[k][u] = NoRow
             /\ View(t, tab, u)' = row
             /\ \A k \in Table : k # tab => View(t, k, u)' = View(t, k, u)
             /\ tab # "user" => View(t, "user", u) # NoRow
             /\ tab = "secret" => View(t, "profile", u) # NoRow
  <2>1. Unseen(t, u)
    BY <1>8 DEF FreshUsers
  <2> QED
    BY <1>1, <1>2, <1>3, <1>8, <2>1 DEF Aligned, Unseen, View
<1>9. Aligned'
  <2> SUFFICES ASSUME NEW o \in Txn, NEW u \in User
               PROVE  /\ ~Creating(o, u)' => \A k \in Table :
                            View(o, "user", u)' = NoRow <=> View(o, k, u)' = NoRow
                      /\ Creating(o, u)' /\ pc'[o] # "insert_user" =>
                            View(o, "user", u)' # NoRow
                      /\ Creating(o, u)' /\ pc'[o] = "insert_secret" =>
                            View(o, "profile", u)' # NoRow
    BY DEF Aligned
  <2>1. CASE o # t
    <3>1. /\ Creating(o, u)' <=> Creating(o, u)
          /\ pc'[o] = pc[o]
          /\ \A k \in Table : View(o, k, u)' = View(o, k, u)
      BY <1>1, <2>1 DEF Creating, View
    <3> QED
      BY <3>1 DEF Aligned, Table
  <2>2. CASE o = t /\ ~Creating(t, u)
    <3>1. /\ ~Creating(t, u)'
          /\ \A k \in Table : View(t, k, u)' = View(t, k, u)
      BY <1>1, <1>2, <1>3, <1>4, <2>2 DEF View
    <3> QED
      BY <2>2, <3>1 DEF Aligned, Table
  <2>3. CASE o = t /\ Creating(t, u)
    <3>1. CASE tab = "user"
      BY <1>1, <1>8, <2>3, <3>1 DEF Creating, Table
    <3>2. CASE tab = "profile"
      BY <1>1, <1>8, <2>3, <3>2 DEF Creating, Table
    <3>3. CASE tab = "secret"
      <4>1. ~Creating(t, u)'
        BY <1>1, <3>3 DEF Creating, Inserting
      <4> QED
        BY <1>8, <2>3, <3>3, <4>1 DEF Table
    <3> QED
      BY <3>1, <3>2, <3>3 DEF Table
  <2> QED
    BY <2>1, <2>2, <2>3
<1>10. ExistsWhole'
  <2> SUFFICES ASSUME NEW o \in Txn, NEW u \in User
               PROVE  \/ Creating(o, u)'
                      \/ \A k \in Table : dirty'[o][k][u] # Clean
                      \/ \A k \in Table :
                            \/ dirty'[o][k][u] = Clean
                            \/ dirty'[o][k][u] = NoRow <=> db[k][u] = NoRow
    BY <1>1 DEF ExistsWhole
  <2>1. CASE o # t
    BY <1>1, <2>1 DEF ExistsWhole, Creating
  <2>2. CASE o = t /\ ~Creating(t, u)
    BY <1>2, <1>3, <2>2 DEF ExistsWhole
  <2>3. CASE o = t /\ Creating(t, u) /\ to \in Inserting
    BY <1>1, <2>3 DEF Creating
  <2>4. CASE o = t /\ Creating(t, u) /\ to = "commit"
    <3>1. tab = "secret"
      BY <2>4
    <3>2. \A k \in Table : View(t, k, u)' # NoRow
      BY <1>8, <2>4, <3>1 DEF Table
    <3> QED
      BY <1>1, <1>8, <2>4, <3>2 DEF View
  <2> QED
    BY <2>1, <2>2, <2>3, <2>4
<1> QED
  BY <1>1, <1>6, <1>7, <1>9, <1>10 DEF SatellitesComplete

(* Leaving atomic() with an exception: the view is the committed state.    *)
LEMMA RollbackKeepsExists ==
  ASSUME TypeOK, Exists, NEW t \in Txn, Rollback(t)
  PROVE  Exists'
<1> USE RowAssumption DEF Exists
<1>1. /\ db' = db /\ issued' = issued /\ pc'[t] = "idle"
      /\ \A o \in Txn \ {t} : /\ pc'[o] = pc[o] /\ dirty'[o] = dirty[o]
                              /\ inst'[o] = inst[o] /\ call'[o] = call[o]
      /\ \A k \in Table, u \in User : dirty'[t][k][u] = Clean
      /\ \A u \in User : inst'[t][u] = NoRow
  BY DEF Rollback, RolledBack, End, Goto, TypeOK, NoWrites, NoInst
<1>2. \A u \in User : ~Creating(t, u)'
  BY <1>1 DEF Creating, Inserting
<1>3. \A o \in Txn \ {t}, u \in User : Creating(o, u)' <=> Creating(o, u)
  BY <1>1 DEF Creating
<1>4. LockExclusive'
  BY <1>1 DEF LockExclusive
<1>5. FreshUsers'
  <2>1. \A o \in Txn, u \in User : Unseen(o, u) => Unseen(o, u)'
    BY <1>1, <1>2, <1>3 DEF Unseen
  <2> QED
    BY <1>1, <1>2, <1>3, <2>1 DEF FreshUsers
<1>6. Aligned'
  <2>1. \A k \in Table, u \in User : View(t, k, u)' = db[k][u]
    BY <1>1 DEF View
  <2>2. \A o \in Txn \ {t}, k \in Table, u \in User :
          View(o, k, u)' = View(o, k, u)
    BY <1>1 DEF View
  <2> QED
    BY <1>1, <1>2, <1>3, <2>1, <2>2 DEF Aligned, SatellitesComplete, Table
<1>7. ExistsWhole'
  BY <1>1, <1>3 DEF ExistsWhole
<1> QED
  BY <1>1, <1>4, <1>5, <1>6, <1>7 DEF SatellitesComplete

(* Leaving atomic() normally: whoever else is at work sees either the same *)
(* rows come and go as before, or an account it has not touched.           *)
LEMMA CommitKeepsExists ==
  ASSUME TypeOK, Exists, NEW t \in Txn, Commit(t)
  PROVE  Exists'
<1> USE RowAssumption DEF Exists
<1>1. /\ issued' = issued /\ pc[t] = "commit" /\ pc'[t] = "idle"
      /\ \A o \in Txn \ {t} : /\ pc'[o] = pc[o] /\ dirty'[o] = dirty[o]
                              /\ inst'[o] = inst[o] /\ call'[o] = call[o]
      /\ \A k \in Table, u \in User : dirty'[t][k][u] = Clean
      /\ \A u \in User : inst'[t][u] = NoRow
      /\ \A k \in Table, u \in User : db'[k][u] = View(t, k, u)
  BY DEF Commit, Merged, End, Goto, TypeOK, NoWrites, NoInst
<1>2. \A u \in User : ~Creating(t, u) /\ ~Creating(t, u)'
  BY <1>1 DEF Creating, Inserting
<1>3. \A o \in Txn \ {t}, u \in User : Creating(o, u)' <=> Creating(o, u)
  BY <1>1 DEF Creating
<1>4. LockExclusive'
  BY <1>1 DEF LockExclusive
<1>5. ASSUME NEW u \in User, \A k \in Table : dirty[t][k][u] = Clean
      PROVE  \A k \in Table : db'[k][u] = db[k][u]
  BY <1>1, <1>5 DEF View
<1>6. FreshUsers'
  <2>1. ASSUME NEW o \in Txn, NEW u \in User, Unseen(o, u),
               \A k \in Table : dirty[t][k][u] = Clean
        PROVE Unseen(o, u)'
    BY <1>1, <1>2, <1>3, <1>5, <2>1 DEF Unseen
  <2>2. ASSUME NEW o \in Txn, NEW u \in User, Creating(o, u)'
        PROVE Unseen(o, u)'
    <3>1. o # t /\ Creating(o, u)
      BY <1>2, <1>3, <2>2
    <3> QED
      BY <2>1, <3>1 DEF FreshUsers, Unseen
  <2>3. ASSUME NEW o \in Txn, NEW u \in User \ issued
        PROVE /\ Unseen(o, u)' /\ ~Creating(o, u)'
              /\ \A k \in Table : dirty'[o][k][u] = Clean
    BY <1>1, <1>2, <1>3, <2>1 DEF FreshUsers
  <2> QED
    BY <1>1, <2>2, <2>3 DEF FreshUsers
\* What the committed account t hands to the others looks like.
<1>7. ASSUME NEW u \in User
      PROVE  \/ \A o \in Txn \ {t}, k \in Table : dirty[o][k][u] = Clean
             \/ \A k \in Table : db'[k][u] = NoRow <=> db[k][u] = NoRow
  <2>1. CASE \A k \in Table : dirty[t][k][u] # Clean
    BY <2>1 DEF LockExclusive
  <2>2. CASE \A k \in Table : \/ dirty[t][k][u] = Clean
                              \/ dirty[t][k][u] = NoRow <=> db[k][u] = NoRow
    BY <1>1, <2>2 DEF View
  <2> QED
    BY <1>2, <2>1, <2>2 DEF ExistsWhole
<1>8. SatellitesComplete'
  BY <1>1, <1>2 DEF Aligned, SatellitesComplete, Table
<1>9. Aligned'
  <2> SUFFICES ASSUME NEW o \in Txn, NEW u \in User
               PROVE  /\ ~Creating(o, u)' => \A k \in Table :
                            View(o, "user", u)' = NoRow <=> View(o, k, u)' = NoRow
                      /\ Creating(o, u)' /\ pc'[o] # "insert_user" =>
                            View(o, "user", u)' # NoRow
                      /\ Creating(o, u)' /\ pc'[o] = "insert_secret" =>
                            View(o, "profile", u)' # NoRow
    BY DEF Aligned
  <2>1. CASE o = t
    <3>1. \A k \in Table : View(t, k, u)' = db'[k][u]
      BY <1>1 DEF View
    <3> QED
      BY <1>2, <1>8, <2>1, <3>1 DEF SatellitesComplete, Table
  <2>2. CASE o # t /\ Creating(o, u)
    <3>1. \A k \in Table : View(o, k, u)' = View(o, k, u)
      BY <1>1, <1>5, <2>2 DEF FreshUsers, Unseen, View
    <3> QED
      BY <1>1, <1>3, <2>2, <3>1 DEF Aligned, Table
  <2>3. CASE o # t /\ ~Creating(o, u)
    <3>1. CASE \A k \in Table : dirty[o][k][u] = Clean
      <4>1. \A k \in Table : View(o, k, u)' = db'[k][u]
        BY <1>1, <2>3, <3>1 DEF View
      <4> QED
        BY <1>3, <1>8, <2>3, <4>1 DEF SatellitesComplete, Table
    <3>2. CASE \A k \in Table : db'[k][u] = NoRow <=> db[k][u] = NoRow
      <4>1. \A k \in Table : View(o, k, u)' = NoRow <=> View(o, k, u) = NoRow
        BY <1>1, <2>3, <3>2 DEF View
      <4> QED
        BY <1>3, <2>3, <4>1 DEF Aligned, Table
    <3> QED
      BY <1>7, <2>3, <3>1, <3>2
  <2> QED
    BY <2>1, <2>2, <2>3
<1>10. ExistsWhole'
  <2> SUFFICES ASSUME NEW o \in Txn, NEW u \in User
               PROVE  \/ Creating(o, u)'
                      \/ \A k \in Table : dirty'[o][k][u] # Clean
                      \/ \A k \in Table :
                            \/ dirty'[o][k][u] = Clean
                            \/ dirty'[o][k][u] = NoRow <=> db'[k][u] = NoRow
    BY DEF ExistsWhole
  <2>1. CASE o = t
    BY <1>1, <2>1
  <2>2. CASE o # t
    BY <1>1, <1>3, <1>7, <2>2 DEF ExistsWhole
  <2> QED
    BY <2>1, <2>2
<1> QED
  BY <1>4, <1>6, <1>8, <1>9, <1>10

LEMMA StepKeepsExists == TypeOK /\ Exists /\ [Next]_vars => Exists'
<1> SUFFICES ASSUME TypeOK, Exists, [Next]_vars PROVE Exists'
  OBVIOUS
<1>0. TypeOK'
  BY StepType
<1>1. ASSUME NEW t \in Txn, Working(t) PROVE Exists'
  BY <1>0, <1>1, WorkingKeepsExists
<1>2. ASSUME NEW t \in Txn,
             UpdateProfiles(t) \/ UpdateSecrets(t) \/ UpdateUsers(t)
      PROVE Exists'
  <2>1. /\ {"profiles", "secrets", "users", "commit"} \subseteq PC \ Inserting
        /\ {"profile", "secret", "user"} \subseteq Table
    BY DEF PC, Inserting, Table
  <2>2. Working(t)
    BY <1>2, <2>1, UpdateTableWorks DEF UpdateProfiles, UpdateSecrets, UpdateUsers
  <2> QED
    BY <1>1, <2>2
<1>3. ASSUME NEW t \in Txn,
             InsertUser(t) \/ InsertProfile(t) \/ InsertSecret(t)
      PROVE Exists'
  <2>1. \A pii \in BOOLEAN : NewRow(pii) \in Row
    BY NewRowType
  <2>2. CASE InsertUser(t)
    BY <2>1, <2>2, InsertKeepsExists DEF InsertUser, Inserting, Table
  <2>3. CASE InsertProfile(t)
    BY <2>1, <2>3, InsertKeepsExists DEF InsertProfile, Inserting, Table
  <2>4. CASE InsertSecret(t)
    BY <2>1, <2>4, InsertKeepsExists DEF InsertSecret, Inserting, Table
  <2> QED
    BY <1>3, <2>2, <2>3, <2>4
<1>4. ASSUME NEW t \in Txn, FetchAnonymize(t) \/ FinishLoop(t) \/ Collect(t)
      PROVE Exists'
  BY <1>1, <1>4, FetchesWork
<1>5. ASSUME NEW t \in Txn, NEW u \in User,
             AnonymizeOne(t, u) \/ FetchSave(t, u) \/ WriteSave(t, u)
      PROVE Exists'
  BY <1>1, <1>5, FetchesWork, AnonymizeOneWorks, WriteSaveWorks DEF Exists
<1>6. ASSUME NEW t \in Txn, Purge(t)
      PROVE Exists'
  BY <1>1, <1>6, PurgeWorks
<1>7. CASE UNCHANGED vars
  BY <1>7, QuietKeepsExists DEF vars, Creating
<1> QED
  BY <1>2, <1>3, <1>4, <1>5, <1>6, <1>7, BeginKeepsExists, CommitKeepsExists,
     RollbackKeepsExists DEF Next, Step

(* Every committed account is whole, whatever runs next to whatever: no    *)
(* interleaving of create_user, delete, restore, anonymize, hard_delete    *)
(* and save leaves a user without satellites or a satellite without user.  *)
THEOREM AccountsAreWhole == Spec => []SatellitesComplete
<1>1. Init => TypeOK /\ Exists
  BY InitType, InitExists
<1>2. TypeOK /\ Exists /\ [Next]_vars => TypeOK' /\ Exists'
  BY StepType, StepKeepsExists
<1>3. Exists => SatellitesComplete
  BY DEF Exists
<1> QED
  BY <1>1, <1>2, <1>3, PTL DEF Spec

-----------------------------------------------------------------------------
(* The shape of a step of delete, restore, anonymize or hard_delete: per   *)
(* account it keeps marks and personal data as they are (Neutral), or it   *)
(* erases or removes all three rows (Wiped).                               *)
Neutral(t, u) ==
  \A tab \in Table :
    \/ dirty'[t][tab][u] = dirty[t][tab][u]
    \/ /\ View(t, tab, u) # NoRow /\ dirty'[t][tab][u] \in Row
       /\ dirty'[t][tab][u].pii = View(t, tab, u).pii
       /\ dirty'[t][tab][u].anonymized = View(t, tab, u).anonymized

Wiped(t, u) ==
  \A tab \in Table :
    /\ dirty'[t][tab][u] \in Row \cup {NoRow}
    /\ dirty'[t][tab][u] # NoRow => ~dirty'[t][tab][u].pii

WorkingBulk(t) ==
  /\ db' = db /\ call' = call
  /\ pc[t] \notin Inserting /\ pc'[t] \notin Inserting
  /\ \A o \in Txn \ {t} : pc'[o] = pc[o] /\ dirty'[o] = dirty[o]
  /\ \A u \in User : Neutral(t, u) \/ Wiped(t, u)

LEMMA WorkingBulkKeepsErasure ==
  ASSUME TypeOK, TypeOK', Erasure, NEW t \in Txn, WorkingBulk(t)
  PROVE  Erasure'
<1> USE RowAssumption DEF Erasure
<1>1. \A o \in Txn, u \in User : Creating(o, u)' <=> Creating(o, u)
  BY DEF WorkingBulk, Creating
<1>2. \A o \in Txn \ {t}, k \in Table, u \in User : View(o, k, u)' = View(o, k, u)
  BY DEF WorkingBulk, View
<1>3. ASSUME NEW u \in User, Neutral(t, u), NEW k \in Table
      PROVE  \/ View(t, k, u)' = View(t, k, u)
             \/ /\ View(t, k, u) # NoRow /\ View(t, k, u)' # NoRow
                /\ View(t, k, u)'.pii = View(t, k, u).pii
                /\ View(t, k, u)'.anonymized = View(t, k, u).anonymized
  BY <1>3 DEF Neutral, View, WorkingBulk
<1>4. ErasedInView'
  <2> SUFFICES ASSUME NEW o \in Txn, NEW u \in User, NEW k \in Table,
                      View(o, "user", u)' # NoRow,
                      View(o, "user", u)'.anonymized,
                      View(o, k, u)' # NoRow
               PROVE  ~View(o, k, u)'.pii
    BY DEF ErasedInView
  <2>1. CASE o # t
    BY <1>2, <2>1 DEF ErasedInView, Table
  <2>2. CASE o = t /\ Neutral(t, u)
    BY <1>3, <2>2 DEF ErasedInView, Table
  <2>3. CASE o = t /\ Wiped(t, u)
    BY <2>3 DEF Wiped, View
  <2> QED
    BY <2>1, <2>2, <2>3 DEF WorkingBulk
<1>5. MarkedWhole'
  <2> SUFFICES ASSUME NEW o \in Txn, NEW u \in User
               PROVE  \/ \A k \in Table : dirty'[o][k][u] # Clean
                      \/ dirty'[o]["user"][u] \in {Clean, NoRow}
                      \/ dirty'[o]["user"][u].anonymized =>
                            /\ db["user"][u] # NoRow
                            /\ db["user"][u].anonymized
    BY DEF MarkedWhole, WorkingBulk
  <2>1. CASE o # t
    BY <2>1 DEF MarkedWhole, WorkingBulk
  <2>2. CASE o = t /\ Neutral(t, u)
    BY <2>2 DEF MarkedWhole, Neutral, View, Table
  <2>3. CASE o = t /\ Wiped(t, u)
    BY <2>3 DEF Wiped
  <2> QED
    BY <2>1, <2>2, <2>3 DEF WorkingBulk
<1>6. NothingAdded'
  <2> SUFFICES ASSUME NEW o \in Txn, NEW u \in User, NEW tab \in Table
               PROVE  \/ Creating(o, u)'
                      \/ \A k \in Table : dirty'[o][k][u] # Clean
                      \/ dirty'[o][tab][u] \in {Clean, NoRow}
                      \/ dirty'[o][tab][u].pii =>
                            db[tab][u] # NoRow /\ db[tab][u].pii
    BY DEF NothingAdded, WorkingBulk
  <2>1. CASE o # t
    BY <1>1, <2>1 DEF NothingAdded, WorkingBulk
  <2>2. CASE o = t /\ Neutral(t, u)
    <3>1. ~Creating(t, u)
      BY DEF Creating, WorkingBulk
    <3> QED
      BY <2>2, <3>1 DEF NothingAdded, Neutral, View
  <2>3. CASE o = t /\ Wiped(t, u)
    BY <2>3 DEF Wiped
  <2> QED
    BY <2>1, <2>2, <2>3 DEF WorkingBulk
<1>7. NewcomersAreUnmarked'
  <2>1. \A u \in User : ~Creating(t, u)'
    BY DEF Creating, WorkingBulk
  <2> QED
    BY <1>1, <1>2, <2>1 DEF NewcomersAreUnmarked, Table
<1>8. AnonymizedIsErased'
  BY DEF AnonymizedIsErased, WorkingBulk
<1> QED
  BY <1>4, <1>5, <1>6, <1>7, <1>8

LEMMA InitErasure == Init => Erasure
<1> SUFFICES ASSUME Init PROVE Erasure
  OBVIOUS
<1> USE RowAssumption
<1>1. PICK p \in [User -> BOOLEAN], s \in [User -> BOOLEAN] :
        db = [tab \in Table |-> [u \in User |->
                IF u \notin issued THEN NoRow
                ELSE NewRow(CASE tab = "user" -> TRUE
                              [] tab = "profile" -> p[u]
                              [] tab = "secret" -> s[u])]]
  BY DEF Init
<1>2. ASSUME NEW u \in User, db["user"][u] # NoRow
      PROVE  ~db["user"][u].anonymized
  <2>1. db["user"][u] = NewRow(TRUE)
    BY <1>1, <1>2 DEF Table
  <2> QED
    BY <2>1, NewRowType
<1>3. \A t \in Txn, tab \in Table, u \in User : dirty[t][tab][u] = Clean
  BY DEF Init, NoWrites
<1>4. \A t \in Txn, u \in User : ~Creating(t, u)
  BY DEF Init, Creating, Inserting
<1> QED
  BY <1>2, <1>3, <1>4
  DEF Erasure, ErasedInView, MarkedWhole, NothingAdded, NewcomersAreUnmarked,
      AnonymizedIsErased, View, Table

LEMMA BeginKeepsErasure ==
  ASSUME TypeOK, Exists, Erasure, NEW t \in Txn, Begin(t)
  PROVE  Erasure'
<1> USE DEF Erasure
<1>1. /\ pc[t] = "idle" /\ UNCHANGED <<db, dirty>>
      /\ \A o \in Txn \ {t} : pc'[o] = pc[o] /\ call'[o] = call[o]
  BY DEF Begin, BeginDelete, BeginRestore, BeginAnonymize, BeginHardDelete,
         BeginCreate, BeginSave, Start, MayBegin, Goto, TypeOK
<1>2. ASSUME NEW u \in User, Creating(t, u)'
      PROVE  View(t, "user", u) = NoRow
  <2>1. BeginCreate(t, u)
    BY <1>2 DEF Begin, BeginDelete, BeginRestore, BeginAnonymize,
       BeginHardDelete, BeginCreate, BeginSave, Start, Goto, TypeOK, Creating,
       Inserting
  <2> QED
    BY <2>1 DEF BeginCreate, Exists, FreshUsers, Unseen, View, Table
<1>3. \A o \in Txn, k \in Table, u \in User : View(o, k, u)' = View(o, k, u)
  BY <1>1 DEF View
<1>4. \A o \in Txn, u \in User : Creating(o, u) => Creating(o, u)' /\ o # t
  BY <1>1 DEF Creating, Inserting
<1>5. \A o \in Txn \ {t}, u \in User : Creating(o, u)' => Creating(o, u)
  BY <1>1 DEF Creating
<1>6. ErasedInView'
  BY <1>3 DEF ErasedInView, Table
<1>7. MarkedWhole' /\ NothingAdded' /\ AnonymizedIsErased'
  BY <1>1, <1>4 DEF MarkedWhole, NothingAdded, AnonymizedIsErased
<1>8. NewcomersAreUnmarked'
  BY <1>2, <1>3, <1>5 DEF NewcomersAreUnmarked, Table
<1> QED
  BY <1>6, <1>7, <1>8

(* The steps of the bulk operations have that shape.                       *)
LEMMA UpdateTableIsBulk ==
  ASSUME TypeOK, NEW t \in Txn, NEW tab \in Table,
         NEW from \in PC \ Inserting, NEW to \in PC \ Inserting,
         UpdateTable(t, tab, from, to)
  PROVE  WorkingBulk(t)
<1>1. ASSUME NEW u \in User PROVE Neutral(t, u)
  <2>1. ASSUME NEW k \in Table, k # tab
        PROVE dirty'[t][k][u] = dirty[t][k][u]
    BY <2>1 DEF UpdateTable, TypeOK
  <2>2. dirty'[t][tab][u] = IF u \in Targets(t) /\ View(t, tab, u) # NoRow
                            THEN Stamped(tab, View(t, tab, u), now[t])
                            ELSE dirty[t][tab][u]
    BY DEF UpdateTable, TypeOK
  <2>3. View(t, tab, u) \in Row \cup {NoRow} /\ now[t] \in Stamp \cup {Null}
    BY ViewType DEF TypeOK
  <2> QED
    BY <2>1, <2>2, <2>3, StampedType DEF Neutral
<1>2. \A o \in Txn \ {t} : dirty'[o] = dirty[o]
  BY DEF UpdateTable, TypeOK
<1> QED
  BY <1>1, <1>2 DEF WorkingBulk, UpdateTable, Goto, TypeOK

LEMMA FetchIsBulk ==
  ASSUME TypeOK, NEW t \in Txn,
         \/ FetchAnonymize(t) \/ Collect(t) \/ FinishLoop(t)
         \/ \E u \in User : FetchSave(t, u)
  PROVE  WorkingBulk(t)
<1>1. dirty' = dirty /\ db' = db /\ call' = call
  BY DEF FetchAnonymize, Collect, FinishLoop, FetchSave
<1>2. /\ pc[t] \notin Inserting /\ pc'[t] \notin Inserting
      /\ \A o \in Txn \ {t} : pc'[o] = pc[o]
  BY DEF FetchAnonymize, Collect, FinishLoop, FinalDelete, FetchSave, Goto,
         TypeOK, Inserting
<1> QED
  BY <1>1, <1>2 DEF WorkingBulk, Neutral

LEMMA PurgeIsBulk ==
  ASSUME TypeOK, NEW t \in Txn, Purge(t)
  PROVE  WorkingBulk(t)
<1>1. \A u \in User, tab \in Table :
        dirty'[t][tab][u] = IF inst[t][u] # NoRow THEN NoRow
                            ELSE dirty[t][tab][u]
  BY DEF Purge, TypeOK
<1>2. \A u \in User : Neutral(t, u) \/ Wiped(t, u)
  BY <1>1 DEF Neutral, Wiped
<1>3. \A o \in Txn \ {t} : dirty'[o] = dirty[o]
  BY DEF Purge, TypeOK
<1> QED
  BY <1>2, <1>3 DEF WorkingBulk, Purge, Goto, TypeOK, Inserting

LEMMA AnonymizeOneIsBulk ==
  ASSUME TypeOK, Aligned, NEW t \in Txn, NEW u \in User, AnonymizeOne(t, u)
  PROVE  WorkingBulk(t)
<1> USE RowAssumption
<1>1. /\ pc[t] = "loop" /\ inst[t][u] \in Row
      /\ \A tab \in Table : View(t, tab, u) \in Row \cup {NoRow}
  BY ViewType DEF AnonymizeOne, TypeOK
<1>2. \A tab \in Table : View(t, "user", u) = NoRow <=> View(t, tab, u) = NoRow
  BY <1>1 DEF Aligned, Creating, Inserting
<1>3. CASE inst[t][u].anonymized
  BY <1>3, <1>1 DEF AnonymizeOne, WorkingBulk, Neutral, Inserting, TypeOK
<1>4. CASE ~inst[t][u].anonymized
  <2> DEFINE row == [tab \in Table |->
                       IF tab = "user" THEN Erased("user", inst[t][u])
                       ELSE IF View(t, "user", u) = NoRow THEN NewRow(FALSE)
                       ELSE IF View(t, tab, u) = NoRow THEN dirty[t][tab][u]
                       ELSE Erased(tab, View(t, tab, u))]
  <2>1. ASSUME NEW tab \in Table
        PROVE  row[tab] \in Row /\ ~row[tab].pii
    <3>1. /\ Erased("user", inst[t][u]) \in Row
          /\ ~Erased("user", inst[t][u]).pii
          /\ NewRow(FALSE) \in Row /\ ~NewRow(FALSE).pii
      BY <1>1, ErasedType, NewRowType DEF Table
    <3>2. View(t, "user", u) # NoRow =>
             /\ Erased(tab, View(t, tab, u)) \in Row
             /\ ~Erased(tab, View(t, tab, u)).pii
      BY <1>1, <1>2, ErasedType
    <3> QED
      BY <1>2, <3>1, <3>2
  <2>2. dirty' = [dirty EXCEPT ![t] = [k \in Table |->
                    [dirty[t][k] EXCEPT ![u] = row[k]]]]
    BY <1>4 DEF AnonymizeOne
  <2>3. row \in [Table -> Row \cup {NoRow, Clean}]
    BY <2>1
  <2> HIDE DEF row
  <2>4. /\ \A k \in Table : dirty'[t][k][u] = row[k]
        /\ \A v \in User \ {u}, k \in Table : dirty'[t][k][v] = dirty[t][k][v]
        /\ \A o \in Txn \ {t} : dirty'[o] = dirty[o]
    BY <2>2, <2>3, AccountWrite
  <2>5. \A v \in User : Neutral(t, v) \/ Wiped(t, v)
    BY <2>1, <2>4 DEF Neutral, Wiped
  <2>6. /\ pc' = pc /\ db' = db /\ call' = call /\ pc[t] \notin Inserting
    BY <1>1 DEF AnonymizeOne, Inserting
  <2> QED
    BY <2>4, <2>5, <2>6 DEF WorkingBulk
<1> QED
  BY <1>3, <1>4

(* A row that create_user() inserts belongs to an unmarked newcomer.       *)
LEMMA InsertKeepsErasure ==
  ASSUME TypeOK, Exists, Erasure, NEW t \in Txn, NEW tab \in Table,
         NEW new \in Row, ~new.anonymized,
         NEW from \in Inserting, NEW to \in Inserting \cup {"commit"},
         <<tab, from, to>> \in {<<"user", "insert_user", "insert_profile">>,
                                <<"profile", "insert_profile", "insert_secret">>,
                                <<"secret", "insert_secret", "commit">>},
         Insert(t, tab, from, to, new)
  PROVE  Erasure'
<1> USE RowAssumption DEF Erasure
<1>1. /\ pc[t] = from /\ pc'[t] = to
      /\ \A o \in Txn \ {t} : pc'[o] = pc[o] /\ dirty'[o] = dirty[o]
      /\ UNCHANGED <<db, call>>
  BY DEF Insert, Goto, TypeOK
<1>2. \A k \in Table, u \in User :
        dirty'[t][k][u] = IF k = tab /\ u \in call[t].ids THEN new
                          ELSE dirty[t][k][u]
  BY DEF Insert, TypeOK
<1>3. new \in Row /\ ~new.anonymized
  OBVIOUS
<1>4. /\ \A u \in User : Creating(t, u) <=> u \in call[t].ids
      /\ \A o \in Txn, u \in User : Creating(o, u)' => Creating(o, u)
      /\ \A o \in Txn \ {t}, u \in User : Creating(o, u)' <=> Creating(o, u)
  BY <1>1 DEF Creating
<1>5. \A o \in Txn \ {t}, k \in Table, u \in User : View(o, k, u)' = View(o, k, u)
  BY <1>1 DEF View
<1>6. \A k \in Table, u \in User :
        View(t, k, u)' = IF k = tab /\ Creating(t, u) THEN new ELSE View(t, k, u)
  BY <1>1, <1>2, <1>3, <1>4 DEF View
<1>7. \A u \in User : Creating(t, u) => \/ View(t, "user", u)' = NoRow
                                        \/ ~View(t, "user", u)'.anonymized
  BY <1>3, <1>6 DEF NewcomersAreUnmarked, Table
<1>8. ErasedInView'
  <2> SUFFICES ASSUME NEW o \in Txn, NEW u \in User, NEW k \in Table,
                      View(o, "user", u)' # NoRow,
                      View(o, "user", u)'.anonymized,
                      View(o, k, u)' # NoRow
               PROVE  ~View(o, k, u)'.pii
    BY DEF ErasedInView
  <2>1. CASE o # t
    BY <1>5, <2>1 DEF ErasedInView, Table
  <2>2. CASE o = t
    <3>1. ~Creating(t, u)
      BY <1>7, <2>2
    <3> QED
      BY <1>6, <2>2, <3>1 DEF ErasedInView, Table
  <2> QED
    BY <2>1, <2>2
<1>9. MarkedWhole'
  <2> SUFFICES ASSUME NEW o \in Txn, NEW u \in User
               PROVE  \/ \A k \in Table : dirty'[o][k][u] # Clean
                      \/ dirty'[o]["user"][u] \in {Clean, NoRow}
                      \/ dirty'[o]["user"][u].anonymized =>
                            /\ db["user"][u] # NoRow
                            /\ db["user"][u].anonymized
    BY <1>1 DEF MarkedWhole
  <2>1. CASE o # t
    BY <1>1, <2>1 DEF MarkedWhole
  <2>2. CASE o = t
    BY <1>2, <1>3, <2>2 DEF MarkedWhole, Table
  <2> QED
    BY <2>1, <2>2
<1>10. NothingAdded'
  <2> SUFFICES ASSUME NEW o \in Txn, NEW u \in User, NEW j \in Table
               PROVE  \/ Creating(o, u)'
                      \/ \A k \in Table : dirty'[o][k][u] # Clean
                      \/ dirty'[o][j][u] \in {Clean, NoRow}
                      \/ dirty'[o][j][u].pii => db[j][u] # NoRow /\ db[j][u].pii
    BY <1>1 DEF NothingAdded
  <2>1. CASE o # t
    BY <1>1, <1>4, <2>1 DEF NothingAdded
  <2>2. CASE o = t /\ ~Creating(t, u)
    BY <1>2, <1>4, <2>2 DEF NothingAdded
  <2>3. CASE o = t /\ Creating(t, u) /\ to \in Inserting
    BY <1>1, <2>3 DEF Creating
  <2>4. CASE o = t /\ Creating(t, u) /\ to = "commit"
    <3>1. tab = "secret" /\ pc[t] = "insert_secret"
      BY <1>1, <2>4
    <3>2. \A k \in Table : db[k][u] = NoRow
      BY <2>4 DEF Exists, FreshUsers, Unseen
    <3>3. View(t, "user", u) # NoRow /\ View(t, "profile", u) # NoRow
      BY <2>4, <3>1 DEF Exists, Aligned
    <3>4. \A k \in Table : dirty'[t][k][u] # Clean
      BY <1>2, <1>3, <1>4, <2>4, <3>1, <3>2, <3>3 DEF View, Table
    <3> QED
      BY <2>4, <3>4
  <2> QED
    BY <2>1, <2>2, <2>3, <2>4
<1>11. NewcomersAreUnmarked'
  BY <1>4, <1>5, <1>7 DEF NewcomersAreUnmarked, Table
<1>12. AnonymizedIsErased'
  BY <1>1 DEF AnonymizedIsErased
<1> QED
  BY <1>8, <1>9, <1>10, <1>11, <1>12

LEMMA RollbackKeepsErasure ==
  ASSUME TypeOK, Erasure, NEW t \in Txn, Rollback(t)
  PROVE  Erasure'
<1> USE RowAssumption DEF Erasure
<1>1. /\ db' = db /\ pc'[t] = "idle"
      /\ \A o \in Txn \ {t} : /\ pc'[o] = pc[o] /\ dirty'[o] = dirty[o]
                              /\ call'[o] = call[o]
      /\ \A k \in Table, u \in User : dirty'[t][k][u] = Clean
  BY DEF Rollback, RolledBack, End, Goto, TypeOK, NoWrites
<1>2. /\ \A u \in User : ~Creating(t, u)'
      /\ \A o \in Txn \ {t}, u \in User : Creating(o, u)' <=> Creating(o, u)
  BY <1>1 DEF Creating, Inserting
<1>3. /\ \A k \in Table, u \in User : View(t, k, u)' = db[k][u]
      /\ \A o \in Txn \ {t}, k \in Table, u \in User :
            View(o, k, u)' = View(o, k, u)
  BY <1>1 DEF View
<1>4. ErasedInView'
  BY <1>3 DEF ErasedInView, AnonymizedIsErased, Table
<1>5. MarkedWhole'
  BY <1>1 DEF MarkedWhole, Table
<1>6. NothingAdded'
  BY <1>1, <1>2 DEF NothingAdded
<1>7. NewcomersAreUnmarked'
  BY <1>2, <1>3 DEF NewcomersAreUnmarked, Table
<1> QED
  BY <1>1, <1>4, <1>5, <1>6, <1>7 DEF AnonymizedIsErased

(* A commit publishes an erasure whole: another transaction that still     *)
(* sees one of the rows as it was has locked none of the three.            *)
LEMMA CommitKeepsErasure ==
  ASSUME TypeOK, Exists, Erasure, NEW t \in Txn, Commit(t)
  PROVE  Erasure'
<1> USE RowAssumption DEF Erasure
<1>1. /\ pc[t] = "commit" /\ pc'[t] = "idle"
      /\ \A o \in Txn \ {t} : /\ pc'[o] = pc[o] /\ dirty'[o] = dirty[o]
                              /\ call'[o] = call[o]
      /\ \A k \in Table, u \in User : dirty'[t][k][u] = Clean
      /\ \A k \in Table, u \in User : db'[k][u] = View(t, k, u)
  BY DEF Commit, Merged, End, Goto, TypeOK, NoWrites
<1>2. /\ \A u \in User : ~Creating(t, u) /\ ~Creating(t, u)'
      /\ \A o \in Txn \ {t}, u \in User : Creating(o, u)' <=> Creating(o, u)
  BY <1>1 DEF Creating, Inserting
<1>3. \A o \in Txn \ {t}, k \in Table, u \in User :
        dirty[o][k][u] # Clean => dirty[t][k][u] = Clean /\ db'[k][u] = db[k][u]
  BY <1>1 DEF Exists, LockExclusive, View
<1>4. AnonymizedIsErased'
  BY <1>1 DEF ErasedInView, AnonymizedIsErased, Table
<1>5. MarkedWhole'
  BY <1>1, <1>3 DEF MarkedWhole, Table
<1>6. NothingAdded'
  BY <1>1, <1>2, <1>3 DEF NothingAdded
<1>7. ASSUME NEW u \in User, \A k \in Table : dirty[t][k][u] = Clean
      PROVE  \A o \in Txn \ {t}, k \in Table : View(o, k, u)' = View(o, k, u)
  BY <1>1, <1>7 DEF View
<1>8. NewcomersAreUnmarked'
  <2> SUFFICES ASSUME NEW o \in Txn, NEW u \in User, Creating(o, u)'
               PROVE  \/ View(o, "user", u)' = NoRow
                      \/ ~View(o, "user", u)'.anonymized
    BY DEF NewcomersAreUnmarked
  <2>1. o # t /\ Creating(o, u)
    BY <1>2
  <2>2. \A k \in Table : dirty[t][k][u] = Clean
    BY <2>1 DEF Exists, FreshUsers, Unseen
  <2> QED
    BY <1>7, <2>1, <2>2 DEF NewcomersAreUnmarked, Table
<1>9. ErasedInView'
  <2> SUFFICES ASSUME NEW o \in Txn, NEW u \in User, NEW k \in Table,
                      View(o, "user", u)' # NoRow,
                      View(o, "user", u)'.anonymized,
                      View(o, k, u)' # NoRow
               PROVE  ~View(o, k, u)'.pii
    BY DEF ErasedInView
  <2>1. CASE o = t
    <3>1. \A j \in Table : View(t, j, u)' = db'[j][u]
      BY <1>1 DEF View
    <3> QED
      BY <1>4, <2>1, <3>1 DEF AnonymizedIsErased, Table
  <2>2. CASE o # t /\ \A j \in Table : dirty[t][j][u] = Clean
    BY <1>7, <2>2 DEF ErasedInView, Table
  <2>3. CASE o # t /\ \A j \in Table : dirty[o][j][u] = Clean
    <3>1. \A j \in Table : View(o, j, u)' = db'[j][u]
      BY <1>1, <2>3 DEF View
    <3> QED
      BY <1>4, <2>3, <3>1 DEF AnonymizedIsErased, Table
  <2>4. CASE /\ o # t
             /\ \E j \in Table : dirty[t][j][u] # Clean
             /\ \E j \in Table : dirty[o][j][u] # Clean
    <3>1. /\ \E j \in Table : dirty[o][j][u] = Clean
          /\ \E j \in Table : dirty[t][j][u] = Clean
      BY <1>3, <2>4
    <3>2. ~Creating(o, u)
      BY <2>4 DEF Exists, FreshUsers, Unseen
    <3>3. View(o, "user", u)' \in {dirty[o]["user"][u], dirty[t]["user"][u],
                                   db["user"][u]} \ {Clean, NoRow}
      <4>1. View(o, "user", u)' = IF dirty[o]["user"][u] # Clean
                                  THEN dirty[o]["user"][u]
                                  ELSE View(t, "user", u)
        BY <1>1, <2>4 DEF View, Table
      <4>2. db["user"][u] # Clean
        BY DEF TypeOK, Table
      <4> QED
        BY <4>1, <4>2 DEF View
    <3>4. db["user"][u] # NoRow /\ db["user"][u].anonymized
      BY <3>1, <3>3 DEF MarkedWhole
    <3>5. db[k][u] # NoRow => ~db[k][u].pii
      BY <3>4 DEF AnonymizedIsErased
    <3>6. View(o, k, u)' \in {dirty[o][k][u], dirty[t][k][u], db[k][u]}
                              \ {Clean, NoRow}
      <4>1. View(o, k, u)' = IF dirty[o][k][u] # Clean THEN dirty[o][k][u]
                             ELSE View(t, k, u)
        BY <1>1, <2>4 DEF View
      <4>2. db[k][u] # Clean
        BY DEF TypeOK
      <4> QED
        BY <4>1, <4>2 DEF View
    <3> QED
      BY <1>2, <3>1, <3>2, <3>5, <3>6 DEF NothingAdded
  <2> QED
    BY <2>1, <2>2, <2>3, <2>4
<1> QED
  BY <1>4, <1>5, <1>6, <1>8, <1>9

(* No transaction runs a request handler's save().                         *)
BulkOnly == \A t \in Txn : call[t].op # "save" /\ pc[t] # "write"

LEMMA StepKeepsErasure ==
  ASSUME "save" \notin Ops
  PROVE  TypeOK /\ Exists /\ Erasure /\ BulkOnly /\ [Next]_vars
            => Erasure' /\ BulkOnly'
<1> SUFFICES ASSUME TypeOK, Exists, Erasure, BulkOnly, [Next]_vars
             PROVE  Erasure' /\ BulkOnly'
  OBVIOUS
<1>0. TypeOK'
  BY StepType
<1>1. ASSUME NEW t \in Txn, WorkingBulk(t), pc'[t] # "write"
      PROVE  Erasure' /\ BulkOnly'
  BY <1>0, <1>1, WorkingBulkKeepsErasure DEF BulkOnly, WorkingBulk
<1>2. ASSUME NEW t \in Txn,
             UpdateProfiles(t) \/ UpdateSecrets(t) \/ UpdateUsers(t)
      PROVE  Erasure' /\ BulkOnly'
  <2>1. /\ {"profiles", "secrets", "users", "commit"} \subseteq PC \ Inserting
        /\ {"profile", "secret", "user"} \subseteq Table
    BY DEF PC, Inserting, Table
  <2>2. WorkingBulk(t)
    BY <1>2, <2>1, UpdateTableIsBulk DEF UpdateProfiles, UpdateSecrets, UpdateUsers
  <2>3. pc'[t] # "write"
    BY <1>2 DEF UpdateProfiles, UpdateSecrets, UpdateUsers, UpdateTable, Goto,
                TypeOK
  <2> QED
    BY <1>1, <2>2, <2>3
<1>3. ASSUME NEW t \in Txn,
             InsertUser(t) \/ InsertProfile(t) \/ InsertSecret(t)
      PROVE  Erasure' /\ BulkOnly'
  <2>0. ASSUME NEW new, NEW pii \in BOOLEAN, new = NewRow(pii)
        PROVE  new \in Row /\ ~new.anonymized
    BY <2>0, NewRowType
  <2>1. ASSUME NEW new, new = NewRow(TRUE),
               Insert(t, "user", "insert_user", "insert_profile", new)
        PROVE  Erasure'
    <3>1. new \in Row /\ ~new.anonymized
      BY <2>0, <2>1
    <3> QED
      BY <2>1, <3>1, InsertKeepsErasure DEF Inserting, Table
  <2>2. ASSUME NEW new, NEW pii \in BOOLEAN, new = NewRow(pii),
               Insert(t, "profile", "insert_profile", "insert_secret", new)
        PROVE  Erasure'
    <3>1. new \in Row /\ ~new.anonymized
      BY <2>0, <2>2
    <3> QED
      BY <2>2, <3>1, InsertKeepsErasure DEF Inserting, Table
  <2>3. ASSUME NEW new, new = NewRow(FALSE),
               Insert(t, "secret", "insert_secret", "commit", new)
        PROVE  Erasure'
    <3>1. new \in Row /\ ~new.anonymized
      BY <2>0, <2>3
    <3> QED
      BY <2>3, <3>1, InsertKeepsErasure DEF Inserting, Table
  <2>4. BulkOnly'
    BY <1>3 DEF InsertUser, InsertProfile, InsertSecret, Insert, Goto, TypeOK,
                BulkOnly
  <2> QED
    BY <1>3, <2>1, <2>2, <2>3, <2>4 DEF InsertUser, InsertProfile, InsertSecret
<1>4. ASSUME NEW t \in Txn, FetchAnonymize(t) \/ FinishLoop(t) \/ Collect(t)
      PROVE  Erasure' /\ BulkOnly'
  <2>1. pc'[t] # "write"
    BY <1>4 DEF FetchAnonymize, FinishLoop, FinalDelete, Collect, Goto, TypeOK
  <2> QED
    BY <1>1, <1>4, <2>1, FetchIsBulk
<1>5. ASSUME NEW t \in Txn, NEW u \in User, AnonymizeOne(t, u)
      PROVE  Erasure' /\ BulkOnly'
  <2>1. pc'[t] # "write"
    BY <1>5 DEF AnonymizeOne
  <2> QED
    BY <1>1, <1>5, <2>1, AnonymizeOneIsBulk DEF Exists
<1>6. ASSUME NEW t \in Txn, Purge(t)
      PROVE  Erasure' /\ BulkOnly'
  <2>1. pc'[t] # "write"
    BY <1>6 DEF Purge, Goto, TypeOK
  <2> QED
    BY <1>1, <1>6, <2>1, PurgeIsBulk
<1>7. ASSUME NEW t \in Txn, NEW u \in User
      PROVE  ~FetchSave(t, u) /\ ~WriteSave(t, u)
  BY DEF BulkOnly, FetchSave, WriteSave
<1>8. ASSUME NEW t \in Txn, Begin(t)
      PROVE  Erasure' /\ BulkOnly'
  <2>1. BulkOnly'
    BY <1>8 DEF Begin, BeginDelete, BeginRestore, BeginAnonymize,
       BeginHardDelete, BeginCreate, BeginSave, Start, Goto, TypeOK, BulkOnly
  <2> QED
    BY <1>8, <2>1, BeginKeepsErasure
<1>9. ASSUME NEW t \in Txn, Commit(t) \/ Rollback(t)
      PROVE  Erasure' /\ BulkOnly'
  <2>1. BulkOnly'
    BY <1>9 DEF Commit, Rollback, End, Goto, TypeOK, NoCall, BulkOnly
  <2> QED
    BY <1>9, <2>1, CommitKeepsErasure, RollbackKeepsErasure
<1>10. CASE UNCHANGED vars
  <2>1. \A t \in Txn, k \in Table, u \in User : View(t, k, u)' = View(t, k, u)
    BY <1>10 DEF vars, View
  <2>2. \A t \in Txn, u \in User : Creating(t, u)' <=> Creating(t, u)
    BY <1>10 DEF vars, Creating
  <2> QED
    BY <1>10, <2>1, <2>2
    DEF vars, BulkOnly, Erasure, ErasedInView, MarkedWhole, NothingAdded,
        NewcomersAreUnmarked, AnonymizedIsErased, Table
<1> QED
  BY <1>2, <1>3, <1>4, <1>5, <1>6, <1>7, <1>8, <1>9, <1>10 DEF Next, Step

(* While nobody saves a stale instance next to them, any number of         *)
(* concurrent bulk operations leave nothing in the columns anonymize()     *)
(* clears of an account whose is_anonymized is committed.  (A stale save() does break it: the         *)
(* hypothesis is needed.)                                                  *)
THEOREM AnonymizedAccountsAreErased ==
  ASSUME "save" \notin Ops
  PROVE  Spec => []AnonymizedIsErased
<1>1. Init => TypeOK /\ Exists /\ Erasure /\ BulkOnly
  <2>1. Init => BulkOnly
    BY DEF Init, BulkOnly, NoCall
  <2> QED
    BY <2>1, InitType, InitExists, InitErasure
<1>2. TypeOK /\ Exists /\ Erasure /\ BulkOnly /\ [Next]_vars
         => TypeOK' /\ Exists' /\ Erasure' /\ BulkOnly'
  BY StepType, StepKeepsExists, StepKeepsErasure
<1>3. Erasure => AnonymizedIsErased
  BY DEF Erasure
<1> QED
  BY <1>1, <1>2, <1>3, PTL DEF Spec

-----------------------------------------------------------------------------
(***************************************************************************)
(* The final delete() of anonymize().  It selects by what it finds in the  *)
(* rows by then, so the proof says of every uncommitted row that is marked *)
(* and not dead that the transaction writing it still has that delete      *)
(* ahead, and still selects the row (Closing).                             *)
(***************************************************************************)
DeadIfMarked(row) ==
  row \notin {NoRow, Clean} /\ row.anonymized => row.deleted # Null

Wanted(t, u, row) ==
  /\ u \in call[t].ids
  /\ Visible(call[t].mgr, row) /\ Lookup(call[t].by, row)

Closing(t, u) ==
  /\ pc[t] \in {"loop", "profiles", "secrets", "users"}
  /\ call[t].op = "anonymize" /\ Wanted(t, u, dirty[t]["user"][u])

Intent(t) ==
  /\ call[t].by # "identity"
  /\ call[t].op = "save" => call[t].mgr = "objects"
  /\ pc[t] = "loop" => call[t].op = "anonymize"
  /\ pc[t] \in {"profiles", "secrets", "users"} =>
       now[t] # Null \/ call[t].op = "restore"
  /\ \A u \in User :
       /\ DeadIfMarked(dirty[t]["user"][u]) \/ Closing(t, u)
       /\ inst[t][u] # NoRow =>
            /\ pc[t] \in {"loop", "purge", "write", "commit"}
            /\ pc[t] = "loop" => Wanted(t, u, inst[t][u])
            /\ pc[t] = "write" /\ call[t].tab = "user" => ~inst[t][u].anonymized

\* The committed rows change at a commit and nowhere else.
LEMMA OnlyCommitsWrite ==
  ASSUME NEW t \in Txn, Step(t), ~Commit(t)
  PROVE  UNCHANGED db
<1>1. Begin(t) => UNCHANGED db
  BY DEF Begin, BeginDelete, BeginRestore, BeginAnonymize, BeginHardDelete,
     BeginCreate, BeginSave
<1>2. UpdateProfiles(t) \/ UpdateSecrets(t) \/ UpdateUsers(t) => UNCHANGED db
  BY DEF UpdateProfiles, UpdateSecrets, UpdateUsers, UpdateTable
<1>3. /\ FetchAnonymize(t) \/ FinishLoop(t) \/ Collect(t) \/ Purge(t) => UNCHANGED db
      /\ \A u \in User :
           AnonymizeOne(t, u) \/ FetchSave(t, u) \/ WriteSave(t, u) => UNCHANGED db
  BY DEF FetchAnonymize, FinishLoop, Collect, Purge, AnonymizeOne, FetchSave, WriteSave
<1>4. InsertUser(t) \/ InsertProfile(t) \/ InsertSecret(t) => UNCHANGED db
  BY DEF InsertUser, InsertProfile, InsertSecret, Insert
<1>5. Rollback(t) => UNCHANGED db
  BY DEF Rollback, End, RolledBack
<1> QED
  BY <1>1, <1>2, <1>3, <1>4, <1>5 DEF Step

\* What t holds is its own; the other transactions do not touch it.
LEMMA StepIsOfOne ==
  ASSUME TypeOK, NEW t \in Txn, Step(t), NEW o \in Txn \ {t}
  PROVE  /\ pc'[o] = pc[o] /\ call'[o] = call[o] /\ now'[o] = now[o]
         /\ inst'[o] = inst[o] /\ dirty'[o] = dirty[o]
<1> USE DEF TypeOK, Goto
<1>1. CASE Begin(t)
  BY <1>1 DEF Begin, BeginDelete, BeginRestore, BeginAnonymize, BeginHardDelete,
     BeginCreate, BeginSave, Start
<1>2. CASE UpdateProfiles(t) \/ UpdateSecrets(t) \/ UpdateUsers(t)
  BY <1>2 DEF UpdateProfiles, UpdateSecrets, UpdateUsers, UpdateTable
<1>3. CASE FetchAnonymize(t) \/ FinishLoop(t) \/ Collect(t) \/ Purge(t)
  BY <1>3 DEF FetchAnonymize, FinishLoop, FinalDelete, Collect, Purge
<1>4. ASSUME NEW u \in User, AnonymizeOne(t, u) \/ FetchSave(t, u) \/ WriteSave(t, u)
      PROVE  /\ pc'[o] = pc[o] /\ call'[o] = call[o] /\ now'[o] = now[o]
             /\ inst'[o] = inst[o] /\ dirty'[o] = dirty[o]
  BY <1>4 DEF AnonymizeOne, FetchSave, WriteSave
<1>5. CASE InsertUser(t) \/ InsertProfile(t) \/ InsertSecret(t)
  BY <1>5 DEF InsertUser, InsertProfile, InsertSecret, Insert
<1>6. CASE Commit(t) \/ Rollback(t)
  BY <1>6 DEF Commit, Rollback, End
<1> QED
  BY <1>1, <1>2, <1>3, <1>4, <1>5, <1>6 DEF Step

\* A transaction that is not in its final delete() sees no marked live row.
LEMMA SeesDeadIfMarked ==
  ASSUME TypeOK, AnonymizedIsDead, NEW t \in Txn, Intent(t), NEW u \in User,
         ~Closing(t, u)
  PROVE  DeadIfMarked(View(t, "user", u))
  BY DEF View, Intent, DeadIfMarked, AnonymizedIsDead

LEMMA BeginIntent ==
  ASSUME "identity" \notin Lookups, TypeOK, NEW t \in Txn, Intent(t), Begin(t)
  PROVE  Intent(t)'
<1> USE DEF TypeOK, Goto
<1>1. /\ pc[t] = "idle" /\ dirty' = dirty /\ inst' = inst
      /\ pc'[t] \in {"profiles", "fetch", "collect", "insert_user"}
      /\ call'[t].by \in Lookups \cup {"id"}
      /\ call'[t].op = "save" => call'[t].mgr = "objects"
  BY DEF Begin, BeginDelete, BeginRestore, BeginAnonymize, BeginHardDelete,
     BeginCreate, BeginSave, Start, MayBegin
<1>2. pc'[t] = "profiles" => now'[t] # Null \/ call'[t].op = "restore"
  BY StampAssumption DEF Begin, BeginDelete, BeginRestore, BeginAnonymize,
     BeginHardDelete, BeginCreate, BeginSave, Start
<1>3. \A u \in User : DeadIfMarked(dirty[t]["user"][u])
  BY <1>1 DEF Intent, Closing
<1>4. \A u \in User : DeadIfMarked(dirty[t]["user"][u])'
  BY <1>1, <1>3 DEF DeadIfMarked
<1>5. \A u \in User : inst'[t][u] = NoRow
  BY <1>1 DEF Intent
<1>6. call'[t].by # "identity"
  BY <1>1
<1> QED
  BY <1>1, <1>2, <1>4, <1>5, <1>6 DEF Intent

LEMMA UpdateIntent ==
  ASSUME TypeOK, AnonymizedIsDead, NEW t \in Txn, Intent(t),
         UpdateProfiles(t) \/ UpdateSecrets(t) \/ UpdateUsers(t)
  PROVE  Intent(t)'
<1> USE DEF TypeOK, Goto
<1>1. /\ call' = call /\ now' = now /\ inst' = inst /\ db' = db
      /\ pc[t] \in {"profiles", "secrets", "users"}
      /\ pc'[t] \in {"secrets", "users", "commit"}
  BY DEF UpdateProfiles, UpdateSecrets, UpdateUsers, UpdateTable
<1>2. ASSUME UpdateProfiles(t) \/ UpdateSecrets(t), NEW u \in User
      PROVE  (DeadIfMarked(dirty[t]["user"][u]) \/ Closing(t, u))'
  <2>1. ASSUME NEW tab \in Table \ {"user"}, NEW from, NEW to,
               UpdateTable(t, tab, from, to)
        PROVE  dirty'[t]["user"] = dirty[t]["user"]
    BY <2>1 DEF UpdateTable, Table
  <2>2. dirty'[t]["user"] = dirty[t]["user"]
    BY <1>2, <2>1 DEF UpdateProfiles, UpdateSecrets, Table
  <2>3. pc'[t] \in {"secrets", "users"}
    BY <1>2 DEF UpdateProfiles, UpdateSecrets, UpdateTable
  <2> QED
    BY <1>1, <2>2, <2>3 DEF Intent, DeadIfMarked, Closing, Wanted
<1>3. ASSUME UpdateUsers(t), NEW u \in User
      PROVE  DeadIfMarked(dirty[t]["user"][u])'
  <2>1. dirty'[t]["user"][u] =
          IF u \in Targets(t) /\ View(t, "user", u) # NoRow
          THEN Stamped("user", View(t, "user", u), now[t]) ELSE dirty[t]["user"][u]
    BY <1>3 DEF UpdateUsers, UpdateTable, Table
  <2>2. CASE u \in Targets(t) /\ View(t, "user", u) # NoRow
    <3>1. View(t, "user", u) \in Row /\ now[t] \in Stamp \cup {Null}
      BY <2>2, ViewType DEF Table
    <3>2. /\ dirty'[t]["user"][u].anonymized = View(t, "user", u).anonymized
          /\ dirty'[t]["user"][u].deleted = now[t]
      BY <2>1, <2>2, <3>1, StampedType DEF Table
    <3>3. now[t] # Null \/ ~View(t, "user", u).anonymized
      BY <1>1, <2>2 DEF Intent, Targets, Restorable
    <3> QED
      BY <3>2, <3>3 DEF DeadIfMarked
  <2>3. CASE ~(u \in Targets(t) /\ View(t, "user", u) # NoRow)
    <3>1. dirty'[t]["user"][u] = dirty[t]["user"][u]
      BY <2>1, <2>3
    <3>2. ASSUME Closing(t, u) PROVE DeadIfMarked(dirty[t]["user"][u])
      <4>1. CASE dirty[t]["user"][u] = Clean
        BY <4>1 DEF DeadIfMarked
      <4>2. CASE dirty[t]["user"][u] # Clean
        <5>1. View(t, "user", u) = dirty[t]["user"][u]
          BY <4>2 DEF View
        <5>2. u \in Targets(t) /\ View(t, "user", u) # NoRow
          BY <3>2, <5>1 DEF Closing, Wanted, Targets, Selected, Visible
        <5> QED
          BY <2>3, <5>2
      <4> QED
        BY <4>1, <4>2
    <3> QED
      BY <3>1, <3>2 DEF Intent, DeadIfMarked
  <2> QED
    BY <2>2, <2>3
<1> QED
  BY <1>1, <1>2, <1>3 DEF Intent

\* The reads.
LEMMA FetchIntent ==
  ASSUME TypeOK, AnonymizedIsDead, NEW t \in Txn, Intent(t),
         \/ FetchAnonymize(t) \/ Collect(t) \/ \E u \in User : FetchSave(t, u)
  PROVE  Intent(t)'
<1> USE DEF TypeOK, Goto
<1>1. /\ dirty' = dirty /\ call' = call /\ now' = now /\ db' = db
      /\ pc[t] \in {"fetch", "collect"} /\ pc'[t] \in {"loop", "purge", "write"}
      /\ pc'[t] = "loop" => call[t].op = "anonymize"
  BY DEF FetchAnonymize, Collect, FetchSave
<1>2. \A u \in User : DeadIfMarked(dirty[t]["user"][u])
  BY <1>1 DEF Intent, Closing
<1>3. \A u \in User : DeadIfMarked(dirty[t]["user"][u])'
  BY <1>1, <1>2 DEF DeadIfMarked
<1>4. ASSUME NEW u \in User, inst'[t][u] # NoRow, pc'[t] = "loop"
      PROVE  Wanted(t, u, inst[t][u])'
  <2>1. u \in Selected(t) /\ inst'[t][u] = View(t, "user", u)
    BY <1>4 DEF FetchAnonymize, Collect, FetchSave
  <2> QED
    BY <1>1, <2>1 DEF Selected, Wanted, Visible
<1>5. ASSUME NEW u \in User, inst'[t][u] # NoRow, pc'[t] = "write",
             call'[t].tab = "user"
      PROVE  ~inst'[t][u].anonymized
  <2>1. PICK v \in User : FetchSave(t, v)
    BY <1>5 DEF FetchAnonymize, Collect
  <2>2. inst[t][u] = NoRow
    BY <1>1, <2>1 DEF Intent, FetchSave
  <2>3. /\ u = v /\ u \in Selected(t) /\ inst'[t][u] = View(t, "user", u)
        /\ call[t].mgr = "objects"
    BY <1>1, <1>5, <2>1, <2>2 DEF FetchSave, Intent
  <2>4. DeadIfMarked(View(t, "user", u)) /\ View(t, "user", u) # Clean
    BY <1>1, SeesDeadIfMarked, ViewType, RowAssumption DEF Closing, Table
  <2> QED
    BY <2>3, <2>4 DEF DeadIfMarked, Selected, Visible
<1>6. \A u \in User : inst'[t][u] # NoRow => pc'[t] \in {"loop", "purge", "write"}
  BY <1>1
<1> QED
  BY <1>1, <1>3, <1>4, <1>5, <1>6 DEF Intent

\* One turn of the loop: the row it marks is one the queryset still selects.
LEMMA AnonymizeOneIntent ==
  ASSUME TypeOK, NEW t \in Txn, Intent(t), NEW u \in User, AnonymizeOne(t, u)
  PROVE  Intent(t)'
<1> USE DEF TypeOK
<1>1. /\ call' = call /\ now' = now /\ pc' = pc /\ pc[t] = "loop"
      /\ inst'[t][u] = NoRow /\ \A v \in User \ {u} : inst'[t][v] = inst[t][v]
  BY DEF AnonymizeOne
<1>2. ASSUME NEW v \in User, dirty'[t]["user"][v] = dirty[t]["user"][v]
      PROVE  (DeadIfMarked(dirty[t]["user"][v]) \/ Closing(t, v))'
  BY <1>1, <1>2 DEF Intent, DeadIfMarked, Closing, Wanted
<1>3. CASE dirty' # dirty
  <2>1. inst[t][u] \in Row /\ Wanted(t, u, inst[t][u]) /\ call[t].op = "anonymize"
    BY <1>1 DEF AnonymizeOne, Intent
  <2>2. /\ dirty'[t]["user"][u] = Erased("user", inst[t][u])
        /\ \A v \in User \ {u} : dirty'[t]["user"][v] = dirty[t]["user"][v]
    <3>1. "user" \in Table
      BY DEF Table
    <3>2. dirty' = [dirty EXCEPT ![t] = [tab \in Table |->
                      [dirty[t][tab] EXCEPT ![u] =
                         IF tab = "user" THEN Erased("user", inst[t][u])
                         ELSE IF View(t, "user", u) = NoRow THEN NewRow(FALSE)
                         ELSE IF View(t, tab, u) = NoRow THEN @
                         ELSE Erased(tab, View(t, tab, u))]]]
      BY <1>3 DEF AnonymizeOne
    <3>3. dirty'[t]["user"] = [dirty[t]["user"] EXCEPT ![u] = Erased("user", inst[t][u])]
      BY <3>1, <3>2
    <3> QED
      BY <3>1, <3>3
  <2>3. /\ dirty'[t]["user"][u] \in Row
        /\ dirty'[t]["user"][u].deleted = inst[t][u].deleted
    BY <2>1, <2>2, ErasedType DEF Table
  <2>4. Wanted(t, u, dirty'[t]["user"][u])
    BY <2>1, <2>3, RowAssumption DEF Wanted, Visible, Lookup, Intent, Call
  <2>5. Closing(t, u)'
    BY <1>1, <2>1, <2>4 DEF Closing, Wanted
  <2> QED
    BY <1>1, <1>2, <2>2, <2>5 DEF Intent, Wanted
<1> QED
  BY <1>1, <1>2, <1>3 DEF Intent, Wanted

LEMMA FinishLoopIntent ==
  ASSUME TypeOK, NEW t \in Txn, Intent(t), FinishLoop(t)
  PROVE  Intent(t)'
<1> USE DEF TypeOK, Goto
<1>1. /\ dirty' = dirty /\ call' = call /\ inst' = inst
      /\ pc[t] = "loop" /\ pc'[t] = "profiles" /\ now'[t] # Null
  BY StampAssumption DEF FinishLoop, FinalDelete
<1>2. \A u \in User : inst'[t][u] = NoRow
  BY <1>1 DEF FinishLoop, NoInst
<1>3. \A u \in User : (DeadIfMarked(dirty[t]["user"][u]) \/ Closing(t, u))'
  BY <1>1 DEF Intent, DeadIfMarked, Closing, Wanted
<1> QED
  BY <1>1, <1>2, <1>3 DEF Intent

LEMMA PurgeIntent ==
  ASSUME TypeOK, NEW t \in Txn, Intent(t), Purge(t)
  PROVE  Intent(t)'
<1> USE DEF TypeOK, Goto
<1>1. /\ call' = call /\ now' = now /\ inst' = inst
      /\ pc[t] = "purge" /\ pc'[t] = "commit"
  BY DEF Purge
<1>2. \A u \in User : dirty'[t]["user"][u] \in {NoRow, dirty[t]["user"][u]}
  BY DEF Purge, Table
<1>3. \A u \in User : DeadIfMarked(dirty[t]["user"][u])
  BY <1>1 DEF Intent, Closing
<1>4. \A u \in User : DeadIfMarked(dirty'[t]["user"][u])
  BY <1>2, <1>3 DEF DeadIfMarked
<1> QED
  BY <1>1, <1>4 DEF Intent, DeadIfMarked

LEMMA InsertIntent ==
  ASSUME TypeOK, NEW t \in Txn, Intent(t),
         InsertUser(t) \/ InsertProfile(t) \/ InsertSecret(t)
  PROVE  Intent(t)'
<1> USE DEF TypeOK, Goto
<1>1. /\ call' = call /\ now' = now /\ inst' = inst /\ pc[t] \in Inserting
      /\ pc'[t] \in {"insert_profile", "insert_secret", "commit"}
  BY DEF InsertUser, InsertProfile, InsertSecret, Insert, Inserting
<1>2. \A u \in User : \/ dirty'[t]["user"][u] = dirty[t]["user"][u]
                      \/ dirty'[t]["user"][u] = NewRow(TRUE)
  <2>1. ASSUME NEW tab \in Table, NEW from, NEW to, NEW row,
               Insert(t, tab, from, to, row), NEW u \in User
        PROVE  \/ dirty'[t]["user"][u] = dirty[t]["user"][u]
               \/ tab = "user" /\ dirty'[t]["user"][u] = row
    <3>1. "user" \in Table
      BY DEF Table
    <3>2. CASE tab = "user"
      BY <2>1, <3>1, <3>2 DEF Insert
    <3>3. CASE tab # "user"
      BY <2>1, <3>1, <3>3 DEF Insert
    <3> QED
      BY <3>2, <3>3
  <2> QED
    BY <2>1 DEF InsertUser, InsertProfile, InsertSecret, Table
<1>3. \A u \in User : DeadIfMarked(dirty[t]["user"][u]) /\ inst[t][u] = NoRow
  BY <1>1 DEF Intent, Closing, Inserting
<1>4. \A u \in User : DeadIfMarked(dirty'[t]["user"][u])
  BY <1>2, <1>3, NewRowType DEF DeadIfMarked
<1>5. /\ \A u \in User : inst'[t][u] = NoRow
      /\ pc'[t] \notin {"loop", "profiles", "secrets", "users"}
  BY <1>1, <1>3
<1> QED
  BY <1>1, <1>4, <1>5 DEF Intent, DeadIfMarked

\* A save() writes back an instance that was read live, hence not marked.
LEMMA WriteSaveIntent ==
  ASSUME TypeOK, NEW t \in Txn, Intent(t), NEW u \in User, WriteSave(t, u)
  PROVE  Intent(t)'
<1> USE DEF TypeOK, Goto
<1>1. /\ call' = call /\ now' = now /\ pc[t] = "write" /\ pc'[t] = "commit"
      /\ \A v \in User : inst'[t][v] = NoRow
      /\ inst[t][u] \in Row
  BY DEF WriteSave, NoInst
<1>2. /\ \A v \in User \ {u} : dirty'[t]["user"][v] = dirty[t]["user"][v]
      /\ dirty'[t]["user"][u] =
           IF call[t].tab = "user" THEN [inst[t][u] EXCEPT !.pii = TRUE]
           ELSE IF View(t, "user", u) = NoRow THEN NewRow(FALSE)
           ELSE dirty[t]["user"][u]
  BY DEF WriteSave, Table
<1>3. \A v \in User : DeadIfMarked(dirty[t]["user"][v])
  BY <1>1 DEF Intent, Closing
<1>4. DeadIfMarked(dirty'[t]["user"][u])
  <2>1. CASE call[t].tab = "user"
    <3>1. ~inst[t][u].anonymized
      BY <1>1, <2>1, RowAssumption DEF Intent
    <3>2. [inst[t][u] EXCEPT !.pii = TRUE].anonymized = inst[t][u].anonymized
      BY <1>1 DEF Row
    <3> QED
      BY <1>2, <2>1, <3>1, <3>2 DEF DeadIfMarked
  <2>2. CASE call[t].tab # "user"
    BY <1>2, <1>3, <2>2, NewRowType DEF DeadIfMarked
  <2> QED
    BY <2>1, <2>2
<1>5. \A v \in User : DeadIfMarked(dirty'[t]["user"][v])
  BY <1>2, <1>3, <1>4 DEF DeadIfMarked
<1> QED
  BY <1>1, <1>5 DEF Intent, DeadIfMarked

LEMMA EndIntent ==
  ASSUME TypeOK, NEW t \in Txn, NEW rows, End(t, rows)
  PROVE  Intent(t)'
<1> USE DEF TypeOK, Goto
<1>1. /\ pc'[t] = "idle" /\ call'[t] = NoCall
      /\ \A u \in User : inst'[t][u] = NoRow /\ dirty'[t]["user"][u] = Clean
  BY DEF End, NoWrites, NoInst, Table
<1> QED
  BY <1>1 DEF Intent, DeadIfMarked, NoCall

LEMMA StepKeepsIntent ==
  ASSUME "identity" \notin Lookups, TypeOK, AnonymizedIsDead,
         \A t \in Txn : Intent(t), [Next]_vars
  PROVE  AnonymizedIsDead' /\ \A t \in Txn : Intent(t)'
<1>1. CASE UNCHANGED vars
  <2>1. AnonymizedIsDead'
    BY <1>1 DEF vars, AnonymizedIsDead
  <2>2. \A t \in Txn : Intent(t)'
    BY <1>1 DEF vars, Intent, DeadIfMarked, Closing, Wanted
  <2> QED
    BY <2>1, <2>2
<1>2. ASSUME NEW t \in Txn, Step(t)
      PROVE  AnonymizedIsDead' /\ \A o \in Txn : Intent(o)'
  <2>1. ASSUME NEW o \in Txn \ {t} PROVE Intent(o)'
    <3>1. /\ pc'[o] = pc[o] /\ call'[o] = call[o] /\ now'[o] = now[o]
          /\ inst'[o] = inst[o] /\ dirty'[o] = dirty[o]
      BY <1>2, StepIsOfOne
    <3> QED
      BY <3>1 DEF Intent, DeadIfMarked, Closing, Wanted
  <2>2. Intent(t)'
    <3>1. CASE Begin(t)
      BY <3>1, BeginIntent
    <3>2. CASE UpdateProfiles(t) \/ UpdateSecrets(t) \/ UpdateUsers(t)
      BY <3>2, UpdateIntent
    <3>3. CASE FetchAnonymize(t) \/ Collect(t) \/ \E u \in User : FetchSave(t, u)
      BY <3>3, FetchIntent
    <3>4. CASE \E u \in User : AnonymizeOne(t, u)
      BY <3>4, AnonymizeOneIntent
    <3>5. CASE FinishLoop(t)
      BY <3>5, FinishLoopIntent
    <3>6. CASE Purge(t)
      BY <3>6, PurgeIntent
    <3>7. CASE InsertUser(t) \/ InsertProfile(t) \/ InsertSecret(t)
      BY <3>7, InsertIntent
    <3>8. CASE \E u \in User : WriteSave(t, u)
      BY <3>8, WriteSaveIntent
    <3>9. CASE Commit(t) \/ Rollback(t)
      BY <3>9, EndIntent DEF Commit, Rollback
    <3> QED
      BY <1>2, <3>1, <3>2, <3>3, <3>4, <3>5, <3>6, <3>7, <3>8, <3>9 DEF Step
  <2>3. CASE Commit(t)
    <3>1. ASSUME NEW u \in User PROVE DeadIfMarked(db'["user"][u])
      <4>1. ~Closing(t, u)
        BY <2>3 DEF Commit, Closing
      <4>2. db'["user"][u] = View(t, "user", u)
        BY <2>3 DEF Commit, End, Merged, Table
      <4>3. DeadIfMarked(View(t, "user", u))
        BY <4>1, SeesDeadIfMarked
      <4> QED
        BY <4>2, <4>3
    <3>2. \A u \in User : db'["user"][u] # Clean
      <4>1. \A u \in User : View(t, "user", u) # Clean
        BY ViewType, RowAssumption DEF Table
      <4> QED
        BY <2>3, <4>1 DEF Commit, End, Merged, Table
    <3>3. AnonymizedIsDead'
      BY <3>1, <3>2 DEF DeadIfMarked, AnonymizedIsDead
    <3> QED
      BY <2>1, <2>2, <3>3
  <2>4. CASE ~Commit(t)
    <3>1. db' = db
      BY <1>2, <2>4, OnlyCommitsWrite
    <3>2. AnonymizedIsDead'
      BY <3>1 DEF AnonymizedIsDead
    <3> QED
      BY <2>1, <2>2, <3>2
  <2> QED
    BY <2>3, <2>4
<1> QED
  BY <1>1, <1>2 DEF Next

\* An anonymised account is never visible through the default manager, however
\* many transactions overlap, under either isolation, with stale save()s among
\* them.  (The caller must not select by what anonymisation rewrites, or the
\* final delete() no longer finds the account: the hypothesis is needed.)
THEOREM AnonymizedAccountsAreDead ==
  ASSUME "identity" \notin Lookups
  PROVE  Spec => []AnonymizedIsDead
<1>1. Init => TypeOK /\ AnonymizedIsDead /\ \A t \in Txn : Intent(t)
  <2> SUFFICES ASSUME Init PROVE AnonymizedIsDead /\ \A t \in Txn : Intent(t)
    BY InitType
  <2>1. ASSUME NEW u \in User, db["user"][u] # NoRow
        PROVE  ~db["user"][u].anonymized
    BY <2>1 DEF Init, Table, NewRow
  <2>2. \A t \in Txn : Intent(t)
    BY DEF Init, Intent, DeadIfMarked, NoCall, NoInst, NoWrites, Table
  <2> QED
    BY <2>1, <2>2 DEF AnonymizedIsDead
<1>2. /\ TypeOK /\ AnonymizedIsDead /\ (\A t \in Txn : Intent(t)) /\ [Next]_vars
      => TypeOK' /\ AnonymizedIsDead' /\ (\A t \in Txn : Intent(t))'
  BY StepType, StepKeepsIntent
<1> QED
  BY <1>1, <1>2, PTL DEF Spec

-----------------------------------------------------------------------------
(***************************************************************************)
(* What is removed.  A transaction holds an uncommitted removal of a user  *)
(* only between its purge and its commit, and still has the instance it    *)
(* collected, which the default manager showed it: alive.                  *)
(***************************************************************************)
FoundAlive(t, u) ==
  call[t].op = "hard_delete" /\ inst[t][u] # NoRow /\ inst[t][u].deleted = Null

Removes(t) ==
  /\ pc[t] \in {"collect", "purge"} =>
       call[t].op = "hard_delete" /\ call[t].mgr = "objects"
  /\ \A u \in User :
       /\ pc[t] = "purge" /\ inst[t][u] # NoRow => FoundAlive(t, u)
       /\ dirty[t]["user"][u] = NoRow => pc[t] = "commit" /\ FoundAlive(t, u)

\* A step that neither starts nor takes part in a removal keeps the rest.
LEMMA NoRemoval ==
  ASSUME NEW t \in Txn, Removes(t), pc'[t] \notin {"collect", "purge"},
         \A u \in User : dirty'[t]["user"][u] # NoRow
  PROVE  Removes(t)'
BY DEF Removes

LEMMA UpdateRemovesNothing ==
  ASSUME TypeOK, NEW t \in Txn, Removes(t),
         UpdateProfiles(t) \/ UpdateSecrets(t) \/ UpdateUsers(t)
  PROVE  Removes(t)'
<1> USE RowAssumption DEF TypeOK, Goto
<1>1. pc[t] # "commit" /\ pc'[t] \in {"secrets", "users", "commit"}
  BY DEF UpdateProfiles, UpdateSecrets, UpdateUsers, UpdateTable
<1>2. ASSUME NEW tab \in Table, NEW from, NEW to, UpdateTable(t, tab, from, to),
             NEW u \in User
      PROVE  dirty'[t]["user"][u] # NoRow
  <2>1. "user" \in Table /\ dirty[t]["user"][u] # NoRow
    BY <1>1 DEF Removes, Table
  <2>2. CASE tab # "user"
    BY <1>2, <2>1, <2>2 DEF UpdateTable
  <2>3. CASE tab = "user"
    <3>1. dirty'[t]["user"][u] =
            IF u \in Targets(t) /\ View(t, "user", u) # NoRow
            THEN Stamped("user", View(t, "user", u), now[t])
            ELSE dirty[t]["user"][u]
      BY <1>2, <2>1, <2>3 DEF UpdateTable
    <3>2. View(t, "user", u) # NoRow
            => Stamped("user", View(t, "user", u), now[t]) \in Row
      BY <2>1, ViewType, StampedType
    <3> QED
      BY <2>1, <3>1, <3>2
  <2> QED
    BY <2>2, <2>3
<1>3. \A u \in User : dirty'[t]["user"][u] # NoRow
  BY <1>2 DEF UpdateProfiles, UpdateSecrets, UpdateUsers, Table
<1> QED
  BY <1>1, <1>3, NoRemoval

LEMMA AnonymizeRemovesNothing ==
  ASSUME TypeOK, NEW t \in Txn, Removes(t), NEW u \in User, AnonymizeOne(t, u)
  PROVE  Removes(t)'
<1> USE RowAssumption DEF TypeOK
<1>1. pc[t] = "loop" /\ pc' = pc /\ inst[t][u] \in Row
  BY DEF AnonymizeOne
<1>2. \A v \in User : dirty[t]["user"][v] # NoRow
  BY <1>1 DEF Removes
<1>3. CASE inst[t][u].anonymized
  BY <1>1, <1>2, <1>3, NoRemoval DEF AnonymizeOne
<1>4. CASE ~inst[t][u].anonymized
  <2>1. "user" \in Table /\ Erased("user", inst[t][u]) \in Row
    BY <1>1, ErasedType DEF Table
  <2>2. dirty' = [dirty EXCEPT ![t] = [tab \in Table |->
                    [dirty[t][tab] EXCEPT ![u] =
                       IF tab = "user" THEN Erased("user", inst[t][u])
                       ELSE IF View(t, "user", u) = NoRow THEN NewRow(FALSE)
                       ELSE IF View(t, tab, u) = NoRow THEN @
                       ELSE Erased(tab, View(t, tab, u))]]]
    BY <1>4 DEF AnonymizeOne
  <2>3. dirty'[t]["user"] = [dirty[t]["user"] EXCEPT ![u] = Erased("user", inst[t][u])]
    BY <2>1, <2>2
  <2>4. \A v \in User : dirty'[t]["user"][v] # NoRow
    BY <1>2, <2>1, <2>3
  <2> QED
    BY <1>1, <2>4, NoRemoval
<1> QED
  BY <1>3, <1>4

LEMMA InsertRemovesNothing ==
  ASSUME TypeOK, NEW t \in Txn, Removes(t),
         InsertUser(t) \/ InsertProfile(t) \/ InsertSecret(t)
  PROVE  Removes(t)'
<1> USE RowAssumption DEF TypeOK, Goto
<1>1. pc[t] # "commit" /\ pc'[t] \in {"insert_profile", "insert_secret", "commit"}
  BY DEF InsertUser, InsertProfile, InsertSecret, Insert
<1>2. ASSUME NEW tab \in Table, NEW from, NEW to, NEW row \in Row,
             Insert(t, tab, from, to, row), NEW u \in User
      PROVE  dirty'[t]["user"][u] # NoRow
  <2>1. "user" \in Table /\ dirty[t]["user"][u] # NoRow
    BY <1>1 DEF Removes, Table
  <2>2. CASE tab # "user"
    BY <1>2, <2>1, <2>2 DEF Insert
  <2>3. CASE tab = "user"
    BY <1>2, <2>1, <2>3 DEF Insert
  <2> QED
    BY <2>2, <2>3
<1>3. \A u \in User : dirty'[t]["user"][u] # NoRow
  BY <1>2, NewRowType DEF InsertUser, InsertProfile, InsertSecret, Table
<1> QED
  BY <1>1, <1>3, NoRemoval

LEMMA SaveRemovesNothing ==
  ASSUME TypeOK, NEW t \in Txn, Removes(t), NEW u \in User, WriteSave(t, u)
  PROVE  Removes(t)'
<1> USE DEF TypeOK, Goto
<1>1. pc[t] = "write" /\ pc'[t] = "commit" /\ inst[t][u] \in Row
  BY DEF WriteSave
<1>2. \A v \in User : dirty[t]["user"][v] # NoRow
  BY <1>1 DEF Removes
<1>3. /\ \A v \in User \ {u} : dirty'[t]["user"][v] = dirty[t]["user"][v]
      /\ dirty'[t]["user"][u] =
           IF call[t].tab = "user" THEN [inst[t][u] EXCEPT !.pii = TRUE]
           ELSE IF View(t, "user", u) = NoRow THEN NewRow(FALSE)
           ELSE dirty[t]["user"][u]
  BY DEF WriteSave, Table
<1>4. /\ [inst[t][u] EXCEPT !.pii = TRUE] # NoRow
      /\ NewRow(FALSE) # NoRow
  <2>1. [inst[t][u] EXCEPT !.pii = TRUE] \in Row
    BY <1>1 DEF Row
  <2>2. NewRow(FALSE) \in Row
    BY NewRowType
  <2> QED
    BY <2>1, <2>2, RowAssumption
<1>5. \A v \in User : dirty'[t]["user"][v] # NoRow
  BY <1>2, <1>3, <1>4
<1> QED
  BY <1>1, <1>5, NoRemoval

\* hard_delete(): what it collects is alive, what it removes it has collected.
LEMMA CollectRemoves ==
  ASSUME TypeOK, NEW t \in Txn, Removes(t), Collect(t)
  PROVE  Removes(t)'
<1> USE DEF TypeOK, Goto
<1>1. /\ pc[t] = "collect" /\ pc'[t] = "purge" /\ dirty' = dirty /\ call' = call
      /\ call[t].op = "hard_delete" /\ call[t].mgr = "objects"
  BY DEF Collect, Removes
<1>2. \A u \in User : inst'[t][u] = IF u \in Selected(t) THEN View(t, "user", u) ELSE NoRow
  BY DEF Collect
<1>3. \A u \in Selected(t) : View(t, "user", u).deleted = Null
  BY <1>1 DEF Selected, Visible
<1> QED
  BY <1>1, <1>2, <1>3 DEF Removes, FoundAlive

LEMMA PurgeRemoves ==
  ASSUME TypeOK, NEW t \in Txn, Removes(t), Purge(t)
  PROVE  Removes(t)'
<1> USE DEF TypeOK, Goto
<1>1. /\ pc[t] = "purge" /\ pc'[t] = "commit" /\ call' = call /\ inst' = inst
  BY DEF Purge
<1>2. \A u \in User :
        dirty'[t]["user"][u] = IF inst[t][u] # NoRow THEN NoRow
                               ELSE dirty[t]["user"][u]
  BY DEF Purge, Table
<1> QED
  BY <1>1, <1>2 DEF Removes, FoundAlive

LEMMA OthersRemoveNothing ==
  ASSUME TypeOK, NEW t \in Txn, Removes(t),
         \/ Begin(t) \/ FetchAnonymize(t) \/ FinishLoop(t)
         \/ \E u \in User : FetchSave(t, u)
  PROVE  Removes(t)'
<1> USE DEF TypeOK, Goto
<1>1. CASE Begin(t)
  <2>1. /\ dirty' = dirty /\ pc[t] = "idle" /\ pc'[t] # "purge"
        /\ pc'[t] = "collect" => call'[t].op = "hard_delete" /\ call'[t].mgr = "objects"
    BY <1>1 DEF Begin, BeginDelete, BeginRestore, BeginAnonymize, BeginHardDelete,
       BeginCreate, BeginSave, Start, MayBegin, HardDeletable
  <2> QED
    BY <2>1 DEF Removes
<1>2. CASE FetchAnonymize(t) \/ FinishLoop(t) \/ \E u \in User : FetchSave(t, u)
  <2>1. /\ dirty' = dirty /\ pc[t] \in {"fetch", "loop"}
        /\ pc'[t] \in {"loop", "profiles", "write"}
    BY <1>2 DEF FetchAnonymize, FinishLoop, FinalDelete, FetchSave
  <2> QED
    BY <2>1 DEF Removes
<1> QED
  BY <1>1, <1>2

LEMMA EndRemoves ==
  ASSUME TypeOK, NEW t \in Txn, NEW rows, End(t, rows)
  PROVE  Removes(t)'
<1>1. pc'[t] = "idle" /\ \A u \in User : dirty'[t]["user"][u] = Clean
  BY DEF End, Goto, TypeOK, NoWrites, Table
<1> QED
  BY <1>1, RowAssumption DEF Removes

LEMMA StepRemoves ==
  ASSUME TypeOK, \A t \in Txn : Removes(t), NEW t \in Txn, Step(t)
  PROVE  \A o \in Txn : Removes(o)'
<1>1. ASSUME NEW o \in Txn \ {t} PROVE Removes(o)'
  <2>1. pc'[o] = pc[o] /\ call'[o] = call[o] /\ inst'[o] = inst[o] /\ dirty'[o] = dirty[o]
    BY StepIsOfOne
  <2> QED
    BY <2>1 DEF Removes, FoundAlive
<1>2. Removes(t)'
  <2>1. CASE UpdateProfiles(t) \/ UpdateSecrets(t) \/ UpdateUsers(t)
    BY <2>1, UpdateRemovesNothing
  <2>2. CASE \E u \in User : AnonymizeOne(t, u)
    BY <2>2, AnonymizeRemovesNothing
  <2>3. CASE InsertUser(t) \/ InsertProfile(t) \/ InsertSecret(t)
    BY <2>3, InsertRemovesNothing
  <2>4. CASE \E u \in User : WriteSave(t, u)
    BY <2>4, SaveRemovesNothing
  <2>5. CASE Collect(t)
    BY <2>5, CollectRemoves
  <2>6. CASE Purge(t)
    BY <2>6, PurgeRemoves
  <2>7. CASE \/ Begin(t) \/ FetchAnonymize(t) \/ FinishLoop(t)
             \/ \E u \in User : FetchSave(t, u)
    BY <2>7, OthersRemoveNothing
  <2>8. CASE Commit(t) \/ Rollback(t)
    BY <2>8, EndRemoves DEF Commit, Rollback
  <2> QED
    BY <2>1, <2>2, <2>3, <2>4, <2>5, <2>6, <2>7, <2>8 DEF Step
<1> QED
  BY <1>1, <1>2

\* Under either isolation and whatever overlaps, no committed row of a user is
\* removed except by a hard_delete() that found the account alive.
THEOREM OnlyLiveAccountsAreCollected == Spec => PurgedWereLive
<1>1. Init => \A t \in Txn : Removes(t)
  BY RowAssumption DEF Init, Removes, NoWrites, Table
<1>2. TypeOK /\ (\A t \in Txn : Removes(t)) /\ [Next]_vars => (\A t \in Txn : Removes(t))'
  <2> SUFFICES ASSUME TypeOK, \A t \in Txn : Removes(t), [Next]_vars
               PROVE  \A t \in Txn : Removes(t)'
    OBVIOUS
  <2>1. CASE UNCHANGED vars
    BY <2>1 DEF vars, Removes, FoundAlive
  <2>2. CASE Next
    BY <2>2, StepRemoves DEF Next
  <2> QED
    BY <2>1, <2>2
<1>3. TypeOK /\ (\A t \in Txn : Removes(t)) /\ [Next]_vars =>
        [\A u \in User :
           db["user"][u] # NoRow /\ db'["user"][u] = NoRow =>
             \E t \in Txn : /\ pc[t] = "commit" /\ call[t].op = "hard_delete"
                            /\ inst[t][u] # NoRow
                            /\ inst[t][u].deleted = Null]_vars
  <2> SUFFICES ASSUME TypeOK, \A t \in Txn : Removes(t), Next, NEW u \in User,
                      db["user"][u] # NoRow, db'["user"][u] = NoRow
               PROVE  \E t \in Txn : pc[t] = "commit" /\ FoundAlive(t, u)
    BY DEF FoundAlive, vars
  <2>1. PICK t \in Txn : Step(t)
    BY DEF Next
  <2>2. Commit(t)
    BY <2>1, OnlyCommitsWrite
  <2>3. db'["user"][u] = View(t, "user", u)
    BY <2>2 DEF Commit, End, Merged, Table
  <2>4. dirty[t]["user"][u] = NoRow
    BY <2>3 DEF View
  <2> QED
    BY <2>4 DEF Removes
<1> QED
  BY <1>1, <1>2, <1>3, TypeInvariant, PTL DEF Spec, PurgedWereLive

-----------------------------------------------------------------------------
(***************************************************************************)
(* Finality under concurrency.  A mark that is committed is seen by every  *)
(* transaction and kept by whatever it has written, as long as nobody      *)
(* saves a stale instance and nobody purges by primary keys collected      *)
(* before the mark.                                                        *)
(***************************************************************************)
IsMarked(row) == row # NoRow /\ row.anonymized

MarksKept ==
  \A t \in Txn, u \in User :
    IsMarked(db["user"][u]) => IsMarked(View(t, "user", u))

NoPurge == \A t \in Txn : pc[t] \notin {"collect", "purge"}

\* What one step of a bulk operation makes of the user rows.
Respects(t) ==
  /\ db' = db /\ \A o \in Txn \ {t} : dirty'[o] = dirty[o]
  /\ \A u \in User : \/ dirty'[t]["user"][u] = dirty[t]["user"][u]
                     \/ dirty'[t]["user"][u] \in Row /\ dirty'[t]["user"][u].anonymized
                     \/ /\ dirty'[t]["user"][u] \in Row
                        /\ IsMarked(View(t, "user", u)) => dirty'[t]["user"][u].anonymized
                     \/ db["user"][u] = NoRow

LEMMA RespectKeepsMarks ==
  ASSUME TypeOK, MarksKept, NEW t \in Txn, Respects(t)
  PROVE  MarksKept'
<1> SUFFICES ASSUME NEW o \in Txn, NEW u \in User, IsMarked(db["user"][u])
             PROVE  IsMarked(View(o, "user", u)')
  BY DEF MarksKept, Respects, IsMarked
<1>1. CASE dirty'[o]["user"][u] = dirty[o]["user"][u]
  BY <1>1 DEF MarksKept, Respects, View
<1>2. CASE o = t /\ dirty'[t]["user"][u] \in Row /\ dirty'[t]["user"][u].anonymized
  BY <1>2, RowAssumption DEF View, IsMarked
<1> QED
  BY <1>1, <1>2 DEF Respects, MarksKept, IsMarked

LEMMA UpdateRespects ==
  ASSUME TypeOK, NEW t \in Txn,
         UpdateProfiles(t) \/ UpdateSecrets(t) \/ UpdateUsers(t)
  PROVE  Respects(t)
<1> SUFFICES ASSUME NEW tab \in Table, NEW from, NEW to, UpdateTable(t, tab, from, to)
             PROVE  Respects(t)
  BY DEF UpdateProfiles, UpdateSecrets, UpdateUsers, Table
<1>1. db' = db /\ \A o \in Txn \ {t} : dirty'[o] = dirty[o]
  BY DEF UpdateTable, TypeOK
<1>2. CASE tab # "user"
  <2>1. dirty'[t]["user"] = dirty[t]["user"]
    BY <1>2 DEF UpdateTable, TypeOK, Table
  <2> QED
    BY <1>1, <2>1 DEF Respects
<1>3. CASE tab = "user"
  <2>1. ASSUME NEW u \in User, dirty'[t]["user"][u] # dirty[t]["user"][u]
        PROVE  /\ dirty'[t]["user"][u] \in Row
               /\ IsMarked(View(t, "user", u)) => dirty'[t]["user"][u].anonymized
    <3>1. /\ View(t, "user", u) # NoRow
          /\ dirty'[t]["user"][u] = Stamped("user", View(t, "user", u), now[t])
      BY <1>3, <2>1 DEF UpdateTable, TypeOK, Table
    <3>2. View(t, "user", u) \in Row /\ now[t] \in Stamp \cup {Null}
      BY <3>1, ViewType DEF TypeOK, Table
    <3> QED
      BY <3>1, <3>2, StampedType DEF IsMarked, Table
  <2> QED
    BY <1>1, <2>1 DEF Respects
<1> QED
  BY <1>2, <1>3

LEMMA AnonymizeOneRespects ==
  ASSUME TypeOK, NEW t \in Txn, NEW u \in User, AnonymizeOne(t, u)
  PROVE  Respects(t)
<1>1. db' = db /\ \A o \in Txn \ {t} : dirty'[o] = dirty[o]
  BY DEF AnonymizeOne, TypeOK
<1>2. CASE dirty' = dirty
  BY <1>1, <1>2 DEF Respects
<1>3. CASE dirty' # dirty
  <2>1. /\ "user" \in Table /\ inst[t][u] \in Row
        /\ \A k \in Table : dirty[t][k] \in [User -> Row \cup {NoRow, Clean}]
    BY DEF AnonymizeOne, TypeOK, Table
  <2>2. dirty' = [dirty EXCEPT ![t] = [tab \in Table |->
                    [dirty[t][tab] EXCEPT ![u] =
                       IF tab = "user" THEN Erased("user", inst[t][u])
                       ELSE IF View(t, "user", u) = NoRow THEN NewRow(FALSE)
                       ELSE IF View(t, tab, u) = NoRow THEN @
                       ELSE Erased(tab, View(t, tab, u))]]]
    BY <1>3 DEF AnonymizeOne
  <2>3. dirty'[t]["user"] = [dirty[t]["user"] EXCEPT ![u] = Erased("user", inst[t][u])]
    BY <2>1, <2>2 DEF TypeOK
  <2>4. /\ dirty'[t]["user"][u] = Erased("user", inst[t][u])
        /\ \A v \in User \ {u} : dirty'[t]["user"][v] = dirty[t]["user"][v]
    BY <2>1, <2>3
  <2>5. dirty'[t]["user"][u] \in Row /\ dirty'[t]["user"][u].anonymized
    BY <2>1, <2>4, ErasedType
  <2> QED
    BY <1>1, <2>4, <2>5 DEF Respects
<1> QED
  BY <1>2, <1>3

LEMMA InsertRespects ==
  ASSUME TypeOK, FreshUsers, NEW t \in Txn,
         InsertUser(t) \/ InsertProfile(t) \/ InsertSecret(t)
  PROVE  Respects(t)
<1> SUFFICES ASSUME NEW tab \in Table, NEW from \in Inserting, NEW to, NEW row,
                    Insert(t, tab, from, to, row)
             PROVE  Respects(t)
  BY DEF InsertUser, InsertProfile, InsertSecret, Table, Inserting
<1>1. db' = db /\ \A o \in Txn \ {t} : dirty'[o] = dirty[o]
  BY DEF Insert, TypeOK
<1>2. ASSUME NEW u \in User, dirty'[t]["user"][u] # dirty[t]["user"][u]
      PROVE  db["user"][u] = NoRow
  <2>1. u \in call[t].ids
    BY <1>2 DEF Insert, TypeOK, Table
  <2>2. Creating(t, u)
    BY <2>1 DEF Insert, Creating
  <2> QED
    BY <2>2 DEF FreshUsers, Unseen, Table
<1> QED
  BY <1>1, <1>2 DEF Respects

LEMMA EndKeepsMarks ==
  ASSUME TypeOK, LockExclusive, MarksKept, NEW t \in Txn, Commit(t) \/ Rollback(t)
  PROVE  /\ MarksKept'
         /\ \A u \in User : IsMarked(db["user"][u]) => IsMarked(db'["user"][u])
<1>1. /\ \A o \in Txn \ {t} : dirty'[o] = dirty[o]
      /\ \A u \in User : dirty'[t]["user"][u] = Clean
  BY DEF Commit, Rollback, End, NoWrites, TypeOK, Table
<1>2. CASE Rollback(t)
  <2>1. db' = db
    BY <1>2 DEF Rollback, End, RolledBack
  <2> QED
    BY <1>1, <2>1 DEF MarksKept, View
<1>3. CASE Commit(t)
  <2>1. \A u \in User : db'["user"][u] = View(t, "user", u)
    BY <1>3 DEF Commit, End, Merged, Table
  <2>2. ASSUME NEW o \in Txn, NEW u \in User, IsMarked(db'["user"][u])
        PROVE  IsMarked(View(o, "user", u)')
    <3>1. CASE dirty'[o]["user"][u] = Clean
      BY <2>2, <3>1 DEF View
    <3>2. CASE dirty'[o]["user"][u] # Clean
      <4>1. o # t /\ dirty'[o] = dirty[o] /\ dirty[t]["user"][u] = Clean
        BY <1>1, <3>2 DEF LockExclusive, Table
      <4>2. IsMarked(db["user"][u])
        BY <2>1, <2>2, <4>1 DEF View
      <4> QED
        BY <3>2, <4>1, <4>2 DEF MarksKept, View
    <3> QED
      BY <3>1, <3>2
  <2> QED
    BY <2>1, <2>2 DEF MarksKept, IsMarked
<1> QED
  BY <1>2, <1>3

LEMMA StepKeepsMarks ==
  ASSUME {"save", "hard_delete"} \cap Ops = {},
         TypeOK, Exists, BulkOnly, MarksKept, NoPurge, [Next]_vars
  PROVE  /\ MarksKept' /\ NoPurge'
         /\ \A u \in User : IsMarked(db["user"][u]) => IsMarked(db'["user"][u])
<1> DEFINE Goal == /\ MarksKept'
                   /\ \A u \in User : IsMarked(db["user"][u]) => IsMarked(db'["user"][u])
<1>1. ASSUME NEW t \in Txn, Respects(t) PROVE Goal
  BY <1>1, RespectKeepsMarks DEF Respects, IsMarked
<1>2. ASSUME NEW t \in Txn, db' = db, dirty' = dirty PROVE Respects(t)
  BY <1>2 DEF Respects
<1>3. ASSUME NEW t \in Txn, Step(t) PROVE Goal /\ pc'[t] \notin {"collect", "purge"}
  <2> USE DEF TypeOK, Goto
  <2>1. CASE Begin(t)
    <3>1. db' = db /\ dirty' = dirty /\ pc'[t] \notin {"collect", "purge"}
      BY <2>1 DEF Begin, BeginDelete, BeginRestore, BeginAnonymize,
         BeginHardDelete, BeginCreate, BeginSave, Start
    <3> QED
      BY <1>1, <1>2, <3>1
  <2>2. CASE UpdateProfiles(t) \/ UpdateSecrets(t) \/ UpdateUsers(t)
    <3>1. pc'[t] \notin {"collect", "purge"}
      BY <2>2 DEF UpdateProfiles, UpdateSecrets, UpdateUsers, UpdateTable
    <3> QED
      BY <1>1, <2>2, <3>1, UpdateRespects
  <2>3. CASE FetchAnonymize(t) \/ FinishLoop(t)
    <3>1. db' = db /\ dirty' = dirty /\ pc'[t] \notin {"collect", "purge"}
      BY <2>3 DEF FetchAnonymize, FinishLoop, FinalDelete
    <3> QED
      BY <1>1, <1>2, <3>1
  <2>4. ASSUME NEW u \in User, AnonymizeOne(t, u)
        PROVE  Goal /\ pc'[t] \notin {"collect", "purge"}
    <3>1. pc'[t] \notin {"collect", "purge"}
      BY <2>4 DEF AnonymizeOne
    <3> QED
      BY <1>1, <2>4, <3>1, AnonymizeOneRespects
  <2>5. CASE InsertUser(t) \/ InsertProfile(t) \/ InsertSecret(t)
    <3>1. pc'[t] \notin {"collect", "purge"}
      BY <2>5 DEF InsertUser, InsertProfile, InsertSecret, Insert
    <3> QED
      BY <1>1, <2>5, <3>1, InsertRespects DEF Exists
  <2>6. CASE Commit(t) \/ Rollback(t)
    <3>1. pc'[t] = "idle"
      BY <2>6 DEF Commit, Rollback, End
    <3> QED
      BY <2>6, <3>1, EndKeepsMarks DEF Exists
  <2>7. /\ ~Collect(t) /\ ~Purge(t)
        /\ \A u \in User : ~FetchSave(t, u) /\ ~WriteSave(t, u)
    BY DEF NoPurge, BulkOnly, Collect, Purge, FetchSave, WriteSave
  <2> QED
    BY <1>3, <2>1, <2>2, <2>3, <2>4, <2>5, <2>6, <2>7 DEF Step
<1>4. CASE UNCHANGED vars
  BY <1>4 DEF vars, MarksKept, NoPurge, View
<1>5. CASE Next
  <2> PICK t \in Txn : Step(t)
    BY <1>5 DEF Next
  <2>1. NoPurge'
    BY <1>3, StepIsOfOne DEF NoPurge
  <2> QED
    BY <1>3, <2>1
<1> QED
  BY <1>4, <1>5

\* "This cannot be undone", under either isolation and any number of
\* overlapping creations, deletions, restorations and anonymisations.  The two
\* operations left out act on what they read before the mark was committed: a
\* save() undoes it, a purge removes the rows by primary key.
THEOREM AnonymizationIsFinalAmongBulkOperations ==
  ASSUME {"save", "hard_delete"} \cap Ops = {}
  PROVE  Spec => AnonymizationIsFinal
<1> DEFINE I == TypeOK /\ Exists /\ Erasure /\ BulkOnly /\ MarksKept /\ NoPurge
<1>1. Init => I
  <2>1. Init => BulkOnly /\ NoPurge
    BY DEF Init, BulkOnly, NoCall, NoPurge
  <2>2. ASSUME Init PROVE MarksKept
    <3>1. \A t \in Txn, u \in User : dirty[t]["user"][u] = Clean
      BY <2>2 DEF Init, NoWrites, Table
    <3> QED
      BY <3>1 DEF MarksKept, View
  <2> QED
    BY <2>1, <2>2, InitType, InitExists, InitErasure
<1>2. I /\ [Next]_vars => I'
  BY StepType, StepKeepsExists, StepKeepsErasure, StepKeepsMarks
<1>3. I /\ I' /\ [Next]_vars =>
        [\A u \in User :
           db["user"][u] # NoRow /\ db["user"][u].anonymized =>
             /\ db'["user"][u] # NoRow
             /\ db'["user"][u].anonymized
             /\ \A tab \in Table : ~db'[tab][u].pii]_vars
  <2> SUFFICES ASSUME I, I', [Next]_vars, NEW u \in User, IsMarked(db["user"][u])
               PROVE  /\ IsMarked(db'["user"][u])
                      /\ \A tab \in Table : ~db'[tab][u].pii
    BY DEF IsMarked
  <2>1. IsMarked(db'["user"][u])
    BY StepKeepsMarks
  <2>2. \A tab \in Table : db'[tab][u] # NoRow
    BY <2>1 DEF Exists, SatellitesComplete, IsMarked
  <2> QED
    BY <2>1, <2>2 DEF Erasure, AnonymizedIsErased, IsMarked
<1> QED
  BY <1>1, <1>2, <1>3, PTL DEF Spec, AnonymizationIsFinal
=============================================================================
