---------------------- MODULE AccountRefinement_proofs ----------------------
(***************************************************************************)
(* AccountLifecycle implements AccountContract while its callers take      *)
(* turns and narrow querysets by what anonymisation leaves alone, for any  *)
(* users, sessions and time stamps.                                        *)
(*                                                                         *)
(* Nobody else writes between the first statement of a transaction and its *)
(* commit.  So its view of an account is a function of the committed rows  *)
(* and of how far it has come: InTurn says which, operation by operation.  *)
(* The statements of one operation all evaluate the same queryset; the     *)
(* heart of the proof is that they find the same accounts every time, even *)
(* after anonymize() has rewritten them (SelectionStays).                  *)
(***************************************************************************)
EXTENDS AccountLifecycle_proofs

\* The query of t, on the committed rows.
Sel(t, u) ==
  /\ u \in call[t].ids
  /\ Visible(call[t].mgr, db["user"][u]) /\ Lookup(call[t].by, db["user"][u])
Chosen(t, u) ==
  Sel(t, u) /\ (call[t].op = "restore" => Restorable(db["user"][u]))

StampedAt(at) == CASE at = "secrets" -> {"profile"}
                   [] at = "users" -> {"profile", "secret"}
                   [] at = "commit" -> Table
                   [] OTHER -> {}

\* The loop of anonymize() has rewritten u.
Rewritten(t, u) ==
  /\ call[t].op = "anonymize" /\ Sel(t, u) /\ ~db["user"][u].anonymized
  /\ pc[t] # "fetch" /\ inst[t][u] = NoRow

Base(t, tab, u) ==
  IF Rewritten(t, u) THEN Erased(tab, db[tab][u]) ELSE db[tab][u]

\* delete(), restore() and anonymize().
SoftOK(t, u) ==
  /\ pc[t] \in {"fetch", "loop", "profiles", "secrets", "users", "commit"}
  /\ pc[t] \in {"fetch", "loop"} => call[t].op = "anonymize"
  /\ pc[t] \notin {"fetch", "loop"} => (now[t] = Null <=> call[t].op = "restore")
  /\ inst[t][u] # NoRow => /\ pc[t] = "loop" /\ Sel(t, u)
                           /\ inst[t][u] = db["user"][u]
  /\ \A tab \in Table :
       View(t, tab, u) =
         IF Chosen(t, u) /\ tab \in StampedAt(pc[t])
         THEN Stamped(tab, Base(t, tab, u), now[t]) ELSE Base(t, tab, u)

\* hard_delete().
PurgeOK(t, u) ==
  /\ pc[t] \in {"collect", "purge", "commit"} /\ call[t].mgr = "objects"
  /\ inst[t][u] = IF pc[t] # "collect" /\ Sel(t, u) THEN db["user"][u] ELSE NoRow
  /\ \A tab \in Table :
       View(t, tab, u) = IF pc[t] = "commit" /\ Sel(t, u) THEN NoRow ELSE db[tab][u]

\* create_user() and the receiver.
InsertedAt(at) == CASE at = "insert_user" -> {}
                    [] at = "insert_profile" -> {"user"}
                    [] at = "insert_secret" -> {"user", "profile"}
                    [] OTHER -> Table

CreateOK(t, u) ==
  /\ pc[t] \in Inserting \cup {"commit"} /\ inst[t][u] = NoRow
  /\ u \in call[t].ids => call[t].ids = {u}
  /\ \A tab \in Table :
       IF u \in call[t].ids
       THEN /\ db[tab][u] = NoRow
            /\ IF tab \in InsertedAt(pc[t])
               THEN View(t, tab, u) \in {NewRow(TRUE), NewRow(FALSE)}
               ELSE View(t, tab, u) = NoRow
       ELSE View(t, tab, u) = db[tab][u]

\* A handler's save().
Living(u) == db["user"][u] # NoRow /\ db["user"][u].deleted = Null

SaveOK(t, u) ==
  /\ pc[t] \in {"fetch", "write", "commit"} /\ call[t].mgr = "objects"
  /\ inst[t][u] # NoRow => /\ pc[t] = "write" /\ Living(u)
                           /\ inst[t][u] = db[call[t].tab][u]
  /\ \A tab \in Table :
       \/ View(t, tab, u) = db[tab][u]
       \/ /\ pc[t] = "commit" /\ Living(u)
          /\ View(t, tab, u) = [db[tab][u] EXCEPT !.pii = TRUE]

IdleOK(t, u) ==
  inst[t][u] = NoRow /\ \A tab \in Table : dirty[t][tab][u] = Clean

InTurn(t, u) ==
  IF pc[t] = "idle" THEN IdleOK(t, u)
  ELSE CASE call[t].op = "hard_delete" -> PurgeOK(t, u)
         [] call[t].op = "create" -> CreateOK(t, u)
         [] call[t].op = "save" -> SaveOK(t, u)
         [] OTHER -> SoftOK(t, u)

OneWriter == \A t, o \in Txn : pc[t] # "idle" /\ pc[o] # "idle" => t = o

Coherent == \A u \in User : StateOf(u) # "torn"

SInv == /\ OneWriter /\ Coherent
        /\ \A t \in Txn : call[t].by # "identity"
        /\ \A t \in Txn, u \in User : InTurn(t, u)

-----------------------------------------------------------------------------
(***************************************************************************)
(* The three rows of an account, and what each operation makes of them.    *)
(***************************************************************************)
Rows3 == [Table -> Row \cup {NoRow}]
Rows(u) == [tab \in Table |-> db[tab][u]]

Absent(f) == \A tab \in Table : f[tab] = NoRow
Marked(f, s) == \A tab \in Table : f[tab] # NoRow /\ f[tab].deleted = s
Alive(f) == Marked(f, Null) /\ ~f["user"].anonymized
Dead(f) == (\E s \in Stamp : Marked(f, s)) /\ ~f["user"].anonymized
Gone(f) == /\ \E s \in Stamp : Marked(f, s)
           /\ f["user"].anonymized /\ \A tab \in Table : ~f[tab].pii

\* StateOf, as a function of the three rows.
StateIn(f) ==
  LET whole == \A tab \in Table : f[tab] # NoRow
      agreed == \A tab \in Table : f[tab].deleted = f["user"].deleted
      erased == \A tab \in Table : ~f[tab].pii IN
  CASE \A tab \in Table : f[tab] = NoRow -> "absent"
    [] whole /\ agreed /\ ~f["user"].anonymized ->
         IF f["user"].deleted = Null THEN "alive" ELSE "deleted"
    [] whole /\ agreed /\ f["user"].anonymized /\ erased /\ f["user"].deleted # Null ->
         "closed"
    [] OTHER -> "torn"

LEMMA StateInCases ==
  ASSUME NEW f \in Rows3
  PROVE  /\ StateIn(f) = "absent" <=> Absent(f)
         /\ StateIn(f) = "alive" <=> Alive(f)
         /\ StateIn(f) = "deleted" <=> Dead(f)
         /\ StateIn(f) = "closed" <=> Gone(f)
         /\ StateIn(f) \in {"absent", "alive", "deleted", "closed", "torn"}
<1> DEFINE whole == \A tab \in Table : f[tab] # NoRow
           agreed == \A tab \in Table : f[tab].deleted = f["user"].deleted
           erased == \A tab \in Table : ~f[tab].pii
<1>0. "user" \in Table
  BY DEF Table
<1>1. /\ Absent(f) => ~whole
      /\ \A s : Marked(f, s) <=> whole /\ agreed /\ s = f["user"].deleted
  BY <1>0 DEF Absent, Marked
<1>2. whole => f["user"].deleted \in Stamp \cup {Null} /\ f["user"].anonymized \in BOOLEAN
  BY <1>0 DEF Rows3, Row
<1>3. Alive(f) <=> whole /\ agreed /\ f["user"].deleted = Null /\ ~f["user"].anonymized
  BY <1>1 DEF Alive
<1>4. Dead(f) <=> whole /\ agreed /\ f["user"].deleted # Null /\ ~f["user"].anonymized
  BY <1>1, <1>2, StampAssumption DEF Dead
<1>5. Gone(f) <=> whole /\ agreed /\ f["user"].deleted # Null /\ f["user"].anonymized /\ erased
  BY <1>1, <1>2, StampAssumption DEF Gone
<1>6. StateIn(f) =
        CASE Absent(f) -> "absent"
          [] whole /\ agreed /\ ~f["user"].anonymized ->
               IF f["user"].deleted = Null THEN "alive" ELSE "deleted"
          [] whole /\ agreed /\ f["user"].anonymized /\ erased /\ f["user"].deleted # Null ->
               "closed"
          [] OTHER -> "torn"
  BY DEF StateIn, Absent
<1> HIDE DEF whole, agreed, erased
<1> QED
  BY <1>1, <1>3, <1>4, <1>5, <1>6

\* What a save() leaves of a row, and what an insert puts there.
LEMMA FilledFields ==
  ASSUME NEW row \in Row
  PROVE  /\ [row EXCEPT !.pii = TRUE] \in Row
         /\ [row EXCEPT !.pii = TRUE].deleted = row.deleted
         /\ [row EXCEPT !.pii = TRUE].anonymized = row.anonymized
  BY DEF Row

LEMMA NewFields ==
  ASSUME NEW pii \in BOOLEAN
  PROVE  NewRow(pii) \in Row /\ NewRow(pii).deleted = Null /\ ~NewRow(pii).anonymized
  BY DEF NewRow, Row

\* delete() on one account.
LEMMA DeleteRows ==
  ASSUME NEW f \in Rows3, NEW g, NEW s \in Stamp, \A tab \in Table : f[tab] # NoRow,
         \A tab \in Table : g[tab] = Stamped(tab, f[tab], s)
  PROVE  /\ Alive(f) \/ Dead(f) => Dead(g)
         /\ Gone(f) => Gone(g)
<1>1. \A tab \in Table : /\ g[tab] # NoRow /\ g[tab].deleted = s
                         /\ g[tab].anonymized = f[tab].anonymized
                         /\ g[tab].pii = f[tab].pii
  BY StampedType, RowAssumption DEF Rows3
<1>2. "user" \in Table /\ Marked(g, s)
  BY <1>1 DEF Table, Marked
<1> QED
  BY <1>1, <1>2 DEF Alive, Dead, Gone

\* restore() on one account that is not closed.
LEMMA RestoreRows ==
  ASSUME NEW f \in Rows3, NEW g, \A tab \in Table : f[tab] # NoRow,
         ~f["user"].anonymized,
         \A tab \in Table : g[tab] = Stamped(tab, f[tab], Null)
  PROVE  Alive(g)
<1>1. \A tab \in Table : /\ g[tab] # NoRow /\ g[tab].deleted = Null
                         /\ g[tab].anonymized = f[tab].anonymized
  BY StampedType, RowAssumption DEF Rows3
<1>2. "user" \in Table /\ Marked(g, Null)
  BY <1>1 DEF Table, Marked
<1> QED
  BY <1>1, <1>2 DEF Alive

\* anonymize() on one account that is not closed yet.
LEMMA CloseRows ==
  ASSUME NEW f \in Rows3, NEW g, NEW s \in Stamp, \A tab \in Table : f[tab] # NoRow,
         \A tab \in Table : g[tab] = Stamped(tab, Erased(tab, f[tab]), s)
  PROVE  Gone(g)
<1>1. ASSUME NEW tab \in Table
      PROVE  /\ g[tab] # NoRow /\ g[tab].deleted = s /\ ~g[tab].pii
             /\ g[tab].anonymized = (tab = "user")
  <2> PICK row \in Row : row = Erased(tab, f[tab]) /\ ~row.pii
                         /\ row.anonymized = (tab = "user")
    BY ErasedType DEF Rows3
  <2> QED
    BY StampedType, RowAssumption
<1>2. "user" \in Table /\ Marked(g, s)
  BY <1>1 DEF Table, Marked
<1> QED
  BY <1>1, <1>2 DEF Gone

LEMMA CreateRows ==
  ASSUME NEW g, \A tab \in Table : g[tab] \in {NewRow(TRUE), NewRow(FALSE)}
  PROVE  Alive(g)
<1>1. \A tab \in Table : /\ g[tab] # NoRow /\ g[tab].deleted = Null
                         /\ ~g[tab].anonymized
  BY NewFields, RowAssumption
<1> QED
  BY <1>1 DEF Alive, Marked, Table

LEMMA SaveRows ==
  ASSUME NEW f \in Rows3, NEW g, Alive(f),
         \A tab \in Table : g[tab] \in {f[tab], [f[tab] EXCEPT !.pii = TRUE]}
  PROVE  Alive(g)
<1>1. ASSUME NEW tab \in Table
      PROVE  /\ g[tab] # NoRow /\ g[tab].deleted = Null
             /\ g[tab].anonymized = f[tab].anonymized
  <2> PICK row \in Row : row = f[tab] /\ row.deleted = Null
    BY DEF Rows3, Alive, Marked
  <2>1. g[tab] = row \/ g[tab] = [row EXCEPT !.pii = TRUE]
    OBVIOUS
  <2> QED
    BY <2>1, FilledFields, RowAssumption
<1> QED
  BY <1>1 DEF Alive, Marked, Table

\* StateOf is StateIn of the rows, before and after a step.
LEMMA StateOfRows ==
  ASSUME NEW u \in User
  PROVE  /\ StateOf(u) = StateIn(Rows(u))
         /\ StateOf(u)' = StateIn(Rows(u)')
  BY DEF StateOf, StateIn, Rows, Table

\* An account that exists and is not torn has all of its rows.
LEMMA CoherentRows ==
  ASSUME TypeOK, Coherent, NEW u \in User
  PROVE  /\ Rows(u) \in Rows3
         /\ Absent(Rows(u)) \/ Alive(Rows(u)) \/ Dead(Rows(u)) \/ Gone(Rows(u))
         /\ db["user"][u] # NoRow => \A tab \in Table : db[tab][u] \in Row
<1>1. Rows(u) \in Rows3
  BY DEF Rows, Rows3, TypeOK
<1>2. Absent(Rows(u)) \/ Alive(Rows(u)) \/ Dead(Rows(u)) \/ Gone(Rows(u))
  BY <1>1, StateOfRows, StateInCases DEF Coherent
<1>3. "user" \in Table /\ \A tab \in Table : Rows(u)[tab] = db[tab][u]
  BY DEF Rows, Table
<1>4. db["user"][u] # NoRow => \A tab \in Table : db[tab][u] # NoRow
  BY <1>2, <1>3 DEF Absent, Alive, Dead, Gone, Marked
<1> QED
  BY <1>1, <1>2, <1>4 DEF TypeOK

-----------------------------------------------------------------------------
(***************************************************************************)
(* Between its first statement and its commit.                             *)
(***************************************************************************)

\* The one transaction that is running, or the one that begins, takes a step
\* that commits nothing.
LEMMA WorkKeeps ==
  ASSUME SInv, NEW t \in Txn, UNCHANGED db,
         pc[t] # "idle" \/ \A o \in Txn : pc[o] = "idle",
         \A o \in Txn \ {t} : /\ pc'[o] = pc[o] /\ call'[o] = call[o]
                              /\ inst'[o] = inst[o] /\ dirty'[o] = dirty[o],
         call'[t].by # "identity", \A u \in User : InTurn(t, u)'
  PROVE  SInv'
<1>1. \A o \in Txn \ {t} : pc[o] = "idle"
  BY DEF SInv, OneWriter
<1>2. OneWriter'
  BY <1>1 DEF OneWriter
<1>3. Coherent'
  BY DEF SInv, Coherent, StateOf
<1>4. \A o \in Txn : call'[o].by # "identity"
  BY DEF SInv
<1>5. ASSUME NEW o \in Txn \ {t}, NEW u \in User PROVE InTurn(o, u)'
  <2>1. pc'[o] = "idle" /\ IdleOK(o, u)
    BY <1>1 DEF SInv, InTurn
  <2> QED
    BY <2>1 DEF InTurn, IdleOK
<1> QED
  BY <1>2, <1>3, <1>4, <1>5 DEF SInv

Soft == {"delete", "restore", "anonymize"}

\* Which operation a transaction runs, from where it stands.
LEMMA OpOfPlace ==
  ASSUME TypeOK, SInv, NEW t \in Txn, NEW u \in User, pc[t] # "idle"
  PROVE  /\ call[t].op \in Soft \cup {"hard_delete", "create", "save"}
         /\ call[t].op \in Soft => SoftOK(t, u)
         /\ call[t].op = "hard_delete" => PurgeOK(t, u)
         /\ call[t].op = "create" => CreateOK(t, u)
         /\ call[t].op = "save" => SaveOK(t, u)
<1>1. call[t].op \in OpName
  BY DEF TypeOK, Call
<1>2. InTurn(t, u)
  BY DEF SInv
<1> QED
  BY <1>1, <1>2 DEF InTurn, Soft, OpName

\* The query finds in the transaction's view what it finds in the committed
\* rows, as long as the user row is not stamped: anonymize() rewrites neither
\* the primary key nor deleted_at.
LEMMA SelectionStays ==
  ASSUME TypeOK, SInv, NEW t \in Txn, NEW u \in User, SoftOK(t, u),
         "user" \notin StampedAt(pc[t])
  PROVE  /\ View(t, "user", u) = Base(t, "user", u)
         /\ u \in Selected(t) <=> Sel(t, u)
         /\ call[t].op \in Soft => (u \in Targets(t) <=> Chosen(t, u))
<1>1. "user" \in Table /\ db["user"][u] \in Row \cup {NoRow}
  BY DEF TypeOK, Table
<1>2. View(t, "user", u) = Base(t, "user", u)
  BY <1>1 DEF SoftOK
<1>3. call[t].by \in {"id", "dead"}
  BY DEF TypeOK, Call, SInv
<1>4. u \in Selected(t) <=> Sel(t, u)
  <2>1. CASE Rewritten(t, u)
    <3> PICK row \in Row : row = db["user"][u]
      BY <1>1, <2>1 DEF Rewritten, Sel, Visible
    <3>1. /\ View(t, "user", u) = Erased("user", row) /\ Erased("user", row) \in Row
          /\ Erased("user", row).deleted = row.deleted
      BY <1>1, <1>2, <2>1, ErasedType DEF Base
    <3> QED
      BY <1>3, <3>1, RowAssumption DEF Selected, Sel, Visible, Lookup
  <2>2. CASE ~Rewritten(t, u)
    BY <1>2, <2>2 DEF Base, Selected, Sel
  <2> QED
    BY <2>1, <2>2
<1>5. call[t].op \in Soft => (u \in Targets(t) <=> Chosen(t, u))
  <2>1. call[t].op = "restore" => View(t, "user", u) = db["user"][u]
    BY <1>2 DEF Base, Rewritten
  <2> QED
    BY <1>4, <2>1 DEF Targets, Chosen
<1> QED
  BY <1>2, <1>4, <1>5

\* One UPDATE of delete(), restore() or anonymize().
LEMMA UpdateTableInTurn ==
  ASSUME TypeOK, SInv, NEW t \in Txn, NEW tab \in Table,
         NEW from \in {"profiles", "secrets", "users"},
         NEW to \in {"secrets", "users", "commit"},
         "user" \notin StampedAt(from), StampedAt(to) = StampedAt(from) \cup {tab},
         tab \notin StampedAt(from),
         UpdateTable(t, tab, from, to)
  PROVE  SInv'
<1>1. pc[t] = from /\ pc' = [pc EXCEPT ![t] = to] /\ UNCHANGED <<db, call, now, inst>>
  BY DEF UpdateTable, Goto
<1>2. pc'[t] = to /\ pc[t] # "idle" /\ pc'[t] # "idle"
  BY <1>1 DEF TypeOK
<1>3. ASSUME NEW u \in User PROVE call[t].op \in Soft /\ SoftOK(t, u)
  BY <1>1, <1>2, OpOfPlace DEF PurgeOK, CreateOK, SaveOK, Inserting
<1>4. ASSUME NEW u \in User PROVE InTurn(t, u)'
  <2>1. SoftOK(t, u) /\ call[t].op \in Soft
    BY <1>3
  <2>2. u \in Targets(t) <=> Chosen(t, u)
    BY <1>1, <2>1, SelectionStays
  <2>3. Chosen(t, u) => \A k \in Table : db[k][u] \in Row /\ Base(t, k, u) \in Row
    BY CoherentRows, ErasedType DEF SInv, Chosen, Sel, Visible, Base
  <2>4. \A k \in Table : View(t, k, u)' =
          IF k = tab /\ u \in Targets(t) /\ View(t, tab, u) # NoRow
          THEN Stamped(tab, View(t, tab, u), now[t]) ELSE View(t, k, u)
    <3>1. \A k \in Table : dirty'[t][k][u] =
            IF k = tab /\ u \in Targets(t) /\ View(t, tab, u) # NoRow
            THEN Stamped(tab, View(t, tab, u), now[t]) ELSE dirty[t][k][u]
      BY DEF UpdateTable, TypeOK
    <3>2. ASSUME u \in Targets(t), View(t, tab, u) # NoRow
          PROVE  Stamped(tab, View(t, tab, u), now[t]) # Clean
      <4>1. View(t, tab, u) \in Row /\ now[t] \in Stamp \cup {Null}
        BY <3>2, ViewType DEF TypeOK
      <4> QED
        BY <4>1, StampedType, RowAssumption
    <3> QED
      BY <1>1, <3>1, <3>2 DEF View
  <2>5. \A k \in Table : View(t, k, u)' =
          IF Chosen(t, u) /\ k \in StampedAt(to)
          THEN Stamped(k, Base(t, k, u), now[t]) ELSE Base(t, k, u)
    BY <1>1, <2>1, <2>2, <2>3, <2>4, RowAssumption DEF SoftOK
  <2>6. /\ Chosen(t, u)' <=> Chosen(t, u)
        /\ \A k \in Table : Base(t, k, u)' = Base(t, k, u)
    BY <1>1, <1>2 DEF Chosen, Sel, Base, Rewritten
  <2>7. SoftOK(t, u)'
    BY <1>1, <1>2, <2>1, <2>5, <2>6 DEF SoftOK
  <2> QED
    BY <1>1, <1>2, <2>1, <2>7 DEF InTurn, Soft
<1>5. \A o \in Txn \ {t} : pc'[o] = pc[o] /\ dirty'[o] = dirty[o]
  BY <1>1 DEF UpdateTable
<1>6. call'[t].by # "identity"
  BY <1>1 DEF SInv
<1> QED
  BY <1>1, <1>2, <1>4, <1>5, <1>6, WorkKeeps

LEMMA FetchAnonymizeInTurn ==
  ASSUME TypeOK, SInv, NEW t \in Txn, FetchAnonymize(t) PROVE SInv'
<1>1. /\ pc[t] = "fetch" /\ call[t].op = "anonymize"
      /\ pc' = [pc EXCEPT ![t] = "loop"] /\ UNCHANGED <<db, dirty, call, now>>
  BY DEF FetchAnonymize, Goto
<1>2. pc'[t] = "loop" /\ pc[t] # "idle"
  BY <1>1 DEF TypeOK
<1>3. ASSUME NEW u \in User PROVE InTurn(t, u)'
  <2>1. SoftOK(t, u)
    BY <1>1, OpOfPlace DEF Soft
  <2>2. /\ View(t, "user", u) = db["user"][u]
        /\ u \in Selected(t) <=> Sel(t, u)
    BY <1>1, <2>1, SelectionStays DEF StampedAt, Base, Rewritten
  <2>3. inst'[t][u] = IF Sel(t, u) THEN db["user"][u] ELSE NoRow
    BY <2>2 DEF FetchAnonymize, TypeOK
  <2>4. Sel(t, u)' <=> Sel(t, u)
    BY <1>1 DEF Sel
  <2>5. ~Rewritten(t, u) /\ ~Rewritten(t, u)'
    BY <1>1, <2>3, <2>4 DEF Rewritten, Sel, Visible
  <2>6. \A k \in Table : View(t, k, u)' = db[k][u]
    BY <1>1, <2>1, <2>5 DEF SoftOK, Base, StampedAt, View
  <2>7. SoftOK(t, u)'
    BY <1>1, <1>2, <2>3, <2>4, <2>5, <2>6 DEF SoftOK, Base, StampedAt
  <2> QED
    BY <1>1, <1>2, <2>7 DEF InTurn
<1>4. \A o \in Txn \ {t} : pc'[o] = pc[o] /\ inst'[o] = inst[o]
  BY <1>1 DEF FetchAnonymize
<1>5. call'[t].by # "identity"
  BY <1>1 DEF SInv
<1> QED
  BY <1>1, <1>2, <1>3, <1>4, <1>5, WorkKeeps

\* One turn of the loop: the three rows of one account.
LEMMA AnonymizeOneInTurn ==
  ASSUME TypeOK, SInv, NEW t \in Txn, NEW u \in User, AnonymizeOne(t, u) PROVE SInv'
<1>1. /\ pc[t] = "loop" /\ UNCHANGED <<db, pc, call, now>>
      /\ inst' = [inst EXCEPT ![t][u] = NoRow] /\ inst[t][u] # NoRow
  BY DEF AnonymizeOne
<1>2. ASSUME NEW v \in User PROVE SoftOK(t, v) /\ call[t].op = "anonymize"
  BY <1>1, OpOfPlace DEF Soft, SoftOK, PurgeOK, CreateOK, SaveOK, Inserting
<1>3. Sel(t, u) /\ inst[t][u] = db["user"][u]
  BY <1>1, <1>2 DEF SoftOK
<1>4. \A k \in Table : db[k][u] \in Row
  BY <1>3, CoherentRows DEF SInv, Sel, Visible
<1>5. \A v \in User, k \in Table : View(t, k, v) = Base(t, k, v)
  BY <1>1, <1>2 DEF SoftOK, StampedAt
<1>6. \A k \in Table : View(t, k, u) = db[k][u]
  BY <1>1, <1>5 DEF Base, Rewritten
<1>7. "user" \in Table
  BY DEF Table
<1>8. \A v \in User : inst'[t][v] = IF v = u THEN NoRow ELSE inst[t][v]
  BY <1>1 DEF TypeOK
<1>9. \A v \in User : Sel(t, v)' <=> Sel(t, v)
  BY <1>1 DEF Sel
<1>10. Rewritten(t, u)' <=> ~db["user"][u].anonymized
  BY <1>1, <1>2, <1>3, <1>8, <1>9 DEF Rewritten
<1>11. ASSUME NEW v \in User \ {u} PROVE Rewritten(t, v)' <=> Rewritten(t, v)
  BY <1>1, <1>8, <1>9 DEF Rewritten
<1>w. /\ \A v \in User \ {u}, k \in Table : dirty'[t][k][v] = dirty[t][k][v]
      /\ \A o \in Txn \ {t} : dirty'[o] = dirty[o]
      /\ db["user"][u].anonymized => UNCHANGED dirty
      /\ ~db["user"][u].anonymized =>
            \A k \in Table : dirty'[t][k][u] = Erased(k, db[k][u])
  <2>1. CASE db["user"][u].anonymized
    BY <1>3, <2>1 DEF AnonymizeOne
  <2>2. CASE ~db["user"][u].anonymized
    <3> DEFINE row == [tab \in Table |->
                         IF tab = "user" THEN Erased("user", inst[t][u])
                         ELSE IF View(t, "user", u) = NoRow THEN NewRow(FALSE)
                         ELSE IF View(t, tab, u) = NoRow THEN dirty[t][tab][u]
                         ELSE Erased(tab, View(t, tab, u))]
    <3>1. dirty' = [dirty EXCEPT ![t] = [k \in Table |->
                      [dirty[t][k] EXCEPT ![u] = row[k]]]]
      BY <1>3, <2>2 DEF AnonymizeOne
    <3>2. \A k \in Table : row[k] = Erased(k, db[k][u])
      BY <1>3, <1>4, <1>6, <1>7, RowAssumption
    <3>3. row \in [Table -> Row \cup {NoRow, Clean}]
      BY <1>4, <3>2, ErasedType
    <3> HIDE DEF row
    <3>4. /\ \A k \in Table : dirty'[t][k][u] = row[k]
          /\ \A v \in User \ {u}, k \in Table : dirty'[t][k][v] = dirty[t][k][v]
          /\ \A o \in Txn \ {t} : dirty'[o] = dirty[o]
      BY <3>1, <3>3, AccountWrite
    <3> QED
      BY <2>2, <3>2, <3>4
  <2> QED
    BY <2>1, <2>2
<1>12. ASSUME NEW v \in User \ {u}, NEW k \in Table PROVE View(t, k, v)' = View(t, k, v)
  BY <1>1, <1>w DEF View
<1>13. ASSUME NEW k \in Table
       PROVE  View(t, k, u)' = IF db["user"][u].anonymized THEN db[k][u]
                               ELSE Erased(k, db[k][u])
  <2>1. Erased(k, db[k][u]) # Clean
    BY <1>4, ErasedType, RowAssumption
  <2> QED
    BY <1>1, <1>6, <1>w, <2>1 DEF View
<1>14. ASSUME NEW v \in User PROVE InTurn(t, v)'
  <2>1. \A k \in Table : View(t, k, v)' = Base(t, k, v)'
    BY <1>1, <1>5, <1>10, <1>11, <1>12, <1>13 DEF Base
  <2>2. inst'[t][v] # NoRow => Sel(t, v) /\ inst'[t][v] = db["user"][v]
    BY <1>2, <1>8 DEF SoftOK
  <2>3. SoftOK(t, v)'
    BY <1>1, <1>2, <1>9, <2>1, <2>2 DEF SoftOK, StampedAt
  <2> QED
    BY <1>1, <1>2, <2>3 DEF InTurn
<1>15. \A o \in Txn \ {t} : inst'[o] = inst[o] /\ dirty'[o] = dirty[o]
  BY <1>1, <1>w
<1>16. call'[t].by # "identity" /\ pc[t] # "idle"
  BY <1>1 DEF SInv
<1> QED
  BY <1>1, <1>14, <1>15, <1>16, WorkKeeps

LEMMA FinishLoopInTurn ==
  ASSUME TypeOK, SInv, NEW t \in Txn, FinishLoop(t) PROVE SInv'
<1>1. /\ pc[t] = "loop" /\ inst[t] = NoInst /\ UNCHANGED <<db, dirty, call, inst>>
      /\ pc' = [pc EXCEPT ![t] = "profiles"] /\ \E s \in Stamp : now' = [now EXCEPT ![t] = s]
  BY DEF FinishLoop, FinalDelete, Goto
<1>2. pc'[t] = "profiles" /\ pc[t] # "idle" /\ now'[t] # Null
  BY <1>1, StampAssumption DEF TypeOK
<1>3. ASSUME NEW u \in User PROVE InTurn(t, u)'
  <2>1. SoftOK(t, u) /\ call[t].op = "anonymize"
    BY <1>1, OpOfPlace DEF Soft, SoftOK, PurgeOK, CreateOK, SaveOK, Inserting
  <2>2. inst[t][u] = NoRow
    BY <1>1 DEF NoInst
  <2>3. \A k \in Table : View(t, k, u)' = View(t, k, u) /\ Base(t, k, u)' = Base(t, k, u)
    BY <1>1, <1>2, <2>2 DEF View, Base, Rewritten, Sel
  <2>4. SoftOK(t, u)'
    BY <1>1, <1>2, <2>1, <2>2, <2>3 DEF SoftOK, StampedAt
  <2> QED
    BY <1>1, <1>2, <2>1, <2>4 DEF InTurn
<1>4. \A o \in Txn \ {t} : pc'[o] = pc[o]
  BY <1>1
<1>5. call'[t].by # "identity"
  BY <1>1 DEF SInv
<1> QED
  BY <1>1, <1>2, <1>3, <1>4, <1>5, WorkKeeps

LEMMA CollectInTurn ==
  ASSUME TypeOK, SInv, NEW t \in Txn, Collect(t) PROVE SInv'
<1>1. /\ pc[t] = "collect" /\ UNCHANGED <<db, dirty, call>>
      /\ pc' = [pc EXCEPT ![t] = "purge"]
  BY DEF Collect, Goto
<1>2. pc'[t] = "purge" /\ pc[t] # "idle"
  BY <1>1 DEF TypeOK
<1>3. ASSUME NEW u \in User PROVE InTurn(t, u)'
  <2>1. PurgeOK(t, u) /\ call[t].op = "hard_delete"
    BY <1>1, OpOfPlace DEF Soft, SoftOK, CreateOK, SaveOK, Inserting
  <2>2. "user" \in Table /\ View(t, "user", u) = db["user"][u]
    BY <1>1, <2>1 DEF PurgeOK, Table
  <2>3. u \in Selected(t) <=> Sel(t, u)
    BY <2>2 DEF Selected, Sel
  <2>4. inst'[t][u] = IF Sel(t, u) THEN db["user"][u] ELSE NoRow
    BY <2>2, <2>3 DEF Collect, TypeOK
  <2>5. /\ Sel(t, u)' <=> Sel(t, u)
        /\ \A k \in Table : View(t, k, u)' = View(t, k, u)
    BY <1>1 DEF Sel, View
  <2>6. PurgeOK(t, u)'
    BY <1>1, <1>2, <2>1, <2>4, <2>5 DEF PurgeOK
  <2> QED
    BY <1>1, <1>2, <2>1, <2>6 DEF InTurn
<1>4. \A o \in Txn \ {t} : pc'[o] = pc[o] /\ inst'[o] = inst[o]
  BY <1>1 DEF Collect
<1>5. call'[t].by # "identity"
  BY <1>1 DEF SInv
<1> QED
  BY <1>1, <1>2, <1>3, <1>4, <1>5, WorkKeeps

LEMMA PurgeInTurn ==
  ASSUME TypeOK, SInv, NEW t \in Txn, Purge(t) PROVE SInv'
<1>1. /\ pc[t] = "purge" /\ UNCHANGED <<db, call, inst>>
      /\ pc' = [pc EXCEPT ![t] = "commit"]
  BY DEF Purge, Goto
<1>2. pc'[t] = "commit" /\ pc[t] # "idle"
  BY <1>1 DEF TypeOK
<1>3. ASSUME NEW u \in User PROVE InTurn(t, u)'
  <2>1. PurgeOK(t, u) /\ call[t].op = "hard_delete"
    BY <1>1, OpOfPlace DEF Soft, SoftOK, CreateOK, SaveOK, Inserting
  <2>2. inst[t][u] # NoRow <=> Sel(t, u)
    BY <1>1, <2>1 DEF PurgeOK, Sel, Visible
  <2>3. \A k \in Table :
          dirty'[t][k][u] = IF Sel(t, u) THEN NoRow ELSE dirty[t][k][u]
    BY <2>2 DEF Purge, TypeOK
  <2>4. \A k \in Table :
          View(t, k, u)' = IF Sel(t, u) THEN NoRow ELSE View(t, k, u)
    BY <1>1, <2>3, RowAssumption DEF View
  <2>5. Sel(t, u)' <=> Sel(t, u)
    BY <1>1 DEF Sel
  <2>6. PurgeOK(t, u)'
    BY <1>1, <1>2, <2>1, <2>4, <2>5 DEF PurgeOK
  <2> QED
    BY <1>1, <1>2, <2>1, <2>6 DEF InTurn
<1>4. \A o \in Txn \ {t} : /\ pc'[o] = pc[o] /\ inst'[o] = inst[o]
                           /\ dirty'[o] = dirty[o]
  BY <1>1 DEF Purge
<1>5. call'[t].by # "identity"
  BY <1>1 DEF SInv
<1> QED
  BY <1>1, <1>2, <1>3, <1>4, <1>5, WorkKeeps

\* One INSERT of create_user() or of the receiver.
LEMMA InsertInTurn ==
  ASSUME TypeOK, SInv, NEW t \in Txn, NEW tab \in Table,
         NEW from \in Inserting, NEW to \in Inserting \cup {"commit"},
         NEW row \in {NewRow(TRUE), NewRow(FALSE)},
         InsertedAt(to) = InsertedAt(from) \cup {tab},
         Insert(t, tab, from, to, row)
  PROVE  SInv'
<1>1. /\ pc[t] = from /\ UNCHANGED <<db, call, inst>>
      /\ pc' = [pc EXCEPT ![t] = to]
  BY DEF Insert, Goto
<1>2. pc'[t] = to /\ pc[t] # "idle" /\ pc'[t] # "idle"
  BY <1>1 DEF TypeOK, Inserting
<1>3. ASSUME NEW u \in User PROVE InTurn(t, u)'
  <2>1. CreateOK(t, u) /\ call[t].op = "create"
    BY <1>1, OpOfPlace DEF Soft, SoftOK, PurgeOK, SaveOK, Inserting
  <2>2. row # Clean /\ row # NoRow
    BY NewFields, RowAssumption
  <2>3. \A k \in Table : dirty'[t][k][u] =
          IF k = tab /\ u \in call[t].ids THEN row ELSE dirty[t][k][u]
    BY DEF Insert, TypeOK
  <2>4. \A k \in Table :
          View(t, k, u)' = IF k = tab /\ u \in call[t].ids THEN row ELSE View(t, k, u)
    BY <1>1, <2>2, <2>3 DEF View
  <2>5. CreateOK(t, u)'
    BY <1>1, <1>2, <2>1, <2>4 DEF CreateOK
  <2> QED
    BY <1>1, <1>2, <2>1, <2>5 DEF InTurn
<1>4. \A o \in Txn \ {t} : pc'[o] = pc[o] /\ dirty'[o] = dirty[o]
  BY <1>1 DEF Insert
<1>5. call'[t].by # "identity"
  BY <1>1 DEF SInv
<1> QED
  BY <1>1, <1>2, <1>3, <1>4, <1>5, WorkKeeps

LEMMA FetchSaveInTurn ==
  ASSUME TypeOK, SInv, NEW t \in Txn, NEW u \in User, FetchSave(t, u) PROVE SInv'
<1>1. /\ pc[t] = "fetch" /\ call[t].op = "save" /\ UNCHANGED <<db, dirty, call>>
      /\ pc' = [pc EXCEPT ![t] = "write"]
      /\ inst' = [inst EXCEPT ![t][u] = View(t, call[t].tab, u)]
  BY DEF FetchSave, Goto
<1>2. pc'[t] = "write" /\ pc[t] # "idle"
  BY <1>1 DEF TypeOK
<1>3. "user" \in Table /\ call[t].tab \in Table
  BY DEF Table, TypeOK, Call
<1>4. ASSUME NEW v \in User PROVE InTurn(t, v)'
  <2>1. SaveOK(t, v)
    BY <1>1, <1>2, OpOfPlace
  <2>2. \A k \in Table : View(t, k, v) = db[k][v] /\ View(t, k, v)' = View(t, k, v)
    BY <1>1, <2>1 DEF SaveOK, View
  <2>3. v = u => Living(u)
    BY <1>3, <2>1, <2>2 DEF FetchSave, Selected, Visible, Living, SaveOK
  <2>4. inst'[t][v] = IF v = u THEN db[call[t].tab][u] ELSE inst[t][v]
    BY <1>1, <1>3, <2>2 DEF TypeOK
  <2>5. inst[t][v] = NoRow /\ (Living(v)' <=> Living(v))
    BY <1>1, <2>1 DEF SaveOK, Living
  <2>6. SaveOK(t, v)'
    BY <1>1, <1>2, <2>1, <2>2, <2>3, <2>4, <2>5 DEF SaveOK
  <2> QED
    BY <1>1, <1>2, <2>6 DEF InTurn
<1>5. \A o \in Txn \ {t} : pc'[o] = pc[o] /\ inst'[o] = inst[o]
  BY <1>1
<1>6. call'[t].by # "identity"
  BY <1>1 DEF SInv
<1> QED
  BY <1>1, <1>2, <1>4, <1>5, <1>6, WorkKeeps

\* save() writes back the row it read, with something personal in it.
LEMMA WriteSaveInTurn ==
  ASSUME TypeOK, SInv, NEW t \in Txn, NEW u \in User, WriteSave(t, u) PROVE SInv'
<1> DEFINE tb == call[t].tab
           full == [inst[t][u] EXCEPT !.pii = TRUE]
           row == [k \in Table |-> IF k = tb THEN full
                                   ELSE IF View(t, "user", u) = NoRow THEN NewRow(FALSE)
                                   ELSE dirty[t][k][u]]
<1>1. /\ pc[t] = "write" /\ UNCHANGED <<db, call>> /\ inst[t][u] # NoRow
      /\ pc' = [pc EXCEPT ![t] = "commit"] /\ inst' = [inst EXCEPT ![t] = NoInst]
  BY DEF WriteSave, Goto
<1>2. pc'[t] = "commit" /\ pc[t] # "idle" /\ inst'[t] = NoInst
  BY <1>1 DEF TypeOK
<1>3. ASSUME NEW v \in User PROVE SaveOK(t, v) /\ call[t].op = "save"
  BY <1>1, OpOfPlace DEF Soft, SoftOK, PurgeOK, CreateOK, Inserting
<1>4. /\ "user" \in Table /\ tb \in Table /\ Living(u) /\ inst[t][u] = db[tb][u]
      /\ inst[t][u] \in Row
  BY <1>1, <1>3 DEF SaveOK, Table, TypeOK, Call
<1>5. \A v \in User, k \in Table : View(t, k, v) = db[k][v]
  BY <1>1, <1>3 DEF SaveOK
<1>6. full \in Row
  BY <1>4, FilledFields
<1>7. /\ \A k \in Table : dirty'[t][k][u] = IF k = tb THEN full ELSE dirty[t][k][u]
      /\ \A v \in User \ {u}, k \in Table : dirty'[t][k][v] = dirty[t][k][v]
      /\ \A o \in Txn \ {t} : dirty'[o] = dirty[o]
  <2>1. dirty' = [dirty EXCEPT ![t] = [k \in Table |->
                    [dirty[t][k] EXCEPT ![u] = row[k]]]]
    BY DEF WriteSave
  <2> HIDE DEF tb, full
  <2>2. \A k \in Table : row[k] = IF k = tb THEN full ELSE dirty[t][k][u]
    BY <1>4, <1>5 DEF Living
  <2>3. row \in [Table -> Row \cup {NoRow, Clean}]
    <3>1. \A k \in Table : dirty[t][k][u] \in Row \cup {NoRow, Clean}
      BY DEF TypeOK
    <3>2. \A k \in Table : row[k] \in Row \cup {NoRow, Clean}
      BY <1>6, <2>2, <3>1
    <3> QED
      BY <3>2
  <2> HIDE DEF row
  <2> QED
    BY <2>1, <2>2, <2>3, AccountWrite
<1>8. ASSUME NEW v \in User PROVE InTurn(t, v)'
  <2>1. Living(v)' <=> Living(v)
    BY <1>1 DEF Living
  <2>2. ASSUME NEW k \in Table
        PROVE  \/ View(t, k, v)' = db[k][v]
               \/ Living(v) /\ View(t, k, v)' = [db[k][v] EXCEPT !.pii = TRUE]
    <3>1. CASE v = u /\ k = tb
      <4>1. dirty'[t][k][v] = full /\ full # Clean
        BY <1>6, <1>7, <3>1, RowAssumption
      <4> QED
        BY <1>4, <3>1, <4>1 DEF View
    <3>2. CASE ~(v = u /\ k = tb)
      <4>1. dirty'[t][k][v] = dirty[t][k][v]
        BY <1>7, <3>2
      <4> QED
        BY <1>1, <1>5, <4>1 DEF View
    <3> QED
      BY <3>1, <3>2
  <2>3. SaveOK(t, v)'
    BY <1>1, <1>2, <1>3, <2>1, <2>2 DEF SaveOK, NoInst
  <2> QED
    BY <1>1, <1>2, <1>3, <2>3 DEF InTurn
<1>9. \A o \in Txn \ {t} : pc'[o] = pc[o] /\ inst'[o] = inst[o] /\ dirty'[o] = dirty[o]
  BY <1>1, <1>7
<1>10. call'[t].by # "identity"
  BY <1>1 DEF SInv
<1> QED
  BY <1>1, <1>2, <1>8, <1>9, <1>10, WorkKeeps

\* A transaction begins when all are idle, so it sees what is committed.
LEMMA BeginInTurn ==
  ASSUME Isolation = "serial", Lookups \subseteq {"id", "dead"},
         TypeOK, Exists, SInv, NEW t \in Txn, Begin(t)
  PROVE  SInv'
<1>1. \A o \in Txn : pc[o] = "idle"
  BY DEF Begin, BeginDelete, BeginRestore, BeginAnonymize, BeginHardDelete, BeginCreate,
     BeginSave, Start, MayBegin
<1>2. ASSUME NEW u \in User PROVE IdleOK(t, u) /\ IdleOK(t, u)'
                                 /\ \A k \in Table : View(t, k, u)' = db[k][u]
  <2>1. IdleOK(t, u) /\ UNCHANGED <<db, dirty, inst>>
    BY <1>1 DEF SInv, InTurn, Begin, BeginDelete, BeginRestore, BeginAnonymize,
       BeginHardDelete, BeginCreate, BeginSave
  <2> QED
    BY <2>1 DEF IdleOK, View
<1>3. /\ UNCHANGED <<db, dirty, inst>>
      /\ \A o \in Txn \ {t} : pc'[o] = pc[o] /\ call'[o] = call[o]
  BY DEF Begin, BeginDelete, BeginRestore, BeginAnonymize, BeginHardDelete, BeginCreate,
     BeginSave, Start, Goto, TypeOK
<1>4. ASSUME NEW op \in OpName, NEW mgr, NEW by, NEW ids, NEW tab,
             Start(t, op, mgr, by, ids, tab)
      PROVE  call'[t].op = op /\ call'[t].mgr = mgr /\ call'[t].by \in {"id", "dead"}
             /\ call'[t].ids = ids
  <2>1. call'[t] = [op |-> op, mgr |-> mgr, by |-> by, ids |-> ids, tab |-> tab]
        /\ by \in {"id", "dead"}
    BY <1>4 DEF Start, TypeOK
  <2> QED
    BY <2>1
<1>5. ASSUME NEW u \in User, NEW op \in Soft, call'[t].op = op,
             pc'[t] = IF op = "anonymize" THEN "fetch" ELSE "profiles",
             op = "delete" => now'[t] # Null, op = "restore" => now'[t] = Null
      PROVE  InTurn(t, u)'
  <2>1. ~Rewritten(t, u)'
    BY <1>5 DEF Rewritten, Soft
  <2>2. \A k \in Table : Base(t, k, u)' = db[k][u]
    BY <1>3, <2>1 DEF Base
  <2>3. SoftOK(t, u)'
    BY <1>2, <1>3, <1>5, <2>2 DEF SoftOK, Soft, StampedAt, IdleOK
  <2> QED
    BY <1>5, <2>3 DEF InTurn, Soft
<1>6. ASSUME NEW mgr, NEW by \in Lookups, NEW ids \in SUBSET User,
             \/ BeginDelete(t, mgr, by, ids) \/ BeginRestore(t, mgr, by, ids)
             \/ BeginAnonymize(t, mgr, by, ids)
      PROVE  call'[t].by # "identity" /\ \A u \in User : InTurn(t, u)'
  <2>1. CASE BeginDelete(t, mgr, by, ids)
    <3>1. /\ call'[t].op = "delete" /\ call'[t].by # "identity"
          /\ pc'[t] = "profiles" /\ now'[t] # Null
      BY <2>1, <1>4, StampAssumption DEF BeginDelete, Goto, TypeOK, OpName
    <3> QED
      BY <3>1, <1>5 DEF Soft
  <2>2. CASE BeginRestore(t, mgr, by, ids)
    <3>1. /\ call'[t].op = "restore" /\ call'[t].by # "identity"
          /\ pc'[t] = "profiles" /\ now'[t] = Null
      BY <2>2, <1>4 DEF BeginRestore, Goto, TypeOK, OpName
    <3> QED
      BY <3>1, <1>5 DEF Soft
  <2>3. CASE BeginAnonymize(t, mgr, by, ids)
    <3>1. /\ call'[t].op = "anonymize" /\ call'[t].by # "identity" /\ pc'[t] = "fetch"
      BY <2>3, <1>4 DEF BeginAnonymize, Goto, TypeOK, OpName
    <3> QED
      BY <3>1, <1>5 DEF Soft
  <2> QED
    BY <1>6, <2>1, <2>2, <2>3
<1>7. ASSUME NEW mgr, NEW by \in Lookups, NEW ids \in SUBSET User,
             BeginHardDelete(t, mgr, by, ids)
      PROVE  call'[t].by # "identity" /\ \A u \in User : InTurn(t, u)'
  <2>1. /\ call'[t].op = "hard_delete" /\ call'[t].by # "identity"
        /\ call'[t].mgr = "objects" /\ pc'[t] = "collect"
    BY <1>7, <1>4 DEF BeginHardDelete, HardDeletable, Goto, TypeOK, OpName
  <2> QED
    BY <2>1, <1>2, <1>3 DEF InTurn, PurgeOK, IdleOK
\* An identifier never handed out has no rows.
<1>8. ASSUME NEW v \in User, BeginCreate(t, v)
      PROVE  call'[t].by # "identity" /\ \A u \in User : InTurn(t, u)'
  <2>1. /\ call'[t].op = "create" /\ call'[t].by # "identity"
        /\ call'[t].ids = {v} /\ pc'[t] = "insert_user"
    BY <1>8, <1>4 DEF BeginCreate, Goto, TypeOK, OpName
  <2>2. \A k \in Table : db[k][v] = NoRow
    BY <1>8 DEF BeginCreate, Exists, FreshUsers, Unseen
  <2> QED
    BY <2>1, <2>2, <1>2, <1>3 DEF InTurn, CreateOK, IdleOK, InsertedAt, Inserting
<1>9. ASSUME NEW v \in User, NEW tab \in Table, BeginSave(t, tab, v)
      PROVE  call'[t].by # "identity" /\ \A u \in User : InTurn(t, u)'
  <2>1. /\ call'[t].op = "save" /\ call'[t].by # "identity"
        /\ call'[t].mgr = "objects" /\ pc'[t] = "fetch"
    BY <1>9, <1>4 DEF BeginSave, Goto, TypeOK, OpName
  <2> QED
    BY <2>1, <1>2, <1>3 DEF InTurn, SaveOK, IdleOK
<1>10. call'[t].by # "identity" /\ \A u \in User : InTurn(t, u)'
  BY <1>6, <1>7, <1>8, <1>9 DEF Begin
<1> QED
  BY <1>1, <1>3, <1>10, WorkKeeps

-----------------------------------------------------------------------------
(***************************************************************************)
(* The end of a transaction: what a commit makes of each account.          *)
(***************************************************************************)
Outcome(op, f, g) ==
  \/ Absent(f) /\ Absent(g)
  \/ Alive(f) /\ Alive(g)
  \/ Dead(f) /\ Dead(g)
  \/ Gone(f) /\ Gone(g)
  \/ op = "delete" /\ Alive(f) /\ Dead(g)
  \/ op = "restore" /\ Dead(f) /\ Alive(g)
  \/ op = "anonymize" /\ (Alive(f) \/ Dead(f)) /\ Gone(g)
  \/ op = "hard_delete" /\ Alive(f) /\ Absent(g)
  \/ op = "create" /\ Absent(f) /\ Alive(g)

LEMMA SameOutcome ==
  ASSUME NEW op, NEW f, Absent(f) \/ Alive(f) \/ Dead(f) \/ Gone(f)
  PROVE  Outcome(op, f, f)
  BY DEF Outcome

LEMMA CommitOutcome ==
  ASSUME TypeOK, SInv, NEW t \in Txn, Commit(t), NEW u \in User
  PROVE  Outcome(call[t].op, Rows(u), Rows(u)')
<1> DEFINE f == Rows(u)
           g == Rows(u)'
<1>1. /\ f \in Rows3 /\ (Absent(f) \/ Alive(f) \/ Dead(f) \/ Gone(f))
      /\ db["user"][u] # NoRow => \A k \in Table : f[k] \in Row
  BY CoherentRows DEF SInv, Rows
<1>2. "user" \in Table /\ \A k \in Table : f[k] = db[k][u] /\ g[k] = View(t, k, u)
  BY DEF Commit, End, Merged, Rows, Table
<1>3. pc[t] = "commit" /\ pc[t] # "idle"
  BY DEF Commit
<1>4. (\A k \in Table : View(t, k, u) = db[k][u]) => g = f
  BY <1>2 DEF Rows
<1>5. g = f => Outcome(call[t].op, f, g)
  BY <1>1, SameOutcome
<1>6. CASE call[t].op \in Soft
  <2>1. SoftOK(t, u)
    BY <1>3, <1>6, OpOfPlace
  <2>2. \A k \in Table : View(t, k, u) =
          IF Chosen(t, u) THEN Stamped(k, Base(t, k, u), now[t]) ELSE Base(t, k, u)
    BY <1>3, <2>1 DEF SoftOK, StampedAt
  <2>3. CASE ~Sel(t, u)
    <3>1. \A k \in Table : View(t, k, u) = db[k][u]
      BY <2>2, <2>3 DEF Chosen, Base, Rewritten
    <3> QED
      BY <1>4, <1>5, <3>1
  <2>4. CASE Sel(t, u)
    <3>1. \A k \in Table : f[k] \in Row /\ f[k] # NoRow
      BY <1>1, <2>4, RowAssumption DEF Sel, Visible
    <3>2. now[t] \in Stamp \cup {Null} /\ (now[t] = Null <=> call[t].op = "restore")
      BY <1>3, <2>1 DEF SoftOK, TypeOK
    <3>3. CASE call[t].op = "delete"
      <4>1. now[t] \in Stamp /\ \A k \in Table : g[k] = Stamped(k, f[k], now[t])
        BY <1>2, <2>2, <2>4, <3>2, <3>3 DEF Chosen, Base, Rewritten
      <4>2. (Alive(f) \/ Dead(f) => Dead(g)) /\ (Gone(f) => Gone(g))
        BY <1>1, <3>1, <4>1, DeleteRows
      <4>3. ~Absent(f)
        BY <1>2, <3>1 DEF Absent
      <4> QED
        BY <1>1, <3>3, <4>2, <4>3 DEF Outcome
    <3>4. CASE call[t].op = "restore"
      <4>1. CASE f["user"].anonymized
        <5>1. \A k \in Table : View(t, k, u) = db[k][u]
          BY <1>2, <2>2, <3>4, <4>1 DEF Chosen, Restorable, Base, Rewritten
        <5> QED
          BY <1>4, <1>5, <5>1
      <4>2. CASE ~f["user"].anonymized
        <5>1. \A k \in Table : g[k] = Stamped(k, f[k], Null)
          BY <1>2, <2>2, <2>4, <3>2, <3>4, <4>2 DEF Chosen, Restorable, Base, Rewritten
        <5>2. Alive(g)
          BY <1>1, <3>1, <4>2, <5>1, RestoreRows
        <5>3. ~Absent(f) /\ ~Gone(f)
          BY <1>2, <3>1, <4>2 DEF Absent, Gone
        <5> QED
          BY <1>1, <3>4, <5>2, <5>3 DEF Outcome
      <4> QED
        BY <4>1, <4>2
    <3>5. CASE call[t].op = "anonymize"
      <4>1. now[t] \in Stamp /\ Chosen(t, u) /\ inst[t][u] = NoRow
        BY <1>3, <2>1, <2>4, <3>2, <3>5 DEF Chosen, SoftOK
      <4>2. ~Absent(f)
        BY <1>2, <3>1 DEF Absent
      <4>3. CASE f["user"].anonymized
        <5>1. \A k \in Table : g[k] = Stamped(k, f[k], now[t])
          BY <1>2, <2>2, <4>1, <4>3 DEF Base, Rewritten
        <5>2. Gone(f) /\ Gone(g)
          BY <1>1, <3>1, <4>1, <4>2, <4>3, <5>1, DeleteRows DEF Alive, Dead
        <5> QED
          BY <5>2 DEF Outcome
      <4>4. CASE ~f["user"].anonymized
        <5>1. Rewritten(t, u)
          BY <1>2, <1>3, <2>4, <3>5, <4>1, <4>4 DEF Rewritten
        <5>2. \A k \in Table : g[k] = Stamped(k, Erased(k, f[k]), now[t])
          BY <1>2, <2>2, <4>1, <5>1 DEF Base
        <5>3. Gone(g)
          BY <1>1, <3>1, <4>1, <5>2, CloseRows
        <5>4. ~Gone(f)
          BY <4>4 DEF Gone
        <5> QED
          BY <1>1, <3>5, <4>2, <5>3, <5>4 DEF Outcome
      <4> QED
        BY <4>3, <4>4
    <3> QED
      BY <1>6, <3>3, <3>4, <3>5 DEF Soft
  <2> QED
    BY <2>3, <2>4
\* The default manager only finds live users.
<1>7. CASE call[t].op = "hard_delete"
  <2>1. PurgeOK(t, u)
    BY <1>3, <1>7, OpOfPlace
  <2>2. CASE Sel(t, u)
    <3>1. \A k \in Table : g[k] = NoRow
      BY <1>2, <1>3, <2>1, <2>2 DEF PurgeOK
    <3>2. f["user"] # NoRow /\ f["user"].deleted = Null
      BY <1>2, <2>1, <2>2 DEF PurgeOK, Sel, Visible
    <3>3. Alive(f)
      BY <1>1, <1>2, <3>2, StampAssumption DEF Absent, Dead, Gone, Marked
    <3> QED
      BY <1>7, <3>1, <3>3 DEF Outcome, Absent
  <2>3. CASE ~Sel(t, u)
    BY <1>4, <1>5, <2>1, <2>3 DEF PurgeOK
  <2> QED
    BY <2>2, <2>3
<1>8. CASE call[t].op = "create"
  <2>1. CreateOK(t, u)
    BY <1>3, <1>8, OpOfPlace
  <2>2. CASE u \in call[t].ids
    <3>1. Absent(f)
      BY <1>2, <2>1, <2>2 DEF CreateOK, Absent
    <3>2. \A k \in Table : g[k] \in {NewRow(TRUE), NewRow(FALSE)}
      BY <1>2, <1>3, <2>1, <2>2 DEF CreateOK, InsertedAt
    <3>3. Alive(g)
      BY <3>2, CreateRows
    <3> QED
      BY <1>8, <3>1, <3>3 DEF Outcome
  <2>3. CASE u \notin call[t].ids
    BY <1>4, <1>5, <2>1, <2>3 DEF CreateOK
  <2> QED
    BY <2>2, <2>3
<1>9. CASE call[t].op = "save"
  <2>1. SaveOK(t, u)
    BY <1>3, <1>9, OpOfPlace
  <2>2. CASE Living(u)
    <3>1. Alive(f)
      BY <1>1, <1>2, <2>2, StampAssumption DEF Living, Absent, Dead, Gone, Marked
    <3>2. \A k \in Table : g[k] \in {f[k], [f[k] EXCEPT !.pii = TRUE]}
      BY <1>2, <2>1 DEF SaveOK
    <3>3. Alive(g)
      BY <1>1, <3>1, <3>2, SaveRows
    <3> QED
      BY <3>1, <3>3 DEF Outcome
  <2>3. CASE ~Living(u)
    BY <1>4, <1>5, <2>1, <2>3 DEF SaveOK
  <2> QED
    BY <2>2, <2>3
<1> QED
  BY <1>3, <1>6, <1>7, <1>8, <1>9, OpOfPlace

\* After COMMIT or ROLLBACK everybody is idle again.
LEMMA EndInTurn ==
  ASSUME TypeOK, SInv, Coherent', NEW t \in Txn, NEW rows, pc[t] # "idle", End(t, rows)
  PROVE  SInv'
<1>1. \A o \in Txn \ {t} : pc[o] = "idle"
  BY DEF SInv, OneWriter
<1>2. \A o \in Txn : pc'[o] = "idle"
  BY <1>1 DEF End, Goto, TypeOK
<1>3. OneWriter'
  BY <1>2 DEF OneWriter
<1>4. \A o \in Txn : call'[o].by # "identity"
  BY DEF End, TypeOK, SInv, NoCall
<1>5. ASSUME NEW o \in Txn, NEW u \in User PROVE IdleOK(o, u)'
  <2>1. CASE o = t
    BY <2>1 DEF End, TypeOK, IdleOK, NoInst, NoWrites
  <2>2. CASE o # t
    <3>1. inst'[o] = inst[o] /\ dirty'[o] = dirty[o]
      BY <2>2 DEF End
    <3>2. IdleOK(o, u)
      BY <1>1, <2>2 DEF SInv, InTurn
    <3> QED
      BY <3>1, <3>2 DEF IdleOK
  <2> QED
    BY <2>1, <2>2
<1> QED
  BY <1>2, <1>3, <1>4, <1>5 DEF SInv, InTurn

\* An outcome is an account in one piece.
LEMMA OutcomeIsWhole ==
  ASSUME NEW op, NEW f \in Rows3, NEW g \in Rows3, Outcome(op, f, g)
  PROVE  StateIn(g) # "torn" /\ StateIn(f) # "torn"
<1>1. /\ Absent(f) \/ Alive(f) \/ Dead(f) \/ Gone(f)
      /\ Absent(g) \/ Alive(g) \/ Dead(g) \/ Gone(g)
  BY DEF Outcome
<1>2. StateIn(f) \in {"absent", "alive", "deleted", "closed"}
  BY <1>1, StateInCases
<1>3. StateIn(g) \in {"absent", "alive", "deleted", "closed"}
  BY <1>1, StateInCases
<1> QED
  BY <1>2, <1>3

LEMMA RowsType ==
  ASSUME NEW u \in User
  PROVE  (TypeOK => Rows(u) \in Rows3) /\ (TypeOK' => Rows(u)' \in Rows3)
  BY DEF Rows, Rows3, TypeOK

LEMMA CommitInTurn ==
  ASSUME TypeOK, TypeOK', SInv, NEW t \in Txn, Commit(t) PROVE SInv'
<1>1. Coherent'
  <2> SUFFICES ASSUME NEW u \in User PROVE StateOf(u)' # "torn"
    BY DEF Coherent
  <2>1. Outcome(call[t].op, Rows(u), Rows(u)')
    BY CommitOutcome
  <2> QED
    BY <2>1, RowsType, OutcomeIsWhole, StateOfRows
<1> QED
  BY <1>1, EndInTurn DEF Commit

LEMMA RollbackInTurn ==
  ASSUME TypeOK, SInv, NEW t \in Txn, Rollback(t) PROVE SInv'
<1>1. UNCHANGED db
  BY DEF Rollback, End, RolledBack
<1>2. Coherent'
  BY <1>1 DEF SInv, Coherent, StateOf
<1> QED
  BY <1>2, EndInTurn DEF Rollback

\* Initially every account is alive or absent.
LEMMA InitStates ==
  ASSUME Init
  PROVE  \A u \in User : StateOf(u) \in {"absent", "alive"}
<1>1. ASSUME NEW u \in User
      PROVE  /\ u \in issued => Alive(Rows(u))
             /\ u \notin issued => Absent(Rows(u))
  <2> PICK p \in [User -> BOOLEAN], s \in [User -> BOOLEAN] :
        db = [tab \in Table |-> [v \in User |->
                IF v \notin issued THEN NoRow
                ELSE NewRow(CASE tab = "user" -> TRUE
                              [] tab = "profile" -> p[v]
                              [] tab = "secret" -> s[v])]]
    BY DEF Init
  <2>1. CASE u \in issued
    <3>1. ASSUME NEW k \in Table PROVE Rows(u)[k] \in {NewRow(TRUE), NewRow(FALSE)}
      BY <2>1 DEF Rows, Table
    <3> QED
      BY <2>1, <3>1, CreateRows
  <2>2. CASE u \notin issued
    BY <2>2 DEF Absent, Rows
  <2> QED
    BY <2>1, <2>2
<1>2. ASSUME NEW u \in User PROVE StateOf(u) \in {"absent", "alive"}
  <2>1. Rows(u) \in Rows3
    BY InitType, RowsType
  <2>2. StateIn(Rows(u)) \in {"absent", "alive"}
    BY <1>1, <2>1, StateInCases
  <2> QED
    BY <2>2, StateOfRows
<1> QED
  BY <1>2

LEMMA InitInTurn == Init => SInv
<1> SUFFICES ASSUME Init PROVE SInv
  OBVIOUS
<1>1. OneWriter /\ \A t \in Txn : call[t].by # "identity"
  BY DEF Init, OneWriter, NoCall
<1>2. \A t \in Txn, u \in User : InTurn(t, u)
  BY DEF Init, InTurn, IdleOK, NoInst, NoWrites
<1> QED
  BY <1>1, <1>2, InitStates DEF SInv, Coherent

LEMMA StepInTurn ==
  ASSUME Isolation = "serial", Lookups \subseteq {"id", "dead"},
         TypeOK, TypeOK', Exists, SInv, [Next]_vars
  PROVE  SInv'
<1>1. CASE UNCHANGED vars
  <2>1. OneWriter' /\ Coherent' /\ \A t \in Txn : call'[t].by # "identity"
    BY <1>1 DEF vars, SInv, OneWriter, Coherent, StateOf
  <2>2. ASSUME NEW t \in Txn, NEW u \in User PROVE InTurn(t, u)'
    <3>1. /\ Sel(t, u)' = Sel(t, u) /\ Living(u)' = Living(u)
          /\ \A tab \in Table : View(t, tab, u)' = View(t, tab, u)
      BY <1>1 DEF vars, Sel, Living, View
    <3>2. /\ Chosen(t, u)' = Chosen(t, u)
          /\ \A tab \in Table : Base(t, tab, u)' = Base(t, tab, u)
      BY <1>1, <3>1 DEF vars, Chosen, Base, Rewritten
    <3>3. IdleOK(t, u) => IdleOK(t, u)'
      BY <1>1 DEF vars, IdleOK
    <3>4. PurgeOK(t, u) => PurgeOK(t, u)'
      BY <1>1, <3>1 DEF vars, PurgeOK
    <3>5. CreateOK(t, u) => CreateOK(t, u)'
      BY <1>1, <3>1 DEF vars, CreateOK
    <3>6. SaveOK(t, u) => SaveOK(t, u)'
      BY <1>1, <3>1 DEF vars, SaveOK
    <3>7. SoftOK(t, u) => SoftOK(t, u)'
      BY <1>1, <3>1, <3>2 DEF vars, SoftOK
    <3> QED
      BY <1>1, <3>3, <3>4, <3>5, <3>6, <3>7 DEF vars, SInv, InTurn
  <2> QED
    BY <2>1, <2>2 DEF SInv
<1>2. ASSUME NEW t \in Txn, Step(t) PROVE SInv'
  <2>1. CASE Begin(t)
    BY <2>1, BeginInTurn
  <2>2. CASE UpdateProfiles(t) \/ UpdateSecrets(t) \/ UpdateUsers(t)
    BY <2>2, UpdateTableInTurn
       DEF UpdateProfiles, UpdateSecrets, UpdateUsers, StampedAt, Table
  <2>3. CASE FetchAnonymize(t)
    BY <2>3, FetchAnonymizeInTurn
  <2>4. CASE \E u \in User : AnonymizeOne(t, u)
    BY <2>4, AnonymizeOneInTurn
  <2>5. CASE FinishLoop(t)
    BY <2>5, FinishLoopInTurn
  <2>6. CASE Collect(t)
    BY <2>6, CollectInTurn
  <2>7. CASE Purge(t)
    BY <2>7, PurgeInTurn
  <2>8. CASE InsertUser(t) \/ InsertProfile(t) \/ InsertSecret(t)
    <3>1. \A pii \in BOOLEAN : NewRow(pii) \in {NewRow(TRUE), NewRow(FALSE)}
      OBVIOUS
    <3> QED
      BY <2>8, <3>1, InsertInTurn
         DEF InsertUser, InsertProfile, InsertSecret, InsertedAt, Table, Inserting
  <2>9. CASE \E u \in User : FetchSave(t, u) \/ WriteSave(t, u)
    BY <2>9, FetchSaveInTurn, WriteSaveInTurn
  <2>10. CASE Commit(t)
    BY <2>10, CommitInTurn
  <2>11. CASE Rollback(t)
    BY <2>11, RollbackInTurn
  <2> QED
    BY <1>2, <2>1, <2>2, <2>3, <2>4, <2>5, <2>6, <2>7, <2>8, <2>9, <2>10, <2>11 DEF Step
<1> QED
  BY <1>1, <1>2 DEF Next

\* When callers take turns and select by id or by .dead(), every
\* transaction is where SInv says.
LEMMA Serial ==
  ASSUME Isolation = "serial", Lookups \subseteq {"id", "dead"}
  PROVE  Spec => [](TypeOK /\ Exists /\ SInv)
<1>1. TypeOK /\ Exists /\ SInv /\ [Next]_vars => TypeOK' /\ Exists' /\ SInv'
  BY StepType, StepKeepsExists, StepInTurn
<1>2. Init => TypeOK /\ Exists /\ SInv
  BY InitType, InitExists, InitInTurn
<1> QED
  BY <1>1, <1>2, PTL DEF Spec

-----------------------------------------------------------------------------
(***************************************************************************)
(* What follows for the committed rows.                                    *)
(***************************************************************************)

\* When callers take turns, every committed account carries one deleted_at in its
\* three rows: delete(), restore() and anonymize() stamp the same accounts in
\* each of their UPDATEs.  f_propagation shows what READ COMMITTED makes of it.
THEOREM DeletionReachesEveryTable ==
  ASSUME Isolation = "serial", Lookups \subseteq {"id", "dead"}
  PROVE  Spec => []DeletionPropagated
<1>1. TypeOK /\ SInv => DeletionPropagated
  <2> SUFFICES ASSUME TypeOK, SInv, NEW u \in User, NEW k \in Table, db["user"][u] # NoRow
               PROVE  db[k][u].deleted = db["user"][u].deleted
    BY DEF DeletionPropagated
  <2>1. "user" \in Table /\ \A tab \in Table : Rows(u)[tab] = db[tab][u]
    BY DEF Table, Rows
  <2>2. Absent(Rows(u)) \/ Alive(Rows(u)) \/ Dead(Rows(u)) \/ Gone(Rows(u))
    BY CoherentRows DEF SInv
  <2> QED
    BY <2>1, <2>2 DEF Absent, Alive, Dead, Gone, Marked
<1> QED
  BY <1>1, Serial, PTL

\* What a step does to each account, in one line.
LEMMA StepOutcome ==
  ASSUME TypeOK, SInv, [Next]_vars, NEW u \in User
  PROVE  \E op : Outcome(op, Rows(u), Rows(u)')
<1>1. CASE UNCHANGED db
  <2>1. Rows(u)' = Rows(u)
    BY <1>1 DEF Rows
  <2> QED
    BY <2>1, CoherentRows, SameOutcome DEF SInv
<1>2. ASSUME NEW t \in Txn, Commit(t) PROVE \E op : Outcome(op, Rows(u), Rows(u)')
  BY <1>2, CommitOutcome
<1> QED
  BY <1>1, <1>2, OnlyCommitsWrite DEF Next, vars

\* "This cannot be undone": no sequence of operations, failures included,
\* clears the mark of an anonymised account, refills it or removes it.
THEOREM AnonymizationCannotBeUndone ==
  ASSUME Isolation = "serial", Lookups \subseteq {"id", "dead"}
  PROVE  Spec => AnonymizationIsFinal
<1>1. TypeOK /\ SInv /\ [Next]_vars =>
        [\A u \in User :
           db["user"][u] # NoRow /\ db["user"][u].anonymized =>
             /\ db'["user"][u] # NoRow
             /\ db'["user"][u].anonymized
             /\ \A tab \in Table : ~db'[tab][u].pii]_vars
  <2> SUFFICES ASSUME TypeOK, SInv, [Next]_vars, NEW u \in User,
                      db["user"][u] # NoRow, db["user"][u].anonymized
               PROVE  /\ db'["user"][u] # NoRow
                      /\ db'["user"][u].anonymized
                      /\ \A tab \in Table : ~db'[tab][u].pii
    OBVIOUS
  <2>1. /\ "user" \in Table /\ Rows(u)["user"] = db["user"][u]
        /\ \A tab \in Table : Rows(u)'[tab] = db'[tab][u]
    BY DEF Table, Rows
  <2>2. ~Absent(Rows(u)) /\ ~Alive(Rows(u)) /\ ~Dead(Rows(u))
    BY <2>1 DEF Absent, Alive, Dead
  <2>3. Gone(Rows(u)')
    BY <2>2, StepOutcome DEF Outcome
  <2> QED
    BY <2>1, <2>3 DEF Gone, Marked
<1> QED
  BY <1>1, Serial, PTL DEF Spec, AnonymizationIsFinal

-----------------------------------------------------------------------------
(***************************************************************************)
(* The refinement.                                                         *)
(***************************************************************************)

\* If every account stays as it is or goes from one of the states "from" to
\* "to", those that go are the set an operation of the contract moves.
LEMMA MoveOrStutter ==
  ASSUME NEW from, NEW to,
         \A u \in User : \/ StateOf(u)' = StateOf(u)
                         \/ StateOf(u) \in from /\ StateOf(u)' = to
  PROVE  \/ UNCHANGED [u \in User |-> StateOf(u)]
         \/ \E S \in SUBSET User :
              /\ Contract!Move(S, from, to)
              /\ \A u \in S : StateOf(u)' # StateOf(u)
<1> DEFINE S == {u \in User : StateOf(u)' # StateOf(u)}
<1>1. CASE S = {}
  BY <1>1
<1>2. CASE S # {}
  <2>1. Contract!Move(S, from, to)
    BY <1>2 DEF Contract!Move
  <2> QED
    BY <2>1
<1> QED
  BY <1>1, <1>2

LEMMA CommitIsOperation ==
  ASSUME TypeOK, TypeOK', SInv, NEW t \in Txn, Commit(t)
  PROVE  Contract!Next \/ UNCHANGED [u \in User |-> StateOf(u)]
<1> DEFINE op == call[t].op
<1>1. ASSUME NEW u \in User
      PROVE  \/ StateOf(u)' = StateOf(u)
             \/ op = "delete" /\ StateOf(u) = "alive" /\ StateOf(u)' = "deleted"
             \/ op = "restore" /\ StateOf(u) = "deleted" /\ StateOf(u)' = "alive"
             \/ /\ op = "anonymize" /\ StateOf(u) \in {"alive", "deleted"}
                /\ StateOf(u)' = "closed"
             \/ op = "hard_delete" /\ StateOf(u) = "alive" /\ StateOf(u)' = "absent"
             \/ op = "create" /\ StateOf(u) = "absent" /\ StateOf(u)' = "alive"
  <2>1. Outcome(op, Rows(u), Rows(u)')
    BY CommitOutcome
  <2>2. /\ StateOf(u) = "absent" <=> Absent(Rows(u))
        /\ StateOf(u) = "alive" <=> Alive(Rows(u))
        /\ StateOf(u) = "deleted" <=> Dead(Rows(u))
        /\ StateOf(u) = "closed" <=> Gone(Rows(u))
    BY RowsType, StateInCases, StateOfRows
  <2>3. /\ StateOf(u)' = "absent" <=> Absent(Rows(u)')
        /\ StateOf(u)' = "alive" <=> Alive(Rows(u)')
        /\ StateOf(u)' = "deleted" <=> Dead(Rows(u)')
        /\ StateOf(u)' = "closed" <=> Gone(Rows(u)')
    BY RowsType, StateInCases, StateOfRows
  <2> QED
    BY <2>1, <2>2, <2>3 DEF Outcome
<1>2. CASE op = "delete"
  <2>1. \A u \in User : \/ StateOf(u)' = StateOf(u)
                        \/ StateOf(u) \in {"alive"} /\ StateOf(u)' = "deleted"
    BY <1>1, <1>2
  <2> QED
    BY <2>1, MoveOrStutter DEF Contract!Next, Contract!Delete
<1>3. CASE op = "restore"
  <2>1. \A u \in User : \/ StateOf(u)' = StateOf(u)
                        \/ StateOf(u) \in {"deleted"} /\ StateOf(u)' = "alive"
    BY <1>1, <1>3
  <2> QED
    BY <2>1, MoveOrStutter DEF Contract!Next, Contract!Restore
<1>4. CASE op = "anonymize"
  <2>1. \A u \in User : \/ StateOf(u)' = StateOf(u)
                        \/ StateOf(u) \in {"alive", "deleted"} /\ StateOf(u)' = "closed"
    BY <1>1, <1>4
  <2> QED
    BY <2>1, MoveOrStutter DEF Contract!Next, Contract!Close
<1>5. CASE op = "hard_delete"
  <2>1. \A u \in User : \/ StateOf(u)' = StateOf(u)
                        \/ StateOf(u) \in {"alive"} /\ StateOf(u)' = "absent"
    BY <1>1, <1>5
  <2> QED
    BY <2>1, MoveOrStutter DEF Contract!Next, Contract!Purge
\* create() is given one account.
<1>6. CASE op = "create"
  <2>1. \A u \in User : \/ StateOf(u)' = StateOf(u)
                        \/ StateOf(u) \in {"absent"} /\ StateOf(u)' = "alive"
    BY <1>1, <1>6
  <2>2. ASSUME NEW S \in SUBSET User, Contract!Move(S, {"absent"}, "alive"),
               \A u \in S : StateOf(u)' # StateOf(u)
        PROVE  \E v \in User : S = {v}
    <3>1. ASSUME NEW u \in User, u \notin call[t].ids PROVE StateOf(u)' = StateOf(u)
      <4>1. CreateOK(t, u)
        BY <1>6, OpOfPlace DEF Commit
      <4>2. \A k \in Table : db'[k][u] = db[k][u]
        BY <3>1, <4>1 DEF CreateOK, Commit, End, Merged
      <4>3. Rows(u)' = Rows(u)
        BY <4>2 DEF Rows
      <4> QED
        BY <4>3, StateOfRows
    <3>2. ASSUME NEW u \in User, u \in call[t].ids PROVE call[t].ids = {u}
      <4>1. CreateOK(t, u)
        BY <1>6, OpOfPlace DEF Commit
      <4> QED
        BY <3>2, <4>1 DEF CreateOK
    <3>3. S \subseteq call[t].ids /\ S # {}
      BY <2>2, <3>1 DEF Contract!Move
    <3> QED
      BY <3>2, <3>3
  <2>3. ASSUME NEW v \in User, Contract!Move({v}, {"absent"}, "alive") PROVE Contract!Next
    BY <2>3 DEF Contract!Next, Contract!Create
  <2> QED
    BY <2>1, <2>2, <2>3, MoveOrStutter
<1>7. CASE op = "save"
  BY <1>1, <1>7
<1>8. op \in OpName
  BY DEF TypeOK, Call
<1> QED
  BY <1>2, <1>3, <1>4, <1>5, <1>6, <1>7, <1>8 DEF OpName

\* When callers take turns the manager keeps its contract: every commit is
\* one operation of AccountContract on all of the accounts it selects, any
\* other step leaves every account as it is, whatever statement fails.
THEOREM LifecycleImplementsContract ==
  ASSUME Isolation = "serial", Lookups \subseteq {"id", "dead"}
  PROVE  Spec => ImplementsContract
<1>1. Init => Contract!Init
  BY InitStates DEF Contract!Init
<1>2. TypeOK /\ TypeOK' /\ SInv /\ [Next]_vars
        => [Contract!Next]_([u \in User |-> StateOf(u)])
  <2> SUFFICES ASSUME TypeOK, TypeOK', SInv, [Next]_vars
               PROVE  Contract!Next \/ UNCHANGED [u \in User |-> StateOf(u)]
    OBVIOUS
  <2>1. CASE UNCHANGED db
    BY <2>1 DEF StateOf
  <2>2. ASSUME NEW t \in Txn, Commit(t)
        PROVE  Contract!Next \/ UNCHANGED [u \in User |-> StateOf(u)]
    BY <2>2, CommitIsOperation
  <2> QED
    BY <2>1, <2>2, OnlyCommitsWrite DEF Next, vars
<1> QED
  BY <1>1, <1>2, Serial, PTL DEF Spec, ImplementsContract, Contract!Spec

=============================================================================
