-------------------------- MODULE RowLocks_proofs --------------------------
(***************************************************************************)
(* Theorems about RowLocks: for any accounts and any number of overlapping *)
(* transactions, a deadlock takes two bulk operations or a change form.    *)
(***************************************************************************)
EXTENDS RowLocks, TLAPS

\* All the rows of u.
Whole(t, u) == \A k \in Table : [table |-> k, user |-> u] \in held[t]

Updating(x) == x.turn = Null /\ x.todo = {}

\* What t has locked, against where its program is: nothing yet of instances
\* the loop has not reached, of the one it is writing the tables before the
\* current one, everything of those it is done with; an UPDATE has locked, of
\* any other account, rows of the tables up to its own (a form's are another
\* matter).
LocksFollowProgram(t) ==
  LET x == txn[t] IN
  /\ \A row \in held[t] : row.user \in x.on \ x.todo
  /\ x.turn # Null => \A k \in Table :
       [table |-> k, user |-> x.turn] \in held[t] <=> k < x.stage
  /\ \A row \in held[t] : row.user # x.turn =>
       \/ Whole(t, row.user)
       \/ Updating(x) /\ (row.table =< x.stage \/ x.op = "form")

\* What waits in a save has nothing, and in a form the user row at most.
ShortFollowsProgram(t) ==
  LET x == txn[t] IN
  /\ x.op \in {"save", "form"} => \E u \in User : x.on = {u}
  /\ x.op = "save" /\ x.stage # 4 => held[t] = {}
  /\ x.op = "form" /\ x.stage # 4 =>
       \/ x.stage = UserRow /\ held[t] = {}
       \/ x.stage = Profile /\ \A row \in held[t] : row.table = UserRow

LoopIsAnonymize(t) ==
  LET x == txn[t] IN
  /\ x.todo \subseteq x.on
  /\ x.turn # Null => x.turn \in x.on \ x.todo
  /\ ~Updating(x) => x.op = "anonymize"
  /\ x.todo # {} /\ x.turn = Null => x.stage = Profile

WantFollowsProgram(t) ==
  want[t] # Null =>
    /\ txn[t].turn # Null \/ txn[t].todo = {}
    /\ txn[t].stage # 4
    /\ want[t] \in Statement(t) \ held[t]

IInv ==
  /\ TypeOK
  /\ \A t \in Txn :
       IF txn[t] = Null THEN held[t] = {} /\ want[t] = Null
       ELSE /\ LocksFollowProgram(t) /\ LoopIsAnonymize(t)
            /\ ShortFollowsProgram(t) /\ WantFollowsProgram(t)

-----------------------------------------------------------------------------
\* Rows of one account are requested in the order of the tables, by all but
\* the forms.
InOrder ==
  \A t \in Txn : want[t] # Null =>
    /\ txn[t] # Null /\ want[t].user \in txn[t].on
    /\ \A row \in held[t] :
         /\ row.user \in txn[t].on
         /\ txn[t].op # "form" /\ row.user = want[t].user
              => row.table < want[t].table

LEMMA RequestsAreInOrder == IInv => InOrder
<1> SUFFICES ASSUME IInv, NEW t \in Txn, want[t] # Null
             PROVE  /\ txn[t] # Null /\ want[t].user \in txn[t].on
                    /\ \A row \in held[t] :
                         /\ row.user \in txn[t].on
                         /\ txn[t].op # "form" /\ row.user = want[t].user
                              => row.table < want[t].table
  BY DEF InOrder
<1> DEFINE x == txn[t] w == want[t]
<1>1. txn[t] # Null /\ txn[t] \in Running /\ want[t] \in Row /\ held[t] \subseteq Row
  BY DEF IInv, TypeOK
<1>2. LocksFollowProgram(t) /\ LoopIsAnonymize(t) /\ WantFollowsProgram(t)
  BY <1>1 DEF IInv
<1>3. want[t] \in Statement(t) \ held[t] /\ (txn[t].turn # Null \/ txn[t].todo = {})
  BY <1>2 DEF WantFollowsProgram
<1>4. CASE x.turn # Null
  <2>1. w.table = x.stage /\ w.user = x.turn
    BY <1>3, <1>4 DEF Statement, LoopTable
  <2>2. x.turn \in x.on
    BY <1>2, <1>4 DEF LoopIsAnonymize
  <2>3. ASSUME NEW row \in held[t]
        PROVE  row.user \in x.on /\ (row.user = w.user => row.table < w.table)
    <3>1. row \in Row /\ row = [table |-> row.table, user |-> row.user]
      BY <1>1 DEF Row
    <3> QED
      BY <1>2, <1>4, <2>1, <3>1 DEF LocksFollowProgram, Row
  <2> QED
    BY <1>1, <2>1, <2>2, <2>3
<1>5. CASE x.turn = Null
  <2>1. w.table = x.stage /\ w.user \in x.on /\ Updating(x)
    BY <1>3, <1>5 DEF Statement, Updating
  <2>2. ASSUME NEW row \in held[t]
        PROVE  /\ row.user \in x.on
               /\ x.op # "form" /\ row.user = w.user => row.table < w.table
    <3>1. row \in Row /\ w \in Row /\ row # w /\ row.table \in 1..3 /\ w.table \in 1..3
      BY <1>1, <1>3 DEF Row, Table, Profile, Secret, UserRow
    <3>2. row.user \in x.on
      BY <1>2 DEF LocksFollowProgram
    <3>3. row.user # x.turn
      BY <1>5, <3>1, NullAssumption DEF Row
    <3>4. Whole(t, row.user) \/ row.table =< x.stage \/ x.op = "form"
      BY <1>2, <3>3 DEF LocksFollowProgram
    <3>5. ASSUME x.op # "form", row.user = w.user PROVE row.table < w.table
      <4>1. ~Whole(t, row.user)
        BY <1>1, <1>3, <3>5 DEF Whole, Row
      <4>2. row.table # w.table
        BY <3>1, <3>5 DEF Row
      <4> QED
        BY <2>1, <3>1, <3>4, <3>5, <4>1, <4>2
    <3> QED
      BY <3>2, <3>5
  <2> QED
    BY <1>1, <2>1, <2>2
<1> QED
  BY <1>4, <1>5

-----------------------------------------------------------------------------
\* A form that has locked its user waits for the profile; who has that, and
\* waits too, is at work on the whole account.
LEMMA FormsMeetOthers ==
  ASSUME IInv, InOrder, NEW D \in SUBSET Txn, Deadlocked(D),
         NEW s \in D, txn[s].op = "form", held[s] # {}
  PROVE  \E t \in D : s # t /\ FormAgainst(s, t)
<1>1. \A q \in D : /\ want[q] \in Row /\ want[q] # Null /\ held[q] \subseteq Row
                   /\ txn[q] # Null /\ txn[q] \in Running
  BY DEF Deadlocked, IInv, TypeOK, InOrder
<1>2. \A q \in D : ShortFollowsProgram(q) /\ WantFollowsProgram(q)
                  /\ LoopIsAnonymize(q)
  BY <1>1 DEF IInv
<1>3. \A q \in D : txn[q].stage # 4
  BY <1>1, <1>2 DEF WantFollowsProgram
<1>4. PICK a \in User : txn[s].on = {a}
  BY <1>2 DEF ShortFollowsProgram
<1>5. txn[s].stage = Profile
  BY <1>2, <1>3 DEF ShortFollowsProgram
<1>6. want[s].table = Profile /\ want[s].user = a
  <2>1. txn[s].turn = Null
    BY <1>2 DEF LoopIsAnonymize, Updating
  <2>2. want[s] \in {[table |-> txn[s].stage, user |-> u] : u \in txn[s].on}
    BY <1>1, <1>2, <2>1 DEF WantFollowsProgram, Statement
  <2> QED
    BY <1>4, <1>5, <2>2
<1>7. PICK t \in D : want[s] \in held[t]
  BY DEF Deadlocked
<1>8. txn[t].op # "save" /\ txn[t].op # "form"
  BY <1>2, <1>3, <1>6, <1>7 DEF ShortFollowsProgram, Profile, UserRow
<1>9. a \in txn[t].on
  BY <1>1, <1>6, <1>7 DEF InOrder
<1>10. txn[t].op \in {"delete", "anonymize"}
  BY <1>1, <1>8 DEF Running, Operation
<1> QED
  BY <1>4, <1>8, <1>9, <1>10 DEF FormAgainst

\* A holder of a row of a, at or past the row somebody wants, is itself waiting
\* for a later row of a, unless it is a bulk operation or a form; three such
\* steps leave the tables.
LEMMA OrderPreventsDeadlock == IInv /\ InOrder => DeadlockNeedsBulkOrForm
<1> SUFFICES ASSUME IInv, InOrder, NEW D \in SUBSET Txn, D # {}, Deadlocked(D),
                    \A s, t \in D : s # t => ~(Bulk(s) /\ Bulk(t)) /\ ~FormAgainst(s, t)
             PROVE  FALSE
  BY DEF DeadlockNeedsBulkOrForm
<1>1. PICK m \in D : \A s \in D : s # m => ~Bulk(s)
  OBVIOUS
<1>f. \A s \in D : held[s] # {} => txn[s].op # "form"
  BY FormsMeetOthers
<1> DEFINE a == want[m].user
           k == want[m].table
<1>2. \A s \in D : want[s] \in Row /\ want[s] # Null /\ held[s] \subseteq Row
  BY DEF Deadlocked, IInv, TypeOK
<1>3. \A row \in Row : row.table \in 1..3
  BY DEF Row, Table, Profile, Secret, UserRow
<1>4. ASSUME NEW s \in D, NEW row \in held[s], row.user = a, row.table >= k
      PROVE  want[s].user = a /\ want[s].table > row.table
  <2>0. txn[s].op # "form"
    BY <1>4, <1>f
  <2>1. s # m
    BY <1>2, <1>3, <1>4, <2>0 DEF InOrder
  <2>2. want[s].user \in txn[s].on /\ row.user \in txn[s].on
    BY <1>2 DEF InOrder
  <2>3. want[s].user = row.user
    BY <1>1, <2>1, <2>2 DEF Bulk
  <2> QED
    BY <1>2, <1>3, <1>4, <2>0, <2>3 DEF InOrder
<1>5. \A t \in D : \E s \in D : want[t] \in held[s]
  BY DEF Deadlocked
<1>6. \A s \in D : want[s].table \in 1..3
  BY <1>2, <1>3
<1>7. ASSUME NEW t \in D, want[t].user = a, want[t].table >= k
      PROVE  \E s \in D : want[s].user = a /\ want[s].table > want[t].table
  BY <1>4, <1>5, <1>7
<1> HIDE DEF a, k
<1>8. PICK s1 \in D : want[s1].user = a /\ want[s1].table > k
  BY <1>6, <1>7 DEF a, k
<1>9. PICK s2 \in D : want[s2].user = a /\ want[s2].table > want[s1].table
  BY <1>6, <1>7, <1>8 DEF k
<1>10. PICK s3 \in D : want[s3].user = a /\ want[s3].table > want[s2].table
  BY <1>6, <1>7, <1>8, <1>9 DEF k
<1> QED
  BY <1>6, <1>8, <1>9, <1>10 DEF k

-----------------------------------------------------------------------------
\* The invariant is about each transaction by itself.
TxnOK(t) ==
  /\ txn[t] \in Running \cup {Null}
  /\ held[t] \subseteq Row
  /\ want[t] \in Row \cup {Null}
  /\ IF txn[t] = Null THEN held[t] = {} /\ want[t] = Null
     ELSE /\ txn[t].stage = 4 => txn[t].turn = Null
          /\ LocksFollowProgram(t) /\ LoopIsAnonymize(t)
          /\ ShortFollowsProgram(t) /\ WantFollowsProgram(t)

Functions ==
  /\ txn = [t \in Txn |-> txn[t]]
  /\ held = [t \in Txn |-> held[t]]
  /\ want = [t \in Txn |-> want[t]]

LEMMA InvariantByTransaction == IInv <=> Functions /\ \A t \in Txn : TxnOK(t)
<1>1. IInv => Functions /\ \A t \in Txn : TxnOK(t)
  BY DEF IInv, TypeOK, Functions, TxnOK
<1>2. Functions /\ (\A t \in Txn : TxnOK(t)) => IInv
  BY DEF IInv, TypeOK, Functions, TxnOK
<1> QED
  BY <1>1, <1>2

\* A step changes the entries of one transaction.
LEMMA StepOfOne ==
  ASSUME IInv, NEW t \in Txn, NEW x, NEW h, NEW w,
         txn' = [txn EXCEPT ![t] = x],
         held' = [held EXCEPT ![t] = h],
         want' = [want EXCEPT ![t] = w],
         TxnOK(t)'
  PROVE  IInv'
<1>1. Functions /\ \A s \in Txn : TxnOK(s)
  BY InvariantByTransaction
<1>2. Functions'
  BY <1>1 DEF Functions
<1>3. ASSUME NEW s \in Txn, s # t PROVE TxnOK(s)'
  <2>1. txn'[s] = txn[s] /\ held'[s] = held[s] /\ want'[s] = want[s]
    BY <1>1, <1>3 DEF Functions
  <2>2. TxnOK(s)
    BY <1>1
  <2> QED
    BY <2>1, <2>2 DEF TxnOK, LocksFollowProgram, LoopIsAnonymize,
       ShortFollowsProgram, WantFollowsProgram, Whole, Updating, Statement
<1>4. \A s \in Txn : TxnOK(s)'
  BY <1>3
<1> QED
  BY <1>2, <1>4, InvariantByTransaction DEF IInv, TypeOK, Functions, TxnOK

-----------------------------------------------------------------------------
LEMMA InitInvariant == Init => IInv
<1> SUFFICES ASSUME Init PROVE IInv
  OBVIOUS
<1> QED
  BY DEF Init, IInv, TypeOK

LEMMA BeginKeeps ==
  ASSUME IInv, NEW t \in Txn, NEW op \in Operation, NEW on \in SUBSET User,
         NEW todo \in SUBSET User, NEW stage \in Table,
         Begin(t, op, on, stage, todo)
  PROVE  IInv'
<1> DEFINE x == [op |-> op, on |-> on, stage |-> stage, todo |-> todo,
                 turn |-> Null]
<1>1. TxnOK(t) /\ Functions
  BY InvariantByTransaction
<1>2. held[t] = {} /\ want[t] = Null
  BY <1>1 DEF Begin, TxnOK
<1>3. /\ txn' = [txn EXCEPT ![t] = x]
      /\ held' = [held EXCEPT ![t] = {}]
      /\ want' = [want EXCEPT ![t] = Null]
  BY <1>1, <1>2 DEF Begin, Functions
<1>4. txn'[t] = x /\ held'[t] = {} /\ want'[t] = Null
  BY <1>1, <1>3 DEF Functions
<1>5. x \in Running /\ x # Null /\ x.stage \in 1..3
  BY NullAssumption DEF Running, Table, Profile, Secret, UserRow
<1>6. TxnOK(t)'
  BY <1>4, <1>5 DEF TxnOK, LocksFollowProgram, LoopIsAnonymize,
     ShortFollowsProgram, WantFollowsProgram, Updating, Begin
<1> QED
  BY <1>3, <1>6, StepOfOne

LEMMA NextInstanceKeeps ==
  ASSUME IInv, NEW t \in Txn, NEW u \in User, NextInstance(t, u)
  PROVE  IInv'
<1> DEFINE x == [txn[t] EXCEPT !.turn = u, !.todo = @ \ {u}]
<1>1. TxnOK(t) /\ Functions /\ txn[t] \in Running /\ txn[t] # Null
  BY InvariantByTransaction DEF NextInstance, TxnOK
<1>2. /\ LocksFollowProgram(t) /\ LoopIsAnonymize(t) /\ want[t] = Null
      /\ txn[t].turn = Null /\ u \in txn[t].todo /\ u # Null
      /\ txn[t].stage = Profile /\ txn[t].op = "anonymize"
  BY <1>1, NullAssumption
  DEF NextInstance, TxnOK, WantFollowsProgram, LoopIsAnonymize, Updating
<1>3. /\ txn' = [txn EXCEPT ![t] = x]
      /\ held' = [held EXCEPT ![t] = held[t]]
      /\ want' = [want EXCEPT ![t] = Null]
  BY <1>1, <1>2 DEF NextInstance, Functions
<1>4. txn'[t] = x /\ held'[t] = held[t] /\ want'[t] = Null
  BY <1>1, <1>3 DEF Functions
<1>5. /\ x.turn = u /\ x.todo = txn[t].todo \ {u} /\ x.on = txn[t].on
      /\ x.op = txn[t].op /\ x.stage = txn[t].stage /\ x \in Running
      /\ x # Null
  BY <1>1, NullAssumption DEF Running
<1>6. LocksFollowProgram(t)'
  <2>1. \A row \in held[t] : row.user \in txn[t].on \ txn[t].todo
    BY <1>2 DEF LocksFollowProgram
  <2>2. \A k \in Table : [table |-> k, user |-> u] \notin held[t] /\ ~(k < 1)
    BY <1>2, <2>1 DEF Table, Profile, Secret, UserRow
  <2>3. \A row \in held[t] : Whole(t, row.user)
    <3>1. \A row \in held[t] : row.user # Null
      BY <1>1, NullAssumption DEF TxnOK, Row
    <3> QED
      BY <1>2, <3>1 DEF LocksFollowProgram, Updating
  <2> QED
    BY <1>2, <1>4, <1>5, <2>1, <2>2, <2>3
    DEF LocksFollowProgram, Whole, Profile
<1>7. TxnOK(t)'
  BY <1>1, <1>2, <1>4, <1>5, <1>6
  DEF TxnOK, LoopIsAnonymize, ShortFollowsProgram, WantFollowsProgram, Updating, Profile
<1> QED
  BY <1>3, <1>7, StepOfOne

\* Where the program is after the last row of an instance, after another row
\* of it, and elsewhere.
LEMMA LockedLast ==
  ASSUME NEW x \in Running, x.op # "save", x.turn # Null, x.stage = UserRow
  PROVE  LET y == Locked(x) IN
         /\ y \in Running /\ y.turn = Null /\ y.stage = Profile
         /\ y.todo = x.todo /\ y.on = x.on /\ y.op = x.op
<1>1. Locked(x) = [x EXCEPT !.turn = Null, !.stage = Profile]
  BY DEF Locked
<1> DEFINE z == [x EXCEPT !.turn = Null]
<1>2. z \in Running
  BY DEF Running
<1>3. Locked(x) = [z EXCEPT !.stage = Profile]
  BY <1>1 DEF Running
<1>4. z.turn = Null /\ z.todo = x.todo /\ z.on = x.on /\ z.op = x.op
  BY DEF Running
<1> HIDE DEF z
<1> QED
  BY <1>2, <1>3, <1>4 DEF Running, Profile

LEMMA LockedNext ==
  ASSUME NEW x \in Running, x.op # "save", x.turn # Null, x.stage \in 1..2
  PROVE  LET y == Locked(x) IN
         /\ y \in Running /\ y.turn = x.turn /\ y.stage = x.stage + 1
         /\ y.todo = x.todo /\ y.on = x.on /\ y.op = x.op
<1>1. Locked(x) = [x EXCEPT !.stage = x.stage + 1]
  BY DEF Locked, UserRow
<1> QED
  BY <1>1 DEF Running

LEMMA LockedElsewhere ==
  ASSUME NEW x \in Running, x.turn = Null
  PROVE  LET y == Locked(x) IN
         /\ y \in Running /\ y.turn = Null /\ y.stage = Later(x)
         /\ y.todo = x.todo /\ y.on = x.on /\ y.op = x.op
<1>1. Later(x) \in 1..4
  BY DEF Later, Running, Profile
<1>2. Locked(x) = [x EXCEPT !.stage = Later(x)]
  BY DEF Locked
<1> QED
  BY <1>1, <1>2 DEF Running

\* A row is locked: at once, or after a wait.
LEMMA TakeKeeps ==
  ASSUME IInv, NEW t \in Txn, NEW row \in Row,
         txn[t] # Null, txn[t].stage # 4, txn[t].turn # Null \/ txn[t].todo = {},
         row \in Statement(t) \ held[t], Take(t, row)
  PROVE  IInv'
<1> DEFINE x == txn[t]
           y == Locked(txn[t])
           h == held[t] \cup {row}
<1>1. TxnOK(t) /\ Functions /\ x \in Running
  BY InvariantByTransaction DEF TxnOK
<1>2. LocksFollowProgram(t) /\ LoopIsAnonymize(t)
  BY <1>1 DEF TxnOK
<1>3. /\ txn' = [txn EXCEPT ![t] = y]
      /\ held' = [held EXCEPT ![t] = h]
      /\ want' = [want EXCEPT ![t] = Null]
  BY DEF Take
<1>4. txn'[t] = y /\ held'[t] = h /\ want'[t] = Null
  BY <1>1, <1>3 DEF Functions
<1>5. x.stage \in 1..3 /\ h \subseteq Row /\ \A r \in Row : r.table \in 1..3
  BY <1>1 DEF Running, TxnOK, Row, Table, Profile, Secret, UserRow
<1>6. \A u : Whole(t, u) => Whole(t, u)'
  BY <1>4 DEF Whole
<1>7. CASE x.turn = Null
  <2>1. x.todo = {} /\ row.table = x.stage /\ row.user \in x.on
    BY <1>7 DEF Statement
  <2>2. y.turn = Null /\ y.todo = {} /\ y.on = x.on /\ y.op = x.op
        /\ y \in Running /\ y.stage = Later(x)
    BY <1>1, <1>7, <2>1, LockedElsewhere
  <2>a. x.op # "form" => y.stage = x.stage \/ y.stage = 4
    BY <2>2 DEF Later
  <2>3. LocksFollowProgram(t)'
    <3>1. \A r \in h : r.user \in x.on
      BY <1>2, <2>1 DEF LocksFollowProgram
    <3>2. ASSUME NEW r \in h, x.op # "form"
          PROVE  Whole(t, r.user)' \/ r.table =< y.stage
      <4>1. CASE r = row
        BY <1>5, <2>1, <2>a, <3>2, <4>1
      <4>2. CASE r \in held[t]
        <5>1. r.user # Null /\ r.table \in 1..3
          BY <1>5, NullAssumption DEF Row
        <5>2. Whole(t, r.user) \/ r.table =< x.stage
          BY <1>2, <1>7, <3>2, <4>2, <5>1 DEF LocksFollowProgram
        <5> QED
          BY <1>5, <1>6, <2>a, <3>2, <5>1, <5>2
      <4> QED
        BY <4>1, <4>2
    <3> QED
      BY <1>4, <2>2, <3>1, <3>2 DEF LocksFollowProgram, Updating
  <2>4. ShortFollowsProgram(t)'
    <3>1. ShortFollowsProgram(t)
      BY <1>1 DEF TxnOK
    <3>2. CASE x.op = "form"
      <4>1. \/ x.stage = UserRow /\ held[t] = {} /\ y.stage = Profile
            \/ y.stage = 4
        BY <2>2, <3>1, <3>2 DEF ShortFollowsProgram, Later, Profile, UserRow
      <4>2. y.stage = Profile => h = {row} /\ row.table = UserRow
        BY <2>1, <4>1 DEF Profile
      <4> QED
        BY <1>4, <2>2, <3>1, <3>2, <4>1, <4>2 DEF ShortFollowsProgram
    <3>3. CASE x.op # "form"
      <4>1. x.op = "save" => y.stage = 4
        BY <2>2 DEF Later
      <4> QED
        BY <1>4, <2>2, <3>1, <3>3, <4>1 DEF ShortFollowsProgram
    <3> QED
      BY <3>2, <3>3
  <2> QED
    BY <1>1, <1>3, <1>4, <1>5, <2>2, <2>3, <2>4, StepOfOne, NullAssumption
    DEF TxnOK, LoopIsAnonymize, WantFollowsProgram, Updating
<1>8. CASE x.turn # Null
  <2>1. row = [table |-> x.stage, user |-> x.turn] /\ x.op = "anonymize"
        /\ x.turn \in x.on \ x.todo /\ x.todo \subseteq x.on
    BY <1>2, <1>8 DEF Statement, LoopTable, LoopIsAnonymize, Updating
  <2>2. \A r \in h : r.user \in x.on \ x.todo
    BY <1>2, <2>1 DEF LocksFollowProgram
  <2>3. ASSUME NEW r \in h, r.user # x.turn PROVE Whole(t, r.user)'
    BY <1>2, <1>6, <1>8, <2>1, <2>3 DEF LocksFollowProgram, Updating
  <2>4. ASSUME NEW k \in Table
        PROVE  [table |-> k, user |-> x.turn] \in h <=> k < x.stage + 1
    <3>1. [table |-> k, user |-> x.turn] \in held[t] <=> k < x.stage
      BY <1>2, <1>8 DEF LocksFollowProgram
    <3>2. [table |-> k, user |-> x.turn] = row <=> k = x.stage
      BY <2>1
    <3>3. k \in 1..3
      BY DEF Table, Profile, Secret, UserRow
    <3> QED
      BY <1>5, <3>1, <3>2, <3>3
  <2>5. CASE x.stage = UserRow
    <3>1. y.turn = Null /\ y.todo = x.todo /\ y.on = x.on /\ y.op = x.op
          /\ y \in Running /\ y.stage = Profile
      BY <1>1, <1>8, <2>1, <2>5, LockedLast
    <3>2. ASSUME NEW r \in h PROVE Whole(t, r.user)'
      <4>1. CASE r.user = x.turn
        <5>1. \A k \in Table : k < x.stage + 1
          BY <2>5 DEF Table, Profile, Secret, UserRow
        <5> QED
          BY <1>4, <2>4, <4>1, <5>1 DEF Whole
      <4> QED
        BY <2>3, <4>1
    <3>3. LocksFollowProgram(t)'
      BY <1>4, <2>2, <3>1, <3>2 DEF LocksFollowProgram
    <3> QED
      BY <1>1, <1>3, <1>4, <1>5, <2>1, <3>1, <3>3, StepOfOne, NullAssumption
      DEF TxnOK, LoopIsAnonymize, ShortFollowsProgram, WantFollowsProgram, Updating, Profile
  <2>6. CASE x.stage # UserRow
    <3>1. y.turn = x.turn /\ y.todo = x.todo /\ y.on = x.on /\ y.op = x.op
          /\ y \in Running /\ y.stage = x.stage + 1 /\ y.stage # 4
      <4>1. x.stage \in 1..2
        BY <1>5, <2>6 DEF UserRow
      <4> QED
        BY <1>1, <1>8, <2>1, <4>1, LockedNext
    <3>2. LocksFollowProgram(t)'
      BY <1>4, <2>2, <2>3, <2>4, <3>1 DEF LocksFollowProgram
    <3> QED
      BY <1>1, <1>3, <1>4, <1>5, <1>8, <2>1, <3>1, <3>2, StepOfOne, NullAssumption
      DEF TxnOK, LoopIsAnonymize, ShortFollowsProgram, WantFollowsProgram, Updating
  <2> QED
    BY <2>5, <2>6
<1> QED
  BY <1>7, <1>8

LEMMA LockKeeps ==
  ASSUME IInv, NEW t \in Txn, NEW row \in Row, Lock(t, row)
  PROVE  IInv'
<1>1. TxnOK(t) /\ Functions /\ txn[t] # Null /\ want[t] = Null
  BY InvariantByTransaction DEF Lock
<1>2. CASE Unlocked(row)
  BY <1>2, TakeKeeps DEF Lock
<1>3. CASE ~Unlocked(row)
  <2>1. /\ txn' = [txn EXCEPT ![t] = txn[t]]
        /\ held' = [held EXCEPT ![t] = held[t]]
        /\ want' = [want EXCEPT ![t] = row]
    BY <1>1, <1>3 DEF Lock, Functions
  <2>2. txn'[t] = txn[t] /\ held'[t] = held[t] /\ want'[t] = row
    BY <1>1, <2>1 DEF Functions
  <2>3. LocksFollowProgram(t)' /\ LoopIsAnonymize(t)' /\ ShortFollowsProgram(t)'
    BY <1>1, <2>2 DEF TxnOK, LocksFollowProgram, LoopIsAnonymize, ShortFollowsProgram,
       Whole, Updating
  <2>4. WantFollowsProgram(t)'
    BY <1>1, <2>2 DEF Lock, WantFollowsProgram, Statement
  <2>5. TxnOK(t)'
    BY <1>1, <2>2, <2>3, <2>4 DEF TxnOK
  <2> QED
    BY <2>1, <2>5, StepOfOne
<1> QED
  BY <1>2, <1>3

LEMMA AcquireKeeps ==
  ASSUME IInv, NEW t \in Txn, Acquire(t)
  PROVE  IInv'
<1>1. TxnOK(t) /\ want[t] # Null /\ Take(t, want[t])
  BY InvariantByTransaction DEF Acquire
<1>2. txn[t] # Null /\ want[t] \in Row /\ WantFollowsProgram(t)
  BY <1>1 DEF TxnOK
<1> QED
  BY <1>1, <1>2, TakeKeeps DEF WantFollowsProgram

LEMMA EndStatementKeeps ==
  ASSUME IInv, NEW t \in Txn, EndStatement(t)
  PROVE  IInv'
<1> DEFINE x == txn[t]
           y == [txn[t] EXCEPT !.stage = @ + 1]
<1>1. TxnOK(t) /\ Functions /\ x \in Running /\ x # Null /\ want[t] = Null
  BY InvariantByTransaction DEF EndStatement, TxnOK
<1>2. x.turn = Null /\ x.todo = {} /\ x.stage \in 1..3
      /\ x.op # "save" /\ x.op # "form"
  BY <1>1 DEF EndStatement, Running
<1>3. /\ txn' = [txn EXCEPT ![t] = y]
      /\ held' = [held EXCEPT ![t] = held[t]]
      /\ want' = [want EXCEPT ![t] = Null]
  BY <1>1 DEF EndStatement, Functions
<1>4. txn'[t] = y /\ held'[t] = held[t] /\ want'[t] = Null
  BY <1>1, <1>3 DEF Functions
<1>5. y.turn = Null /\ y.todo = {} /\ y.on = x.on /\ y.op = x.op
      /\ y \in Running /\ y # Null /\ y.stage = x.stage + 1
  BY <1>1, <1>2, NullAssumption DEF Running
<1>6. LocksFollowProgram(t)'
  <2>1. \A r \in held[t] : r.user \in x.on
    BY <1>1 DEF TxnOK, LocksFollowProgram
  <2>2. ASSUME NEW r \in held[t] PROVE Whole(t, r.user)' \/ r.table =< y.stage
    <3>1. r.user # Null /\ r.table \in 1..3
      BY <1>1, NullAssumption
      DEF TxnOK, Row, Table, Profile, Secret, UserRow
    <3>2. Whole(t, r.user) \/ r.table =< x.stage
      BY <1>1, <1>2, <3>1 DEF TxnOK, LocksFollowProgram
    <3>3. Whole(t, r.user) => Whole(t, r.user)'
      BY <1>4 DEF Whole
    <3> QED
      BY <1>2, <1>5, <3>1, <3>2, <3>3
  <2> QED
    BY <1>4, <1>5, <2>1, <2>2 DEF LocksFollowProgram, Updating
<1>7. ShortFollowsProgram(t)'
  BY <1>2, <1>4, <1>5 DEF ShortFollowsProgram
<1>8. TxnOK(t)'
  BY <1>1, <1>4, <1>5, <1>6, <1>7
  DEF TxnOK, LoopIsAnonymize, WantFollowsProgram, Updating
<1> QED
  BY <1>3, <1>8, StepOfOne

LEMMA FreeKeeps ==
  ASSUME IInv, NEW t \in Txn, Free(t)
  PROVE  IInv'
<1>1. Functions
  BY InvariantByTransaction
<1>2. txn'[t] = Null /\ held'[t] = {} /\ want'[t] = Null
  BY <1>1 DEF Free, Functions
<1>3. TxnOK(t)'
  BY <1>2 DEF TxnOK
<1> QED
  BY <1>3, StepOfOne DEF Free

LEMMA NextInvariant == IInv /\ [Next]_vars => IInv'
<1> SUFFICES ASSUME IInv, [Next]_vars PROVE IInv'
  OBVIOUS
<1>1. ASSUME NEW t \in Txn, NEW op \in Operation, NEW on \in SUBSET User,
             NEW todo \in SUBSET User, NEW stage \in Table,
             Begin(t, op, on, stage, todo)
      PROVE  IInv'
  BY <1>1, BeginKeeps
<1>2. ASSUME NEW t \in Txn, NEW u \in User, NextInstance(t, u)
      PROVE  IInv'
  BY <1>2, NextInstanceKeeps
<1>3. ASSUME NEW t \in Txn, NEW row \in Row, Lock(t, row)
      PROVE  IInv'
  BY <1>3, LockKeeps
<1>4. ASSUME NEW t \in Txn, Acquire(t) PROVE IInv'
  BY <1>4, AcquireKeeps
<1>5. ASSUME NEW t \in Txn, EndStatement(t) PROVE IInv'
  BY <1>5, EndStatementKeeps
<1>6. ASSUME NEW t \in Txn, Commit(t) \/ Rollback(t) PROVE IInv'
  BY <1>6, FreeKeeps DEF Commit, Rollback
<1>7. CASE UNCHANGED vars
  BY <1>7 DEF vars, IInv, TypeOK, LocksFollowProgram, LoopIsAnonymize,
     ShortFollowsProgram, WantFollowsProgram, Whole, Updating, Statement
<1> QED
  BY <1>1, <1>2, <1>3, <1>4, <1>5, <1>6, <1>7 DEF Next

-----------------------------------------------------------------------------
\* Every step of every operation keeps programs, locks and waits in range.
THEOREM TypeInvariant == Spec => []TypeOK
<1>1. IInv => TypeOK
  BY DEF IInv
<1> QED
  BY InitInvariant, NextInvariant, <1>1, PTL DEF Spec

\* Whatever overlaps, on however many accounts, a deadlock has two bulk
\* operations in it, or a change form and another operation on the same account
\* (UserQuerySet.delete, restore and anonymize, UserAdmin.inlines): closing one's
\* own account takes no part in creating one but against such a form.
THEOREM DeadlocksAreBulk == Spec => []DeadlockNeedsBulkOrForm
<1>1. IInv => DeadlockNeedsBulkOrForm
  BY RequestsAreInOrder, OrderPreventsDeadlock
<1> QED
  BY InitInvariant, NextInvariant, <1>1, PTL DEF Spec
=============================================================================
