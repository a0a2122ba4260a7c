----------------------------- MODULE PoolsProof -----------------------------
(***************************************************************************)
(* Comm::Mysql, a connection of the MySQL pool (module MysqlClient, the     *)
(* instance Sql of MCPools), for any number of statements and rows.         *)
(***************************************************************************)
EXTENDS MCPools, TLAPS

\* NULL is not a row, a result, or what a call returned, and the bounds are numbers.
SqlConstants ==
  /\ NULL \notin Int /\ NULL \notin Nat \X Nat /\ NULL \notin [of : Nat, count : Nat]
  /\ MaxRows \in Nat /\ MaxCalls \in Nat

\* The place in the result: iRowNum is the row read last, which is followed by
\* cursor; when there is none, the next row is the first or there is no next.
Placed ==
  /\ result \in [of : Nat, count : Nat] /\ iRows = result.count
  /\ FieldIndex = NULL \/ FieldIndex = result.of
  /\ cursor \in Nat
  /\ \/ /\ iRowNum = -1 /\ row = NULL
        /\ cursor = 0 \/ cursor >= result.count
     \/ /\ iRowNum \in Nat /\ iRowNum < result.count
        /\ cursor = iRowNum + 1 /\ row = <<result.of, iRowNum>>

Empty == result = NULL /\ iRows = 0 /\ iRowNum = -1 /\ row = NULL /\ FieldIndex = NULL

\* The inductive invariant.
SqlInv ==
  /\ bConnected \in BOOLEAN /\ handle \in Sql!LinkStates /\ calls \in Nat
  /\ bConnected => handle # "none"
  /\ Empty \/ Placed
  /\ Sql!RowIsTheOneAsked /\ Sql!AppliedOnce /\ Sql!NothingLeft

-----------------------------------------------------------------------------
(* The library and the connection *)

\* A statement that MysqlQuery runs twice did not take effect the first time.
LEMMA MysqlQueryFacts ==
  ASSUME NEW l \in Sql!LinkStates, NEW r \in Sql!Outcome, Sql!MysqlQuery(l, r)
  PROVE  /\ r.ok \in BOOLEAN /\ r.link \in Sql!LinkStates /\ r.done \in {0, 1}
         /\ r.ok => r.done = 1
         /\ l = "none" => r.link = "none" /\ ~r.ok
         /\ l # "none" => r.link # "none"
<1>1. CASE r.ok /\ Sql!Runs(l, r)
  BY <1>1 DEF Sql!Runs, Sql!Outcome, Sql!LinkStates
<1>2. ASSUME NEW f \in Sql!Outcome, ~f.ok, Sql!Runs(l, f), NEW p \in Sql!Pings(f.link),
             IF p = "up"
             THEN \E s \in Sql!Outcome : /\ Sql!Runs(p, s) /\ r.ok = s.ok /\ r.link = s.link
                                    /\ r.done = f.done + s.done
             ELSE ~r.ok /\ r.link = p /\ r.done = f.done
      PROVE  /\ r.ok \in BOOLEAN /\ r.link \in Sql!LinkStates /\ r.done \in {0, 1}
             /\ r.ok => r.done = 1
             /\ l = "none" => r.link = "none" /\ ~r.ok
             /\ l # "none" => r.link # "none"
  <2>1. f.link \in Sql!LinkStates /\ f.done \in {0, 1} /\ (f.link = "up" => f.done = 0)
        /\ (l = "none" <=> f.link = "none")
    BY <1>2 DEF Sql!Runs, Sql!LinkStates
  <2>2. p \in Sql!LinkStates /\ (p = "up" => f.link = "up") /\ (f.link = "none" <=> p = "none")
    BY <1>2, <2>1 DEF Sql!Pings, Sql!LinkStates
  <2>3. CASE p = "up"
    <3>1. PICK s \in Sql!Outcome : /\ Sql!Runs(p, s) /\ r.ok = s.ok /\ r.link = s.link
                               /\ r.done = f.done + s.done
      BY Zenon, <1>2, <2>3
    <3>2. /\ s.done \in {0, 1} /\ (s.ok => s.done = 1) /\ s.ok \in BOOLEAN
          /\ s.link \in Sql!LinkStates \ {"none"}
      BY <2>3, <3>1 DEF Sql!Runs, Sql!Outcome, Sql!LinkStates
    <3> QED
      BY <2>1, <2>2, <2>3, <3>1, <3>2
  <2>4. CASE p # "up"
    BY <1>2, <2>1, <2>2, <2>4 DEF Sql!Outcome
  <2> QED
    BY <2>3, <2>4
<1> QED
  BY Zenon, <1>1, <1>2 DEF Sql!MysqlQuery

LEMMA ReconnectsFacts ==
  ASSUME bConnected \in BOOLEAN, handle \in Sql!LinkStates, ~bConnected => handle = "none",
         NEW b \in BOOLEAN, NEW l \in Sql!LinkStates, NEW freed \in BOOLEAN,
         Sql!Reconnects(b, l, freed)
  PROVE  ~b => l = "none" /\ freed
BY DEF Sql!Reconnects, Sql!Connects, Sql!Pings, Sql!LinkStates

-----------------------------------------------------------------------------
(* The result *)

LEMMA FreeResultEmpty ==
  ASSUME Sql!FreeResult PROVE Empty'
BY DEF Sql!FreeResult, Empty

\* Storing puts the place before the first row.
LEMMA StoreResultPlaced ==
  ASSUME NEW q \in Nat, NEW n \in -1 .. MaxRows, MaxRows \in Nat, Sql!StoreResult(q, n)
  PROVE  (n < 0 /\ Empty') \/ (n >= 0 /\ Placed')
<1>1. CASE n < 0
  BY <1>1, FreeResultEmpty DEF Sql!StoreResult
<1>2. CASE n >= 0
  BY <1>2 DEF Sql!StoreResult, Placed
<1> QED
  BY <1>1, <1>2

\* What a statement that is run leaves: the connection, its result and its effect.
LEMMA StatementFacts ==
  ASSUME SqlInv, MaxRows \in Nat, NEW l \in Sql!LinkStates, NEW freed \in BOOLEAN,
         NEW store \in BOOLEAN, calls' \in Nat, Sql!Statement(l, freed, store),
         l = "none" => result = NULL
  PROVE  /\ handle' \in Sql!LinkStates /\ (Empty \/ Placed)' /\ Sql!AppliedOnce'
         /\ l = "none" => handle' = "none" /\ result' = NULL
         /\ l # "none" => handle' # "none"
<1>1. PICK r \in Sql!Outcome :
         /\ Sql!MysqlQuery(l, r)
         /\ handle' = r.link /\ done' = r.done
         /\ IF r.ok /\ store
            THEN \E n \in -1 .. MaxRows :
                   Sql!StoreResult(calls', n) /\ ret' = IF n < 0 THEN -3 ELSE 0
            ELSE /\ ret' = IF r.ok THEN 0 ELSE -2
                 /\ IF freed THEN Sql!FreeResult ELSE UNCHANGED Sql!rows
  BY Zenon DEF Sql!Statement
<1>2. /\ r.ok \in BOOLEAN /\ r.link \in Sql!LinkStates /\ r.done \in {0, 1}
      /\ r.ok => r.done = 1
      /\ l = "none" => r.link = "none" /\ ~r.ok
      /\ l # "none" => r.link # "none"
  BY Zenon, <1>1, MysqlQueryFacts
<1>3. CASE r.ok /\ store
  <2>1. PICK n \in -1 .. MaxRows : Sql!StoreResult(calls', n) /\ ret' = IF n < 0 THEN -3 ELSE 0
    BY Zenon, <1>1, <1>3
  <2>2. (Empty \/ Placed)'
    BY <2>1, StoreResultPlaced
  <2>3. Sql!AppliedOnce'
    BY <1>1, <1>2, <1>3, <2>1 DEF Sql!AppliedOnce
  <2> QED
    BY <1>1, <1>2, <1>3, <2>2, <2>3
<1>4. CASE ~(r.ok /\ store)
  <2>1. /\ ret' = IF r.ok THEN 0 ELSE -2
        /\ Sql!FreeResult \/ UNCHANGED Sql!rows
    BY Zenon, <1>1, <1>4
  <2>2. (Empty \/ Placed)' /\ (result = NULL => result' = NULL)
    <3>1. CASE Sql!FreeResult
      BY <3>1, FreeResultEmpty DEF Empty
    <3>2. CASE UNCHANGED Sql!rows
      BY <3>2 DEF Sql!rows, SqlInv, Empty, Placed
    <3> QED
      BY <2>1, <3>1, <3>2
  <2>3. Sql!AppliedOnce'
    BY <1>1, <1>2, <2>1 DEF Sql!AppliedOnce
  <2> QED
    BY <1>1, <1>2, <2>2, <2>3
<1> QED
  BY <1>3, <1>4

-----------------------------------------------------------------------------
(* Every step keeps the invariant *)

\* A call begins with no answer.
LEMMA CalledFacts ==
  ASSUME SqlInv, Sql!Called
  PROVE  /\ calls' \in Nat /\ Sql!RowIsTheOneAsked' /\ alive /\ alive'
BY DEF SqlInv, Sql!Called, Sql!RowIsTheOneAsked

LEMMA RunKeeps ==
  ASSUME SqlConstants, SqlInv, NEW store \in BOOLEAN, Sql!Run(store)
  PROVE  SqlInv'
<1>1. Sql!Called
  BY Zenon DEF Sql!Run
<1>2. PICK b \in BOOLEAN, l \in Sql!LinkStates, freed \in BOOLEAN :
         /\ Sql!Reconnects(b, l, freed) /\ bConnected' = b
         /\ IF b THEN Sql!Statement(l, freed, store)
            ELSE handle' = l /\ Sql!FreeResult /\ ret' = -1 /\ done' = 0
  BY Zenon DEF Sql!Run
<1>3. calls' \in Nat /\ Sql!RowIsTheOneAsked' /\ alive'
  BY Zenon, <1>1, CalledFacts
<1>4. ~b => l = "none" /\ freed
  BY Zenon, <1>2, ReconnectsFacts DEF SqlInv, Sql!NothingLeft
<1>5. CASE b /\ l # "none"
  <2>1. Sql!Statement(l, freed, store)
    BY Zenon, <1>2, <1>5
  <2>2. handle' \in Sql!LinkStates \ {"none"} /\ (Empty \/ Placed)' /\ Sql!AppliedOnce'
    BY Zenon, <1>3, <1>5, <2>1, StatementFacts DEF SqlConstants
  <2>3. Sql!NothingLeft'
    BY <1>2, <1>3, <1>5 DEF Sql!NothingLeft
  <2> QED
    BY <1>2, <1>3, <1>5, <2>2, <2>3 DEF SqlInv
<1>6. CASE ~b
  <2>1. handle' = "none" /\ Sql!FreeResult /\ ret' = -1 /\ done' = 0
    BY Zenon, <1>2, <1>4, <1>6
  <2>2. Empty'
    BY <2>1, FreeResultEmpty
  <2>3. Sql!AppliedOnce'
    BY <2>1 DEF Sql!AppliedOnce
  <2>4. Sql!NothingLeft'
    BY <1>3, <2>1, <2>2 DEF Sql!NothingLeft, Empty
  <2> QED
    BY <1>2, <1>3, <1>6, <2>1, <2>2, <2>3, <2>4 DEF SqlInv, Sql!LinkStates
<1>7. ~(b /\ l = "none")
  BY <1>2 DEF Sql!Reconnects, Sql!Connects, Sql!Pings, Sql!LinkStates, SqlInv, Sql!NothingLeft
<1> QED
  BY <1>5, <1>6, <1>7

LEMMA RunOnlyKeeps ==
  ASSUME SqlConstants, SqlInv, NEW store \in BOOLEAN, Sql!RunOnly(store)
  PROVE  SqlInv'
<1>1. Sql!Called /\ Sql!Statement(handle, FALSE, store) /\ bConnected' = bConnected
  BY Zenon DEF Sql!RunOnly
<1>2. calls' \in Nat /\ Sql!RowIsTheOneAsked' /\ alive'
  BY Zenon, <1>1, CalledFacts
<1>3. /\ handle' \in Sql!LinkStates /\ (Empty \/ Placed)' /\ Sql!AppliedOnce'
      /\ handle = "none" => handle' = "none" /\ result' = NULL
      /\ handle # "none" => handle' # "none"
  <2>1. handle = "none" => result = NULL
    BY Zenon DEF SqlInv, Sql!NothingLeft
  <2> QED
    BY Zenon, <1>1, <1>2, <2>1, StatementFacts DEF SqlInv, SqlConstants
<1>4. Sql!NothingLeft'
  BY <1>1, <1>2, <1>3 DEF SqlInv, Sql!NothingLeft
<1> QED
  BY <1>1, <1>2, <1>3, <1>4 DEF SqlInv

\* Closing, for Ping, Close and the destructor.
LEMMA ClosedKeeps ==
  ASSUME SqlInv, Sql!Closed, UNCHANGED <<crashed, Sql!history>>, alive' \in {alive, FALSE}
  PROVE  SqlInv'
<1>1. Empty' /\ handle' = "none" /\ bConnected' = FALSE
  BY FreeResultEmpty DEF Sql!Closed
<1>2. Sql!RowIsTheOneAsked' /\ Sql!NothingLeft' /\ Sql!AppliedOnce' /\ calls' \in Nat
  BY <1>1 DEF SqlInv, Sql!RowIsTheOneAsked, Sql!NothingLeft, Sql!AppliedOnce, Empty, Sql!history
<1> QED
  BY <1>1, <1>2 DEF SqlInv, Sql!LinkStates

\* Steps that leave the result alone.
LEMMA RowsKeep ==
  ASSUME SqlInv, UNCHANGED <<Sql!rows, crashed, Sql!history>>, bConnected' \in BOOLEAN,
         handle' \in Sql!LinkStates, handle' = "none" <=> ~bConnected',
         ~bConnected' => result = NULL, ~alive' => ~bConnected'
  PROVE  SqlInv'
BY DEF SqlInv, Sql!rows, Sql!history, Sql!RowIsTheOneAsked, Sql!NothingLeft,
       Sql!AppliedOnce, Empty, Placed

LEMMA ConnectionKeeps ==
  ASSUME SqlInv, Sql!Connect \/ Sql!Ping \/ Sql!Close \/ Sql!Destroy \/ Sql!Drop \/ Sql!FreeMem
  PROVE  SqlInv'
<1>1. CASE Sql!Connect
  <2>1. PICK b \in BOOLEAN, l \in Sql!LinkStates :
           Sql!Connects(bConnected, handle, b, l) /\ bConnected' = b /\ handle' = l
    BY Zenon, <1>1 DEF Sql!Connect
  <2>2. (l = "none" <=> ~b) /\ (~b => result = NULL) /\ alive'
    BY <1>1, <2>1 DEF Sql!Connect, Sql!Connects, SqlInv, Sql!NothingLeft
  <2> QED
    BY <1>1, <2>1, <2>2, RowsKeep DEF Sql!Connect
<1>2. CASE Sql!Ping
  <2>1. CASE Sql!Closed
    BY <1>2, <2>1, ClosedKeeps DEF Sql!Ping
  <2>2. CASE UNCHANGED <<bConnected, handle, Sql!rows>>
    BY <1>2, <2>2, RowsKeep DEF Sql!Ping, SqlInv, Sql!NothingLeft
  <2> QED
    BY Zenon, <1>2, <2>1, <2>2 DEF Sql!Ping
<1>3. CASE Sql!Close
  BY <1>3, ClosedKeeps DEF Sql!Close
<1>4. CASE Sql!Destroy
  <2>1. CASE Sql!Closed
    BY <1>4, <2>1, ClosedKeeps DEF Sql!Destroy
  <2>2. CASE ~bConnected /\ UNCHANGED <<bConnected, handle, Sql!rows>>
    BY <1>4, <2>2, RowsKeep DEF Sql!Destroy, SqlInv, Sql!NothingLeft
  <2> QED
    BY Zenon, <1>4, <2>1, <2>2 DEF Sql!Destroy, SqlInv
<1>5. CASE Sql!Drop
  BY <1>5, RowsKeep DEF Sql!Drop, SqlInv, Sql!NothingLeft, Sql!LinkStates
<1>6. CASE Sql!FreeMem
  <2>1. Empty'
    BY <1>6, FreeResultEmpty DEF Sql!FreeMem
  <2> QED
    BY <1>6, <2>1
    DEF Sql!FreeMem, SqlInv, Sql!history, Sql!RowIsTheOneAsked, Sql!NothingLeft,
        Sql!AppliedOnce, Empty
<1> QED
  BY Zenon, <1>1, <1>2, <1>3, <1>4, <1>5, <1>6

\* Reading changes neither the connection nor the statement.
LEMMA ReadingKeeps ==
  ASSUME SqlInv, UNCHANGED <<bConnected, handle, result, alive, calls, done, ret>>,
         (Empty \/ Placed)', Sql!RowIsTheOneAsked'
  PROVE  SqlInv'
BY DEF SqlInv, Sql!NothingLeft, Sql!AppliedOnce

LEMMA GetFieldKeeps ==
  ASSUME SqlConstants, SqlInv, NEW i \in Nat, Sql!GetField(i)
  PROVE  SqlInv'
<1>1. /\ Sql!InitFieldName /\ ~crashed
      /\ UNCHANGED <<bConnected, handle, result, iRows, alive, calls, done, ret>>
  BY Zenon DEF Sql!GetField
<1>2. CASE Empty
  <2>1. got' = <<i, NULL, FieldIndex'>> /\ UNCHANGED <<cursor, iRowNum, row, crashed>>
    BY <1>2 DEF Sql!GetField, Empty
  <2>2. FieldIndex' = NULL
    BY <1>1, <1>2 DEF Sql!InitFieldName, Empty
  <2>3. Empty' /\ Sql!RowIsTheOneAsked'
    BY <1>1, <1>2, <2>1, <2>2 DEF Empty, Sql!RowIsTheOneAsked
  <2> QED
    BY Zenon, <1>1, <2>3, ReadingKeeps
<1>3. CASE Placed
  <2>1. /\ result \in [of : Nat, count : Nat] /\ result # NULL /\ iRows = result.count
        /\ result.of \in Nat /\ result.count \in Nat /\ FieldIndex' = result.of
    BY <1>1, <1>3 DEF Placed, Sql!InitFieldName, SqlConstants
  <2>2. CASE i >= iRows
    <3>1. got' = <<i, NULL, FieldIndex'>> /\ UNCHANGED <<cursor, iRowNum, row, crashed>>
      BY <2>2 DEF Sql!GetField
    <3>2. Placed'
      BY <1>1, <1>3, <2>1, <3>1 DEF Placed
    <3>3. Sql!RowIsTheOneAsked'
      BY <1>1, <2>1, <2>2, <3>1 DEF Sql!RowIsTheOneAsked
    <3> QED
      BY Zenon, <1>1, <3>2, <3>3, ReadingKeeps
  <2>3. CASE i < iRows /\ i = iRowNum /\ row # NULL
    <3>1. got' = <<i, row, FieldIndex'>> /\ UNCHANGED <<cursor, iRowNum, row, crashed>>
      BY <2>1, <2>3 DEF Sql!GetField
    <3>2. Placed' /\ row = <<result.of, i>>
      BY <1>1, <1>3, <2>1, <2>3, <3>1 DEF Placed
    <3>3. Sql!RowIsTheOneAsked'
      BY <1>1, <2>1, <2>3, <3>1, <3>2 DEF Sql!RowIsTheOneAsked
    <3> QED
      BY Zenon, <1>1, <3>2, <3>3, ReadingKeeps
  <2>4. CASE i < iRows /\ ~(i = iRowNum /\ row # NULL)
    <3> DEFINE p == IF Sql!Seeks(i) THEN i ELSE cursor
    <3>1. /\ row' = Sql!Fetched(p) /\ cursor' = p + 1 /\ iRowNum' = i
          /\ crashed' = (row' = NULL) /\ got' = <<i, row', FieldIndex'>>
      BY <2>1, <2>4 DEF Sql!GetField
    <3>2. p = i
      BY <1>3 DEF Placed, Sql!Seeks
    <3>3. row' = <<result.of, i>> /\ row' # NULL
      BY <2>1, <2>4, <3>1, <3>2 DEF Sql!Fetched, SqlConstants
    <3>4. Placed'
      BY <1>1, <2>1, <2>4, <3>1, <3>2, <3>3 DEF Placed
    <3>5. Sql!RowIsTheOneAsked'
      <4>1. ~crashed'
        BY Zenon, <3>1, <3>3
      <4>2. got' = <<i, <<result.of, i>>, result.of>>
        BY Zenon, <2>1, <3>1, <3>3
      <4>3. got'[1] = i /\ got'[2] = <<result.of, i>> /\ got'[3] = result.of
        BY <4>2
      <4>4. got'[1] < result.count
        BY <2>1, <2>4, <4>3
      <4> QED
        BY <1>1, <2>1, <4>1, <4>3, <4>4 DEF Sql!RowIsTheOneAsked
    <3> QED
      BY Zenon, <1>1, <3>4, <3>5, ReadingKeeps
  <2> QED
    BY <2>1, <2>2, <2>3, <2>4
<1> QED
  BY Zenon, <1>2, <1>3 DEF SqlInv

LEMMA GetNextRowKeeps ==
  ASSUME SqlConstants, SqlInv, Sql!GetNextRow
  PROVE  SqlInv'
<1>1. /\ UNCHANGED <<bConnected, handle, result, iRows, FieldIndex, alive, crashed, Sql!history>>
      /\ result # NULL
  BY Zenon DEF Sql!GetNextRow
<1>2. Placed /\ result.of \in Nat /\ result.count \in Nat
  BY <1>1 DEF SqlInv, Empty, Placed
<1>3. Placed'
  <2>1. CASE cursor < result.count
    <3>1. row' = <<result.of, cursor>> /\ row' # NULL
      BY <1>2, <2>1 DEF Sql!GetNextRow, Sql!Fetched, SqlConstants, Placed
    <3>2. cursor' = cursor + 1 /\ iRowNum' = iRowNum + 1
      BY <3>1 DEF Sql!GetNextRow
    <3> QED
      BY <1>1, <1>2, <2>1, <3>1, <3>2 DEF Placed
  <2>2. CASE cursor >= result.count
    <3>1. row' = NULL /\ cursor' = cursor /\ iRowNum' = -1
      BY <1>2, <2>2 DEF Sql!GetNextRow, Sql!Fetched, Placed
    <3> QED
      BY <1>1, <1>2, <2>2, <3>1 DEF Placed
  <2> QED
    BY <1>2, <2>1, <2>2 DEF Placed
<1>4. Sql!RowIsTheOneAsked'
  BY <1>1 DEF SqlInv, Sql!RowIsTheOneAsked, Sql!history
<1> QED
  BY Zenon, <1>1, <1>3, <1>4, ReadingKeeps DEF Sql!history

LEMMA GetFieldNameListKeeps ==
  ASSUME SqlInv, Sql!GetFieldNameList
  PROVE  SqlInv'
<1>1. (Empty \/ Placed)' /\ Sql!RowIsTheOneAsked'
  BY DEF Sql!GetFieldNameList, Sql!InitFieldName, SqlInv, Empty, Placed,
         Sql!RowIsTheOneAsked, Sql!history
<1> QED
  BY Zenon, <1>1, ReadingKeeps DEF Sql!GetFieldNameList, Sql!history

-----------------------------------------------------------------------------
(* The invariant *)

LEMMA InitEstablishes ==
  ASSUME SqlConstants, Sql!Init
  PROVE  SqlInv
<1>1. NULL # 0 /\ NULL # -1 /\ NULL # -3
  BY DEF SqlConstants
<1>2. Sql!AppliedOnce
  BY <1>1 DEF Sql!Init, Sql!AppliedOnce
<1>3. Empty /\ Sql!NothingLeft /\ bConnected = FALSE /\ handle = "none" /\ calls = 0
  BY Zenon DEF Sql!Init, Empty, Sql!NothingLeft
<1>4. Sql!RowIsTheOneAsked
  BY Zenon DEF Sql!Init, Sql!RowIsTheOneAsked
<1> QED
  BY <1>2, <1>3, <1>4 DEF SqlInv, Sql!LinkStates

LEMMA NextKeeps ==
  ASSUME SqlConstants, SqlInv, [Sql!Next]_(Sql!vars)
  PROVE  SqlInv'
<1>1. CASE Sql!Query \/ Sql!Execute
  BY <1>1, RunKeeps DEF Sql!Query, Sql!Execute
<1>2. CASE Sql!QueryWithoutReconnect \/ Sql!ExecuteWithReconnect
  BY <1>2, RunOnlyKeeps DEF Sql!QueryWithoutReconnect, Sql!ExecuteWithReconnect
<1>3. CASE Sql!Connect \/ Sql!Ping \/ Sql!Close \/ Sql!Destroy \/ Sql!Drop \/ Sql!FreeMem
  BY <1>3, ConnectionKeeps
<1>4. CASE \E i \in 0 .. MaxRows : Sql!GetField(i)
  BY <1>4, GetFieldKeeps
<1>5. CASE Sql!GetNextRow \/ Sql!GetFieldNameList
  BY Zenon, <1>5, GetNextRowKeeps, GetFieldNameListKeeps
<1>6. CASE UNCHANGED Sql!vars
  BY <1>6
  DEF Sql!vars, Sql!rows, Sql!history, SqlInv, Empty, Placed, Sql!RowIsTheOneAsked,
      Sql!AppliedOnce, Sql!NothingLeft
<1> QED
  BY Zenon, <1>1, <1>2, <1>3, <1>4, <1>5, <1>6 DEF Sql!Next

-----------------------------------------------------------------------------
(* Types *)

Flags == {bConnected, alive, crashed} \subseteq BOOLEAN /\ handle \in Sql!LinkStates

RowTypes ==
  /\ result \in {NULL} \cup [of : 1 .. MaxCalls, count : 0 .. MaxRows]
  /\ iRows \in 0 .. MaxRows /\ cursor \in 0 .. MaxRows + 1 /\ iRowNum \in -1 .. MaxRows
  /\ FieldIndex \in {NULL} \cup 1 .. MaxCalls

HistoryTypes == calls \in 0 .. MaxCalls /\ done \in Nat /\ ret \in {NULL, 0, -1, -2, -3}

SqlTypes == Flags /\ RowTypes /\ HistoryTypes

LEMMA TypesAre == Sql!TypeOK <=> SqlTypes
BY DEF Sql!TypeOK, SqlTypes, Flags, RowTypes, HistoryTypes

LEMMA FreeResultTyped ==
  ASSUME SqlConstants, RowTypes, Sql!FreeResult
  PROVE  RowTypes'
BY DEF SqlConstants, RowTypes, Sql!FreeResult

\* What Query, Execute and their variants leave.
LEMMA StatementTyped ==
  ASSUME SqlConstants, SqlInv, RowTypes, NEW l \in Sql!LinkStates, NEW freed \in BOOLEAN,
         NEW store \in BOOLEAN, calls' \in 1 .. MaxCalls, Sql!Statement(l, freed, store)
  PROVE  RowTypes' /\ done' \in Nat /\ ret' \in {0, -2, -3}
<1>1. PICK r \in Sql!Outcome :
         /\ Sql!MysqlQuery(l, r)
         /\ handle' = r.link /\ done' = r.done
         /\ IF r.ok /\ store
            THEN \E n \in -1 .. MaxRows :
                   Sql!StoreResult(calls', n) /\ ret' = IF n < 0 THEN -3 ELSE 0
            ELSE /\ ret' = IF r.ok THEN 0 ELSE -2
                 /\ IF freed THEN Sql!FreeResult ELSE UNCHANGED Sql!rows
  BY Zenon DEF Sql!Statement
<1>2. done' \in Nat
  BY <1>1 DEF Sql!Outcome
<1>3. CASE r.ok /\ store
  <2>1. PICK n \in -1 .. MaxRows : Sql!StoreResult(calls', n) /\ ret' = IF n < 0 THEN -3 ELSE 0
    BY Zenon, <1>1, <1>3
  <2>2. CASE n < 0
    BY <1>2, <2>1, <2>2, FreeResultTyped DEF Sql!StoreResult
  <2>3. CASE n >= 0
    BY <1>2, <2>1, <2>3 DEF Sql!StoreResult, RowTypes, SqlConstants
  <2> QED
    BY <2>1, <2>2, <2>3 DEF SqlConstants
<1>4. CASE ~(r.ok /\ store)
  <2>1. ret' \in {0, -2} /\ (Sql!FreeResult \/ UNCHANGED Sql!rows)
    BY <1>1, <1>4
  <2>2. RowTypes'
    BY Zenon, <2>1, FreeResultTyped DEF RowTypes, Sql!rows
  <2> QED
    BY <1>2, <2>1, <2>2
<1> QED
  BY Zenon, <1>3, <1>4

LEMMA CallsTyped ==
  ASSUME SqlConstants, SqlInv, SqlTypes, NEW store \in BOOLEAN, Sql!Run(store) \/ Sql!RunOnly(store)
  PROVE  SqlTypes'
<1>1. Sql!Called
  BY Zenon DEF Sql!Run, Sql!RunOnly
<1>2. calls' \in 1 .. MaxCalls
  BY <1>1 DEF Sql!Called, SqlTypes, HistoryTypes, SqlConstants
<1>3. alive' \in BOOLEAN /\ crashed' \in BOOLEAN
  BY Zenon, <1>1 DEF Sql!Called, SqlTypes, Flags
<1>4. bConnected' \in BOOLEAN /\ handle' \in Sql!LinkStates
  BY Zenon, RunKeeps, RunOnlyKeeps DEF SqlInv
<1>5. RowTypes' /\ done' \in Nat /\ ret' \in {0, -1, -2, -3}
  <2>1. CASE \E l \in Sql!LinkStates, freed \in BOOLEAN : Sql!Statement(l, freed, store)
    BY Zenon, <1>2, <2>1, StatementTyped DEF SqlTypes
  <2>2. CASE Sql!FreeResult /\ ret' = -1 /\ done' = 0
    BY <2>2, FreeResultTyped DEF SqlTypes
  <2> QED
    BY Zenon, <2>1, <2>2 DEF Sql!Run, Sql!RunOnly, SqlInv
<1> QED
  BY <1>2, <1>3, <1>4, <1>5 DEF SqlTypes, Flags, HistoryTypes, SqlConstants

LEMMA ReadsTyped ==
  ASSUME SqlConstants, SqlInv, SqlTypes,
         (\E i \in 0 .. MaxRows : Sql!GetField(i)) \/ Sql!GetNextRow \/ Sql!GetFieldNameList
  PROVE  SqlTypes'
<1>1. ASSUME Sql!InitFieldName
      PROVE  FieldIndex' \in {NULL} \cup 1 .. MaxCalls
  BY <1>1 DEF Sql!InitFieldName, SqlTypes, RowTypes
<1>2. CASE \E i \in 0 .. MaxRows : Sql!GetField(i)
  <2>1. PICK i \in 0 .. MaxRows : Sql!GetField(i)
    BY Zenon, <1>2
  <2>2. /\ Sql!InitFieldName
        /\ UNCHANGED <<bConnected, handle, result, iRows, alive, calls, done, ret>>
        /\ \/ UNCHANGED <<cursor, iRowNum, row, crashed>>
           \/ /\ cursor' \in {i + 1, cursor + 1} /\ iRowNum' = i /\ crashed' = (row' = NULL)
              /\ (cursor' = cursor + 1 /\ cursor' # i + 1) => ~Sql!Seeks(i)
    BY <2>1 DEF Sql!GetField
  <2>3. crashed' \in BOOLEAN
    BY Zenon, <2>2 DEF SqlTypes, Flags
  <2>4. cursor' \in 0 .. MaxRows + 1 /\ iRowNum' \in -1 .. MaxRows
    <3>1. CASE UNCHANGED <<cursor, iRowNum>>
      BY <3>1 DEF SqlTypes, RowTypes
    <3>2. CASE cursor' \in {i + 1, cursor + 1} /\ iRowNum' = i /\ (cursor' # i + 1 => ~Sql!Seeks(i))
      <4>1. result # NULL => Placed
        BY Zenon DEF SqlInv, Empty
      <4>2. CASE cursor' = i + 1
        BY <3>2, <4>2 DEF SqlConstants
      <4>3. CASE cursor' # i + 1
        BY <2>1, <3>2, <4>1, <4>3 DEF Sql!Seeks, Placed, Empty, SqlInv, SqlConstants
      <4> QED
        BY Zenon, <4>2, <4>3
    <3> QED
      BY Zenon, <2>2, <3>1, <3>2
  <2> QED
    BY Zenon, <1>1, <2>2, <2>3, <2>4 DEF SqlTypes, Flags, RowTypes, HistoryTypes
<1>3. CASE Sql!GetNextRow
  <2>1. /\ UNCHANGED <<bConnected, handle, result, iRows, FieldIndex, alive, crashed, Sql!history>>
        /\ result # NULL
    BY Zenon, <1>3 DEF Sql!GetNextRow
  <2>2. Placed /\ result.count \in 0 .. MaxRows
    BY Zenon, <2>1 DEF SqlInv, Empty, SqlTypes, RowTypes
  <2>3. cursor' \in 0 .. MaxRows + 1 /\ iRowNum' \in -1 .. MaxRows
    <3>1. \/ cursor' = cursor /\ iRowNum' = -1
          \/ cursor < result.count /\ cursor' = cursor + 1 /\ iRowNum' = iRowNum + 1
      BY Zenon, <1>3 DEF Sql!GetNextRow, Sql!Fetched
    <3>2. cursor \in 0 .. MaxRows + 1 /\ MaxRows \in Nat
      BY Zenon DEF SqlInv, SqlTypes, RowTypes, SqlConstants
    <3>3. iRowNum = -1 \/ (iRowNum \in Nat /\ iRowNum < result.count)
      BY Zenon, <2>2 DEF Placed
    <3> QED
      BY <2>2, <3>1, <3>2, <3>3
  <2> QED
    BY Zenon, <2>1, <2>3 DEF SqlTypes, Flags, RowTypes, HistoryTypes, Sql!history
<1>4. CASE Sql!GetFieldNameList
  BY Zenon, <1>1, <1>4
  DEF Sql!GetFieldNameList, SqlTypes, Flags, RowTypes, HistoryTypes, Sql!history
<1> QED
  BY Zenon, <1>2, <1>3, <1>4

LEMMA OthersTyped ==
  ASSUME SqlConstants, SqlInv, SqlTypes,
         \/ Sql!Connect \/ Sql!Ping \/ Sql!Close \/ Sql!Destroy \/ Sql!Drop \/ Sql!FreeMem
         \/ UNCHANGED Sql!vars
  PROVE  SqlTypes'
<1>1. Sql!FreeResult \/ UNCHANGED Sql!rows
  BY Zenon
  DEF Sql!Connect, Sql!Ping, Sql!Close, Sql!Destroy, Sql!Drop, Sql!FreeMem, Sql!Closed,
      Sql!vars
<1>2. RowTypes'
  BY Zenon, <1>1, FreeResultTyped DEF SqlTypes, RowTypes, Sql!rows
<1>3. UNCHANGED <<crashed, Sql!history>> /\ alive' \in {alive, FALSE}
  BY Zenon DEF Sql!Connect, Sql!Ping, Sql!Close, Sql!Destroy, Sql!Drop, Sql!FreeMem, Sql!vars
<1>4. HistoryTypes' /\ alive' \in BOOLEAN /\ crashed' \in BOOLEAN
  BY Zenon, <1>3 DEF SqlTypes, Flags, HistoryTypes, Sql!history
<1>5. bConnected' \in BOOLEAN /\ handle' \in Sql!LinkStates
  BY Zenon, NextKeeps DEF SqlInv, Sql!Next
<1> QED
  BY Zenon, <1>2, <1>4, <1>5 DEF SqlTypes, Flags

LEMMA TypesKept ==
  ASSUME SqlConstants, SqlInv, SqlTypes, [Sql!Next]_(Sql!vars)
  PROVE  SqlTypes'
BY Zenon, CallsTyped, ReadsTyped, OthersTyped
DEF Sql!Next, Sql!Query, Sql!Execute, Sql!QueryWithoutReconnect, Sql!ExecuteWithReconnect

LEMMA TypesInit ==
  ASSUME SqlConstants, Sql!Init
  PROVE  SqlTypes
<1>1. Flags
  BY Zenon DEF Sql!Init, Flags, Sql!LinkStates
<1>2. RowTypes /\ HistoryTypes
  BY DEF Sql!Init, RowTypes, HistoryTypes, SqlConstants
<1> QED
  BY Zenon, <1>1, <1>2 DEF SqlTypes

-----------------------------------------------------------------------------
(* The theorems *)

LEMMA SqlInit ==
  ASSUME MCInit
  PROVE  Sql!Init
BY Zenon DEF MCInit

LEMMA SqlStep ==
  ASSUME [MCNext]_<<vars, scenario, sqlVars>>
  PROVE  [Sql!Next]_(Sql!vars)
<1>1. CASE UNCHANGED sqlVars
  BY Zenon, <1>1 DEF sqlVars, Sql!vars, Sql!rows, Sql!history
<1>2. CASE Sql!Next
  BY <1>2
<1> QED
  BY Zenon, <1>1, <1>2 DEF MCNext

\* Comm::Mysql, for any number of statements and rows: the values of its fields,
\* and GetField answers with the row that was asked for.
THEOREM RowsAreThoseAsked == SqlConstants => (MCSpec => []SqlRows)
<1> SUFFICES ASSUME SqlConstants
             PROVE  MCSpec => []SqlRows
  OBVIOUS
<1>1. MCInit => SqlInv /\ SqlTypes
  BY SqlInit, InitEstablishes, TypesInit
<1>2. SqlInv /\ SqlTypes /\ [MCNext]_<<vars, scenario, sqlVars>> => SqlInv' /\ SqlTypes'
  BY SqlStep, NextKeeps, TypesKept
<1>3. SqlInv /\ SqlTypes => SqlRows
  BY TypesAre DEF SqlInv, SqlRows, Sql!SqlRows
<1> QED
  BY <1>1, <1>2, <1>3, PTL DEF MCSpec

\* A statement takes effect at most once, exactly once when Execute returns 0, and
\* not at all when it returns -1; ~Mysql leaves neither a result nor an open
\* connection behind.
THEOREM EffectsAreThoseAsked == SqlConstants => (MCSpec => []SqlEffects)
<1> SUFFICES ASSUME SqlConstants
             PROVE  MCSpec => []SqlEffects
  OBVIOUS
<1>1. MCInit => SqlInv
  BY SqlInit, InitEstablishes
<1>2. SqlInv /\ [MCNext]_<<vars, scenario, sqlVars>> => SqlInv'
  BY SqlStep, NextKeeps
<1>3. SqlInv => SqlEffects
  BY DEF SqlInv, SqlEffects, Sql!SqlEffects
<1> QED
  BY <1>1, <1>2, <1>3, PTL DEF MCSpec
=============================================================================
