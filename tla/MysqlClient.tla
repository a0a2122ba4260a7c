---------------------------- MODULE MysqlClient -----------------------------
(***************************************************************************)
(* Comm::Mysql: one connection to MySQL and the result of its last query.   *)
(* The pool gives it to one thread at a time, so each operation is a step;  *)
(* the server may close the connection between and during any two calls of  *)
(* the client library.  The library is external: what a call of it may do   *)
(* is the set of its outcomes.                                              *)
(***************************************************************************)
EXTENDS Integers

CONSTANTS
  MaxCalls,   \* bound: statements given to the object
  MaxRows,    \* bound: rows of a result
  NULL

VARIABLES
  bConnected,
  link,        \* the handle: "none" (initialised or closed), "up", "down" (lost)
  result,      \* NULL, or the statement it answers and how many rows it has
  iRows,
  cursor,      \* the row of result that mysql_fetch_row returns next
  iRowNum, row,
  FieldIndex,  \* NULL, or the statement whose columns it holds
  alive,       \* the object exists
  crashed,     \* a NULL row has been read
  calls,       \* history: statements so far; a statement is its number
  done,        \* history: how often the last statement took effect
  ret,         \* history: what the last Query or Execute returned, or NULL
  got          \* history: the last GetField, the row asked for and the answer

rows == <<result, iRows, cursor, iRowNum, row, FieldIndex>>
history == <<calls, done, ret, got>>
vars == <<bConnected, link, rows, alive, crashed, history>>

\* Both constructors.
Init ==
  /\ bConnected = FALSE /\ link = "none"
  /\ result = NULL /\ iRows = 0 /\ cursor = 0 /\ iRowNum = -1 /\ row = NULL /\ FieldIndex = NULL
  /\ alive = TRUE /\ crashed = FALSE
  /\ calls = 0 /\ done = 0 /\ ret = NULL /\ got = NULL

-----------------------------------------------------------------------------
(* The library *)

LinkStates == {"none", "up", "down"}

\* What became of a statement: whether it was answered, the connection after it,
\* and how often it took effect.
Outcome == [ok : BOOLEAN, link : LinkStates, done : 0 .. 2]

\* mysql_query: answered; refused by the server; lost before or after the
\* statement took effect.
Runs(l, r) ==
  IF l = "up"
  THEN \/ r.ok /\ r.link = "up" /\ r.done = 1
       \/ ~r.ok /\ r.link = "up" /\ r.done = 0
       \/ ~r.ok /\ r.link = "down" /\ r.done \in {0, 1}
  ELSE ~r.ok /\ r.link = l /\ r.done = 0

\* Mutant of Pings: the library connects again (MYSQL_OPT_RECONNECT).
PingsReconnect(l) == IF l = "none" THEN {l} ELSE {"up", "down"}

\* mysql_ping leaves the connection "up", and succeeds, or not: no option makes
\* it connect again.
Pings(l) == IF l = "up" THEN {"up", "down"} ELSE {l}

-----------------------------------------------------------------------------
(* Connections *)

\* Connect(), from bConnected and connection b, l to b2, l2.
Connects(b, l, b2, l2) ==
  IF b THEN b2 = TRUE /\ l2 = l ELSE l2 \in {"up", "none"} /\ b2 = (l2 = "up")

\* The beginning of Query and Execute: connect, ping, and connect again if the
\* ping fails; freed says whether FreeResult() was called.
Reconnects(b2, l2, freed) ==
  \E b1 \in BOOLEAN, l1 \in LinkStates :
    /\ Connects(bConnected, link, b1, l1)
    /\ \E p \in Pings(l1) :
         IF p = "up" THEN b2 = b1 /\ l2 = p /\ freed = FALSE
         ELSE Connects(FALSE, "none", b2, l2) /\ freed = TRUE

\* MysqlQuery: a statement that failed is run again if the connection answers.
MysqlQuery(l, r) ==
  \/ r.ok /\ Runs(l, r)
  \/ \E f \in Outcome :
       /\ ~f.ok /\ Runs(l, f)
       /\ \E p \in Pings(f.link) :
            IF p = "up"
            THEN \E s \in Outcome : /\ Runs(p, s) /\ r.ok = s.ok /\ r.link = s.link
                                   /\ r.done = f.done + s.done
            ELSE ~r.ok /\ r.link = p /\ r.done = f.done

-----------------------------------------------------------------------------
(* Results *)

FreeResult ==
  /\ result' = NULL /\ iRows' = 0 /\ iRowNum' = -1 /\ row' = NULL /\ FieldIndex' = NULL
  /\ UNCHANGED cursor

\* StoreResult frees the result before, and stores that of statement q: n rows,
\* or none (-1) if it has no result or the connection is lost.
StoreResult(q, n) ==
  IF n < 0 THEN FreeResult
  ELSE /\ result' = [of |-> q, count |-> n] /\ iRows' = n /\ cursor' = 0
       /\ iRowNum' = -1 /\ row' = NULL /\ FieldIndex' = NULL

\* The statement is run on connection l; store says whether its result is wanted.
\* When it fails, the result of an earlier one stays.
Statement(l, freed, store) ==
  \E r \in Outcome :
       /\ MysqlQuery(l, r)
       /\ link' = r.link /\ done' = r.done
       /\ IF r.ok /\ store
          THEN \E n \in -1 .. MaxRows :
                 StoreResult(calls', n) /\ ret' = IF n < 0 THEN -3 ELSE 0
          ELSE /\ ret' = IF r.ok THEN 0 ELSE -2
               /\ IF freed THEN FreeResult ELSE UNCHANGED rows

Called == alive /\ calls < MaxCalls /\ calls' = calls + 1 /\ got' = NULL /\ UNCHANGED <<alive, crashed>>

\* Query and Execute
Run(store) ==
  /\ Called
  /\ \E b \in BOOLEAN, l \in LinkStates, freed \in BOOLEAN :
       /\ Reconnects(b, l, freed) /\ bConnected' = b
       /\ IF b THEN Statement(l, freed, store)
          ELSE link' = l /\ FreeResult /\ ret' = -1 /\ done' = 0

Query == Run(TRUE)
Execute == Run(FALSE)

\* QueryWithoutReconnect and ExecuteWithReconnect, which do not connect.
RunOnly(store) == Called /\ Statement(link, FALSE, store) /\ UNCHANGED bConnected

QueryWithoutReconnect == RunOnly(TRUE)
ExecuteWithReconnect == RunOnly(FALSE)

Connect ==
  /\ alive
  /\ \E b \in BOOLEAN, l \in LinkStates :
       Connects(bConnected, link, b, l) /\ bConnected' = b /\ link' = l
  /\ UNCHANGED <<rows, alive, crashed, history>>

Closed == FreeResult /\ link' = "none" /\ bConnected' = FALSE

\* Ping() closes a connection that does not answer.
Ping ==
  /\ alive
  /\ \E p \in Pings(link) :
       IF p = "up" THEN UNCHANGED <<bConnected, link, rows>> ELSE Closed
  /\ UNCHANGED <<alive, crashed, history>>

Close == alive /\ Closed /\ UNCHANGED <<alive, crashed, history>>

\* ~Mysql
Destroy ==
  /\ alive /\ alive' = FALSE
  /\ IF bConnected THEN Closed ELSE UNCHANGED <<bConnected, link, rows>>
  /\ UNCHANGED <<crashed, history>>

\* FreeMem
FreeMem == alive /\ FreeResult /\ UNCHANGED <<bConnected, link, alive, crashed, history>>

-----------------------------------------------------------------------------
(* Reading *)

\* mysql_fetch_row, from position p.
Fetched(p) == IF p < result.count THEN <<result.of, p>> ELSE NULL

\* The name of a column is looked up in FieldIndex, which InitFieldName fills.
InitFieldName ==
  FieldIndex' = IF FieldIndex = NULL /\ result # NULL THEN result.of ELSE FieldIndex

GetFieldNameList ==
  /\ alive /\ InitFieldName
  /\ UNCHANGED <<bConnected, link, result, iRows, cursor, iRowNum, row, alive, crashed, history>>

\* Mutant of Seeks: the first row is taken to be next when none has been read.
SeeksLess(i) == i # iRowNum + 1

Seeks(i) == iRowNum = -1 \/ i # iRowNum + 1

\* GetField(i, name): the row read last, the next one, or one that is sought.
GetField(i) ==
  /\ alive /\ ~crashed
  /\ InitFieldName
  /\ IF i >= iRows \/ result = NULL
     THEN got' = <<i, NULL, FieldIndex'>> /\ UNCHANGED <<cursor, iRowNum, row, crashed>>
     ELSE IF i = iRowNum /\ row # NULL
     THEN got' = <<i, row, FieldIndex'>> /\ UNCHANGED <<cursor, iRowNum, row, crashed>>
     ELSE LET p == IF Seeks(i) THEN i ELSE cursor
          IN  /\ row' = Fetched(p) /\ cursor' = p + 1 /\ iRowNum' = i
              /\ crashed' = (row' = NULL)
              /\ got' = <<i, row', FieldIndex'>>
  /\ UNCHANGED <<bConnected, link, result, iRows, alive, calls, done, ret>>

\* GetNextRow: past the last row there is none, and the place is forgotten.
GetNextRow ==
  /\ alive /\ result # NULL
  /\ row' = Fetched(cursor)
  /\ cursor' = IF row' = NULL THEN cursor ELSE cursor + 1
  /\ iRowNum' = IF row' = NULL THEN -1 ELSE iRowNum + 1
  /\ UNCHANGED <<bConnected, link, result, iRows, FieldIndex, alive, crashed, history>>

\* The server closes the connection, or the network does.
Drop ==
  /\ link = "up" /\ link' = "down"
  /\ UNCHANGED <<bConnected, rows, alive, crashed, history>>

Next ==
  \/ Query \/ Execute \/ QueryWithoutReconnect \/ ExecuteWithReconnect
  \/ Connect \/ Ping \/ Close \/ Destroy \/ FreeMem
  \/ \E i \in 0 .. MaxRows : GetField(i)
  \/ GetNextRow \/ GetFieldNameList
  \/ Drop

Spec == Init /\ [][Next]_vars

-----------------------------------------------------------------------------
(* Properties *)

\* The values of the variables of MysqlClient.
TypeOK ==
  /\ {bConnected, alive, crashed} \subseteq BOOLEAN /\ link \in LinkStates
  /\ result \in {NULL} \cup [of : 1 .. MaxCalls, count : 0 .. MaxRows]
  /\ iRows \in 0 .. MaxRows /\ cursor \in 0 .. MaxRows + 1 /\ iRowNum \in -1 .. MaxRows
  /\ FieldIndex \in {NULL} \cup 1 .. MaxCalls
  /\ calls \in 0 .. MaxCalls /\ done \in Nat /\ ret \in {NULL, 0, -1, -2, -3}

\* GetField answers with the row that was asked for, of the statement whose result
\* is stored, under the columns of that statement, in whatever order rows are asked
\* for and however GetField and GetNextRow alternate; and it never reads past the
\* last row.
RowIsTheOneAsked ==
  /\ ~crashed
  /\ got # NULL /\ result # NULL =>
       /\ got[1] < result.count => got[2] = <<result.of, got[1]>> /\ got[3] = result.of
       /\ got[1] >= result.count => got[2] = NULL

\* A statement takes effect at most once, though MysqlQuery may run it twice; it has
\* taken effect if Query or Execute return 0 or -3, and has not if they return -1.
AppliedOnce ==
  /\ done <= 1
  /\ ret \in {0, -3} => done = 1
  /\ ret = -1 => done = 0

\* The destructor relies on bConnected to know what there is to free: a result or
\* an open handle is there only while it is set, so that nothing is left behind.
NothingLeft ==
  /\ ~bConnected => result = NULL /\ link = "none"
  /\ ~alive => ~bConnected

\* What a reader of results relies on.
SqlRows == TypeOK /\ RowIsTheOneAsked

\* What a writer relies on, and the pool that destroys the object.
SqlEffects == AppliedOnce /\ NothingLeft
=============================================================================
