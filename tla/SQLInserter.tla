----------------------------- MODULE SQLInserter -----------------------------
(***************************************************************************)
(* badSQL::SQLInserter (SQL_inserter.h): one connection to a MySQL server, *)
(* and INSERTs of one Payload or of a Sequence of them through a prepared  *)
(* statement.  The caller may use the member functions in any order.       *)
(*                                                                         *)
(* The connector and the server are external: a connection object of the   *)
(* client stands for a session, which the server may end at any moment; a  *)
(* statement is refused, executed, or executed and its answer lost with    *)
(* the session.  A Payload matters only by whether data->dump() throws     *)
(* (json::type_error, which no handler here names).                        *)
(***************************************************************************)
EXTENDS InsertStatement, FiniteSets

CONSTANTS MaxConnections,    \* bound: connections made
          MaxCalls,          \* bound: calls of inject and inject_bulk
          MaxBulk,           \* bound: payloads of one bulk
          FieldCounts,       \* sizes statement.fields may have
          MaxPlaceholders    \* what the server takes in one statement

ASSUME BoundsAssumption ==
  /\ {MaxConnections, MaxCalls, MaxPlaceholders} \subseteq Nat
  /\ MaxBulk \in Nat \ {0}
ASSUME FieldsAssumption == FieldCounts \subseteq Nat

Connection == 1 .. MaxConnections
CallId == 1 .. MaxCalls
nullptr == 0
NoStatement == [on |-> nullptr, holes |-> 0, bound |-> 0]

\* A Payload whose data can be dumped, or not.
Payload == {"sound", "undumpable"}
Payloads == UNION {[1 .. k -> Payload] : k \in 0 .. MaxBulk}

VARIABLES
  alive,       \* the SQLInserter has not been destroyed
  mDriver,     \* is the driver set?
  mConnect,    \* the connection object held, or nullptr
  connection,  \* of each connection object: "unused", "open", "dead", "deleted"
  abandoned,   \* history: connections that mConnect.release() let go
  at,          \* where the call under way is, or "idle"
  calls,       \* inject and inject_bulk calls made so far
  items,       \* the payloads of each call
  fields,      \* statement.fields.size() of the call under way
  pstmt,       \* the prepared statement, and how many values are bound
  table,       \* rows committed by the server: <<call, index of the payload>>
  result       \* of each call: "pending", what it returned, or "threw"

driverVars == <<alive, mDriver, mConnect, abandoned>>
callVars == <<at, calls, items, fields, pstmt, result>>
vars == <<driverVars, connection, callVars, table>>

Init ==
  /\ alive = TRUE /\ mDriver = FALSE /\ mConnect = nullptr
  /\ connection = [c \in Connection |-> "unused"]
  /\ abandoned = {}
  /\ at = "idle" /\ calls = 0 /\ items = [n \in CallId |-> <<>>]
  /\ fields = 0 /\ pstmt = NoStatement
  /\ table = {} /\ result = [n \in CallId |-> "pending"]

Rows(n) == {<<n, k>> : k \in DOMAIN items[n]}

-----------------------------------------------------------------------------
(* connect, close and the destructor.                                       *)

Idle == alive /\ at = "idle"

\* mConnect.release() gives the object up without deleting it.
Release == abandoned' = abandoned \cup ({mConnect} \ {nullptr})

\* (mutant) a connection that failed leaves the driver set.
ConnectFailsHalfway ==
  /\ Idle
  /\ Release
  /\ mConnect' = nullptr /\ mDriver' = TRUE
  /\ UNCHANGED <<alive, connection, callVars, table>>

\* connect: the server refuses, or cannot be reached.  (Any other exception would
\* end the program, as connect is noexcept: Main has that of the prompt.)
ConnectFails ==
  /\ Idle
  /\ Release
  /\ mConnect' = nullptr /\ mDriver' = FALSE
  /\ UNCHANGED <<alive, connection, callVars, table>>

\* connect: close(), then a new connection object.
Connect ==
  /\ Idle
  /\ Release
  /\ \E c \in Connection :
       /\ connection[c] = "unused"
       /\ \A d \in Connection : connection[d] = "unused" => c <= d
       /\ connection' = [connection EXCEPT ![c] = "open"]
       /\ mConnect' = c
  /\ mDriver' = TRUE
  /\ UNCHANGED <<alive, callVars, table>>

Close ==
  /\ Idle
  /\ Release
  /\ mConnect' = nullptr /\ mDriver' = FALSE
  /\ UNCHANGED <<alive, connection, callVars, table>>

\* (mutant) the destructor lets the connection go as close() does.
DestroyReleasing ==
  /\ Idle
  /\ alive' = FALSE /\ mConnect' = nullptr
  /\ UNCHANGED <<connection, mDriver, abandoned, callVars, table>>

\* The destructor: unique_ptr deletes the connection that mConnect holds.
Destroy ==
  /\ Idle
  /\ alive' = FALSE /\ mConnect' = nullptr
  /\ connection' = [c \in Connection |->
                      IF c = mConnect THEN "deleted" ELSE connection[c]]
  /\ UNCHANGED <<mDriver, abandoned, callVars, table>>

\* The server, or the network, ends a session.
SessionDies(c) ==
  /\ connection[c] = "open"
  /\ connection' = [connection EXCEPT ![c] = "dead"]
  /\ UNCHANGED <<driverVars, callVars, table>>

-----------------------------------------------------------------------------
(* inject and inject_bulk.                                                  *)

\* (mutant) the statement is not owned by a unique_ptr.
FinishLeaking(r) ==
  /\ at' = "idle" /\ UNCHANGED pstmt
  /\ result' = [result EXCEPT ![calls] = r]
  /\ UNCHANGED <<calls, items, fields>>

\* (mutant) the call returns nothing, as call_procedure does.
FinishSilent(r) ==
  /\ at' = "idle" /\ pstmt' = NoStatement
  /\ UNCHANGED <<calls, items, fields, result>>

\* The call under way returns (or throws) r; unique_ptr deletes its statement.
Finish(r) ==
  /\ at' = "idle" /\ pstmt' = NoStatement
  /\ result' = [result EXCEPT ![calls] = r]
  /\ UNCHANGED <<calls, items, fields>>

\* (mutant) the check of mConnect is missing.
StartUnchecked(s, n) ==
  /\ Idle /\ calls < MaxCalls
  /\ calls' = calls + 1
  /\ items' = [items EXCEPT ![calls'] = s]
  /\ fields' = n
  /\ IF s = <<>>
     THEN result' = [result EXCEPT ![calls'] = "Nothing to insert"] /\ UNCHANGED at
     ELSE at' = "prepare" /\ UNCHANGED result
  /\ UNCHANGED <<driverVars, connection, pstmt, table>>

\* A call with payloads s: the checks made before anything is sent.
Start(s, n) ==
  /\ Idle /\ calls < MaxCalls
  /\ calls' = calls + 1
  /\ items' = [items EXCEPT ![calls'] = s]
  /\ fields' = n
  /\ IF mConnect = nullptr
     THEN result' = [result EXCEPT ![calls'] = "No connection"] /\ UNCHANGED at
     ELSE IF s = <<>>
     THEN result' = [result EXCEPT ![calls'] = "Nothing to insert"] /\ UNCHANGED at
     ELSE at' = "prepare" /\ UNCHANGED result
  /\ UNCHANGED <<driverVars, connection, pstmt, table>>

inject == \E p \in Payload, n \in FieldCounts : Start(<< p >>, n)

inject_bulk == \E s \in Payloads, n \in FieldCounts : Start(s, n)

\* The text is built and sent to be prepared.  Memory may be too short for the
\* text: std::bad_alloc, which no handler here names.
Prepare ==
  LET sql == build_sql_insert_query(fields, Len(items[calls]))
      holes == Placeholders(sql)
  IN /\ at = "prepare"
     /\ \/ /\ connection[mConnect] = "open"
           /\ IsInsert(sql) /\ holes \in 0 .. MaxPlaceholders
           /\ pstmt' = [on |-> mConnect, holes |-> holes, bound |-> 0]
           /\ at' = "bind"
           /\ UNCHANGED <<calls, items, fields, result>>
        \/ Finish("SQLException")
        \/ Finish("threw")
     /\ UNCHANGED <<driverVars, connection, table>>

\* (mutant) the third value of a payload is bound over the second.
BoundByPayloadTwo == 2

\* The values user_bind and user_bind_bulk bind for one payload.
BoundByPayload == 3

\* One payload is bound: recipient_id, label and dump(), in that order; an
\* index past the last placeholder is an SQLException.
Bind ==
  LET k == pstmt.bound \div BoundByPayload + 1
      room == pstmt.holes - pstmt.bound
  IN /\ at = "bind"
     /\ IF k > Len(items[calls])
        THEN at' = "execute" /\ UNCHANGED <<calls, items, fields, pstmt, result>>
        ELSE IF room < 2 THEN Finish("SQLException")
        ELSE IF items[calls][k] = "undumpable" THEN Finish("threw")
        ELSE IF room < BoundByPayload THEN Finish("SQLException")
        ELSE /\ pstmt' = [pstmt EXCEPT !.bound = @ + BoundByPayload]
             /\ UNCHANGED <<at, calls, items, fields, result>>
     /\ UNCHANGED <<driverVars, connection, table>>

\* (mutant) every payload is sent in a statement of its own.
StatementsOnePerPayload(n) == [k \in DOMAIN items[n] |-> {<<n, k>>}]

\* The rows of each statement that call n sends: the code builds one INSERT for
\* all of its payloads.
Statements(n) == << Rows(n) >>

\* The rows of the first k statements of call n.  The server commits each of
\* them whole or not at all.
Sent(n, k) == UNION {Statements(n)[j] : j \in 1 .. k}

\* The statement can be executed: it is bound, and its session is there.
CanExecute ==
  /\ at = "execute"
  /\ connection[mConnect] = "open" /\ pstmt.bound = pstmt.holes

\* The statement is executed and answered ...
Execute ==
  /\ CanExecute
  /\ table' = table \cup Sent(calls, Len(Statements(calls)))
  /\ Finish("Success")
  /\ UNCHANGED <<driverVars, connection>>

\* ... or executed, and the session ends before the answer ...
ExecuteUnanswered ==
  /\ CanExecute
  /\ \E k \in DOMAIN Statements(calls) : table' = table \cup Sent(calls, k)
  /\ connection' = [connection EXCEPT ![mConnect] = "dead"]
  /\ Finish("SQLException")
  /\ UNCHANGED driverVars

\* (mutant) the handler is empty, as in inject_from_file.
ExecuteFailsSilently ==
  /\ at = "execute"
  /\ Finish("Success")
  /\ UNCHANGED <<driverVars, connection, table>>

\* ... or refused: a value is missing, a constraint fails, the session is dead.
ExecuteFails ==
  /\ at = "execute"
  /\ Finish("SQLException")
  /\ UNCHANGED <<driverVars, connection, table>>

-----------------------------------------------------------------------------
Next ==
  \/ Connect \/ ConnectFails \/ Close \/ Destroy
  \/ inject \/ inject_bulk
  \/ Prepare \/ Bind \/ Execute \/ ExecuteUnanswered \/ ExecuteFails
  \/ \E c \in Connection : SessionDies(c)

Spec == Init /\ [][Next]_vars

-----------------------------------------------------------------------------
Outcome == {"pending", "Success", "SQLException", "No connection",
            "Nothing to insert", "threw"}

Typed ==
  /\ alive \in BOOLEAN /\ mDriver \in BOOLEAN
  /\ mConnect \in Connection \cup {nullptr} /\ abandoned \subseteq Connection
  /\ connection \in [Connection -> {"unused", "open", "dead", "deleted"}]
  /\ at \in {"idle", "prepare", "bind", "execute"}
  /\ calls \in 0 .. MaxCalls /\ items \in [CallId -> Payloads]
  /\ fields \in FieldCounts \cup {0}
  /\ pstmt \in [on : Connection \cup {nullptr}, holes : Nat, bound : Nat]
  /\ table \subseteq CallId \X (1 .. MaxBulk)
  /\ result \in [CallId -> Outcome]

\* The types; and a call that is past its checks has a connection to use and
\* something to insert, at each of its steps and whatever became of the session.
TypeOK ==
  /\ Typed
  /\ at # "idle" => mConnect # nullptr /\ items[calls] # <<>>

\* What a call's answer tells its caller about the table: "Success" means that
\* every payload was stored; only an SQLException leaves that open.
AnswerTells ==
  \A n \in CallId :
    /\ result[n] = "Success" => Rows(n) \subseteq table
    /\ result[n] \notin {"Success", "SQLException"} => Rows(n) \cap table = {}

\* To a caller, connection, session and statement are a table to which bulks are added
\* whole or not at all, at most once each, however the session ended.
Table == INSTANCE BulkTable

ImplementsBulkTable == Table!Spec

\* A statement is only ever executed with a value for every placeholder, three
\* to a row, on the connection the inserter holds.
StatementComplete ==
  [][table' # table =>
       /\ pstmt.on = mConnect /\ mDriver
       /\ fields = 3 /\ pstmt.bound = 3 * Len(items[calls])]_vars

\* The text sent to be prepared is one INSERT with as many names as placeholders to
\* a row, for any number of rows; only a statement without a column is spoiled by
\* the replacements of the last comma.
QueryIsInsert ==
  at = "prepare" =>
    LET sql == build_sql_insert_query(fields, Len(items[calls]))
    IN /\ IsInsert(sql) <=> fields > 0
       /\ Placeholders(sql) = fields * Len(items[calls])

\* Between calls no prepared statement is left on the server, by whichever of
\* its exits - two of them exceptions - the last call went.
StatementsFreed == at = "idle" => pstmt = NoStatement

\* A connection object that is neither held nor deleted was let go by close()
\* or by a second connect(); the destructor deletes the one it holds; and a
\* held connection comes with its driver.
ConnectionsAccounted ==
  /\ \A c \in Connection :
       connection[c] \in {"open", "dead"} => c = mConnect \/ c \in abandoned
  /\ abandoned \cap {c \in Connection : connection[c] = "deleted"} = {}
  /\ mConnect # nullptr => mDriver /\ mConnect \notin abandoned
  /\ alive => (mDriver <=> mConnect # nullptr)

=============================================================================
