------------------------- MODULE SQLInserter_proofs -------------------------
(***************************************************************************)
(* Theorems about SQLInserter for any number of connections, calls and     *)
(* payloads, any numbers of columns and any placeholder limit: the type    *)
(* invariant, what is left over between calls, what an answer tells, and   *)
(* that the module implements BulkTable.                                   *)
(***************************************************************************)
EXTENDS SQLInserter, SequenceTheorems, FiniteSetTheorems, TLAPS

-----------------------------------------------------------------------------
(* The invariant, in three parts.                                           *)

\* A call under way holds the connection and is the last one, and the only one
\* without an answer; a statement exists only during a call, on mConnect.
CallInv ==
  /\ at = "idle" => pstmt = NoStatement
  /\ at # "idle" => /\ alive /\ mConnect # nullptr /\ calls > 0
                    /\ result[calls] = "pending"
  /\ \A n \in CallId : n < calls \/ (at = "idle" /\ n <= calls) => result[n] # "pending"
  /\ \A n \in CallId : n > calls => result[n] = "pending"

\* What is in the table, by the answer of each call.
RowInv ==
  /\ \A n \in CallId : result[n] = "Success" => Rows(n) \subseteq table
  /\ \A row \in table : result[row[1]] \in {"Success", "SQLException"}

\* Where each connection object is.
ConnInv ==
  /\ \A c \in Connection : connection[c] \in {"open", "dead"} => c = mConnect \/ c \in abandoned
  /\ \A c \in Connection : c = mConnect \/ c \in abandoned => connection[c] \in {"open", "dead"}
  /\ mConnect # nullptr => mDriver /\ mConnect \notin abandoned
  /\ alive => (mDriver <=> mConnect # nullptr)

-----------------------------------------------------------------------------
(* Lemmas about the helpers.                                                *)

LEMMA ConstantsNat ==
  /\ MaxConnections \in Nat /\ MaxCalls \in Nat /\ MaxPlaceholders \in Nat
  /\ MaxBulk \in Nat \ {0} /\ FieldCounts \subseteq Nat
  BY BoundsAssumption, FieldsAssumption

LEMMA PayloadsType ==
  ASSUME NEW s \in Payloads
  PROVE  s \in Seq(Payload) /\ DOMAIN s \subseteq 1 .. MaxBulk
  <1>1. PICK k \in 0 .. MaxBulk : s \in [1 .. k -> Payload]
    BY DEF Payloads
  <1>2. s \in Seq(Payload)
    BY <1>1, SeqDef, ConstantsNat
  <1> QED BY <1>1, <1>2, ConstantsNat

LEMMA SinglePayload ==
  ASSUME NEW p \in Payload
  PROVE  << p >> \in Payloads
  <1>1. << p >> \in [1 .. 1 -> Payload] /\ 1 \in 0 .. MaxBulk
    BY ConstantsNat
  <1> QED BY <1>1 DEF Payloads

LEMMA NoPayloads == <<>> \in Payloads
  <1>1. <<>> \in [1 .. 0 -> Payload] /\ 0 \in 0 .. MaxBulk
    BY ConstantsNat
  <1> QED BY <1>1 DEF Payloads

\* All statements of a call are its rows, whichever prefix of them is executed.
LEMMA SentIsRows ==
  ASSUME NEW n
  PROVE  /\ Sent(n, Len(Statements(n))) = Rows(n)
         /\ \A k \in DOMAIN Statements(n) : Sent(n, k) = Rows(n)
  <1>1. Statements(n) = << Rows(n) >> /\ Len(Statements(n)) = 1
        /\ DOMAIN Statements(n) = {1} /\ Statements(n)[1] = Rows(n)
    BY DEF Statements
  <1>2. Sent(n, 1) = UNION {Statements(n)[j] : j \in {1}}
    <2>1. 1 .. 1 = {1}
      OBVIOUS
    <2> QED BY <2>1 DEF Sent
  <1>3. Sent(n, 1) = Rows(n)
    BY <1>1, <1>2
  <1> QED BY <1>1, <1>3

\* What a call's payloads may become in the table.
LEMMA RowsInTable ==
  ASSUME Typed, calls \in CallId
  PROVE  Rows(calls) \subseteq CallId \X (1 .. MaxBulk)
  <1>1. items[calls] \in Payloads
    BY DEF Typed
  <1> QED BY <1>1, PayloadsType DEF Rows

-----------------------------------------------------------------------------
(* Type correctness.                                                        *)

LEMMA InitType == Init => Typed
  <1> SUFFICES ASSUME Init PROVE Typed
    OBVIOUS
  <1>1. calls \in 0 .. MaxCalls /\ items \in [CallId -> Payloads]
    BY ConstantsNat, NoPayloads DEF Init
  <1>2. pstmt \in [on : Connection \cup {nullptr}, holes : Nat, bound : Nat]
    BY DEF Init, NoStatement
  <1>3. result \in [CallId -> Outcome]
        /\ connection \in [Connection -> {"unused", "open", "dead", "deleted"}]
    BY DEF Init, Outcome
  <1> QED BY <1>1, <1>2, <1>3 DEF Init, Typed

\* A call that is made keeps the types, whatever its payloads and columns.
LEMMA StartType ==
  ASSUME Typed, NEW s \in Payloads, NEW n \in FieldCounts, Start(s, n)
  PROVE  Typed'
  <1>0. calls \in 0 .. MaxCalls /\ calls < MaxCalls /\ calls' = calls + 1
    BY DEF Typed, Start
  <1>1. calls' \in CallId /\ calls' \in 0 .. MaxCalls
    BY <1>0, ConstantsNat DEF CallId
  <1>2. items' \in [CallId -> Payloads] /\ fields' \in FieldCounts \cup {0}
    BY <1>1 DEF Typed, Start
  <1>3. result' \in [CallId -> Outcome]
        /\ at' \in {"idle", "prepare", "bind", "execute"}
    BY <1>1 DEF Typed, Start, Outcome
  <1> QED BY <1>1, <1>2, <1>3 DEF Typed, Start, driverVars

LEMMA FinishType ==
  ASSUME Typed, NEW r \in Outcome, Finish(r)
  PROVE  /\ at' \in {"idle", "prepare", "bind", "execute"}
         /\ calls' \in 0 .. MaxCalls /\ items' \in [CallId -> Payloads]
         /\ fields' \in FieldCounts \cup {0}
         /\ pstmt' \in [on : Connection \cup {nullptr}, holes : Nat, bound : Nat]
         /\ result' \in [CallId -> Outcome]
  BY DEF Typed, Finish, NoStatement

\* While a call is under way, calls is its number, and it has a connection.
LEMMA CallUnderWay ==
  ASSUME Typed, CallInv, at # "idle"
  PROVE  calls \in CallId /\ mConnect \in Connection
  BY ConstantsNat DEF Typed, CallInv, CallId, nullptr

LEMMA NextType ==
  ASSUME Typed, CallInv, [Next]_vars
  PROVE  Typed'
  <1>1. ASSUME Connect PROVE Typed'
    <2>1. PICK c \in Connection : connection' = [connection EXCEPT ![c] = "open"] /\ mConnect' = c
      BY <1>1 DEF Connect
    <2> QED BY <1>1, <2>1 DEF Typed, Connect, Release, callVars
  <1>2. ASSUME ConnectFails \/ Close PROVE Typed'
    BY <1>2 DEF Typed, ConnectFails, Close, Release, callVars
  <1>3. ASSUME Destroy PROVE Typed'
    BY <1>3 DEF Typed, Destroy, callVars
  <1>4. ASSUME inject PROVE Typed'
    <2>1. PICK p \in Payload, n \in FieldCounts : Start(<< p >>, n)
      BY <1>4 DEF inject
    <2> QED BY <2>1, SinglePayload, StartType
  <1>5. ASSUME inject_bulk PROVE Typed'
    BY <1>5, StartType DEF inject_bulk
  <1>6. ASSUME Prepare PROVE Typed'
    <2>1. ASSUME NEW holes \in 0 .. MaxPlaceholders, at' = "bind",
                 pstmt' = [on |-> mConnect, holes |-> holes, bound |-> 0],
                 UNCHANGED <<calls, items, fields, result, driverVars, connection, table>>
          PROVE  Typed'
      BY <2>1, ConstantsNat DEF Typed, driverVars
    <2>2. ASSUME Finish("SQLException"), UNCHANGED <<driverVars, connection, table>>
          PROVE  Typed'
      BY <2>2, FinishType DEF Typed, driverVars, Outcome
    <2>3. ASSUME Finish("threw"), UNCHANGED <<driverVars, connection, table>>
          PROVE  Typed'
      BY <2>3, FinishType DEF Typed, driverVars, Outcome
    <2> QED BY <1>6, <2>1, <2>2, <2>3 DEF Prepare
  <1>7. ASSUME Bind PROVE Typed'
    <2>1. ASSUME NEW r \in Outcome, Finish(r), UNCHANGED <<driverVars, connection, table>>
          PROVE  Typed'
      BY <2>1, FinishType DEF Typed, driverVars
    <2>2. ASSUME at' = "execute", UNCHANGED <<calls, items, fields, pstmt, result, driverVars, connection, table>>
          PROVE  Typed'
      BY <2>2 DEF Typed, driverVars
    <2>3. ASSUME pstmt' = [pstmt EXCEPT !.bound = @ + BoundByPayload],
                 UNCHANGED <<at, calls, items, fields, result, driverVars, connection, table>>
          PROVE  Typed'
      BY <2>3 DEF Typed, driverVars, BoundByPayload
    <2> QED BY <1>7, <2>1, <2>2, <2>3 DEF Bind, Outcome
  <1>8. ASSUME Execute \/ ExecuteUnanswered PROVE Typed'
    <2>0. calls \in CallId /\ mConnect \in Connection
      BY <1>8, CallUnderWay DEF Execute, ExecuteUnanswered, CanExecute
    <2>1. table' = table \cup Rows(calls)
      BY <1>8, SentIsRows DEF Execute, ExecuteUnanswered
    <2>2. table' \subseteq CallId \X (1 .. MaxBulk)
      BY <2>0, <2>1, RowsInTable DEF Typed
    <2>3. connection' \in [Connection -> {"unused", "open", "dead", "deleted"}]
      BY <1>8 DEF Typed, Execute, ExecuteUnanswered
    <2>4. PICK r \in Outcome : Finish(r)
      BY <1>8 DEF Execute, ExecuteUnanswered, Outcome
    <2>5. UNCHANGED driverVars
      BY <1>8 DEF Execute, ExecuteUnanswered
    <2> QED BY <2>2, <2>3, <2>4, <2>5, FinishType DEF Typed, driverVars
  <1>9. ASSUME ExecuteFails PROVE Typed'
    BY <1>9, FinishType DEF Typed, ExecuteFails, driverVars, Outcome
  <1>10. ASSUME NEW c \in Connection, SessionDies(c) PROVE Typed'
    BY <1>10 DEF Typed, SessionDies, driverVars, callVars
  <1>11. ASSUME UNCHANGED vars PROVE Typed'
    BY <1>11 DEF Typed, vars, driverVars, callVars
  <1> QED
    BY <1>1, <1>2, <1>3, <1>4, <1>5, <1>6, <1>7, <1>8, <1>9, <1>10, <1>11 DEF Next

-----------------------------------------------------------------------------
(* What a step can do to the call under way.                                *)

\* Nothing; the connection changes only between calls.
Quiet ==
  /\ UNCHANGED <<callVars, table>>
  /\ at # "idle" => UNCHANGED driverVars

\* It goes on.
GoesOn ==
  /\ at # "idle" /\ at' # "idle"
  /\ UNCHANGED <<driverVars, calls, items, result, table>>

\* It ends with answer r.
EndsWith(r) ==
  /\ at # "idle" /\ Finish(r)
  /\ UNCHANGED driverVars
  /\ \/ r = "Success" /\ table' = table \cup Rows(calls)
     \/ r = "threw" /\ UNCHANGED table
     \/ r = "SQLException" /\ (UNCHANGED table \/ table' = table \cup Rows(calls))

Begins == \E s \in Payloads, n \in FieldCounts : Start(s, n)

\* Every step is one of the four.
LEMMA StepKinds ==
  ASSUME [Next]_vars
  PROVE  Quiet \/ GoesOn \/ Begins \/ \E r \in Outcome \ {"pending"} : EndsWith(r)
  <1>1. ASSUME Connect \/ ConnectFails \/ Close \/ Destroy PROVE Quiet
    BY <1>1 DEF Connect, ConnectFails, Close, Destroy, Idle, Quiet, callVars
  <1>2. ASSUME inject PROVE Begins
    <2>1. PICK p \in Payload, n \in FieldCounts : Start(<< p >>, n)
      BY <1>2 DEF inject
    <2> QED BY <2>1, SinglePayload DEF Begins
  <1>3. ASSUME inject_bulk PROVE Begins
    BY <1>3 DEF inject_bulk, Begins
  <1>4. ASSUME Prepare PROVE GoesOn \/ EndsWith("SQLException") \/ EndsWith("threw")
    <2>1. at = "prepare" /\ UNCHANGED <<driverVars, table>>
      BY <1>4 DEF Prepare
    <2>2. \/ at' = "bind" /\ UNCHANGED <<calls, items, result>>
          \/ Finish("SQLException") \/ Finish("threw")
      BY <1>4 DEF Prepare
    <2> QED BY <2>1, <2>2 DEF GoesOn, EndsWith
  <1>5. ASSUME Bind PROVE GoesOn \/ EndsWith("SQLException") \/ EndsWith("threw")
    <2>1. at = "bind" /\ UNCHANGED <<driverVars, table>>
      BY <1>5 DEF Bind
    <2>2. \/ at' \in {"bind", "execute"} /\ UNCHANGED <<calls, items, result>>
          \/ Finish("SQLException") \/ Finish("threw")
      BY <1>5 DEF Bind
    <2> QED BY <2>1, <2>2 DEF GoesOn, EndsWith
  <1>6. ASSUME Execute PROVE EndsWith("Success")
    BY <1>6, SentIsRows DEF Execute, CanExecute, EndsWith
  <1>7. ASSUME ExecuteUnanswered PROVE EndsWith("SQLException")
    BY <1>7, SentIsRows DEF ExecuteUnanswered, CanExecute, EndsWith
  <1>8. ASSUME ExecuteFails PROVE EndsWith("SQLException")
    BY <1>8 DEF ExecuteFails, EndsWith
  <1>9. ASSUME NEW c \in Connection, SessionDies(c) PROVE Quiet
    BY <1>9 DEF SessionDies, Quiet
  <1>10. ASSUME UNCHANGED vars PROVE Quiet
    BY <1>10 DEF vars, Quiet
  <1>11. {"SQLException", "threw", "Success"} \subseteq Outcome \ {"pending"}
    BY DEF Outcome
  <1> QED
    BY <1>1, <1>2, <1>3, <1>4, <1>5, <1>6, <1>7, <1>8, <1>9, <1>10, <1>11 DEF Next

-----------------------------------------------------------------------------
(* The invariant holds.                                                     *)

\* What Start leaves: the call is answered at once, or is under way.
LEMMA StartAnswers ==
  ASSUME Typed, CallInv, NEW s \in Payloads, NEW n \in FieldCounts, Start(s, n)
  PROVE  /\ calls' \in CallId /\ calls \in Nat /\ calls' = calls + 1
         /\ items' = [items EXCEPT ![calls'] = s]
         /\ \E r \in {"pending", "No connection", "Nothing to insert"} :
              /\ result' = [result EXCEPT ![calls'] = r]
              /\ \/ r # "pending" /\ at' = "idle"
                 \/ r = "pending" /\ at' = "prepare" /\ mConnect # nullptr
         /\ at = "idle" /\ alive /\ alive' = alive /\ mConnect' = mConnect
         /\ pstmt' = pstmt /\ table' = table
  <1>1. calls \in 0 .. MaxCalls /\ calls < MaxCalls /\ calls' = calls + 1
    BY DEF Typed, Start
  <1>2. calls' \in CallId /\ calls \in Nat
    BY <1>1, ConstantsNat DEF CallId
  <1>3. at = "idle" /\ alive
    BY DEF Start, Idle
  <1>4. result[calls'] = "pending"
    BY <1>1, <1>2 DEF CallInv
  <1>5. ASSUME UNCHANGED result
        PROVE  result' = [result EXCEPT ![calls'] = "pending"]
    BY <1>2, <1>4, <1>5 DEF Typed
  <1>6. /\ items' = [items EXCEPT ![calls'] = s]
        /\ alive' = alive /\ mConnect' = mConnect /\ pstmt' = pstmt /\ table' = table
    BY DEF Start, driverVars
  <1>7. \/ result' = [result EXCEPT ![calls'] = "No connection"] /\ UNCHANGED at
        \/ result' = [result EXCEPT ![calls'] = "Nothing to insert"] /\ UNCHANGED at
        \/ at' = "prepare" /\ UNCHANGED result /\ mConnect # nullptr
    BY DEF Start
  <1> QED BY <1>1, <1>2, <1>3, <1>5, <1>6, <1>7

LEMMA CallInvStep ==
  ASSUME Typed, CallInv, [Next]_vars
  PROVE  CallInv'
  <1>1. ASSUME Quiet PROVE CallInv'
    BY <1>1 DEF Quiet, CallInv, callVars, driverVars
  <1>2. ASSUME GoesOn PROVE CallInv'
    BY <1>2 DEF GoesOn, CallInv, driverVars
  <1>3. ASSUME Begins PROVE CallInv'
    <2>1. PICK s \in Payloads, n \in FieldCounts : Start(s, n)
      BY <1>3 DEF Begins
    <2>2. PICK r : /\ result' = [result EXCEPT ![calls'] = r]
                   /\ \/ r # "pending" /\ at' = "idle"
                      \/ r = "pending" /\ at' = "prepare" /\ mConnect # nullptr
      BY <2>1, StartAnswers
    <2>3. calls' \in CallId /\ calls \in Nat /\ calls' = calls + 1
      BY <2>1, StartAnswers
    <2>6. at = "idle" /\ alive /\ alive' = alive /\ mConnect' = mConnect /\ pstmt' = pstmt
      BY <2>1, StartAnswers
    <2>4. result'[calls'] = r /\ \A k \in CallId : k # calls' => result'[k] = result[k]
      BY <2>2, <2>3 DEF Typed
    <2>5. \A k \in CallId : k \in Nat
      BY DEF CallId
    <2> QED BY <2>2, <2>3, <2>4, <2>5, <2>6 DEF CallInv
  <1>4. ASSUME NEW r \in Outcome \ {"pending"}, EndsWith(r) PROVE CallInv'
    <2>1. calls \in CallId /\ calls \in Nat /\ at' = "idle" /\ pstmt' = NoStatement
          /\ calls' = calls /\ result' = [result EXCEPT ![calls] = r]
      BY <1>4, CallUnderWay DEF EndsWith, Finish, CallId
    <2>2. result'[calls] = r /\ \A k \in CallId : k # calls => result'[k] = result[k]
      BY <2>1 DEF Typed
    <2>3. \A k \in CallId : k \in Nat
      BY DEF CallId
    <2> QED BY <2>1, <2>2, <2>3, <1>4 DEF CallInv
  <1> QED BY <1>1, <1>2, <1>3, <1>4, StepKinds

LEMMA RowInvStep ==
  ASSUME Typed, CallInv, RowInv, [Next]_vars
  PROVE  RowInv'
  <1>1. ASSUME Quiet \/ GoesOn PROVE RowInv'
    BY <1>1 DEF Quiet, GoesOn, RowInv, Rows, callVars
  <1>2. ASSUME Begins PROVE RowInv'
    <2>1. PICK s \in Payloads, n \in FieldCounts : Start(s, n)
      BY <1>2 DEF Begins
    <2>0. calls \in Nat /\ calls' = calls + 1
      BY <2>1, StartAnswers
    <2>8. calls' > calls
      BY <2>0
    <2>2. PICK r : /\ r \in {"pending", "No connection", "Nothing to insert"}
                   /\ result' = [result EXCEPT ![calls'] = r]
      BY <2>1, StartAnswers
    <2>3. calls' \in CallId
      BY <2>1, StartAnswers
    <2>7. table' = table /\ items' = [items EXCEPT ![calls'] = s]
      BY <2>1, StartAnswers
    <2>4. result[calls'] = "pending"
      BY <2>3, <2>8 DEF CallInv
    <2>5. result'[calls'] = r
          /\ \A k \in CallId : k # calls' => result'[k] = result[k] /\ items'[k] = items[k]
      BY <2>2, <2>3, <2>7 DEF Typed
    <2>6. \A row \in table : row[1] \in CallId /\ row[1] # calls'
      BY <2>4 DEF RowInv, Typed
    <2>9. \A k \in CallId : result'[k] = "Success" => Rows(k)' \subseteq table'
      BY <2>2, <2>5, <2>7 DEF RowInv, Rows
    <2>10. \A row \in table' : result'[row[1]] \in {"Success", "SQLException"}
      BY <2>5, <2>6, <2>7 DEF RowInv
    <2> QED BY <2>9, <2>10 DEF RowInv
  <1>3. ASSUME NEW r \in Outcome \ {"pending"}, EndsWith(r) PROVE RowInv'
    <2>1. calls \in CallId /\ items' = items /\ result' = [result EXCEPT ![calls] = r]
      BY <1>3, CallUnderWay DEF EndsWith, Finish
    <2>2. result[calls] = "pending"
      BY <1>3 DEF EndsWith, CallInv
    <2>3. result'[calls] = r /\ \A k \in CallId : k # calls => result'[k] = result[k]
      BY <2>1 DEF Typed
    <2>4. \A row \in table : row[1] \in CallId /\ row[1] # calls
      BY <2>2 DEF RowInv, Typed
    <2>5. \A row \in Rows(calls) : row[1] = calls
      BY DEF Rows
    <2>6. Rows(calls) = Rows(calls)' /\ \A k \in CallId : Rows(k)' = Rows(k)
      BY <2>1, <1>3 DEF Rows, EndsWith, Finish
    <2>7. CASE r = "threw"
      <3>1. table' = table
        BY <1>3, <2>7 DEF EndsWith
      <3> QED BY <3>1, <2>3, <2>4, <2>6, <2>7 DEF RowInv
    <2>8. CASE r = "Success"
      <3>1. table' = table \cup Rows(calls)
        BY <1>3, <2>8 DEF EndsWith
      <3> QED BY <3>1, <2>1, <2>3, <2>4, <2>5, <2>6, <2>8 DEF RowInv
    <2>9. CASE r = "SQLException"
      <3>1. table' = table \/ table' = table \cup Rows(calls)
        BY <1>3, <2>9 DEF EndsWith
      <3> QED BY <3>1, <2>1, <2>3, <2>4, <2>5, <2>6, <2>9 DEF RowInv
    <2> QED BY <1>3, <2>7, <2>8, <2>9 DEF EndsWith
  <1> QED BY <1>1, <1>2, <1>3, StepKinds

LEMMA ConnInvStep ==
  ASSUME Typed, CallInv, ConnInv, [Next]_vars
  PROVE  ConnInv'
  <1>0. nullptr \notin Connection
    BY ConstantsNat DEF nullptr, Connection
  <1>1. ASSUME Connect PROVE ConnInv'
    <2>1. PICK c \in Connection : /\ connection[c] = "unused" /\ mConnect' = c
                                  /\ connection' = [connection EXCEPT ![c] = "open"]
      BY <1>1 DEF Connect
    <2>2. connection'[c] = "open"
          /\ \A d \in Connection : d # c => connection'[d] = connection[d]
      BY <2>1 DEF Typed
    <2>3. c # mConnect /\ c \notin abandoned
      BY <2>1 DEF ConnInv
    <2>4. abandoned' = abandoned \cup ({mConnect} \ {nullptr}) /\ mDriver' = TRUE
      BY <1>1 DEF Connect, Release
    <2> QED BY <1>0, <2>1, <2>2, <2>3, <2>4 DEF ConnInv
  <1>2. ASSUME ConnectFails \/ Close PROVE ConnInv'
    BY <1>0, <1>2 DEF ConnectFails, Close, Release, ConnInv
  <1>3. ASSUME Destroy PROVE ConnInv'
    <2>1. /\ alive' = FALSE /\ mConnect' = nullptr /\ abandoned' = abandoned
          /\ \A c \in Connection : c = mConnect => connection'[c] = "deleted"
          /\ \A c \in Connection : c # mConnect => connection'[c] = connection[c]
      BY <1>3 DEF Destroy
    <2>2. mConnect \notin abandoned \/ mConnect = nullptr
      BY DEF ConnInv
    <2> QED BY <1>0, <2>1, <2>2 DEF ConnInv
  <1>4. ASSUME NEW c \in Connection, connection[c] = "open",
               connection' = [connection EXCEPT ![c] = "dead"], UNCHANGED driverVars
        PROVE  ConnInv'
    BY <1>4 DEF Typed, ConnInv, driverVars
  <1>5. ASSUME UNCHANGED <<driverVars, connection>> PROVE ConnInv'
    BY <1>5 DEF ConnInv, driverVars
  <1>6. ASSUME ExecuteUnanswered PROVE ConnInv'
    <2>1. mConnect \in Connection
      BY <1>6, CallUnderWay DEF ExecuteUnanswered, CanExecute
    <2> QED BY <1>4, <1>6, <2>1 DEF ExecuteUnanswered, CanExecute
  <1>7. ASSUME NEW c \in Connection, SessionDies(c) PROVE ConnInv'
    BY <1>4, <1>7 DEF SessionDies
  <1>8. ASSUME inject \/ inject_bulk \/ Prepare \/ Bind \/ Execute \/ ExecuteFails \/ UNCHANGED vars
        PROVE  UNCHANGED <<driverVars, connection>>
    BY <1>8 DEF inject, inject_bulk, Start, Prepare, Bind, Execute, ExecuteFails, vars
  <1> QED BY <1>1, <1>2, <1>3, <1>5, <1>6, <1>7, <1>8 DEF Next

Inv == Typed /\ CallInv /\ RowInv /\ ConnInv

LEMMA InitInv == Init => Inv
  <1> SUFFICES ASSUME Init PROVE Inv
    OBVIOUS
  <1>1. \A n \in CallId : n > 0 /\ result[n] = "pending"
    BY DEF Init, CallId
  <1>2. CallInv
    BY <1>1 DEF Init, CallInv, CallId
  <1>3. RowInv
    BY <1>1 DEF Init, RowInv
  <1>4. ConnInv
    BY ConstantsNat DEF Init, ConnInv, Connection, nullptr
  <1> QED BY <1>2, <1>3, <1>4, InitType DEF Inv

LEMMA NextInv == Inv /\ [Next]_vars => Inv'
  BY NextType, CallInvStep, RowInvStep, ConnInvStep DEF Inv

LEMMA AlwaysInv == Spec => []Inv
  BY InitInv, NextInv, PTL DEF Spec

-----------------------------------------------------------------------------
(* The properties.                                                          *)

\* No prepared statement outlives the call that made it (SQL_inserter.h:49-97).
THEOREM NoStatementLeft == Spec => []StatementsFreed
  <1>1. Inv => StatementsFreed
    BY DEF Inv, CallInv, StatementsFreed
  <1> QED BY <1>1, AlwaysInv, PTL

\* Every connection object is held, was let go, or was deleted, and only one of
\* them (SQL_inserter.h:30-47, 125-133).
THEOREM ConnectionsAreAccounted == Spec => []ConnectionsAccounted
  <1>1. Inv => ConnectionsAccounted
    BY DEF Inv, ConnInv, ConnectionsAccounted
  <1> QED BY <1>1, AlwaysInv, PTL

\* What the answer of inject and inject_bulk says about the table is so, forever
\* after (SQL_inserter.h:49-97).
THEOREM AnswersTell == Spec => []AnswerTells
  <1>1. Inv => AnswerTells
    <2> SUFFICES ASSUME RowInv, NEW n \in CallId
                 PROVE  /\ result[n] = "Success" => Rows(n) \subseteq table
                        /\ result[n] \notin {"Success", "SQLException"} => Rows(n) \cap table = {}
      BY DEF Inv, AnswerTells
    <2>1. \A row \in Rows(n) : row[1] = n
      BY DEF Rows
    <2> QED BY <2>1 DEF RowInv
  <1> QED BY <1>1, AlwaysInv, PTL

-----------------------------------------------------------------------------
(* The refinement.                                                          *)

LEMMA InitMaps == Init => Table!Init
  BY DEF Init, Table!Init, CallId, Table!CallId

LEMMA StepMaps ==
  ASSUME Typed, CallInv, [Next]_vars
  PROVE  [Table!Next]_(Table!tableVars)
  <1>1. ASSUME Quiet \/ GoesOn PROVE UNCHANGED Table!tableVars
    BY <1>1 DEF Quiet, GoesOn, callVars, Table!tableVars
  <1>2. ASSUME Begins PROVE Table!Next
    <2>1. PICK s \in Payloads, n \in FieldCounts : Start(s, n)
      BY <1>2 DEF Begins
    <2>2. calls < MaxCalls /\ calls' = calls + 1 /\ at = "idle"
      BY <2>1 DEF Start, Idle
    <2>3. calls > 0 => calls \in CallId
      BY ConstantsNat DEF Typed, CallId
    <2>4. calls > 0 => result[calls] # "pending"
      BY <2>2, <2>3 DEF CallInv, CallId
    <2>5. items' = [items EXCEPT ![calls'] = s] /\ UNCHANGED table
      BY <2>1, StartAnswers
    <2>6. \E r \in {"pending", "No connection", "Nothing to insert"} :
            result' = [result EXCEPT ![calls'] = r]
      BY <2>1, StartAnswers
    <2>7. Table!Call(s)
      BY <2>2, <2>4, <2>5, <2>6 DEF Table!Call
    <2>8. s \in Table!Payloads
      BY DEF Payloads, Table!Payloads
    <2> QED BY <2>7, <2>8 DEF Table!Next
  <1>3. ASSUME NEW r \in Outcome \ {"pending"}, EndsWith(r) PROVE Table!Next
    <2>1. calls > 0 /\ result[calls] = "pending"
      BY <1>3 DEF EndsWith, CallInv
    <2>2. Table!Answer(r)
      BY <1>3, <2>1 DEF EndsWith, Finish, Table!Answer
    <2>3. Rows(calls) = Table!Rows(calls)
      BY DEF Rows, Table!Rows
    <2>4. CASE r = "Success"
      <3>1. table' = table \cup Rows(calls)
        BY <1>3, <2>4 DEF EndsWith
      <3> QED BY <3>1, <2>2, <2>3, <2>4 DEF Table!Stored, Table!Next
    <2>5. CASE r = "threw"
      <3>1. UNCHANGED table
        BY <1>3, <2>5 DEF EndsWith
      <3> QED BY <3>1, <2>2, <2>5 DEF Table!Threw, Table!Next
    <2>6. CASE r = "SQLException"
      <3>1. UNCHANGED table \/ table' = table \cup Rows(calls)
        BY <1>3, <2>6 DEF EndsWith
      <3> QED BY <3>1, <2>2, <2>3, <2>6 DEF Table!InDoubt, Table!Next
    <2> QED BY <1>3, <2>4, <2>5, <2>6 DEF EndsWith
  <1> QED BY <1>1, <1>2, <1>3, StepKinds

\* To its caller, an SQLInserter is a table that takes the payloads of a call all
\* at once or not at all, at most once (SQL_inserter.h:49-97): the lemmas map
\* the initial states, and every step to a step of BulkTable or to none.
THEOREM ImplementsTable == Spec => ImplementsBulkTable
  <1>1. Inv /\ [Next]_vars => [Table!Next]_(Table!tableVars)
    BY StepMaps DEF Inv
  <1> QED BY <1>1, InitMaps, AlwaysInv, PTL DEF Spec, ImplementsBulkTable, Table!Spec

-----------------------------------------------------------------------------
(* The text of a statement, said by position: what each helper of          *)
(* InsertStatement makes of its arguments.                                  *)

Token == {"INSERT", "name", "(", "comma", ")", "VALUES", "blank", "?", "semicolon"}

LEMMA AreTokens ==
  /\ "INSERT" \in Token /\ "name" \in Token /\ "(" \in Token /\ "comma" \in Token
  /\ ")" \in Token /\ "VALUES" \in Token /\ "blank" \in Token /\ "?" \in Token /\ "semicolon" \in Token
  BY DEF Token

\* A text of n tokens.
Text(s, n) == s \in Seq(Token) /\ Len(s) = n

\* u is s and then t, m and n tokens long.
Joins(u, s, m, t, n) ==
  /\ Text(u, m + n)
  /\ \A i \in 1 .. m : u[i] = s[i]
  /\ \A i \in 1 .. n : u[m + i] = t[i]

\* u is s, of m tokens, with c as its last.
Ends(u, s, m, c) ==
  /\ Text(u, m)
  /\ \A i \in 1 .. m : u[i] = IF i = m THEN c ELSE s[i]

\* r is s, of L tokens, n times.
Repeats(r, s, L, n) ==
  /\ Text(r, n * L)
  /\ \A t \in 0 .. n - 1, j \in 1 .. L : r[t * L + j] = s[j]

\* r is the tokens a and b, n times.
Pairs(r, a, b, n) ==
  /\ Text(r, 2 * n)
  /\ \A k \in 1 .. n : r[2 * k - 1] = a /\ r[2 * k] = b

LEMMA RowMod ==
  ASSUME NEW L \in Nat \ {0}, NEW t \in Nat, NEW i \in 0 .. L - 1
  PROVE  (t * L + i) % L = i
  OBVIOUS

LEMMA RowDiv ==
  ASSUME NEW L \in Nat \ {0}, NEW a \in Nat
  PROVE  \E t \in Nat : a = t * L + (a % L)
  <1>1. a = (a \div L) * L + (a % L)
    OBVIOUS
  <1>2. a \div L \in Nat
    OBVIOUS
  <1> QED BY <1>1, <1>2

LEMMA RowBound ==
  ASSUME NEW L \in Nat \ {0}, NEW n \in Nat, NEW t \in 0 .. n - 1, NEW j \in 1 .. L
  PROVE  t * L + j \in 1 .. n * L
  <1>1. t \in Nat /\ t + 1 <= n /\ t * L \in Nat /\ n * L \in Nat
    OBVIOUS
  <1>2. t * L + L <= n * L
    BY <1>1
  <1> QED BY <1>1, <1>2

LEMMA RepeatIs ==
  ASSUME NEW s, NEW L \in Nat \ {0}, Text(s, L), NEW n \in Nat
  PROVE  Repeats(Repeat(s, n), s, L, n)
  <1>1. s \in Seq(Token) /\ Len(s) = L
    BY DEF Text
  <1>2. PICK r : r = Repeat(s, n)
    OBVIOUS
  <1>3. PICK m : m = n * L /\ m \in Nat
    OBVIOUS
  <1>4. \A k \in 1 .. m : ((k - 1) % L) + 1 \in 1 .. L
    BY <1>3
  <1>5. r = [k \in 1 .. m |-> s[((k - 1) % L) + 1]]
    BY <1>1, <1>2, <1>3 DEF Repeat
  <1>6. \A k \in 1 .. m : s[((k - 1) % L) + 1] \in Token
    BY <1>1, <1>4, ElementOfSeq
  <1>7. r \in [1 .. m -> Token]
    BY <1>5, <1>6
  <1>8. r \in Seq(Token) /\ Len(r) = m
    BY <1>7, <1>3
  <1>9. ASSUME NEW t \in 0 .. n - 1, NEW j \in 1 .. L
        PROVE  r[t * L + j] = s[j]
    <2>1. t * L + j \in 1 .. n * L
      BY RowBound
    <2>2. PICK i : i = j - 1
      OBVIOUS
    <2>3. i \in 0 .. L - 1 /\ t \in Nat
      BY <2>2
    <2>4. (t * L + i) % L = i
      BY <2>3, RowMod
    <2>5. PICK k : k = t * L + j
      OBVIOUS
    <2>6. k \in 1 .. m /\ k - 1 = t * L + i
      BY <2>1, <2>2, <2>5, <1>3
    <2>7. ((k - 1) % L) + 1 = j
      BY <2>2, <2>4, <2>6
    <2> QED BY <2>5, <2>6, <2>7, <1>5
  <1>10. Text(r, n * L)
    BY <1>3, <1>8 DEF Text
  <1> QED BY <1>2, <1>9, <1>10 DEF Repeats

LEMMA JoinIs ==
  ASSUME NEW s, NEW m \in Nat, Text(s, m), NEW t, NEW n \in Nat, Text(t, n)
  PROVE  Joins(s \o t, s, m, t, n)
  <1>1. s \in Seq(Token) /\ Len(s) = m /\ t \in Seq(Token) /\ Len(t) = n
    BY DEF Text
  <1>2. s \o t \in Seq(Token) /\ Len(s \o t) = m + n
    BY <1>1
  <1>3. \A i \in 1 .. m : (s \o t)[i] = s[i]
    BY <1>1
  <1>4. \A i \in 1 .. n : (s \o t)[m + i] = t[i]
    BY <1>1
  <1> QED BY <1>2, <1>3, <1>4 DEF Joins, Text

LEMMA SetBackIs ==
  ASSUME NEW s, NEW m \in Nat \ {0}, Text(s, m), NEW c \in Token
  PROVE  Ends(SetBack(s, c), s, m, c)
  <1>1. s \in Seq(Token) /\ Len(s) = m
    BY DEF Text
  <1>2. PICK u : u = SetBack(s, c)
    OBVIOUS
  <1>3. u = [s EXCEPT ![m] = c]
    BY <1>1, <1>2 DEF SetBack
  <1>4. u \in Seq(Token) /\ Len(u) = m
    BY <1>1, <1>3
  <1>5. \A i \in 1 .. m : u[i] = IF i = m THEN c ELSE s[i]
    BY <1>1, <1>3
  <1> QED BY <1>2, <1>4, <1>5 DEF Ends, Text

\* n pairs of tokens.
LEMMA PairsAre ==
  ASSUME NEW a \in Token, NEW b \in Token, NEW n \in Nat
  PROVE  Pairs(Repeat(<< a, b >>, n), a, b, n)
  <1>1. PICK s : s = << a, b >>
    OBVIOUS
  <1>2. s \in Seq(Token) /\ Len(s) = 2 /\ s[1] = a /\ s[2] = b
    BY <1>1
  <1>3. Text(s, 2)
    BY <1>2 DEF Text
  <1>4. PICK r : r = Repeat(s, n)
    OBVIOUS
  <1>5. Repeats(r, s, 2, n)
    BY <1>3, <1>4, RepeatIs
  <1>6. ASSUME NEW k \in 1 .. n
        PROVE  r[2 * k - 1] = a /\ r[2 * k] = b
    <2>1. PICK t : t = k - 1 /\ t \in 0 .. n - 1
      OBVIOUS
    <2>2. r[t * 2 + 1] = s[1] /\ r[t * 2 + 2] = s[2]
      <3>1. \A j \in 1 .. 2 : r[t * 2 + j] = s[j]
        BY <1>5, <2>1 DEF Repeats
      <3>2. 1 \in 1 .. 2 /\ 2 \in 1 .. 2
        OBVIOUS
      <3> QED BY <3>1, <3>2
    <2>3. t * 2 + 1 = 2 * k - 1 /\ t * 2 + 2 = 2 * k
      BY <2>1
    <2> QED BY <2>2, <2>3, <1>2
  <1>7. n * 2 = 2 * n
    OBVIOUS
  <1>8. Text(r, 2 * n)
    BY <1>5, <1>7 DEF Repeats
  <1> QED BY <1>1, <1>4, <1>6, <1>8 DEF Pairs

-----------------------------------------------------------------------------
(* The text of build_sql_insert_query, for f columns and n rows.            *)

FieldText(u, f) ==
  /\ Text(u, 3 + 2 * f)
  /\ u[1] = "INSERT" /\ u[2] = "name" /\ u[3] = "("
  /\ \A k \in 1 .. f : /\ u[2 + 2 * k] = "name"
                       /\ u[3 + 2 * k] = IF k = f THEN ")" ELSE "comma"

RowText(u, f) ==
  /\ Text(u, 2 * f + 2)
  /\ u[1] = "(" /\ u[2 * f + 2] = "comma"
  /\ \A k \in 1 .. f : /\ u[2 * k] = "?"
                       /\ u[2 * k + 1] = IF k = f THEN ")" ELSE "comma"

LEMMA FieldListIs == ASSUME NEW f \in Nat \ {0} PROVE FieldText(FieldList(f), f)
  <1>1. PICK r : r = Repeat(<< "name", "comma" >>, f)
    OBVIOUS
  <1>2. Pairs(r, "name", "comma", f)
    BY <1>1, PairsAre, AreTokens
  <1>3. PICK h : h = << "INSERT", "name", "(" >>
    OBVIOUS
  <1>4. h \in Seq(Token) /\ Len(h) = 3 /\ h[1] = "INSERT" /\ h[2] = "name" /\ h[3] = "("
    BY <1>3, AreTokens
  <1>5. PICK s : s = h \o r
    OBVIOUS
  <1>6. Text(h, 3) /\ Text(r, 2 * f) /\ 2 * f \in Nat
    BY <1>2, <1>4 DEF Text, Pairs
  <1>7. Joins(s, h, 3, r, 2 * f)
    BY <1>5, <1>6, JoinIs
  <1>8. PICK u : u = SetBack(s, ")")
    OBVIOUS
  <1>9. Ends(u, s, 3 + 2 * f, ")")
    <2>1. Text(s, 3 + 2 * f) /\ 3 + 2 * f \in Nat \ {0}
      BY <1>7 DEF Joins
    <2> QED BY <2>1, <1>8, SetBackIs, AreTokens
  <1>10. ASSUME NEW k \in 1 .. f
         PROVE  u[2 + 2 * k] = "name" /\ u[3 + 2 * k] = IF k = f THEN ")" ELSE "comma"
    <2>1. r[2 * k - 1] = "name" /\ r[2 * k] = "comma"
      BY <1>2 DEF Pairs
    <2>2. 2 * k - 1 \in 1 .. 2 * f /\ 2 * k \in 1 .. 2 * f /\ 3 + (2 * k - 1) = 2 + 2 * k
      OBVIOUS
    <2>3. s[2 + 2 * k] = "name" /\ s[3 + 2 * k] = "comma"
      BY <1>7, <2>1, <2>2 DEF Joins
    <2>4. /\ 2 + 2 * k \in 1 .. 3 + 2 * f /\ 3 + 2 * k \in 1 .. 3 + 2 * f
          /\ 2 + 2 * k # 3 + 2 * f /\ (3 + 2 * k = 3 + 2 * f <=> k = f)
      OBVIOUS
    <2> QED BY <1>9, <2>3, <2>4 DEF Ends
  <1>11. u[1] = "INSERT" /\ u[2] = "name" /\ u[3] = "("
    <2>1. s[1] = h[1] /\ s[2] = h[2] /\ s[3] = h[3]
      BY <1>7 DEF Joins
    <2>2. 1 # 3 + 2 * f /\ 2 # 3 + 2 * f /\ 3 # 3 + 2 * f /\ 3 <= 3 + 2 * f
      OBVIOUS
    <2> QED BY <1>4, <1>9, <2>1, <2>2 DEF Ends
  <1>12. u = FieldList(f)
    BY <1>1, <1>3, <1>5, <1>8 DEF FieldList
  <1>13. Text(u, 3 + 2 * f)
    BY <1>9 DEF Ends
  <1> QED BY <1>10, <1>11, <1>12, <1>13 DEF FieldText

LEMMA RowIs == ASSUME NEW f \in Nat \ {0} PROVE RowText(Row(f), f)
  <1>1. PICK r : r = Repeat(<< "?", "comma" >>, f)
    OBVIOUS
  <1>2. Pairs(r, "?", "comma", f)
    BY <1>1, PairsAre, AreTokens
  <1>3. PICK h : h = << "(" >>
    OBVIOUS
  <1>4. h \in Seq(Token) /\ Len(h) = 1 /\ h[1] = "("
    BY <1>3, AreTokens
  <1>5. PICK s : s = h \o r
    OBVIOUS
  <1>6. Text(h, 1) /\ Text(r, 2 * f) /\ 2 * f \in Nat
    BY <1>2, <1>4 DEF Text, Pairs
  <1>7. Joins(s, h, 1, r, 2 * f)
    BY <1>5, <1>6, JoinIs
  <1>8. PICK u : u = SetBack(s, ")")
    OBVIOUS
  <1>9. Ends(u, s, 1 + 2 * f, ")")
    <2>1. Text(s, 1 + 2 * f) /\ 1 + 2 * f \in Nat \ {0}
      BY <1>7 DEF Joins
    <2> QED BY <2>1, <1>8, SetBackIs, AreTokens
  <1>10. PICK c : c = << "comma" >>
    OBVIOUS
  <1>11. c \in Seq(Token) /\ Len(c) = 1 /\ c[1] = "comma"
    BY <1>10, AreTokens
  <1>12. PICK w : w = u \o c
    OBVIOUS
  <1>13. Text(u, 1 + 2 * f) /\ Text(c, 1) /\ 1 + 2 * f \in Nat
    BY <1>9, <1>11 DEF Text, Ends
  <1>14. Joins(w, u, 1 + 2 * f, c, 1)
    BY <1>12, <1>13, JoinIs
  <1>15. ASSUME NEW k \in 1 .. f
         PROVE  w[2 * k] = "?" /\ w[2 * k + 1] = IF k = f THEN ")" ELSE "comma"
    <2>1. r[2 * k - 1] = "?" /\ r[2 * k] = "comma"
      BY <1>2 DEF Pairs
    <2>2. /\ 2 * k - 1 \in 1 .. 2 * f /\ 2 * k \in 1 .. 2 * f
          /\ 1 + (2 * k - 1) = 2 * k /\ 1 + 2 * k = 2 * k + 1
      OBVIOUS
    <2>3. s[2 * k] = "?" /\ s[2 * k + 1] = "comma"
      BY <1>7, <2>1, <2>2 DEF Joins
    <2>4. /\ 2 * k \in 1 .. 1 + 2 * f /\ 2 * k + 1 \in 1 .. 1 + 2 * f
          /\ 2 * k # 1 + 2 * f /\ (2 * k + 1 = 1 + 2 * f <=> k = f)
      OBVIOUS
    <2>5. u[2 * k] = "?" /\ u[2 * k + 1] = IF k = f THEN ")" ELSE "comma"
      BY <1>9, <2>3, <2>4 DEF Ends
    <2> QED BY <1>14, <2>4, <2>5 DEF Joins
  <1>16. w[1] = "("
    <2>1. s[1] = "("
      BY <1>4, <1>7 DEF Joins
    <2>2. 1 \in 1 .. 1 + 2 * f /\ 1 # 1 + 2 * f
      OBVIOUS
    <2>3. u[1] = "("
      BY <1>9, <2>1, <2>2 DEF Ends
    <2> QED BY <1>14, <2>2, <2>3 DEF Joins
  <1>17. w[2 * f + 2] = "comma"
    <2>1. (1 + 2 * f) + 1 = 2 * f + 2 /\ 1 \in 1 .. 1
      OBVIOUS
    <2>2. w[(1 + 2 * f) + 1] = c[1]
      BY <1>14, <2>1 DEF Joins
    <2> QED BY <1>11, <2>1, <2>2
  <1>18. w = Row(f)
    BY <1>1, <1>3, <1>5, <1>8, <1>10, <1>12 DEF Row
  <1>19. Text(w, 2 * f + 2)
    <2>1. (1 + 2 * f) + 1 = 2 * f + 2
      OBVIOUS
    <2> QED BY <1>14, <2>1 DEF Joins
  <1> QED BY <1>15, <1>16, <1>17, <1>18, <1>19 DEF RowText

\* The row of index t, from 0, begins behind position RowAt(f, t).
RowAt(f, t) == 5 + 2 * f + t * (2 * f + 2)

QueryText(sql, f, n) ==
  /\ Text(sql, RowAt(f, n))
  /\ sql[1] = "INSERT" /\ sql[2] = "name" /\ sql[3] = "("
  /\ \A k \in 1 .. f : /\ sql[2 + 2 * k] = "name"
                       /\ sql[3 + 2 * k] = IF k = f THEN ")" ELSE "comma"
  /\ sql[4 + 2 * f] = "VALUES" /\ sql[5 + 2 * f] = "blank"
  /\ \A t \in 0 .. n - 1 :
       /\ sql[RowAt(f, t) + 1] = "("
       /\ \A k \in 1 .. f : /\ sql[RowAt(f, t) + 2 * k] = "?"
                            /\ sql[RowAt(f, t) + 2 * k + 1] = IF k = f THEN ")" ELSE "comma"
       /\ sql[RowAt(f, t) + 2 * f + 2] = IF t = n - 1 THEN "semicolon" ELSE "comma"

\* Where the rows are.
LEMMA RowsApart ==
  ASSUME NEW f \in Nat
  PROVE  /\ RowAt(f, 0) = 5 + 2 * f
         /\ \A t \in Nat : /\ RowAt(f, t) \in Nat /\ RowAt(f, t) >= 5 + 2 * f
                           /\ RowAt(f, t + 1) = RowAt(f, t) + 2 * f + 2
         /\ \A t, u \in Nat : t < u => RowAt(f, t) + 2 * f + 2 <= RowAt(f, u)
  <1>1. PICK L : L = 2 * f + 2 /\ L \in Nat \ {0}
    OBVIOUS
  <1>2. \A t : RowAt(f, t) = 5 + 2 * f + t * L
    BY <1>1 DEF RowAt
  <1>3. 0 * L = 0
    BY <1>1
  <1>4. ASSUME NEW t \in Nat PROVE t * L \in Nat /\ (t + 1) * L = t * L + L
    BY <1>1
  <1>5. ASSUME NEW t \in Nat, NEW u \in Nat, t < u PROVE t * L + L <= u * L
    BY <1>1, <1>5
  <1>6. ASSUME NEW t \in Nat
        PROVE  /\ RowAt(f, t) \in Nat /\ RowAt(f, t) >= 5 + 2 * f
               /\ RowAt(f, t + 1) = RowAt(f, t) + 2 * f + 2
    <2>1. PICK a : a = t * L /\ a \in Nat
      BY <1>4
    <2>2. RowAt(f, t) = 5 + 2 * f + a /\ RowAt(f, t + 1) = 5 + 2 * f + (a + L)
      BY <1>2, <1>4, <2>1
    <2> QED BY <1>1, <2>1, <2>2
  <1>7. ASSUME NEW t \in Nat, NEW u \in Nat, t < u
        PROVE  RowAt(f, t) + 2 * f + 2 <= RowAt(f, u)
    <2>1. PICK a, b : a = t * L /\ a \in Nat /\ b = u * L /\ b \in Nat
      BY <1>4
    <2>2. a + L <= b
      BY <1>5, <1>7, <2>1
    <2>3. RowAt(f, t) = 5 + 2 * f + a /\ RowAt(f, u) = 5 + 2 * f + b
      BY <1>2, <2>1
    <2> QED BY <1>1, <2>1, <2>2, <2>3
  <1>8. RowAt(f, 0) = 5 + 2 * f
    BY <1>2, <1>3
  <1> QED BY <1>6, <1>7, <1>8

LEMMA RowAtNat == ASSUME NEW f \in Nat, NEW t \in Nat PROVE RowAt(f, t) \in Nat
  BY RowsApart

\* Every position behind the field list and VALUES is in a row.
LEMMA RowOf ==
  ASSUME NEW f \in Nat, NEW n \in Nat, NEW p \in Nat, p > 5 + 2 * f, p <= RowAt(f, n)
  PROVE  \E t \in 0 .. n - 1, j \in 1 .. 2 * f + 2 : p = RowAt(f, t) + j
  <1>1. PICK L : L = 2 * f + 2 /\ L \in Nat \ {0}
    OBVIOUS
  <1>2. PICK a : a = p - (5 + 2 * f) - 1 /\ a \in Nat
    OBVIOUS
  <1>3. PICK t \in Nat : a = t * L + (a % L)
    BY <1>1, <1>2, RowDiv
  <1>4. a % L \in 0 .. L - 1
    BY <1>1, <1>2
  <1>5. PICK j : j = (a % L) + 1 /\ j \in 1 .. L
    BY <1>1, <1>4
  <1>6. PICK b : b = t * L /\ b \in Nat
    BY <1>1
  <1>7. RowAt(f, t) = 5 + 2 * f + b
    BY <1>1, <1>6 DEF RowAt
  <1>8. p = RowAt(f, t) + j
    <2>1. a = b + (j - 1)
      BY <1>1, <1>3, <1>5, <1>6, <1>4
    <2> QED BY <1>1, <1>2, <1>5, <1>6, <1>7, <2>1
  <1>9. t < n
    <2>1. CASE n < t
      <3>1. RowAt(f, n) + 2 * f + 2 <= RowAt(f, t) /\ RowAt(f, n) \in Nat
        BY <2>1, RowsApart
      <3> QED BY <1>1, <1>5, <1>6, <1>7, <1>8, <3>1
    <2>2. CASE n = t
      BY <1>1, <1>5, <1>6, <1>7, <1>8, <2>2
    <2> QED BY <2>1, <2>2
  <1> QED BY <1>1, <1>5, <1>8, <1>9

LEMMA QueryIs ==
  ASSUME NEW f \in Nat \ {0}, NEW n \in Nat \ {0}
  PROVE  QueryText(build_sql_insert_query(f, n), f, n)
  <1>1. PICK a : a = FieldList(f) /\ FieldText(a, f)
    BY FieldListIs
  <1>2. PICK b : b = << "VALUES", "blank" >>
    OBVIOUS
  <1>3. b \in Seq(Token) /\ Len(b) = 2 /\ b[1] = "VALUES" /\ b[2] = "blank"
    BY <1>2, AreTokens
  <1>4. PICK w : w = Row(f) /\ RowText(w, f)
    BY RowIs
  <1>5. PICK L : L = 2 * f + 2 /\ L \in Nat \ {0}
    OBVIOUS
  <1>6. PICK r : r = Repeat(w, n)
    OBVIOUS
  <1>7. Repeats(r, w, L, n)
    <2>1. Text(w, L)
      BY <1>4, <1>5 DEF RowText
    <2> QED BY <2>1, <1>5, <1>6, RepeatIs
  <1>8. PICK h : h = a \o b
    OBVIOUS
  <1>9. Joins(h, a, 3 + 2 * f, b, 2)
    <2>1. Text(a, 3 + 2 * f) /\ Text(b, 2) /\ 3 + 2 * f \in Nat
      BY <1>1, <1>3 DEF Text, FieldText
    <2> QED BY <2>1, <1>8, JoinIs
  <1>10. Text(h, 5 + 2 * f)
    <2>1. (3 + 2 * f) + 2 = 5 + 2 * f
      OBVIOUS
    <2> QED BY <2>1, <1>9 DEF Joins
  <1>11. PICK m : m = n * L /\ m \in Nat \ {0}
    BY <1>5
  <1>12. PICK s : s = h \o r
    OBVIOUS
  <1>13. Joins(s, h, 5 + 2 * f, r, m)
    <2>1. Text(r, m) /\ 5 + 2 * f \in Nat
      BY <1>7, <1>11 DEF Repeats
    <2> QED BY <2>1, <1>10, <1>11, <1>12, JoinIs
  <1>14. RowAt(f, n) = 5 + 2 * f + m
    BY <1>5, <1>11 DEF RowAt
  <1>15. PICK sql : sql = SetBack(s, "semicolon")
    OBVIOUS
  <1>16. Ends(sql, s, RowAt(f, n), "semicolon")
    <2>1. Text(s, RowAt(f, n)) /\ RowAt(f, n) \in Nat \ {0}
      BY <1>11, <1>13, <1>14 DEF Joins
    <2> QED BY <2>1, <1>15, SetBackIs, AreTokens
  <1>17. sql = build_sql_insert_query(f, n)
    BY <1>1, <1>2, <1>4, <1>6, <1>8, <1>12, <1>15 DEF build_sql_insert_query
  <1>18. ASSUME NEW i \in 1 .. 5 + 2 * f
         PROVE  sql[i] = h[i]
    <2>1. s[i] = h[i]
      BY <1>13 DEF Joins
    <2>2. i \in 1 .. RowAt(f, n) /\ i # RowAt(f, n)
      BY <1>11, <1>14
    <2> QED BY <1>16, <2>1, <2>2 DEF Ends
  <1>19. ASSUME NEW i \in 1 .. 3 + 2 * f
         PROVE  sql[i] = a[i]
    <2>1. h[i] = a[i]
      BY <1>9 DEF Joins
    <2> QED BY <1>18, <2>1
  <1>20. sql[1] = "INSERT" /\ sql[2] = "name" /\ sql[3] = "("
    <2>1. 1 \in 1 .. 3 + 2 * f /\ 2 \in 1 .. 3 + 2 * f /\ 3 \in 1 .. 3 + 2 * f
      OBVIOUS
    <2> QED BY <1>1, <1>19, <2>1 DEF FieldText
  <1>21. ASSUME NEW k \in 1 .. f
         PROVE  sql[2 + 2 * k] = "name" /\ sql[3 + 2 * k] = IF k = f THEN ")" ELSE "comma"
    <2>1. 2 + 2 * k \in 1 .. 3 + 2 * f /\ 3 + 2 * k \in 1 .. 3 + 2 * f
      OBVIOUS
    <2>2. sql[2 + 2 * k] = a[2 + 2 * k] /\ sql[3 + 2 * k] = a[3 + 2 * k]
      BY <1>19, <2>1
    <2> QED BY <1>1, <2>2 DEF FieldText
  <1>22. sql[4 + 2 * f] = "VALUES" /\ sql[5 + 2 * f] = "blank"
    <2>1. h[(3 + 2 * f) + 1] = b[1] /\ h[(3 + 2 * f) + 2] = b[2]
      BY <1>9 DEF Joins
    <2>2. /\ (3 + 2 * f) + 1 = 4 + 2 * f /\ (3 + 2 * f) + 2 = 5 + 2 * f
          /\ 4 + 2 * f \in 1 .. 5 + 2 * f /\ 5 + 2 * f \in 1 .. 5 + 2 * f
      OBVIOUS
    <2> QED BY <1>3, <1>18, <2>1, <2>2
  <1>23. ASSUME NEW t \in 0 .. n - 1, NEW j \in 1 .. L
         PROVE  /\ RowAt(f, t) + j \in 1 .. RowAt(f, n)
                /\ RowAt(f, t) + j = RowAt(f, n) <=> t = n - 1 /\ j = L
                /\ RowAt(f, t) + j # RowAt(f, n) => sql[RowAt(f, t) + j] = w[j]
    <2>1. PICK c : c = t * L /\ c \in Nat
      BY <1>5
    <2>2. RowAt(f, t) = 5 + 2 * f + c
      BY <1>5, <2>1 DEF RowAt
    <2>3. c + j \in 1 .. m
      <3>1. t * L + j \in 1 .. n * L
        BY <1>5, RowBound
      <3> QED BY <3>1, <1>11, <2>1
    <2>4. r[c + j] = w[j]
      BY <1>7, <2>1 DEF Repeats
    <2>5. s[(5 + 2 * f) + (c + j)] = r[c + j]
      BY <1>13, <2>3 DEF Joins
    <2>6. RowAt(f, t) + j = (5 + 2 * f) + (c + j)
      BY <2>1, <2>2, <1>5
    <2>7. RowAt(f, t) + j \in 1 .. RowAt(f, n)
      BY <1>14, <2>3, <2>6, <1>11
    <2>8. RowAt(f, t) + j = RowAt(f, n) <=> t = n - 1 /\ j = L
      <3>1. CASE t = n - 1
        <4>1. t \in Nat /\ t + 1 = n
          BY <3>1
        <4>2. RowAt(f, n) = RowAt(f, t) + 2 * f + 2 /\ RowAt(f, t) \in Nat
          BY <4>1, RowsApart
        <4> QED BY <3>1, <4>2, <1>5
      <3>2. CASE t # n - 1
        <4>1. t + 1 \in Nat /\ t \in Nat /\ t + 1 < n
          BY <3>2
        <4>2. RowAt(f, t + 1) + 2 * f + 2 <= RowAt(f, n) /\ RowAt(f, t + 1) = RowAt(f, t) + 2 * f + 2
              /\ RowAt(f, t) \in Nat /\ RowAt(f, n) \in Nat
          BY <4>1, RowsApart
        <4> QED BY <3>2, <4>2, <1>5
      <3> QED BY <3>1, <3>2
    <2>9. ASSUME RowAt(f, t) + j # RowAt(f, n) PROVE sql[RowAt(f, t) + j] = w[j]
      BY <1>16, <2>4, <2>5, <2>6, <2>7, <2>9 DEF Ends
    <2> QED BY <2>7, <2>8, <2>9
  <1>24. ASSUME NEW t \in 0 .. n - 1
         PROVE  /\ sql[RowAt(f, t) + 1] = "("
                /\ \A k \in 1 .. f : /\ sql[RowAt(f, t) + 2 * k] = "?"
                                     /\ sql[RowAt(f, t) + 2 * k + 1] = IF k = f THEN ")" ELSE "comma"
                /\ sql[RowAt(f, t) + 2 * f + 2] = IF t = n - 1 THEN "semicolon" ELSE "comma"
    <2>0. RowAt(f, t) \in Nat
      BY RowsApart
    <2>1. \A j \in 1 .. 2 * f + 1 : sql[RowAt(f, t) + j] = w[j]
      <3>1. \A j \in 1 .. 2 * f + 1 : j \in 1 .. L /\ j # L
        BY <1>5
      <3> QED BY <1>23, <3>1
    <2>2. sql[RowAt(f, t) + 1] = "("
      BY <1>4, <2>1 DEF RowText
    <2>3. ASSUME NEW k \in 1 .. f
          PROVE  /\ sql[RowAt(f, t) + 2 * k] = "?"
                 /\ sql[RowAt(f, t) + 2 * k + 1] = IF k = f THEN ")" ELSE "comma"
      <3>1. 2 * k \in 1 .. 2 * f + 1 /\ 2 * k + 1 \in 1 .. 2 * f + 1
        OBVIOUS
      <3>2. sql[RowAt(f, t) + 2 * k] = w[2 * k] /\ sql[RowAt(f, t) + (2 * k + 1)] = w[2 * k + 1]
        BY <2>1, <3>1
      <3>3. RowAt(f, t) + (2 * k + 1) = RowAt(f, t) + 2 * k + 1
        BY <2>0
      <3> QED BY <1>4, <3>2, <3>3 DEF RowText
    <2>4. sql[RowAt(f, t) + L] = IF t = n - 1 THEN "semicolon" ELSE "comma"
      <3>1. L \in 1 .. L
        BY <1>5
      <3>2. /\ RowAt(f, t) + L \in 1 .. RowAt(f, n)
            /\ RowAt(f, t) + L = RowAt(f, n) <=> t = n - 1
            /\ RowAt(f, t) + L # RowAt(f, n) => sql[RowAt(f, t) + L] = w[L]
        BY <1>23, <3>1
      <3>3. w[L] = "comma"
        BY <1>4, <1>5 DEF RowText
      <3> QED BY <1>16, <3>2, <3>3 DEF Ends
    <2>5. RowAt(f, t) + L = RowAt(f, t) + 2 * f + 2
      BY <1>5, <2>0
    <2> QED BY <2>2, <2>3, <2>4, <2>5
  <1>25. Text(sql, RowAt(f, n))
    BY <1>16 DEF Ends
  <1> QED BY <1>17, <1>20, <1>21, <1>22, <1>24, <1>25 DEF QueryText

-----------------------------------------------------------------------------
(* Its tokens, neighbours and counts.                                       *)

LEMMA Halves == ASSUME NEW j \in Nat PROVE \E k \in Nat : j = 2 * k \/ j = 2 * k + 1
  <1>1. j \div 2 \in Nat
    OBVIOUS
  <1>2. j = 2 * (j \div 2) \/ j = 2 * (j \div 2) + 1
    OBVIOUS
  <1> QED BY <1>1, <1>2

\* Which token is where.
InFields(sql, f, p) ==
  \/ p = 1 /\ sql[p] = "INSERT"
  \/ p = 2 /\ sql[p] = "name"
  \/ p = 3 /\ sql[p] = "("
  \/ \E k \in 1 .. f : p = 2 + 2 * k /\ sql[p] = "name"
  \/ \E k \in 1 .. f - 1 : p = 3 + 2 * k /\ sql[p] = "comma"
  \/ p = 3 + 2 * f /\ sql[p] = ")"
  \/ p = 4 + 2 * f /\ sql[p] = "VALUES"
  \/ p = 5 + 2 * f /\ sql[p] = "blank"
InRow(sql, f, n, t, p) ==
  \/ p = RowAt(f, t) + 1 /\ sql[p] = "("
  \/ \E k \in 1 .. f : p = RowAt(f, t) + 2 * k /\ sql[p] = "?"
  \/ \E k \in 1 .. f - 1 : p = RowAt(f, t) + 2 * k + 1 /\ sql[p] = "comma"
  \/ p = RowAt(f, t) + 2 * f + 1 /\ sql[p] = ")"
  \/ t < n - 1 /\ p = RowAt(f, t) + 2 * f + 2 /\ sql[p] = "comma"
  \/ t = n - 1 /\ p = RowAt(f, n) /\ sql[p] = "semicolon"

LEMMA TokenAt ==
  ASSUME NEW f \in Nat \ {0}, NEW n \in Nat \ {0}, NEW sql, QueryText(sql, f, n),
         NEW p \in 1 .. RowAt(f, n)
  PROVE  InFields(sql, f, p) \/ \E t \in 0 .. n - 1 : InRow(sql, f, n, t, p)
  <1>0. RowAt(f, n) \in Nat /\ p \in Nat /\ p >= 1
    BY RowsApart
  <1>1. CASE p <= 5 + 2 * f
    <2>1. PICK k \in Nat : p = 2 * k \/ p = 2 * k + 1
      BY <1>0, Halves
    <2>2. CASE p \in 1 .. 3 \/ p = 4 + 2 * f \/ p = 5 + 2 * f
      BY <2>2 DEF QueryText, InFields
    <2>3. CASE ~(p \in 1 .. 3 \/ p = 4 + 2 * f \/ p = 5 + 2 * f)
      <3>1. PICK l : l = k - 1 /\ l \in 1 .. f /\ (p = 2 + 2 * l \/ p = 3 + 2 * l)
        BY <1>0, <1>1, <2>1, <2>3
      <3>2. CASE p = 2 + 2 * l
        BY <3>1, <3>2 DEF QueryText, InFields
      <3>3. CASE p = 3 + 2 * l
        <4>1. sql[p] = IF l = f THEN ")" ELSE "comma"
          BY <3>1, <3>3 DEF QueryText
        <4>2. l # f => l \in 1 .. f - 1
          BY <3>1
        <4> QED BY <3>1, <3>3, <4>1, <4>2 DEF InFields
      <3> QED BY <3>1, <3>2, <3>3
    <2> QED BY <2>2, <2>3
  <1>2. CASE p > 5 + 2 * f
    <2>1. PICK t \in 0 .. n - 1, j \in 1 .. 2 * f + 2 : p = RowAt(f, t) + j
      BY <1>0, <1>2, RowOf
    <2>2. /\ sql[RowAt(f, t) + 1] = "("
          /\ \A k \in 1 .. f : /\ sql[RowAt(f, t) + 2 * k] = "?"
                               /\ sql[RowAt(f, t) + 2 * k + 1] = IF k = f THEN ")" ELSE "comma"
          /\ sql[RowAt(f, t) + 2 * f + 2] = IF t = n - 1 THEN "semicolon" ELSE "comma"
      BY DEF QueryText
    <2>3. PICK a : a = RowAt(f, t) /\ a \in Nat
      <3>1. t \in Nat /\ f \in Nat
        OBVIOUS
      <3>2. RowAt(f, t) \in Nat
        BY <3>1, RowAtNat
      <3> QED BY <3>2
    <2>4. PICK k \in Nat : j = 2 * k \/ j = 2 * k + 1
      BY Halves
    <2>5. CASE j = 1
      BY <2>1, <2>2, <2>5 DEF InRow
    <2>6. CASE j = 2 * f + 2
      <3>1. p = RowAt(f, t) + 2 * f + 2
        BY <2>1, <2>3, <2>6
      <3>2. CASE t = n - 1
        <4>1. t \in Nat /\ n = t + 1
          BY <3>2
        <4>2. RowAt(f, n) = RowAt(f, t) + 2 * f + 2
          BY <4>1, RowsApart
        <4> QED BY <2>2, <3>1, <3>2, <4>2 DEF InRow
      <3>3. CASE t # n - 1
        <4>1. t < n - 1
          BY <3>3
        <4> QED BY <2>2, <3>1, <3>3, <4>1 DEF InRow
      <3> QED BY <3>2, <3>3
    <2>7. CASE j # 1 /\ j = 2 * k /\ k <= f
      <3>1. k \in 1 .. f
        BY <2>4, <2>7
      <3> QED BY <2>1, <2>2, <2>7, <3>1 DEF InRow
    <2>8. CASE j # 1 /\ j = 2 * k + 1
      <3>1. k \in 1 .. f
        BY <2>4, <2>8
      <3>2. p = RowAt(f, t) + 2 * k + 1
        BY <2>1, <2>3, <2>8
      <3>3. k # f => k \in 1 .. f - 1
        BY <3>1
      <3> QED BY <2>2, <3>1, <3>2, <3>3 DEF InRow
    <2>9. j = 2 * k => k <= f \/ j = 2 * f + 2
      BY <2>4
    <2> QED BY <2>4, <2>5, <2>6, <2>7, <2>8, <2>9
  <1> QED BY <1>0, <1>1, <1>2

LEMMA Neighbours ==
  ASSUME NEW f \in Nat \ {0}, NEW n \in Nat \ {0}, NEW sql, QueryText(sql, f, n),
         NEW p \in 1 .. RowAt(f, n) - 1
  PROVE  << sql[p], sql[p + 1] >> \in MayFollow
  <1>0. RowAt(f, n) \in Nat /\ p \in Nat /\ p >= 1 /\ p \in 1 .. RowAt(f, n)
    BY RowAtNat
  <1>1. CASE InFields(sql, f, p)
    <2>1. ASSUME p = 1, sql[p] = "INSERT" PROVE sql[p + 1] = "name"
      BY <2>1 DEF QueryText
    <2>2. ASSUME p = 2, sql[p] = "name" PROVE sql[p + 1] = "("
      BY <2>2 DEF QueryText
    <2>3. ASSUME p = 3, sql[p] = "(" PROVE sql[p + 1] = "name"
      <3>1. p + 1 = 2 + 2 * 1 /\ 1 \in 1 .. f
        BY <2>3
      <3> QED BY <3>1 DEF QueryText
    <2>4. ASSUME NEW k \in 1 .. f, p = 2 + 2 * k, sql[p] = "name"
          PROVE  sql[p + 1] = ")" \/ sql[p + 1] = "comma"
      <3>1. p + 1 = 3 + 2 * k
        BY <2>4
      <3> QED BY <3>1 DEF QueryText
    <2>5. ASSUME NEW k \in 1 .. f - 1, p = 3 + 2 * k, sql[p] = "comma"
          PROVE  sql[p + 1] = "name"
      <3>1. PICK l : l = k + 1 /\ l \in 1 .. f /\ p + 1 = 2 + 2 * l
        BY <2>5
      <3>2. \A m \in 1 .. f : sql[2 + 2 * m] = "name"
        BY DEF QueryText
      <3>3. sql[2 + 2 * l] = "name"
        BY <3>1, <3>2
      <3> QED BY <3>1, <3>3
    <2>6. ASSUME p = 3 + 2 * f, sql[p] = ")" PROVE sql[p + 1] = "VALUES"
      <3>1. p + 1 = 4 + 2 * f
        BY <2>6
      <3> QED BY <3>1 DEF QueryText
    <2>7. ASSUME p = 4 + 2 * f, sql[p] = "VALUES" PROVE sql[p + 1] = "blank"
      <3>1. p + 1 = 5 + 2 * f
        BY <2>7
      <3> QED BY <3>1 DEF QueryText
    <2>8. ASSUME p = 5 + 2 * f, sql[p] = "blank" PROVE sql[p + 1] = "("
      <3>1. p + 1 = RowAt(f, 0) + 1 /\ 0 \in 0 .. n - 1
        BY <2>8, RowsApart
      <3> QED BY <3>1 DEF QueryText
    <2> QED BY <1>1, <2>1, <2>2, <2>3, <2>4, <2>5, <2>6, <2>7, <2>8 DEF InFields, MayFollow
  <1>2. ASSUME NEW t \in 0 .. n - 1, InRow(sql, f, n, t, p)
        PROVE  << sql[p], sql[p + 1] >> \in MayFollow
    <2>0. PICK a : a = RowAt(f, t) /\ a \in Nat /\ t \in Nat
      <3>1. t \in Nat /\ f \in Nat
        OBVIOUS
      <3>2. RowAt(f, t) \in Nat
        BY <3>1, RowAtNat
      <3> QED BY <3>1, <3>2
    <2>1. ASSUME p = a + 1, sql[p] = "(" PROVE sql[p + 1] = "?"
      <3>1. p + 1 = a + 2 * 1 /\ 1 \in 1 .. f
        BY <2>0, <2>1
      <3> QED BY <2>0, <3>1 DEF QueryText
    <2>2. ASSUME NEW k \in 1 .. f, p = a + 2 * k, sql[p] = "?"
          PROVE  sql[p + 1] = ")" \/ sql[p + 1] = "comma"
      <3>1. p + 1 = a + 2 * k + 1
        BY <2>0, <2>2
      <3> QED BY <2>0, <3>1 DEF QueryText
    <2>3. ASSUME NEW k \in 1 .. f - 1, p = a + 2 * k + 1, sql[p] = "comma"
          PROVE  sql[p + 1] = "?"
      <3>1. PICK l : l = k + 1 /\ l \in 1 .. f
        OBVIOUS
      <3>2. p + 1 = a + 2 * l
        BY <2>0, <2>3, <3>1
      <3>3. sql[RowAt(f, t) + 2 * l] = "?"
        BY <3>1 DEF QueryText
      <3> QED BY <2>0, <3>2, <3>3
    <2>4. ASSUME p = a + 2 * f + 1, sql[p] = ")"
          PROVE  sql[p + 1] = "semicolon" \/ sql[p + 1] = "comma"
      <3>1. p + 1 = a + 2 * f + 2
        BY <2>0, <2>4
      <3> QED BY <2>0, <3>1 DEF QueryText
    <2>5. ASSUME t < n - 1, p = a + 2 * f + 2, sql[p] = "comma"
          PROVE  sql[p + 1] = "("
      <3>1. PICK u : u = t + 1 /\ u \in 0 .. n - 1
        BY <2>0, <2>5
      <3>2. RowAt(f, u) = a + 2 * f + 2
        BY <2>0, <3>1, RowsApart
      <3>3. p + 1 = RowAt(f, u) + 1
        BY <2>5, <3>2
      <3> QED BY <3>1, <3>3 DEF QueryText
    <2>6. p # RowAt(f, n)
      BY <1>0
    <2> QED BY <1>2, <2>0, <2>1, <2>2, <2>3, <2>4, <2>5, <2>6 DEF InRow, MayFollow
  <1> QED BY <1>0, <1>1, <1>2, TokenAt

LEMMA LastRow ==
  ASSUME NEW f \in Nat, NEW n \in Nat \ {0}
  PROVE  RowAt(f, n) > 5 + 2 * f
  <1>1. 0 \in Nat /\ n \in Nat /\ 0 < n
    OBVIOUS
  <1>2. RowAt(f, 0) + 2 * f + 2 <= RowAt(f, n) /\ RowAt(f, 0) = 5 + 2 * f
    BY <1>1, RowsApart
  <1>3. RowAt(f, n) \in Nat
    BY <1>1, RowAtNat
  <1> QED BY <1>2, <1>3

LEMMA QueryLength ==
  ASSUME NEW f \in Nat \ {0}, NEW n \in Nat \ {0}, NEW sql, QueryText(sql, f, n)
  PROVE  /\ DOMAIN sql = 1 .. RowAt(f, n) /\ Len(sql) = RowAt(f, n) /\ RowAt(f, n) \in Nat
         /\ sql \in Seq(Token)
  <1>1. f \in Nat /\ n \in Nat
    OBVIOUS
  <1>2. RowAt(f, n) \in Nat
    BY <1>1, RowAtNat
  <1>3. sql \in Seq(Token) /\ Len(sql) = RowAt(f, n)
    BY DEF QueryText, Text
  <1> QED BY <1>2, <1>3

\* A set that is counted by g is as large as S.
LEMMA CountedBy ==
  ASSUME NEW S, NEW T, IsFiniteSet(S), NEW g \in [S -> T],
         \A x, y \in S : g[x] = g[y] => x = y, \A z \in T : \E x \in S : g[x] = z
  PROVE  Cardinality(T) = Cardinality(S)
  <1>1. g \in Bijection(S, T)
    BY DEF Bijection, Injection, Surjection, IsInjective
  <1>2. ExistsBijection(S, T)
    BY <1>1 DEF ExistsBijection
  <1> QED BY <1>2, FS_Bijection

\* Where a token is.
Where(sql, t) == {i \in DOMAIN sql : sql[i] = t}

LEMMA CountIs == ASSUME NEW sql, NEW t PROVE Count(sql, t) = Cardinality(Where(sql, t))
  BY DEF Count, Where

LEMMA OneValues ==
  ASSUME NEW f \in Nat \ {0}, NEW n \in Nat \ {0}, NEW sql, QueryText(sql, f, n)
  PROVE  Count(sql, "VALUES") = 1 /\ Count(sql, "semicolon") = 1
  <1>0. /\ DOMAIN sql = 1 .. RowAt(f, n) /\ RowAt(f, n) \in Nat
        /\ sql[4 + 2 * f] = "VALUES"
    BY QueryLength DEF QueryText
  <1>1. RowAt(f, n) > 5 + 2 * f
    BY LastRow
  <1>2. ASSUME NEW p \in DOMAIN sql
        PROVE  /\ sql[p] = "VALUES" <=> p = 4 + 2 * f
               /\ sql[p] = "semicolon" => p = RowAt(f, n)
    <2>1. CASE InFields(sql, f, p)
      BY <1>0, <2>1 DEF InFields
    <2>2. ASSUME NEW t \in 0 .. n - 1, InRow(sql, f, n, t, p)
          PROVE  sql[p] # "VALUES" /\ (sql[p] = "semicolon" => p = RowAt(f, n))
      BY <2>2 DEF InRow
    <2> QED BY <1>0, <2>1, <2>2, TokenAt
  <1>3. sql[RowAt(f, n)] = "semicolon"
    <2>1. PICK t : t = n - 1 /\ t \in Nat /\ t \in 0 .. n - 1 /\ n = t + 1
      OBVIOUS
    <2>2. RowAt(f, n) = RowAt(f, t) + 2 * f + 2
      BY <2>1, RowsApart
    <2> QED BY <2>1, <2>2 DEF QueryText
  <1>4. 4 + 2 * f \in DOMAIN sql /\ RowAt(f, n) \in DOMAIN sql
    BY <1>0, <1>1
  <1>5. Where(sql, "VALUES") = {4 + 2 * f} /\ Where(sql, "semicolon") = {RowAt(f, n)}
    BY <1>2, <1>3, <1>4 DEF Where
  <1> QED BY <1>5, CountIs, FS_Singleton

LEMMA NameCount ==
  ASSUME NEW f \in Nat \ {0}, NEW n \in Nat \ {0}, NEW sql, QueryText(sql, f, n)
  PROVE  Count(sql, "name") = f + 1
  <1>0. /\ DOMAIN sql = 1 .. RowAt(f, n) /\ RowAt(f, n) \in Nat
        /\ sql[2] = "name" /\ \A k \in 1 .. f : sql[2 + 2 * k] = "name"
    BY QueryLength DEF QueryText
  <1>1. RowAt(f, n) > 5 + 2 * f
    BY LastRow
  <1>2. ASSUME NEW p \in DOMAIN sql, sql[p] = "name" PROVE \E k \in 0 .. f : p = 2 + 2 * k
    <2>1. CASE InFields(sql, f, p)
      <3>1. p = 2 \/ \E k \in 1 .. f : p = 2 + 2 * k
        BY <1>2, <2>1 DEF InFields
      <3>2. p = 2 => p = 2 + 2 * 0 /\ 0 \in 0 .. f
        OBVIOUS
      <3>3. \A k \in 1 .. f : k \in 0 .. f
        OBVIOUS
      <3> QED BY <3>1, <3>2, <3>3
    <2>2. ASSUME NEW t \in 0 .. n - 1, InRow(sql, f, n, t, p) PROVE FALSE
      BY <1>2, <2>2 DEF InRow
    <2> QED BY <1>0, <2>1, <2>2, TokenAt
  <1>3. ASSUME NEW k \in 0 .. f PROVE 2 + 2 * k \in DOMAIN sql /\ sql[2 + 2 * k] = "name"
    <2>1. k = 0 \/ k \in 1 .. f
      OBVIOUS
    <2>2. 2 + 2 * k \in DOMAIN sql
      BY <1>0, <1>1
    <2> QED BY <1>0, <2>1, <2>2
  <1>4. PICK g : g = [k \in 0 .. f |-> 2 + 2 * k]
    OBVIOUS
  <1>5. /\ g \in [0 .. f -> Where(sql, "name")]
        /\ \A x, y \in 0 .. f : g[x] = g[y] => x = y
        /\ \A z \in Where(sql, "name") : \E x \in 0 .. f : g[x] = z
    BY <1>2, <1>3, <1>4 DEF Where
  <1>6. IsFiniteSet(0 .. f) /\ Cardinality(0 .. f) = f + 1
    BY FS_Interval
  <1>7. Cardinality(Where(sql, "name")) = f + 1
    BY <1>5, <1>6, CountedBy
  <1> QED BY <1>7, CountIs

LEMMA OpenCount ==
  ASSUME NEW f \in Nat \ {0}, NEW n \in Nat \ {0}, NEW sql, QueryText(sql, f, n)
  PROVE  /\ Count(sql, "(") = n + 1
         /\ \A p \in DOMAIN sql : sql[p] = "(" /\ p > 3 =>
              \E t \in 0 .. n - 1 : p = RowAt(f, t) + 1
  <1>0. /\ DOMAIN sql = 1 .. RowAt(f, n) /\ RowAt(f, n) \in Nat
        /\ sql[3] = "(" /\ \A t \in 0 .. n - 1 : sql[RowAt(f, t) + 1] = "("
    BY QueryLength DEF QueryText
  <1>1. RowAt(f, n) > 5 + 2 * f
    BY LastRow
  <1>2. ASSUME NEW p \in DOMAIN sql, sql[p] = "("
        PROVE  p = 3 \/ \E t \in 0 .. n - 1 : p = RowAt(f, t) + 1
    <2>1. CASE InFields(sql, f, p)
      BY <1>2, <2>1 DEF InFields
    <2>2. ASSUME NEW t \in 0 .. n - 1, InRow(sql, f, n, t, p) PROVE p = RowAt(f, t) + 1
      BY <1>2, <2>2 DEF InRow
    <2> QED BY <1>0, <2>1, <2>2, TokenAt
  <1>3. ASSUME NEW t \in 0 .. n - 1
        PROVE  /\ RowAt(f, t) \in Nat /\ RowAt(f, t) + 1 > 3
               /\ RowAt(f, t) + 1 \in DOMAIN sql /\ sql[RowAt(f, t) + 1] = "("
    <2>1. t \in Nat /\ n \in Nat /\ t < n /\ f \in Nat
      OBVIOUS
    <2>2. RowAt(f, t) \in Nat /\ RowAt(f, t) >= 5 + 2 * f
      BY <2>1, RowsApart
    <2>3. RowAt(f, t) + 2 * f + 2 <= RowAt(f, n)
      BY <2>1, RowsApart
    <2> QED BY <1>0, <2>1, <2>2, <2>3
  <1>4. PICK S : S = {RowAt(f, t) + 1 : t \in 0 .. n - 1}
    OBVIOUS
  <1>5. PICK g : g = [t \in 0 .. n - 1 |-> RowAt(f, t) + 1]
    OBVIOUS
  <1>6. ASSUME NEW t \in 0 .. n - 1, NEW u \in 0 .. n - 1, RowAt(f, t) + 1 = RowAt(f, u) + 1
        PROVE  t = u
    <2>1. t \in Nat /\ u \in Nat /\ f \in Nat
      OBVIOUS
    <2>2. RowAt(f, t) \in Nat /\ RowAt(f, u) \in Nat
      BY <1>3
    <2>3. /\ t < u => RowAt(f, t) + 2 * f + 2 <= RowAt(f, u)
          /\ u < t => RowAt(f, u) + 2 * f + 2 <= RowAt(f, t)
      BY <2>1, RowsApart
    <2> QED BY <1>6, <2>1, <2>2, <2>3
  <1>7. /\ g \in [0 .. n - 1 -> S]
        /\ \A x, y \in 0 .. n - 1 : g[x] = g[y] => x = y
        /\ \A z \in S : \E x \in 0 .. n - 1 : g[x] = z
    BY <1>4, <1>5, <1>6
  <1>8. IsFiniteSet(0 .. n - 1) /\ Cardinality(0 .. n - 1) = n
    BY FS_Interval
  <1>9. Cardinality(S) = n /\ IsFiniteSet(S)
    <2>1. Cardinality(S) = n
      BY <1>7, <1>8, CountedBy
    <2>2. g \in Surjection(0 .. n - 1, S)
      BY <1>7 DEF Surjection
    <2> QED BY <1>8, <2>1, <2>2, FS_Surjection
  <1>10. 3 \notin S
    BY <1>3, <1>4
  <1>11. Where(sql, "(") = S \cup {3}
    <2>1. 3 \in DOMAIN sql
      BY <1>0, <1>1
    <2>2. S \subseteq Where(sql, "(")
      BY <1>3, <1>4 DEF Where
    <2>3. \A p \in DOMAIN sql : sql[p] = "(" => p = 3 \/ p \in S
      BY <1>2, <1>4
    <2> QED BY <1>0, <2>1, <2>2, <2>3 DEF Where
  <1>12. Cardinality(S \cup {3}) = n + 1
    BY <1>9, <1>10, FS_AddElement
  <1> QED BY <1>2, <1>11, <1>12, CountIs

LEMMA PlaceholderCount ==
  ASSUME NEW f \in Nat \ {0}, NEW n \in Nat \ {0}, NEW sql, QueryText(sql, f, n)
  PROVE  Placeholders(sql) = n * f
  <1>0. /\ DOMAIN sql = 1 .. RowAt(f, n) /\ RowAt(f, n) \in Nat
        /\ \A t \in 0 .. n - 1 : \A k \in 1 .. f : sql[RowAt(f, t) + 2 * k] = "?"
    BY QueryLength DEF QueryText
  <1>2. ASSUME NEW p \in DOMAIN sql, sql[p] = "?"
        PROVE  \E t \in 0 .. n - 1, k \in 1 .. f : p = RowAt(f, t) + 2 * k
    <2>1. ~InFields(sql, f, p)
      BY <1>2 DEF InFields
    <2>2. ASSUME NEW t \in 0 .. n - 1, InRow(sql, f, n, t, p)
          PROVE  \E k \in 1 .. f : p = RowAt(f, t) + 2 * k
      BY <1>2, <2>2 DEF InRow
    <2> QED BY <1>0, <2>1, <2>2, TokenAt
  <1>3. ASSUME NEW t \in 0 .. n - 1
        PROVE  /\ t \in Nat /\ RowAt(f, t) \in Nat
               /\ RowAt(f, t) + 2 * f + 2 <= RowAt(f, n)
    <2>1. t \in Nat /\ n \in Nat /\ t < n /\ f \in Nat
      OBVIOUS
    <2>2. RowAt(f, t) + 2 * f + 2 <= RowAt(f, n) /\ RowAt(f, t) \in Nat
      BY <2>1, RowsApart
    <2> QED BY <2>1, <2>2
  <1>4. ASSUME NEW t \in 0 .. n - 1, NEW k \in 1 .. f
        PROVE  RowAt(f, t) + 2 * k \in Where(sql, "?")
    <2>1. RowAt(f, t) + 2 * k \in DOMAIN sql
      BY <1>0, <1>3
    <2> QED BY <1>0, <2>1 DEF Where
  <1>5. PICK S : S = (0 .. n - 1) \X (1 .. f)
    OBVIOUS
  <1>6. PICK g : g = [x \in S |-> RowAt(f, x[1]) + 2 * x[2]]
    OBVIOUS
  <1>7. ASSUME NEW t \in 0 .. n - 1, NEW k \in 1 .. f, NEW u \in 0 .. n - 1, NEW l \in 1 .. f,
               RowAt(f, t) + 2 * k = RowAt(f, u) + 2 * l
        PROVE  t = u /\ k = l
    <2>1. t \in Nat /\ u \in Nat /\ f \in Nat
      OBVIOUS
    <2>2. RowAt(f, t) \in Nat /\ RowAt(f, u) \in Nat
      BY <1>3
    <2>3. /\ t < u => RowAt(f, t) + 2 * f + 2 <= RowAt(f, u)
          /\ u < t => RowAt(f, u) + 2 * f + 2 <= RowAt(f, t)
      BY <2>1, RowsApart
    <2>4. t = u
      BY <1>7, <2>1, <2>2, <2>3
    <2> QED BY <1>7, <2>2, <2>4
  <1>8. g \in [S -> Where(sql, "?")]
    BY <1>4, <1>5, <1>6
  <1>9. \A x, y \in S : g[x] = g[y] => x = y
    BY <1>5, <1>6, <1>7
  <1>10. ASSUME NEW z \in Where(sql, "?") PROVE \E x \in S : g[x] = z
    <2>1. PICK t \in 0 .. n - 1, k \in 1 .. f : z = RowAt(f, t) + 2 * k
      BY <1>2 DEF Where
    <2>2. << t, k >> \in S /\ g[<< t, k >>] = z
      BY <1>5, <1>6, <2>1
    <2> QED BY <2>2
  <1>11. /\ IsFiniteSet(0 .. n - 1) /\ Cardinality(0 .. n - 1) = n
         /\ IsFiniteSet(1 .. f) /\ Cardinality(1 .. f) = f
    BY FS_Interval
  <1>12. IsFiniteSet(S) /\ Cardinality(S) = n * f
    <2>1. PICK a, b : a = 0 .. n - 1 /\ b = 1 .. f
      OBVIOUS
    <2>2. IsFiniteSet(a) /\ IsFiniteSet(b) /\ Cardinality(a) = n /\ Cardinality(b) = f
      BY <1>11, <2>1
    <2>3. IsFiniteSet(a \X b) /\ Cardinality(a \X b) = Cardinality(a) * Cardinality(b)
      BY <2>2, FS_Product
    <2>4. S = a \X b
      BY <1>5, <2>1
    <2> QED BY <2>2, <2>3, <2>4
  <1>13. Cardinality(Where(sql, "?")) = n * f
    BY <1>8, <1>9, <1>10, <1>12, CountedBy
  <1> QED BY <1>13, CountIs DEF Placeholders

LEMMA ColumnsMakeInsert ==
  ASSUME NEW f \in Nat \ {0}, NEW n \in Nat \ {0}, NEW sql, sql = build_sql_insert_query(f, n)
  PROVE  IsInsert(sql) /\ Placeholders(sql) = f * n
  <1>1. QueryText(sql, f, n)
    BY QueryIs
  <1>2. /\ DOMAIN sql = 1 .. RowAt(f, n) /\ Len(sql) = RowAt(f, n) /\ RowAt(f, n) \in Nat
        /\ sql \in Seq(Token)
    BY <1>1, QueryLength
  <1>3. RowAt(f, n) > 5 + 2 * f
    BY LastRow
  <1>4. Head(sql) = "INSERT"
    <2>1. sql[1] = "INSERT" /\ sql # <<>>
      BY <1>1, <1>2, <1>3 DEF QueryText
    <2> QED BY <1>2, <2>1
  <1>5. Last(sql) = "semicolon"
    <2>1. PICK t : t = n - 1 /\ t \in Nat /\ t \in 0 .. n - 1 /\ n = t + 1
      OBVIOUS
    <2>2. RowAt(f, n) = RowAt(f, t) + 2 * f + 2
      BY <2>1, RowsApart
    <2>3. sql[RowAt(f, n)] = "semicolon"
      BY <1>1, <2>1, <2>2 DEF QueryText
    <2> QED BY <1>2, <2>3 DEF Last
  <1>6. \A i \in 1 .. Len(sql) - 1 : << sql[i], sql[i + 1] >> \in MayFollow
    BY <1>1, <1>2, Neighbours
  <1>7. Count(sql, "VALUES") = 1 /\ Count(sql, "semicolon") = 1
    BY <1>1, OneValues
  <1>8. Count(sql, "name") - 1 = f
    <2>1. Count(sql, "name") = f + 1
      BY <1>1, NameCount
    <2> QED BY <2>1
  <1>9. Count(sql, "(") - 1 = n
    <2>1. Count(sql, "(") = n + 1
      BY <1>1, OpenCount
    <2> QED BY <2>1
  <1>10. Placeholders(sql) = n * f
    BY <1>1, PlaceholderCount
  <1>11. ASSUME NEW i \in DOMAIN sql, sql[i] = "(", i > 3, NEW j \in 1 .. f
         PROVE  sql[i + 2 * j - 1] = "?"
    <2>1. PICK t \in 0 .. n - 1 : i = RowAt(f, t) + 1
      BY <1>1, <1>11, OpenCount
    <2>2. sql[RowAt(f, t) + 2 * j] = "?"
      BY <1>1 DEF QueryText
    <2>3. t \in Nat /\ f \in Nat
      OBVIOUS
    <2>4. RowAt(f, t) \in Nat
      BY <2>3, RowAtNat
    <2>5. i + 2 * j - 1 = RowAt(f, t) + 2 * j
      BY <2>1, <2>4
    <2> QED BY <2>2, <2>5
  <1>12. IsInsert(sql)
    BY <1>4, <1>5, <1>6, <1>7, <1>8, <1>9, <1>10, <1>11 DEF IsInsert
  <1>13. n * f = f * n
    OBVIOUS
  <1> QED BY <1>10, <1>12, <1>13

-----------------------------------------------------------------------------
(* Without a column, the replacements of the last comma hit parentheses.    *)

LEMMA RepeatWithout ==
  ASSUME NEW s, NEW L \in Nat \ {0}, Text(s, L), NEW n \in Nat, NEW c,
         \A j \in 1 .. L : s[j] # c
  PROVE  \A k \in 1 .. n * L : Repeat(s, n)[k] # c
  <1>1. s \in Seq(Token) /\ Len(s) = L
    BY DEF Text
  <1>2. PICK m : m = n * L /\ m \in Nat
    OBVIOUS
  <1>3. \A k \in 1 .. m : ((k - 1) % L) + 1 \in 1 .. L
    BY <1>2
  <1>4. Repeat(s, n) = [k \in 1 .. m |-> s[((k - 1) % L) + 1]]
    BY <1>1, <1>2 DEF Repeat
  <1> QED BY <1>2, <1>3, <1>4

LEMMA NoColumnNoInsert ==
  ASSUME NEW n \in Nat \ {0}, NEW sql, sql = build_sql_insert_query(0, n)
  PROVE  ~IsInsert(sql) /\ Placeholders(sql) = 0
  <1>1. PICK x, y : x = Repeat(<< "name", "comma" >>, 0) /\ y = Repeat(<< "?", "comma" >>, 0)
    OBVIOUS
  <1>2. x = <<>> /\ y = <<>>
    <2>1. Pairs(x, "name", "comma", 0) /\ Pairs(y, "?", "comma", 0)
      BY <1>1, PairsAre, AreTokens
    <2>2. x \in Seq(Token) /\ Len(x) = 0 /\ y \in Seq(Token) /\ Len(y) = 0
      BY <2>1 DEF Pairs, Text
    <2> QED BY <2>2, EmptySeq
  <1>3. PICK a : a = FieldList(0)
    OBVIOUS
  <1>4. Text(a, 3) /\ a[1] = "INSERT" /\ a[2] = "name" /\ a[3] = ")"
    <2>1. PICK h : h = << "INSERT", "name", "(" >>
      OBVIOUS
    <2>2. h \in Seq(Token) /\ Len(h) = 3 /\ h[1] = "INSERT" /\ h[2] = "name"
      BY <2>1, AreTokens
    <2>3. h \o x = h
      BY <1>2, <2>2, ConcatEmptySeq
    <2>4. a = SetBack(h, ")")
      BY <1>1, <1>3, <2>1, <2>3 DEF FieldList
    <2>5. Ends(a, h, 3, ")")
      <3>1. Text(h, 3) /\ 3 \in Nat \ {0}
        BY <2>2 DEF Text
      <3> QED BY <3>1, <2>4, SetBackIs, AreTokens
    <2> QED BY <2>2, <2>5 DEF Ends
  <1>5. PICK w : w = Row(0)
    OBVIOUS
  <1>6. Text(w, 2) /\ w[1] = ")" /\ w[2] = "comma"
    <2>1. PICK h : h = << "(" >>
      OBVIOUS
    <2>2. h \in Seq(Token) /\ Len(h) = 1
      BY <2>1, AreTokens
    <2>3. h \o y = h
      BY <1>2, <2>2, ConcatEmptySeq
    <2>4. PICK u : u = SetBack(h, ")")
      OBVIOUS
    <2>5. Ends(u, h, 1, ")")
      <3>1. Text(h, 1) /\ 1 \in Nat \ {0}
        BY <2>2 DEF Text
      <3> QED BY <3>1, <2>4, SetBackIs, AreTokens
    <2>6. Text(u, 1) /\ u[1] = ")"
      BY <2>5 DEF Ends
    <2>7. PICK c : c = << "comma" >>
      OBVIOUS
    <2>8. c \in Seq(Token) /\ Len(c) = 1 /\ c[1] = "comma"
      BY <2>7, AreTokens
    <2>9. w = u \o c
      BY <1>1, <1>5, <2>1, <2>3, <2>4, <2>7 DEF Row
    <2>10. Joins(w, u, 1, c, 1)
      BY <2>6, <2>8, <2>9, JoinIs DEF Text
    <2>11. w[1] = u[1] /\ w[1 + 1] = c[1] /\ Text(w, 1 + 1)
      BY <2>10 DEF Joins
    <2> QED BY <2>6, <2>8, <2>11
  <1>7. PICK b : b = << "VALUES", "blank" >>
    OBVIOUS
  <1>8. b \in Seq(Token) /\ Len(b) = 2 /\ b[1] = "VALUES" /\ b[2] = "blank"
    BY <1>7, AreTokens
  <1>9. PICK h : h = a \o b
    OBVIOUS
  <1>10. Joins(h, a, 3, b, 2)
    BY <1>4, <1>8, <1>9, JoinIs DEF Text
  <1>11. /\ Text(h, 5) /\ h[5] = "blank" /\ \A i \in 1 .. 5 : h[i] # "?"
    <2>1. Text(h, 3 + 2) /\ h[1] = a[1] /\ h[2] = a[2] /\ h[3] = a[3]
          /\ h[3 + 1] = b[1] /\ h[3 + 2] = b[2]
      BY <1>10 DEF Joins
    <2>2. Text(h, 5) /\ h[1] = "INSERT" /\ h[2] = "name" /\ h[3] = ")" /\ h[4] = "VALUES"
          /\ h[5] = "blank"
      BY <1>4, <1>8, <2>1
    <2>3. \A i \in 1 .. 5 : i = 1 \/ i = 2 \/ i = 3 \/ i = 4 \/ i = 5
      OBVIOUS
    <2> QED BY <2>2, <2>3
  <1>12. PICK m : m = n * 2 /\ m \in Nat /\ m >= 2
    OBVIOUS
  <1>13. PICK r : r = Repeat(w, n)
    OBVIOUS
  <1>14. Text(r, m) /\ r[1] = ")" /\ \A i \in 1 .. m : r[i] # "?"
    <2>1. Repeats(r, w, 2, n)
      BY <1>6, <1>13, RepeatIs
    <2>2. r[0 * 2 + 1] = w[1] /\ Text(r, n * 2)
      BY <2>1 DEF Repeats
    <2>3. \A j \in 1 .. 2 : w[j] # "?"
      <3>1. \A j \in 1 .. 2 : j = 1 \/ j = 2
        OBVIOUS
      <3> QED BY <1>6, <3>1
    <2>4. \A i \in 1 .. n * 2 : Repeat(w, n)[i] # "?"
      BY <1>6, <2>3, RepeatWithout
    <2> QED BY <1>6, <1>12, <1>13, <2>2, <2>4
  <1>15. PICK s : s = h \o r
    OBVIOUS
  <1>16. Joins(s, h, 5, r, m)
    BY <1>11, <1>12, <1>14, <1>15, JoinIs
  <1>17. /\ Text(s, 5 + m) /\ s[5] = "blank" /\ s[6] = ")"
         /\ \A i \in 1 .. 5 + m : s[i] # "?"
    <2>1. \A i \in 1 .. 5 : s[i] = h[i]
      BY <1>16 DEF Joins
    <2>2. \A i \in 1 .. m : s[5 + i] = r[i]
      BY <1>16 DEF Joins
    <2>3. s[5 + 1] = r[1]
      BY <1>12, <2>2
    <2>4. \A i \in 1 .. 5 + m : i \in 1 .. 5 \/ \E j \in 1 .. m : i = 5 + j
      <3>1. ASSUME NEW i \in 1 .. 5 + m, i \notin 1 .. 5 PROVE \E j \in 1 .. m : i = 5 + j
        <4>1. i - 5 \in 1 .. m /\ i = 5 + (i - 5)
          BY <1>12, <3>1
        <4> QED BY <4>1
      <3> QED BY <3>1
    <2>5. Text(s, 5 + m)
      BY <1>16 DEF Joins
    <2> QED BY <1>11, <1>14, <2>1, <2>2, <2>3, <2>4, <2>5
  <1>18. sql = SetBack(s, "semicolon")
    BY <1>3, <1>5, <1>7, <1>9, <1>13, <1>15 DEF build_sql_insert_query
  <1>19. Ends(sql, s, 5 + m, "semicolon")
    <2>1. 5 + m \in Nat \ {0}
      BY <1>12
    <2> QED BY <2>1, <1>17, <1>18, SetBackIs, AreTokens
  <1>20. /\ sql[5] = "blank" /\ sql[6] = ")" /\ Len(sql) = 5 + m /\ DOMAIN sql = 1 .. 5 + m
         /\ \A i \in DOMAIN sql : sql[i] # "?"
    <2>1. \A i \in 1 .. 5 + m : sql[i] = IF i = 5 + m THEN "semicolon" ELSE s[i]
      BY <1>19 DEF Ends
    <2>2. sql \in Seq(Token) /\ Len(sql) = 5 + m
      BY <1>19 DEF Ends, Text
    <2>3. DOMAIN sql = 1 .. 5 + m
      BY <1>12, <2>2
    <2>4. 5 \in 1 .. 5 + m /\ 6 \in 1 .. 5 + m /\ 5 # 5 + m /\ 6 # 5 + m
      BY <1>12
    <2> QED BY <1>17, <2>1, <2>2, <2>3, <2>4
  <1>21. ~IsInsert(sql)
    <2>1. 5 \in 1 .. Len(sql) - 1
      BY <1>12, <1>20
    <2>2. << "blank", ")" >> \notin MayFollow
      BY DEF MayFollow
    <2>3. << sql[5], sql[5 + 1] >> \notin MayFollow
      BY <1>20, <2>2
    <2> QED BY <2>1, <2>3 DEF IsInsert
  <1>22. Placeholders(sql) = 0
    <2>1. Where(sql, "?") = {}
      BY <1>20 DEF Where
    <2> QED BY <2>1, CountIs, FS_EmptySet DEF Placeholders
  <1> QED BY <1>21, <1>22

-----------------------------------------------------------------------------
(* The statement under way.                                                 *)

\* A call that got past the checks has payloads; its statement is on the
\* connection held and has a place for each column of each of them, and what has
\* been bound is that of the payloads so far, in the end of all.
BulkInv ==
  LET n == Len(items[calls])
  IN at # "idle" =>
       /\ n > 0
       /\ at # "prepare" => /\ fields > 0 /\ pstmt.on = mConnect /\ pstmt.holes = fields * n
                            /\ \E k \in 0 .. n : pstmt.bound = 3 * k
       /\ at = "execute" => pstmt.bound = 3 * n

LEMMA ItemsType ==
  ASSUME Typed, CallInv, at # "idle"
  PROVE  /\ calls \in CallId /\ items[calls] \in Payloads /\ Len(items[calls]) \in Nat
         /\ fields \in Nat /\ mDriver \in BOOLEAN
  <1>1. calls \in CallId
    BY ConstantsNat DEF Typed, CallInv, CallId
  <1>2. items[calls] \in Payloads
    BY <1>1 DEF Typed
  <1>3. Len(items[calls]) \in Nat
    BY <1>2, PayloadsType
  <1>4. fields \in Nat
    BY ConstantsNat DEF Typed
  <1> QED BY <1>1, <1>2, <1>3, <1>4 DEF Typed

\* What is built for n payloads, whatever the number of columns.
LEMMA QueryOf ==
  ASSUME NEW f \in Nat, NEW n \in Nat \ {0}
  PROVE  /\ IsInsert(build_sql_insert_query(f, n)) <=> f > 0
         /\ Placeholders(build_sql_insert_query(f, n)) = f * n
  <1>1. CASE f = 0
    <2>1. /\ ~IsInsert(build_sql_insert_query(f, n))
          /\ Placeholders(build_sql_insert_query(f, n)) = 0
      BY <1>1, NoColumnNoInsert
    <2>2. f * n = 0 /\ ~(f > 0)
      BY <1>1
    <2> QED BY <2>1, <2>2
  <1>2. CASE f # 0
    <2>1. f \in Nat \ {0} /\ f > 0
      BY <1>2
    <2> QED BY <2>1, ColumnsMakeInsert
  <1> QED BY <1>1, <1>2

LEMMA BulkInvStep ==
  ASSUME Typed, CallInv, BulkInv, [Next]_vars
  PROVE  BulkInv'
  <1>1. ASSUME UNCHANGED <<callVars, mConnect>> PROVE BulkInv'
    BY <1>1 DEF BulkInv, callVars
  <1>2. ASSUME Connect \/ ConnectFails \/ Close \/ Destroy PROVE BulkInv'
    BY <1>2 DEF Connect, ConnectFails, Close, Destroy, Idle, BulkInv, callVars
  <1>3. ASSUME Begins PROVE BulkInv'
    <2>1. PICK s \in Payloads, m \in FieldCounts : Start(s, m)
      BY <1>3 DEF Begins
    <2>2. CASE at' = "idle"
      BY <2>2 DEF BulkInv
    <2>3. CASE at' # "idle"
      <3>1. s # <<>> /\ at' = "prepare"
        BY <2>1, <2>3 DEF Start, Idle
      <3>2. calls' \in CallId /\ items' = [items EXCEPT ![calls'] = s]
        BY <2>1, StartAnswers
      <3>3. items'[calls'] = s
        BY <3>2 DEF Typed
      <3>4. Len(s) > 0
        <4>1. s \in Seq(Payload)
          BY PayloadsType
        <4>2. Len(s) \in Nat /\ Len(s) # 0
          BY <3>1, <4>1, EmptySeq
        <4> QED BY <4>2
      <3> QED BY <3>1, <3>3, <3>4 DEF BulkInv
    <2> QED BY <2>2, <2>3
  <1>4. ASSUME Prepare PROVE BulkInv'
    <2>1. CASE at' = "idle"
      BY <2>1 DEF BulkInv
    <2>2. CASE at' # "idle"
      <3>1. PICK n : n = Len(items[calls])
        OBVIOUS
      <3>2. PICK sql : sql = build_sql_insert_query(fields, n)
        OBVIOUS
      <3>3. /\ at = "prepare" /\ mConnect' = mConnect
            /\ ~Finish("SQLException") /\ ~Finish("threw")
        BY <1>4, <2>2 DEF Prepare, Finish, driverVars
      <3>4. /\ IsInsert(sql) /\ at' = "bind" /\ UNCHANGED <<calls, items, fields>>
            /\ pstmt' = [on |-> mConnect, holes |-> Placeholders(sql), bound |-> 0]
        BY <1>4, <3>1, <3>2, <3>3 DEF Prepare
      <3>5. n \in Nat \ {0} /\ fields \in Nat
        BY <3>1, <3>3, ItemsType DEF BulkInv
      <3>6. fields > 0 /\ Placeholders(sql) = fields * n
        BY <3>2, <3>4, <3>5, QueryOf
      <3>7. pstmt'.on = mConnect /\ pstmt'.holes = fields * n /\ pstmt'.bound = 0
        BY <3>4, <3>6
      <3>8. 0 \in 0 .. n /\ 0 = 3 * 0
        BY <3>5
      <3> QED BY <3>1, <3>3, <3>4, <3>5, <3>6, <3>7, <3>8 DEF BulkInv
    <2> QED BY <2>1, <2>2
  <1>5. ASSUME Bind PROVE BulkInv'
    <2>1. CASE at' = "idle"
      BY <2>1 DEF BulkInv
    <2>2. CASE at' # "idle"
      <3>1. PICK n : n = Len(items[calls])
        OBVIOUS
      <3>2. /\ at = "bind" /\ mConnect' = mConnect
            /\ ~Finish("SQLException") /\ ~Finish("threw")
        BY <1>5, <2>2 DEF Bind, Finish, driverVars
      <3>3. n \in Nat /\ n > 0 /\ fields > 0
        BY <3>1, <3>2, ItemsType DEF BulkInv
      <3>4. /\ pstmt.on = mConnect /\ pstmt.holes = fields * n
            /\ pstmt \in [on : Connection \cup {nullptr}, holes : Nat, bound : Nat]
        BY <3>1, <3>2 DEF BulkInv, Typed
      <3>5. PICK k \in 0 .. n : pstmt.bound = 3 * k
        BY <3>1, <3>2 DEF BulkInv
      <3>6. PICK j : j = pstmt.bound \div BoundByPayload + 1
        OBVIOUS
      <3>7. j = k + 1
        <4>1. (3 * k) \div 3 = k
          OBVIOUS
        <4> QED BY <3>5, <3>6, <4>1 DEF BoundByPayload
      <3>8. CASE j > n
        <4>1. at' = "execute" /\ UNCHANGED <<calls, items, fields, pstmt>>
          BY <1>5, <3>1, <3>2, <3>6, <3>8 DEF Bind
        <4>2. k = n
          BY <3>3, <3>7, <3>8
        <4> QED BY <3>1, <3>2, <3>3, <3>4, <3>5, <4>1, <4>2 DEF BulkInv
      <3>9. CASE ~(j > n)
        <4>1. /\ pstmt' = [pstmt EXCEPT !.bound = @ + BoundByPayload]
              /\ UNCHANGED <<at, calls, items, fields>>
          BY <1>5, <3>1, <3>2, <3>6, <3>9 DEF Bind
        <4>2. pstmt'.on = pstmt.on /\ pstmt'.holes = pstmt.holes /\ pstmt'.bound = pstmt.bound + 3
          BY <3>4, <4>1 DEF BoundByPayload
        <4>3. j \in 0 .. n /\ pstmt'.bound = 3 * j
          BY <3>3, <3>5, <3>7, <3>9, <4>2
        <4> QED BY <3>1, <3>2, <3>3, <3>4, <4>1, <4>2, <4>3 DEF BulkInv
      <3> QED BY <3>8, <3>9
    <2> QED BY <2>1, <2>2
  <1>6. ASSUME Execute \/ ExecuteUnanswered \/ ExecuteFails PROVE BulkInv'
    BY <1>6 DEF Execute, ExecuteUnanswered, ExecuteFails, Finish, BulkInv
  <1>7. ASSUME NEW c \in Connection, SessionDies(c) PROVE BulkInv'
    <2>1. UNCHANGED <<callVars, mConnect>>
      BY <1>7 DEF SessionDies, driverVars
    <2> QED BY <2>1, <1>1
  <1>8. ASSUME inject PROVE Begins
    <2>1. PICK p \in Payload, n \in FieldCounts : Start(<< p >>, n)
      BY <1>8 DEF inject
    <2> QED BY <2>1, SinglePayload DEF Begins
  <1>9. ASSUME inject_bulk PROVE Begins
    BY <1>9 DEF inject_bulk, Begins
  <1>10. ASSUME UNCHANGED vars PROVE BulkInv'
    <2>1. UNCHANGED <<callVars, mConnect>>
      BY <1>10 DEF vars, driverVars
    <2> QED BY <2>1, <1>1
  <1> QED BY <1>2, <1>3, <1>4, <1>5, <1>6, <1>7, <1>8, <1>9, <1>10 DEF Next

LEMMA SameFactor ==
  ASSUME NEW f \in Nat, NEW n \in Nat \ {0}, f * n = 3 * n
  PROVE  f = 3
  OBVIOUS

LEMMA AlwaysBulkInv == Spec => []BulkInv
  <1>1. Init => BulkInv
    BY DEF Init, BulkInv
  <1>2. Inv /\ BulkInv /\ [Next]_vars => BulkInv'
    BY BulkInvStep DEF Inv
  <1> QED BY <1>1, <1>2, AlwaysInv, PTL DEF Spec

\* Every variable has its type, and a call past its checks has a connection and
\* payloads, whatever the order of calls and however sessions end (SQL_inserter.h:49-97).
THEOREM TypeCorrect == Spec => []TypeOK
  <1>1. Inv /\ BulkInv => TypeOK
    <2> SUFFICES ASSUME Inv, BulkInv, at # "idle"
                 PROVE  mConnect # nullptr /\ items[calls] # <<>>
      BY DEF Inv, TypeOK
    <2>1. Len(items[calls]) # 0
      BY ItemsType DEF Inv, BulkInv
    <2> QED BY <2>1 DEF Inv, CallInv
  <1> QED BY <1>1, AlwaysInv, AlwaysBulkInv, PTL

\* Whatever the number of columns and of payloads, what is sent to be prepared is an
\* INSERT with a placeholder for each column of each row; only without a column it is
\* not (Insert_statement.cpp:5-34).
THEOREM QueriesAreInserts == Spec => []QueryIsInsert
  <1>1. Inv /\ BulkInv => QueryIsInsert
    <2> SUFFICES ASSUME Inv, BulkInv, at = "prepare"
                 PROVE  /\ IsInsert(build_sql_insert_query(fields, Len(items[calls]))) <=> fields > 0
                        /\ Placeholders(build_sql_insert_query(fields, Len(items[calls])))
                              = fields * Len(items[calls])
      BY DEF QueryIsInsert
    <2>1. PICK n : n = Len(items[calls])
      OBVIOUS
    <2>2. fields \in Nat /\ n \in Nat \ {0}
      BY <2>1, ItemsType DEF Inv, BulkInv
    <2> QED BY <2>1, <2>2, QueryOf
  <1> QED BY <1>1, AlwaysInv, AlwaysBulkInv, PTL

\* Rows are only ever sent with a value for each placeholder, three to a payload,
\* on the connection held (SQL_inserter.h:49-97, Payload.cpp).
THEOREM StatementsComplete == Spec => StatementComplete
  <1>1. Inv /\ BulkInv /\ [Next]_vars =>
          (table' # table =>
             /\ pstmt.on = mConnect /\ mDriver
             /\ fields = 3 /\ pstmt.bound = 3 * Len(items[calls]))
    <2> SUFFICES ASSUME Inv, BulkInv, [Next]_vars, table' # table
                 PROVE  /\ pstmt.on = mConnect /\ mDriver
                        /\ fields = 3 /\ pstmt.bound = 3 * Len(items[calls])
      OBVIOUS
    <2>1. Execute \/ ExecuteUnanswered
      BY DEF Next, vars, driverVars, callVars, Connect, ConnectFails, Close, Destroy, inject,
             inject_bulk, Start, Prepare, Bind, ExecuteFails, SessionDies
    <2>2. at = "execute" /\ pstmt.bound = pstmt.holes
      BY <2>1 DEF Execute, ExecuteUnanswered, CanExecute
    <2>3. PICK n : n = Len(items[calls])
      OBVIOUS
    <2>4. /\ pstmt.on = mConnect /\ pstmt.holes = fields * n /\ pstmt.bound = 3 * n
          /\ n \in Nat \ {0} /\ fields \in Nat
      BY <2>2, <2>3, ItemsType DEF Inv, BulkInv
    <2>5. fields * n = 3 * n
      BY <2>2, <2>4
    <2>6. fields = 3
      BY <2>4, <2>5, SameFactor
    <2>7. mDriver
      BY <2>2 DEF Inv, CallInv, ConnInv
    <2> QED BY <2>3, <2>4, <2>6, <2>7
  <1> QED BY <1>1, AlwaysInv, AlwaysBulkInv, PTL DEF Spec, StatementComplete

=============================================================================
