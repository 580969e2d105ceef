----------------------------- MODULE Main_proofs -----------------------------
(***************************************************************************)
(* Theorems about Main for any number of payloads, connections and         *)
(* placeholders, any password and any limit of its length: what main has   *)
(* left behind when it ends, what it has learnt of its payloads although   *)
(* it looks at no answer, and what the password prompt shows and returns.  *)
(***************************************************************************)
EXTENDS Main, SQLInserter_proofs, FiniteSetTheorems

-----------------------------------------------------------------------------
(* main is one caller of SQLInserter: whatever holds of every caller holds  *)
(* of main.                                                                 *)

LEMMA MainConstants ==
  /\ Loads \in Nat \ {0} /\ MaxCalls = Loads + 1 /\ MaxBulk = Loads
  /\ CallId = 1 .. Loads + 1 /\ 1 \in Connection
  BY LoadsAssumption, ConnectionAssumption, ConstantsNat DEF CallId

\* The payloads of main.
LEMMA SinglePayloads == << "sound" >> \in Payloads
  <1>1. "sound" \in Payload
    BY DEF Payload
  <1> QED BY <1>1, SinglePayload

LEMMA BulkPayloads == [k \in 1 .. Loads |-> "sound"] \in Payloads
  <1>1. [k \in 1 .. Loads |-> "sound"] \in [1 .. Loads -> Payload]
    BY DEF Payload
  <1>2. Loads \in 0 .. MaxBulk
    BY MainConstants
  <1> QED BY <1>1, <1>2 DEF Payloads

\* What a step of main is to the inserter: a call, a step of its own, or nothing.
LEMMA MainSteps ==
  ASSUME [MainNext]_allVars
  PROVE  [Next]_vars
  <1>1. ASSUME UNCHANGED vars PROVE [Next]_vars
    BY <1>1
  <1>2. ASSUME GlobalInit \/ StartPrompt \/ Terminate \/ ShortOfMemory \/ Typing \/ PressEnter \/ UNCHANGED allVars
        PROVE  [Next]_vars
    BY <1>2 DEF GlobalInit, StartPrompt, Terminate, ShortOfMemory, Typing, PressEnter, allVars
  <1>3. ASSUME ConnectFirst PROVE Next
    BY <1>3 DEF ConnectFirst, Next
  <1>4. ASSUME Single PROVE Next
    <2>1. Start(<< "sound" >>, 3)
      BY <1>4 DEF Single
    <2>2. inject
      BY <2>1, TableAssumption DEF inject, Payload
    <2> QED BY <2>2 DEF Next
  <1>5. ASSUME Bulk PROVE Next
    <2>1. Start([k \in 1 .. Loads |-> "sound"], 3)
      BY <1>5 DEF Bulk
    <2>2. inject_bulk
      BY <2>1, BulkPayloads, TableAssumption DEF inject_bulk
    <2> QED BY <2>2 DEF Next
  <1>6. ASSUME Leave PROVE Next
    BY <1>6 DEF Leave, Next
  <1>7. ASSUME Within PROVE Next
    BY <1>7 DEF Within, Next
  <1>8. ASSUME Sessions PROVE Next
    BY <1>8 DEF Sessions, Next
  <1> QED BY <1>2, <1>3, <1>4, <1>5, <1>6, <1>7, <1>8 DEF MainNext, MainStep

\* main uses the inserter as any caller may: every run of main is one of the
\* SQLInserter that SQLInserter_proofs is about (main.cpp:25-66).
THEOREM MainIsACaller == MainSpec => Spec
  <1>1. MainInit => Init
    BY DEF MainInit
  <1>2. [MainNext]_allVars => [Next]_vars
    BY MainSteps
  <1> QED BY <1>1, <1>2, PTL DEF MainSpec, Spec

LEMMA MainKeepsInv == MainSpec => []Inv
  BY MainIsACaller, AlwaysInv, PTL

-----------------------------------------------------------------------------
(* The invariant.                                                           *)

\* Before main has connected the inserter is as it was made.
Fresh ==
  /\ alive /\ mConnect = nullptr /\ calls = 0 /\ at = "idle" /\ table = {}
  /\ \A c \in Connection : connection[c] = "unused"

\* Where main is, and how many calls it has made.
LineInv ==
  /\ line \in {"init", "connect", "single", "end", "exited", "terminated"}
  /\ line \in {"init", "connect"} => Fresh /\ i = 0
  /\ line = "single" => alive /\ calls = i /\ i \in 0 .. Loads
  /\ line = "end" => alive /\ calls = Loads + 1
  /\ line = "exited" => mConnect = nullptr /\ at = "idle" /\ (alive \/ calls = Loads + 1)
  /\ line = "terminated" => alive

\* main connects at most once.
OneConnection == abandoned = {}

\* Without a connection nothing is stored, and every answer says so.
Unconnected ==
  connection[1] = "unused" =>
    /\ mConnect = nullptr /\ at = "idle" /\ table = {}
    /\ \A n \in CallId : result[n] \in {"pending", "No connection"}

\* Every call has payloads.
HasPayloads == \A n \in CallId : n <= calls => items[n] # <<>>

\* The calls of which something was stored without the answer saying so.  There is
\* at most one, and then there is no session any more that could store another.
Unsaid(n) == result[n] # "Success" /\ Rows(n) \cap table # {}
UnsaidInv ==
  \A n \in CallId : Unsaid(n) =>
    /\ \A m \in CallId : Unsaid(m) => m = n
    /\ n <= calls
    /\ \A c \in Connection : connection[c] # "open"

CallerInv == LineInv /\ OneConnection /\ Unconnected /\ HasPayloads /\ UnsaidInv

LEMMA InitCallerInv == MainInit => CallerInv
  <1> SUFFICES ASSUME MainInit PROVE CallerInv
    OBVIOUS
  <1>1. /\ alive = TRUE /\ mConnect = nullptr /\ connection = [c \in Connection |-> "unused"]
        /\ abandoned = {} /\ at = "idle" /\ calls = 0 /\ table = {}
        /\ result = [n \in CallId |-> "pending"] /\ line = "init" /\ i = 0
    BY DEF MainInit, Init
  <1>2. LineInv
    BY <1>1 DEF LineInv, Fresh
  <1>3. Unconnected
    BY <1>1 DEF Unconnected
  <1>4. HasPayloads
    BY <1>1, MainConstants DEF HasPayloads
  <1>5. UnsaidInv
    BY <1>1 DEF UnsaidInv, Unsaid
  <1> QED BY <1>1, <1>2, <1>3, <1>4, <1>5 DEF CallerInv, OneConnection

-----------------------------------------------------------------------------
(* Its steps.                                                               *)

\* A call of main begins.
LEMMA StartCaller ==
  ASSUME Inv, Inv', CallerInv, NEW s \in Payloads, s # <<>>, NEW n, Start(s, n)
  PROVE  OneConnection' /\ Unconnected' /\ HasPayloads' /\ UnsaidInv' /\ calls' = calls + 1 /\ alive'
  <1>1. /\ alive /\ at = "idle" /\ calls < MaxCalls /\ calls' = calls + 1
        /\ items' = [items EXCEPT ![calls'] = s]
        /\ alive' = alive /\ mConnect' = mConnect /\ abandoned' = abandoned
        /\ connection' = connection /\ table' = table
    BY DEF Start, Idle, driverVars
  <1>2. calls \in 0 .. MaxCalls /\ MaxCalls \in Nat
    BY ConstantsNat DEF Inv, Typed
  <1>3. PICK c \in CallId : c = calls + 1
    BY <1>1, <1>2 DEF CallId
  <1>4. /\ items' = [items EXCEPT ![c] = s] /\ items'[c] = s
        /\ \A m \in CallId : m # c => items'[m] = items[m] /\ result'[m] = result[m]
        /\ result'[c] \in {"pending", "No connection", "Nothing to insert"}
        /\ mConnect = nullptr => at' = at /\ result'[c] = "No connection"
    <2>1. result[c] = "pending"
      BY <1>1, <1>2, <1>3 DEF Inv, CallInv
    <2>2. \/ /\ mConnect = nullptr /\ result' = [result EXCEPT ![c] = "No connection"] /\ at' = at
          \/ mConnect # nullptr /\ result' = [result EXCEPT ![c] = "Nothing to insert"]
          \/ mConnect # nullptr /\ result' = result
      BY <1>1, <1>3 DEF Start
    <2>3. items \in [CallId -> Payloads] /\ result \in [CallId -> Outcome]
      BY DEF Inv, Typed
    <2> QED BY <1>1, <1>3, <2>1, <2>2, <2>3
  <1>5. Unconnected'
    <2> SUFFICES ASSUME connection[1] = "unused"
                 PROVE  /\ mConnect = nullptr /\ at' = "idle" /\ table = {}
                        /\ \A m \in CallId : result'[m] \in {"pending", "No connection"}
      BY <1>1 DEF Unconnected
    <2> QED BY <1>1, <1>4 DEF CallerInv, Unconnected
  <1>6. HasPayloads'
    <2> SUFFICES ASSUME NEW m \in CallId, m <= calls' PROVE items'[m] # <<>>
      BY DEF HasPayloads
    <2>1. m = c \/ m <= calls
      BY <1>1, <1>2, <1>3 DEF CallId
    <2> QED BY <1>4, <2>1 DEF CallerInv, HasPayloads
  <1>7. ASSUME NEW m \in CallId, Unsaid(m)' PROVE Unsaid(m)
    <2>1. m # c
      <3> SUFFICES ASSUME m = c PROVE FALSE
        OBVIOUS
      <3>1. PICK row \in Rows(c)' \cap table' : TRUE
        BY <1>7 DEF Unsaid
      <3>2. row[1] = c
        BY <3>1 DEF Rows
      <3>3. result'[c] \in {"Success", "SQLException"}
        BY <3>1, <3>2 DEF Inv, RowInv
      <3> QED BY <1>4, <3>3
    <2>2. Rows(m)' = Rows(m)
      BY <1>4, <2>1 DEF Rows
    <2> QED BY <1>1, <1>4, <1>7, <2>1, <2>2 DEF Unsaid
  <1>8. UnsaidInv'
    <2>1. \A m \in CallId : m <= calls => m <= calls'
      BY <1>1, <1>2 DEF CallId
    <2> QED BY <1>1, <1>7, <2>1 DEF CallerInv, UnsaidInv
  <1> QED BY <1>1, <1>5, <1>6, <1>8 DEF CallerInv, OneConnection

\* A step of the inserter that ends no statement and makes no connection.
LEMMA QuietCaller ==
  ASSUME CallerInv, UNCHANGED <<calls, items, result, table, abandoned, mConnect>>, at = "idle" => at' = at,
         \A c \in Connection : connection'[c] = "open" => connection[c] = "open",
         connection'[1] = "unused" => connection[1] = "unused"
  PROVE  OneConnection' /\ Unconnected' /\ HasPayloads' /\ UnsaidInv'
  <1>1. \A n \in CallId : Unsaid(n)' <=> Unsaid(n)
    BY DEF Unsaid, Rows
  <1>2. UnsaidInv'
    BY <1>1 DEF CallerInv, UnsaidInv
  <1> QED BY <1>2 DEF CallerInv, OneConnection, Unconnected, HasPayloads

\* The call under way ends.
LEMMA EndCaller ==
  ASSUME Inv, CallerInv, at # "idle", NEW r, Finish(r), UNCHANGED <<driverVars, connection, table>>, r # "Success"
  PROVE  OneConnection' /\ Unconnected' /\ HasPayloads' /\ UnsaidInv'
  <1>1. /\ calls \in CallId /\ result' = [result EXCEPT ![calls] = r] /\ result[calls] = "pending"
        /\ items' = items /\ calls' = calls /\ mConnect' = mConnect /\ abandoned' = abandoned
    BY CallUnderWay DEF Finish, driverVars, Inv, CallInv
  <1>2. \A n \in CallId : Unsaid(n)' => Unsaid(n)
    BY <1>1 DEF Inv, Typed, Unsaid, Rows
  <1>3. UnsaidInv'
    BY <1>1, <1>2 DEF CallerInv, UnsaidInv
  <1> QED BY <1>1, <1>3 DEF CallerInv, OneConnection, Unconnected, HasPayloads

\* The statement of the call under way is executed.
LEMMA ExecuteCaller ==
  ASSUME Inv, CallerInv, Execute \/ ExecuteUnanswered
  PROVE  OneConnection' /\ Unconnected' /\ HasPayloads' /\ UnsaidInv'
  <1>1. at # "idle" /\ connection[mConnect] = "open" /\ driverVars' = driverVars
    BY DEF Execute, ExecuteUnanswered, CanExecute
  <1>2. /\ calls \in CallId /\ mConnect \in Connection /\ calls \in Nat
        /\ connection \in [Connection -> {"unused", "open", "dead", "deleted"}]
        /\ result \in [CallId -> Outcome] /\ result[calls] = "pending"
    BY <1>1, CallUnderWay, ConstantsNat DEF Inv, Typed, CallInv, CallId
  <1>3. table' = table \cup Rows(calls)
    BY SentIsRows DEF Execute, ExecuteUnanswered
  <1>4. /\ calls' = calls /\ items' = items /\ mConnect' = mConnect /\ abandoned' = abandoned
    BY <1>1 DEF Execute, ExecuteUnanswered, Finish, driverVars
  <1>5. \A n \in CallId : ~Unsaid(n)
    BY <1>1, <1>2 DEF CallerInv, UnsaidInv
  <1>6. \A n \in CallId : n # calls => Rows(n)' \cap table' = Rows(n) \cap table
    <2>1. \A n \in CallId : n # calls => Rows(n) \cap Rows(calls) = {}
      BY DEF Rows
    <2>2. \A n \in CallId : Rows(n)' = Rows(n)
      BY <1>4 DEF Rows
    <2> QED BY <1>3, <2>1, <2>2
  <1>7. connection'[1] # "unused"
    <2>1. connection[1] # "unused"
      BY <1>1 DEF CallerInv, Unconnected
    <2> QED BY <1>2, <2>1, MainConstants DEF Execute, ExecuteUnanswered
  <1>8. UnsaidInv'
    <2>1. CASE Execute
      <3>1. result' = [result EXCEPT ![calls] = "Success"]
        BY <2>1 DEF Execute, Finish
      <3>2. \A n \in CallId : ~Unsaid(n)'
        BY <1>2, <1>5, <1>6, <3>1 DEF Unsaid
      <3> QED BY <3>2 DEF UnsaidInv
    <2>2. CASE ExecuteUnanswered
      <3>1. result' = [result EXCEPT ![calls] = "SQLException"] /\ connection' = [connection EXCEPT ![mConnect] = "dead"]
        BY <2>2 DEF ExecuteUnanswered, Finish
      <3>2. \A n \in CallId : Unsaid(n)' => n = calls
        BY <1>2, <1>5, <1>6, <3>1 DEF Unsaid
      <3>3. \A c \in Connection : connection'[c] # "open"
        <4>1. \A c \in Connection : connection[c] = "open" => c = mConnect
          BY DEF Inv, ConnInv, CallerInv, OneConnection
        <4> QED BY <1>2, <3>1, <4>1
      <3>4. calls <= calls
        BY <1>2
      <3> QED BY <1>4, <3>2, <3>3, <3>4 DEF UnsaidInv
    <2> QED BY <2>1, <2>2
  <1>9. OneConnection' /\ HasPayloads'
    BY <1>4 DEF CallerInv, OneConnection, HasPayloads
  <1> QED BY <1>7, <1>8, <1>9 DEF Unconnected

\* main keeps its place and its count while the inserter works.
LEMMA LineStays ==
  ASSUME LineInv, mainVars' = mainVars, alive' = alive, calls' = calls, mConnect' = mConnect,
         at = "idle" => at' = at,
         Fresh => table' = table /\ \A c \in Connection : connection[c] = "unused" => connection'[c] = "unused"
  PROVE  LineInv'
  <1>1. line' = line /\ i' = i
    BY DEF mainVars
  <1>2. Fresh => Fresh'
    BY DEF Fresh
  <1> QED BY <1>1, <1>2 DEF LineInv

LEMMA WithinCaller ==
  ASSUME Inv, CallerInv, Within
  PROVE  CallerInv'
  <1>1. at # "idle" /\ mainVars' = mainVars
    BY DEF Within, Prepare, Bind, Execute, ExecuteUnanswered, ExecuteFails, CanExecute
  <1>2. driverVars' = driverVars /\ calls' = calls /\ items' = items
    BY DEF Within, Prepare, Bind, Execute, ExecuteUnanswered, ExecuteFails, Finish
  <1>3. ~Fresh
    BY <1>1 DEF Fresh
  <1>4. LineInv'
    BY <1>1, <1>2, <1>3, LineStays DEF CallerInv, driverVars
  <1>5. OneConnection' /\ Unconnected' /\ HasPayloads' /\ UnsaidInv'
    <2>1. CASE Execute \/ ExecuteUnanswered
      BY <2>1, ExecuteCaller
    <2>2. CASE \E r \in {"SQLException", "threw"} : Finish(r) /\ UNCHANGED <<connection, table>>
      BY <1>1, <1>2, <2>2, EndCaller
    <2>3. CASE UNCHANGED <<result, connection, table>>
      BY <1>1, <1>2, <2>3, QuietCaller DEF driverVars
    <2> QED BY <2>1, <2>2, <2>3 DEF Within, Prepare, Bind, ExecuteFails
  <1> QED BY <1>4, <1>5 DEF CallerInv

LEMMA SessionCaller ==
  ASSUME Inv, CallerInv, Sessions
  PROVE  CallerInv'
  <1>1. PICK c \in Connection : SessionDies(c)
    BY DEF Sessions
  <1>2. /\ connection[c] = "open" /\ connection' = [connection EXCEPT ![c] = "dead"]
        /\ UNCHANGED <<driverVars, callVars, table>> /\ mainVars' = mainVars
    BY <1>1 DEF SessionDies, Sessions
  <1>3. connection \in [Connection -> {"unused", "open", "dead", "deleted"}]
    BY DEF Inv, Typed
  <1>4. LineInv'
    BY <1>2, <1>3, LineStays DEF CallerInv, driverVars, callVars, Fresh
  <1>5. OneConnection' /\ Unconnected' /\ HasPayloads' /\ UnsaidInv'
    BY <1>2, <1>3, QuietCaller, MainConstants DEF driverVars, callVars
  <1> QED BY <1>4, <1>5 DEF CallerInv

\* The one attempt to connect.
LEMMA ConnectCaller ==
  ASSUME Inv, CallerInv, ConnectFirst
  PROVE  CallerInv'
  <1>1. line = "connect" /\ line' = "single" /\ i' = i
    BY DEF ConnectFirst
  <1>2. Fresh /\ i = 0 /\ abandoned = {}
    BY <1>1 DEF CallerInv, LineInv, OneConnection
  <1>3. callVars' = callVars /\ table' = table /\ alive' = alive /\ abandoned' = {}
    BY <1>2 DEF ConnectFirst, Connect, ConnectFails, Release, Fresh
  <1>4. calls' = 0 /\ at' = "idle" /\ table' = {} /\ items' = items /\ result' = result
    BY <1>2, <1>3 DEF Fresh, callVars
  <1>5. LineInv'
    BY <1>1, <1>2, <1>3, <1>4, MainConstants DEF LineInv, Fresh
  <1>6. HasPayloads'
    BY <1>2, <1>4 DEF CallerInv, HasPayloads, Fresh
  <1>7. UnsaidInv'
    BY <1>4 DEF UnsaidInv, Unsaid
  <1>8. Unconnected'
    <2>1. CASE ConnectFails
      BY <1>2, <1>4, <2>1, MainConstants DEF ConnectFails, CallerInv, Unconnected, Fresh
    <2>2. CASE Connect
      <3>1. PICK c \in Connection :
              /\ \A d \in Connection : connection[d] = "unused" => c <= d
              /\ connection' = [connection EXCEPT ![c] = "open"]
        BY <2>2 DEF Connect
      <3>2. c = 1
        <4>1. c <= 1
          BY <1>2, <3>1, MainConstants DEF Fresh
        <4> QED BY <4>1, ConstantsNat DEF Connection
      <3>3. connection'[1] = "open"
        BY <3>1, <3>2, MainConstants DEF Inv, Typed
      <3> QED BY <3>3 DEF Unconnected
    <2> QED BY <2>1, <2>2 DEF ConnectFirst
  <1> QED BY <1>3, <1>5, <1>6, <1>7, <1>8 DEF CallerInv, OneConnection

\* The end of the scope.
LEMMA LeaveCaller ==
  ASSUME Inv, CallerInv, Leave
  PROVE  CallerInv'
  <1>1. /\ line = "end" /\ line' = "exited" /\ at = "idle" /\ alive' = FALSE /\ mConnect' = nullptr
        /\ callVars' = callVars /\ table' = table /\ abandoned' = abandoned
        /\ connection' = [c \in Connection |-> IF c = mConnect THEN "deleted" ELSE connection[c]]
    BY DEF Leave, Destroy, Idle
  <1>2. calls' = calls /\ at' = at /\ items' = items /\ result' = result
    BY <1>1 DEF callVars
  <1>3. calls = Loads + 1
    BY <1>1 DEF CallerInv, LineInv
  <1>4. LineInv'
    BY <1>1, <1>2, <1>3 DEF LineInv
  <1>5. /\ \A c \in Connection : connection'[c] = "open" => connection[c] = "open"
        /\ connection'[1] = "unused" => connection[1] = "unused"
    BY <1>1, MainConstants
  <1>6. \A n \in CallId : Unsaid(n)' <=> Unsaid(n)
    BY <1>1, <1>2 DEF Unsaid, Rows
  <1>7. UnsaidInv'
    BY <1>2, <1>5, <1>6 DEF CallerInv, UnsaidInv
  <1>8. Unconnected'
    BY <1>1, <1>2, <1>5 DEF CallerInv, Unconnected
  <1> QED BY <1>1, <1>2, <1>4, <1>7, <1>8 DEF CallerInv, OneConnection, HasPayloads

\* The calls of main.
LEMMA SingleCaller ==
  ASSUME Inv, Inv', CallerInv, Single
  PROVE  CallerInv'
  <1>1. /\ line = "single" /\ i < Loads /\ Start(<< "sound" >>, 3) /\ i' = i + 1 /\ line' = line
    BY DEF Single
  <1>2. calls = i /\ i \in 0 .. Loads
    BY <1>1 DEF CallerInv, LineInv
  <1>3. << "sound" >> # <<>>
    OBVIOUS
  <1>4. OneConnection' /\ Unconnected' /\ HasPayloads' /\ UnsaidInv' /\ calls' = calls + 1 /\ alive'
    BY <1>1, <1>3, SinglePayloads, StartCaller
  <1>5. i' \in 0 .. Loads
    BY <1>1, <1>2, MainConstants
  <1>6. LineInv'
    BY <1>1, <1>2, <1>4, <1>5 DEF LineInv
  <1> QED BY <1>4, <1>6 DEF CallerInv

LEMMA BulkCaller ==
  ASSUME Inv, Inv', CallerInv, Bulk
  PROVE  CallerInv'
  <1>1. /\ line = "single" /\ i = Loads /\ line' = "end"
        /\ Start([k \in 1 .. Loads |-> "sound"], 3)
    BY DEF Bulk
  <1>2. calls = i
    BY <1>1 DEF CallerInv, LineInv
  <1>3. [k \in 1 .. Loads |-> "sound"] # <<>>
    <2>1. 1 \in DOMAIN [k \in 1 .. Loads |-> "sound"]
      BY MainConstants
    <2> QED BY <2>1
  <1>4. OneConnection' /\ Unconnected' /\ HasPayloads' /\ UnsaidInv' /\ calls' = calls + 1 /\ alive'
    BY <1>1, <1>3, BulkPayloads, StartCaller
  <1>5. LineInv'
    BY <1>1, <1>2, <1>4 DEF LineInv
  <1> QED BY <1>4, <1>5 DEF CallerInv

\* The steps that leave the inserter alone.
LEMMA AsideCaller ==
  ASSUME Inv, CallerInv, UNCHANGED vars,
         GlobalInit \/ StartPrompt \/ Terminate \/ ShortOfMemory \/ Typing \/ PressEnter \/ UNCHANGED mainVars
  PROVE  CallerInv'
  <1>1. /\ alive' = alive /\ mConnect' = mConnect /\ abandoned' = abandoned /\ connection' = connection
        /\ calls' = calls /\ at' = at /\ items' = items /\ result' = result /\ table' = table
    BY DEF vars, driverVars, callVars
  <1>2. OneConnection' /\ Unconnected' /\ HasPayloads' /\ UnsaidInv'
    BY <1>1, QuietCaller
  <1>3. Fresh => Fresh'
    BY <1>1 DEF Fresh
  <1>4. LineInv'
    <2>1. CASE GlobalInit
      BY <1>1, <1>3, <2>1 DEF GlobalInit, CallerInv, LineInv, Fresh
    <2>2. CASE Terminate \/ ShortOfMemory
      BY <1>1, <2>2 DEF Terminate, ShortOfMemory, CallerInv, LineInv, Fresh
    <2>3. CASE mainVars' = mainVars
      BY <1>1, <2>3, LineStays DEF CallerInv
    <2> QED BY <2>1, <2>2, <2>3 DEF StartPrompt, Typing, PressEnter
  <1> QED BY <1>2, <1>4 DEF CallerInv

LEMMA NextCallerInv ==
  ASSUME Inv, CallerInv, [MainNext]_allVars
  PROVE  CallerInv'
  <1>1. Inv'
    BY MainSteps, NextInv
  <1>2. ASSUME GlobalInit \/ StartPrompt \/ Terminate \/ ShortOfMemory \/ Typing \/ PressEnter \/ UNCHANGED allVars
        PROVE  CallerInv'
    <2>1. UNCHANGED vars
      BY <1>2 DEF GlobalInit, StartPrompt, Terminate, ShortOfMemory, Typing, PressEnter, allVars
    <2> QED BY <1>2, <2>1, AsideCaller DEF allVars
  <1> QED BY <1>1, <1>2, ConnectCaller, SingleCaller, BulkCaller, LeaveCaller, WithinCaller, SessionCaller
          DEF MainNext, MainStep

LEMMA AlwaysCallerInv == MainSpec => [](Inv /\ CallerInv)
  <1>1. MainInit => Inv /\ CallerInv
    BY InitCallerInv, InitInv DEF MainInit
  <1>2. (Inv /\ CallerInv) /\ [MainNext]_allVars => (Inv /\ CallerInv)'
    BY NextCallerInv, MainSteps, NextInv
  <1> QED BY <1>1, <1>2, PTL DEF MainSpec

-----------------------------------------------------------------------------
(* What main leaves behind, and what it can say of its payloads.            *)

\* At the end of main no statement and no connection object is left that nobody
\* deleted, whichever calls failed (main.cpp:25-66, SQL_inserter.h:30-47).
THEOREM MainLeavesNothing == MainSpec => []NothingLeftBehind
  <1>1. Inv /\ CallerInv => NothingLeftBehind
    <2> SUFFICES ASSUME Inv, CallerInv, line = "exited"
                 PROVE  /\ pstmt = NoStatement
                        /\ \A c \in Connection : connection[c] \in {"unused", "deleted"}
      BY DEF NothingLeftBehind
    <2>1. mConnect = nullptr /\ at = "idle" /\ abandoned = {}
      BY DEF CallerInv, LineInv, OneConnection
    <2>2. pstmt = NoStatement
      BY <2>1 DEF Inv, CallInv
    <2>3. ASSUME NEW c \in Connection PROVE connection[c] \in {"unused", "deleted"}
      <3>1. c # nullptr
        BY ConstantsNat DEF Connection, nullptr
      <3>2. connection[c] \notin {"open", "dead"}
        BY <2>1, <3>1 DEF Inv, ConnInv
      <3> QED BY <3>2 DEF Inv, Typed
    <2> QED BY <2>2, <2>3
  <1> QED BY <1>1, AlwaysCallerInv, PTL

\* When main has run to its end each of its calls has an answer; without a
\* connection nothing is stored and every answer says so; and at most one call
\* was stored without its answer saying so (main.cpp:43-60).
THEOREM MainAnswersEveryPayload == MainSpec => []EveryPayloadAnswered
  <1>1. Inv /\ CallerInv => EveryPayloadAnswered
    <2> SUFFICES ASSUME Inv, CallerInv, line = "exited", ~alive PROVE EveryPayloadAnswered
      BY DEF EveryPayloadAnswered
    <2>1. calls = Loads + 1 /\ at = "idle"
      BY DEF CallerInv, LineInv
    <2>2. \A n \in CallId : n <= calls
      BY <2>1, MainConstants
    <2>3. \A n \in CallId : result[n] # "pending"
      BY <2>1, <2>2 DEF Inv, CallInv
    <2>4. connection[1] = "unused" => table = {} /\ \A n \in CallId : result[n] = "No connection"
      BY <2>3 DEF CallerInv, Unconnected
    <2>5. PICK U : U = {n \in CallId : result[n] # "Success" /\ Rows(n) \subseteq table}
      OBVIOUS
    <2>6. ASSUME NEW n \in U PROVE n \in CallId /\ Unsaid(n)
      <3>1. n \in CallId /\ result[n] # "Success" /\ Rows(n) \subseteq table
        BY <2>5
      <3>2. items[n] \in Seq(Payload) /\ items[n] # <<>>
        BY <2>2, <3>1, PayloadsType DEF CallerInv, HasPayloads, Inv, Typed
      <3>3. 1 \in DOMAIN items[n]
        BY <3>2
      <3>4. <<n, 1>> \in Rows(n)
        BY <3>3 DEF Rows
      <3> QED BY <3>1, <3>4 DEF Unsaid
    <2>7. \A n, m \in U : n = m
      BY <2>6 DEF CallerInv, UnsaidInv
    <2>8. Cardinality(U) <= 1
      <3>1. CASE U = {}
        <4>1. Cardinality(U) = 0
          BY <3>1, FS_EmptySet
        <4> QED BY <4>1
      <3>2. CASE U # {}
        <4>1. PICK n : U = {n}
          BY <2>7, <3>2
        <4>2. Cardinality(U) = 1
          BY <4>1, FS_Singleton
        <4> QED BY <4>2
      <3> QED BY <3>1, <3>2
    <2> QED BY <2>1, <2>3, <2>4, <2>5, <2>8 DEF EveryPayloadAnswered
  <1> QED BY <1>1, AlwaysCallerInv, PTL

-----------------------------------------------------------------------------
(* The password prompt.                                                     *)

\* While the user types, the buffer holds printable characters, within the limit and
\* one for each asterisk; then a terminator is behind them.
Entered(b) == b \in Seq(Printable) /\ Len(b) <= MaxBufferSize /\ stars = Len(b)
PromptInv ==
  /\ pc \in {"start", "typing", "ready", "destroyed", "threw"}
  /\ pc \in {"start", "typing"} => Entered(buffer)
  /\ pc = "ready" => \E b : Entered(b) /\ buffer = Append(b, Prompt!Zero)

LEMMA InitPromptInv == MainInit => PromptInv
  <1> SUFFICES ASSUME MainInit PROVE PromptInv
    OBVIOUS
  <1>1. pc = "start" /\ buffer = <<>> /\ stars = 0
    BY DEF MainInit, Prompt!Init
  <1>2. <<>> \in Seq(Printable) /\ Len(<<>>) = 0
    OBVIOUS
  <1> QED BY <1>1, <1>2, PromptAssumption DEF PromptInv, Entered

\* The keys.
LEMMA TypingPromptInv ==
  ASSUME PromptInv, pc = "typing", Prompt!Backspace \/ \E c \in Printable : Prompt!TypeCharacter(c)
  PROVE  PromptInv'
  <1>1. buffer \in Seq(Printable) /\ Len(buffer) <= MaxBufferSize /\ stars = Len(buffer)
        /\ Len(buffer) \in Nat /\ MaxBufferSize \in Nat
    BY PromptAssumption DEF PromptInv, Entered
  <1>2. CASE Prompt!Backspace
    <2>1. /\ pc' = "typing" /\ buffer # <<>>
          /\ buffer' = SubSeq(buffer, 1, Len(buffer) - 1) /\ stars' = stars - 1
      BY <1>2 DEF Prompt!Backspace
    <2>2. Len(buffer) - 1 \in 0 .. Len(buffer)
      BY <1>1, <2>1
    <2>3. buffer' \in Seq(Printable) /\ Len(buffer') = Len(buffer) - 1
      BY <1>1, <2>1, <2>2
    <2> QED BY <1>1, <2>1, <2>3 DEF PromptInv, Entered
  <1>3. ASSUME NEW c \in Printable, Prompt!TypeCharacter(c) PROVE PromptInv'
    <2>1. CASE Len(buffer) < MaxBufferSize
      <3>1. pc' = "typing" /\ buffer' = Append(buffer, c) /\ stars' = stars + 1
        BY <1>3, <2>1 DEF Prompt!TypeCharacter, Prompt!HasRoom, Prompt!EmplaceBack
      <3>2. buffer' \in Seq(Printable) /\ Len(buffer') = Len(buffer) + 1
        BY <1>1, <3>1
      <3> QED BY <1>1, <2>1, <3>1, <3>2 DEF PromptInv, Entered
    <2>2. CASE ~(Len(buffer) < MaxBufferSize)
      <3>1. pc' = "typing" /\ buffer' = buffer /\ stars' = stars
        BY <1>3, <2>2 DEF Prompt!TypeCharacter, Prompt!HasRoom
      <3> QED BY <1>1, <3>1 DEF PromptInv, Entered
    <2> QED BY <2>1, <2>2
  <1> QED BY <1>2, <1>3

LEMMA NextPromptInv ==
  ASSUME PromptInv, [MainNext]_allVars
  PROVE  PromptInv'
  <1>1. CASE UNCHANGED promptVars
    BY <1>1 DEF promptVars, PromptInv, Entered
  <1>2. CASE Typing
    BY <1>2, TypingPromptInv DEF Typing, Prompt!Backspace, Prompt!TypeCharacter
  <1>3. CASE PressEnter
    <2>1. CASE pc' = "threw"
      BY <2>1 DEF PromptInv
    <2>2. CASE pc' # "threw"
      <3>1. pc = "typing" /\ pc' = "ready" /\ buffer' = Append(buffer, Prompt!Zero) /\ stars' = stars
        BY <1>3, <2>2 DEF PressEnter, Prompt!Enter, Prompt!EmplaceBack
      <3> QED BY <3>1 DEF PromptInv, Entered
    <2> QED BY <2>1, <2>2
  <1>4. CASE StartPrompt
    <2>1. pc = "start" /\ pc' \in {"typing", "threw"} /\ buffer' = buffer /\ stars' = stars
      BY <1>4 DEF StartPrompt, Prompt!Reserve
    <2> QED BY <2>1 DEF PromptInv, Entered
  <1>5. CASE ConnectFirst
    BY <1>5 DEF ConnectFirst, Prompt!Destroy, PromptInv
  <1> QED BY <1>1, <1>2, <1>3, <1>4, <1>5
          DEF MainNext, MainStep, GlobalInit, Terminate, ShortOfMemory, Single, Bulk, Leave, Within, Sessions, allVars

LEMMA AlwaysPromptInv == MainSpec => []PromptInv
  BY InitPromptInv, NextPromptInv, PTL DEF MainSpec

\* The prompt shows one asterisk for each character that is kept, whatever is typed
\* and taken back; and the connector gets a C string of at most MAX_BUFFER_SIZE
\* characters, with one terminator, at its end (CharBuffer.cpp:13-37).
THEOREM PromptFaithful == MainSpec => []PromptIsFaithful
  <1>1. PromptInv => PromptIsFaithful
    <2> SUFFICES ASSUME PromptInv PROVE Prompt!ScreenShowsBuffer /\ Prompt!IsCString
      BY DEF PromptIsFaithful
    <2> DEFINE Kept == {k \in DOMAIN buffer : buffer[k] # Prompt!Zero}
    <2>1. /\ (pc \in {"typing", "ready"} => stars = Cardinality(Kept)) => Prompt!ScreenShowsBuffer
          /\ (pc = "ready" =>
               /\ Len(buffer) \in 1 .. MaxBufferSize + 1
               /\ \A k \in DOMAIN buffer : buffer[k] = Prompt!Zero <=> k = Len(buffer))
             => Prompt!IsCString
      <3>1. Prompt!Cardinality(Kept) = Cardinality(Kept)
        BY DEF Prompt!Cardinality, Cardinality
      <3>2. Prompt!ScreenShowsBuffer <=> (pc \in {"typing", "ready"} => stars = Prompt!Cardinality(Kept))
        BY DEF Prompt!ScreenShowsBuffer
      <3>3. (pc = "ready" =>
              /\ Len(buffer) \in 1 .. MaxBufferSize + 1
              /\ \A k \in DOMAIN buffer : buffer[k] = Prompt!Zero <=> k = Len(buffer))
            => Prompt!IsCString
        BY DEF Prompt!IsCString
      <3> HIDE DEF Kept
      <3> QED BY <3>1, <3>2, <3>3
    <2>2. ASSUME NEW b, Entered(b)
          PROVE  /\ b \in Seq(Printable) /\ Len(b) \in 0 .. MaxBufferSize /\ stars = Len(b)
                 /\ Len(b) \in Nat /\ MaxBufferSize \in Nat
                 /\ \A k \in 1 .. Len(b) : b[k] # Prompt!Zero
                 /\ Cardinality(1 .. Len(b)) = Len(b)
      <3>1. b \in Seq(Printable) /\ Len(b) <= MaxBufferSize /\ stars = Len(b) /\ Len(b) \in Nat
        BY <2>2 DEF Entered
      <3>2. \A k \in 1 .. Len(b) : b[k] \in Printable
        BY <3>1
      <3>3. 1 \in Int /\ Len(b) \in Int /\ (1 > Len(b) => Len(b) = 0) /\ (Len(b) - 1) + 1 = Len(b)
        BY <3>1
      <3>4. Cardinality(1 .. Len(b)) = Len(b)
        BY <3>3, FS_Interval
      <3> QED BY <3>1, <3>2, <3>4, PromptAssumption
    <2>3. CASE pc = "ready"
      <3>1. PICK b : Entered(b) /\ buffer = Append(b, Prompt!Zero)
        BY <2>3 DEF PromptInv
      <3>2. /\ b \in Seq(Printable) /\ Len(b) \in 0 .. MaxBufferSize /\ stars = Len(b)
            /\ Len(b) \in Nat /\ MaxBufferSize \in Nat
            /\ \A k \in 1 .. Len(b) : b[k] # Prompt!Zero
            /\ Cardinality(1 .. Len(b)) = Len(b)
        BY <2>2, <3>1
      <3>3. /\ DOMAIN buffer = 1 .. Len(b) + 1 /\ Len(buffer) = Len(b) + 1
            /\ buffer[Len(b) + 1] = Prompt!Zero
            /\ \A k \in 1 .. Len(b) : buffer[k] = b[k]
        BY <3>1, <3>2
      <3>4. \A k \in DOMAIN buffer : buffer[k] = Prompt!Zero <=> k = Len(buffer)
        BY <3>2, <3>3
      <3>5. Kept = 1 .. Len(b)
        BY <3>2, <3>3, <3>4
      <3>6. Len(buffer) \in 1 .. MaxBufferSize + 1
        BY <3>2, <3>3
      <3>7. stars = Cardinality(Kept)
        BY <3>2, <3>5
      <3> HIDE DEF Kept
      <3> QED BY <2>1, <2>3, <3>4, <3>6, <3>7
    <2>4. CASE pc = "typing"
      <3>1. Entered(buffer)
        BY <2>4 DEF PromptInv
      <3>2. /\ buffer \in Seq(Printable) /\ stars = Len(buffer)
            /\ \A k \in 1 .. Len(buffer) : buffer[k] # Prompt!Zero
            /\ Cardinality(1 .. Len(buffer)) = Len(buffer)
        BY <2>2, <3>1
      <3>3. Kept = 1 .. Len(buffer)
        BY <3>2
      <3>4. stars = Cardinality(Kept)
        BY <3>2, <3>3
      <3> HIDE DEF Kept
      <3> QED BY <2>1, <2>4, <3>4
    <2>5. CASE pc \notin {"typing", "ready"}
      BY <2>5 DEF Prompt!ScreenShowsBuffer, Prompt!IsCString
    <2> QED BY <2>3, <2>4, <2>5
  <1> QED BY <1>1, AlwaysPromptInv, PTL

=============================================================================
