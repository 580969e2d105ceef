------------------------------ MODULE BulkTable ------------------------------
(***************************************************************************)
(* What a caller of an SQLInserter may rely on, without its connection and *)
(* its statement: the payloads of a call come to the table all at once, if *)
(* at all, in the step that answers the call, and a call is answered once. *)
(* Only an SQLException leaves open whether they came.                     *)
(***************************************************************************)
EXTENDS Naturals

CONSTANTS MaxCalls,     \* bound: calls made
          MaxBulk,      \* bound: payloads of one bulk
          Payload

CallId == 1 .. MaxCalls
Payloads == UNION {[1 .. k -> Payload] : k \in 0 .. MaxBulk}

VARIABLES calls, items, result, table

tableVars == <<calls, items, result, table>>

Rows(n) == {<<n, k>> : k \in DOMAIN items[n]}

Init ==
  /\ calls = 0 /\ items = [n \in CallId |-> <<>>]
  /\ result = [n \in CallId |-> "pending"] /\ table = {}

\* A call is made; it may be refused without a try.
Call(s) ==
  /\ calls < MaxCalls /\ (calls > 0 => result[calls] # "pending")
  /\ calls' = calls + 1 /\ items' = [items EXCEPT ![calls'] = s]
  /\ \E r \in {"pending", "No connection", "Nothing to insert"} :
       result' = [result EXCEPT ![calls'] = r]
  /\ UNCHANGED table

\* The call under way is answered.
Answer(r) ==
  /\ calls > 0 /\ result[calls] = "pending"
  /\ result' = [result EXCEPT ![calls] = r]
  /\ UNCHANGED <<calls, items>>

Stored == Answer("Success") /\ table' = table \cup Rows(calls)
Threw == Answer("threw") /\ UNCHANGED table
InDoubt ==
  Answer("SQLException") /\ (UNCHANGED table \/ table' = table \cup Rows(calls))

Next == (\E s \in Payloads : Call(s)) \/ Stored \/ Threw \/ InDoubt

Spec == Init /\ [][Next]_tableVars

=============================================================================
