---------------------------- MODULE WebPayloads ----------------------------
(***************************************************************************)
(* From a request to a payload: a caller that makes the calls of WebFetch  *)
(* and of PayloadArray in any order, and gives the handle that the last    *)
(* request_data or multi_request_data returned to the third                *)
(* try_make_payload.                                                       *)
(***************************************************************************)
EXTENDS Integers, Sequences

CONSTANTS MaxCalls, MaxChunks, HttpCodes, ContentTypes,   \* of WebFetch
          MaxPayloads, LabelSizes, Recipients,            \* of PayloadArray
          Bodies                                          \* json texts a server sends, and "text"

ASSUME BoundsAssumption ==
  {MaxCalls, MaxChunks, MaxPayloads} \cup HttpCodes \cup LabelSizes \subseteq Nat

VARIABLES calls, result, errors, sending, injectables, mine, given, answer, accepted,
          served       \* history: the body the server had for the last request

fetchVars == <<calls, result, errors, sending, served>>
arrayVars == <<injectables, mine, given, answer, accepted>>
vars == <<fetchVars, arrayVars>>

Fetch == INSTANCE WebFetch
Array == INSTANCE PayloadArray

Init == Fetch!Init /\ Array!Init /\ served = "text"

Running == answer # "terminate"

Request ==
  /\ Running
  /\ Fetch!request_data \/ Fetch!multi_request_data
  /\ served' \in Bodies /\ UNCHANGED arrayVars

Validate == Running /\ Fetch!validate_certificate /\ UNCHANGED <<served, arrayVars>>

\* What the handle's data holds: nothing, the server's text, or a part of it.
Body ==
  IF result.data = 0 THEN "none" ELSE IF result.data = sending THEN served ELSE "text"

\* The last request has returned a handle.
HasHandle == result.fn \in {"request_data", "multi_request_data"}

Store ==
  /\ HasHandle
  /\ \E size \in LabelSizes, id \in Recipients :
       Array!FromHandle(result.is_good, Body, result.contentType, size, id)
  /\ UNCHANGED fetchVars

Direct == Array!FromMine /\ UNCHANGED fetchVars

Next == Request \/ Validate \/ Store \/ Direct

Spec == Init /\ [][Next]_vars

-----------------------------------------------------------------------------
\* A caller of request_data can tell a failed call from a good one, whatever the
\* calls before it left in the logger.
HandleTells == Fetch!HandleTells

\* The array holds the payloads of the calls that answered Success, in their order,
\* and nothing else; each is well labelled, and empty only if an answer was.
HoldsWhatSucceeded == Array!HoldsWhatSucceeded

\* A payload is made from a web answer now.
Stored == injectables' # injectables /\ given'.fn = "handle"

\* A payload made from a web answer is the whole answer of a transfer: is_good keeps
\* out bodies that were cut short, and also those that arrived whole before the
\* transfer failed.  One of request_data has no error in the logger, but may be an
\* error page; one of multi_request_data is not, but the logger may have an error.
StoredIsGoodAnswer ==
  [][Stored =>
       /\ result.data = sending
       /\ injectables'[Len(injectables')].data = served
       /\ IF result.fn = "request_data" THEN ~Fetch!LoggedLast
          ELSE result.httpcode \in Fetch!Successful]_vars

\* "Failure: Not a json" is answered only to what does not claim to be JSON.
RefusedAsNotJson ==
  answer = "Failure: Not a json" => given.type # "application/json"

=============================================================================
