---------------------------- MODULE PayloadArray ----------------------------
(***************************************************************************)
(* badSQL::PayloadArray (Payload_array.cpp): Payloads made from JSON that  *)
(* the caller copies or moves in, or from what a transfer returned.        *)
(*                                                                         *)
(* The caller keeps one json variable, mine, and passes it to either of    *)
(* the first two overloads.  A json is "null" (also what a moved-from one  *)
(* holds), "{}", or "full"; a label is its length.  The body of a handle   *)
(* is the text of a json, or is not one; parse is given its address        *)
(* without its length, so what follows the body in memory is read too, up  *)
(* to a zero: behind a whole document that can only be an error, so a body *)
(* may fail to parse whatever it is worth.  (A body that is a bare number  *)
(* could go on in the digits behind it; no endpoint of the program answers *)
(* with one.)  Every overload is noexcept, so an allocation that fails     *)
(* ends the program.                                                       *)
(***************************************************************************)
EXTENDS Naturals, Sequences

CONSTANTS MaxPayloads,      \* bound: payloads in the array
          LabelSizes,       \* lengths of the labels given
          Recipients        \* ids that payloads are made for

Json == {"null", "{}", "full"}
IsEmptyJson(j) == j \in {"null", "{}"}

VARIABLES
  injectables,    \* the array; fetched is history
  mine,           \* the json variable of the caller
  given,          \* history: the arguments of the last call
  answer,         \* its result, or "terminate"
  accepted        \* history: the payloads of the calls that answered Success

payloadVars == <<injectables, mine, given, answer, accepted>>

NoCall == [fn |-> "none"]

Init ==
  /\ injectables = <<>> /\ mine \in Json
  /\ given = NoCall /\ answer = "Success" /\ accepted = <<>>

\* The payload that the arguments of the last call make.
Given == [data |-> given.json, label |-> given.label, recipient_id |-> given.id,
          fetched |-> given.fn = "handle"]

\* The answer to a bad label, if it is bad.
BadLabel(size) ==
  IF size = 0 THEN {"Failure: Missing label"}
  ELSE IF size > 256 THEN {"Failure: Large label"} ELSE {}

\* (mutant) the payload is in the array before its label has been checked.
RefuseLate(answers) ==
  /\ answer' \in answers
  /\ injectables' = Append(injectables, Given')

\* One of answers is returned, unless memory is too short for its text.
Refuse(answers) == answer' \in answers \cup {"terminate"} /\ UNCHANGED injectables

\* Once every check has passed the payload is appended, or memory is too short.
Accept ==
  \/ /\ injectables' = Append(injectables, Given')
     /\ answer' = "Success"
  \/ Refuse({})

Call(args) ==
  /\ answer # "terminate" /\ Len(injectables) < MaxPayloads
  /\ given' = args

\* What the caller is told by the answer.
Told == accepted' = IF answer' = "Success" THEN Append(accepted, Given') ELSE accepted

\* The caller's variable takes another value.
Assign ==
  /\ answer # "terminate"
  /\ \E j \in Json : mine' = j
  /\ UNCHANGED <<injectables, given, answer, accepted>>

\* try_make_payload(const json&, label, id)
CopyIn(size, id) ==
  /\ Call([fn |-> "copy", json |-> mine, label |-> size, id |-> id])
  /\ IF IsEmptyJson(mine) THEN Refuse({"Failure: empty data"})
     ELSE IF BadLabel(size) # {} THEN Refuse(BadLabel(size))
     ELSE Accept
  /\ Told /\ UNCHANGED mine

\* try_make_payload(json&&, label, id): the json is moved before any check.
MoveIn(size, id) ==
  /\ Call([fn |-> "move", json |-> mine, label |-> size, id |-> id])
  /\ mine' = "null"
  /\ IF IsEmptyJson(mine) THEN Refuse({"Failure: empty data"})
     ELSE IF BadLabel(size) # {} THEN Refuse(BadLabel(size))
     ELSE Accept
  /\ Told

\* The content types that the last check refuses; an undefined one may equal them.
RefusedTypes == {"application/json"}
MayBeRefused == RefusedTypes \cup {"undefined"}

\* try_make_payload(const WebRequestHandle&, label, id)
FromHandle(good, body, type, size, id) ==
  /\ Call([fn |-> "handle", is_good |-> good, json |-> body, type |-> type,
           label |-> size, id |-> id])
  /\ IF ~good THEN Refuse({"Failure: Broken handle"})
     ELSE IF body = "none" THEN Refuse({"Failure: Empty data"})
     ELSE IF BadLabel(size) # {} THEN Refuse(BadLabel(size))
     ELSE \/ type \in MayBeRefused /\ Refuse({"Failure: Not a json"})
          \/ type \notin RefusedTypes /\ Refuse({"parse error"})
          \/ type \notin RefusedTypes /\ body \in Json /\ Accept
  /\ Told /\ UNCHANGED mine

\* What the caller does without a handle.
FromMine ==
  Assign \/ \E size \in LabelSizes, id \in Recipients : CopyIn(size, id) \/ MoveIn(size, id)

-----------------------------------------------------------------------------
\* The array holds the payloads of the calls that answered Success, in the order of
\* the calls, and nothing else: a call that is refused by whatever check leaves nothing,
\* and one that answers Success has stored what it was given.  Each has a label of 1 to
\* 256 characters, and only one that was parsed from an answer may be empty.
HoldsWhatSucceeded ==
  /\ injectables = accepted
  /\ \A k \in DOMAIN injectables :
       /\ injectables[k].label \in 1 .. 256
       /\ IsEmptyJson(injectables[k].data) => injectables[k].fetched

=============================================================================
