-------------------------- MODULE WebPayloads_proofs --------------------------
(***************************************************************************)
(* Theorems about WebPayloads for any numbers of calls, chunks, payloads,  *)
(* recipients, labels, bodies, statuses and content types: what a handle   *)
(* tells, what the array holds, and what is stored of a web answer.        *)
(***************************************************************************)
EXTENDS WebPayloads, SequenceTheorems, TLAPS

-----------------------------------------------------------------------------
(* The invariant of the requests: no message of the log is of a call yet to *)
(* be made.                                                                 *)

\* A message of the log.
Why == {"init", "setopt", "perform", "batch"}
Entry == [call : Nat, why : Why]

LogInv ==
  /\ calls \in Nat /\ errors \in Seq(Entry)
  /\ \A k \in 1 .. Len(errors) : errors[k].call <= calls

\* A good handle of a batch is of a complete transfer with a good status.
BatchInv ==
  result.fn = "multi_request_data" /\ result.is_good =>
    result.data = sending /\ result.httpcode \in Fetch!Successful

Inv == LogInv /\ HandleTells /\ BatchInv

LEMMA Entries ==
  ASSUME LogInv, NEW k \in 1 .. Len(errors)
  PROVE  errors[k].call \in Nat /\ errors[k].call <= calls
  <1>1. errors[k] \in Entry
    BY ElementOfSeq DEF LogInv
  <1>2. errors[k].call \in Nat
    BY <1>1 DEF Entry
  <1> QED BY <1>2 DEF LogInv

\* The last call left no message in the log.
LEMMA QuietCall ==
  ASSUME LogInv, calls' = calls + 1, errors' = errors
  PROVE  LogInv' /\ ~Fetch!LoggedLast'
  <1>1. \A k \in 1 .. Len(errors) : errors[k].call \in Nat /\ errors[k].call <= calls
    BY Entries
  <1>2. \A k \in 1 .. Len(errors) : errors[k].call < calls + 1
    BY <1>1 DEF LogInv
  <1>3. Len(errors) \in Nat /\ (errors # <<>> => Len(errors) \in 1 .. Len(errors))
    BY DEF LogInv
  <1>4. LogInv'
    BY <1>1, <1>2 DEF LogInv
  <1>5. ~Fetch!LoggedLast'
    BY <1>1, <1>2, <1>3 DEF Fetch!LoggedLast, LogInv
  <1> QED BY <1>4, <1>5

\* The call left a message.
LEMMA LoggingCall ==
  ASSUME LogInv, calls' = calls + 1, NEW why \in Why,
         errors' = Append(errors, [call |-> calls', why |-> why])
  PROVE  LogInv' /\ Fetch!LoggedLast'
  <1> DEFINE e == [call |-> calls', why |-> why]
  <1>1. calls' \in Nat /\ e \in Entry /\ e.call = calls'
    BY DEF LogInv, Entry
  <1>2. \A k \in 1 .. Len(errors) : errors[k].call \in Nat /\ errors[k].call <= calls
    BY Entries
  <1>3. \A k \in 1 .. Len(errors) : errors[k].call <= calls'
    BY <1>2 DEF LogInv
  <1> HIDE DEF e
  <1>4. /\ errors' = Append(errors, e) /\ errors' # <<>>
        /\ errors' \in Seq(Entry)
        /\ Len(errors) \in Nat /\ Len(errors') = Len(errors) + 1 /\ errors'[Len(errors')] = e
        /\ \A k \in 1 .. Len(errors) : errors'[k] = errors[k]
    BY <1>1 DEF LogInv, e
  <1>5. \A k \in 1 .. Len(errors') : k \in 1 .. Len(errors) \/ k = Len(errors')
    BY <1>4
  <1>6. \A k \in 1 .. Len(errors') : errors'[k].call <= calls'
    BY <1>1, <1>3, <1>4, <1>5
  <1> QED BY <1>1, <1>4, <1>6 DEF LogInv, Fetch!LoggedLast

LEMMA FailingCall ==
  ASSUME LogInv, calls' = calls + 1, NEW why \in Why,
         NEW r, r.fn = "request_data", r.is_good = FALSE, Fetch!Fails(why, r)
  PROVE  Inv'
  <1>1. CASE errors' = Append(errors, [call |-> calls', why |-> why]) /\ result' = r
    BY <1>1, LoggingCall DEF Inv, HandleTells, Fetch!HandleTells, BatchInv
  <1>2. CASE result' = Fetch!Threw /\ errors' = errors
    BY <1>2, QuietCall DEF Inv, HandleTells, Fetch!HandleTells, BatchInv, Fetch!Threw
  <1> QED BY <1>1, <1>2 DEF Fetch!Fails

LEMMA RequestStep == ASSUME Inv, Fetch!request_data PROVE Inv'
  <1>1. LogInv /\ calls' = calls + 1
    BY DEF Inv, Fetch!request_data
  <1>2. ASSUME NEW k PROVE /\ Fetch!Fetched(k).fn = "request_data" /\ Fetch!Fetched(k).data = k
                           /\ Fetch!Fetched(k).is_good = FALSE
    BY DEF Fetch!Fetched, Fetch!NewHandle
  <1>3. CASE Fetch!Fails("init", Fetch!NewHandle) \/ Fetch!Fails("setopt", Fetch!NewHandle)
    BY <1>1, <1>3, FailingCall DEF Fetch!NewHandle, Why
  <1>4. CASE \E k \in 0 .. sending' : Fetch!Fails("perform", Fetch!Fetched(k))
    BY <1>1, <1>2, <1>4, FailingCall DEF Why
  <1>5. CASE /\ \E c \in HttpCodes :
                  result' = [Fetch!Fetched(sending') EXCEPT !.is_good = TRUE, !.httpcode = c,
                                                                 !.contentType = "undefined"]
             /\ errors' = errors
    <2>1. PICK c \in HttpCodes :
            result' = [Fetch!Fetched(sending') EXCEPT !.is_good = TRUE, !.httpcode = c,
                                                                 !.contentType = "undefined"]
      BY <1>5
    <2>2. /\ result'.fn = "request_data" /\ result'.is_good = TRUE
          /\ result'.data = sending' /\ result'.httpcode = c
      BY <2>1 DEF Fetch!Fetched, Fetch!NewHandle
    <2> QED BY <1>1, <1>5, <2>2, QuietCall DEF Inv, HandleTells, Fetch!HandleTells, BatchInv
  <1> QED BY <1>3, <1>4, <1>5 DEF Fetch!request_data, Fetch!Perform

LEMMA BatchStep == ASSUME Inv, Fetch!multi_request_data PROVE Inv'
  <1>1. LogInv /\ calls' = calls + 1 /\ "batch" \in Why
    BY DEF Inv, Fetch!multi_request_data, Why
  <1>2. ASSUME NEW r, Fetch!Fails("batch", r) \/ (result' = r /\ errors' = errors)
        PROVE  LogInv' /\ (result' = r \/ result' = Fetch!Threw)
    BY <1>1, <1>2, QuietCall, LoggingCall DEF Fetch!Fails
  <1>3. ASSUME NEW k, NEW ok, NEW c, NEW type, ok => k = sending',
               LogInv', result' = Fetch!Collected(k, ok, c, type)
        PROVE  Inv'
    <2>1. /\ result'.fn = "multi_request_data" /\ result'.data = k /\ result'.httpcode = c
          /\ result'.is_good <=> ok /\ c \in Fetch!Successful
      BY <1>3 DEF Fetch!Collected
    <2> QED BY <1>3, <2>1 DEF Inv, HandleTells, Fetch!HandleTells, BatchInv
  <1>4. ASSUME LogInv', result'.fn \in {"none", "threw"} PROVE Inv'
    BY <1>4 DEF Inv, HandleTells, Fetch!HandleTells, BatchInv
  <1>5. Fetch!Threw.fn = "threw" /\ Fetch!NoAnswer.fn = "none"
    BY DEF Fetch!Threw, Fetch!NoAnswer
  <1>6. CASE \E k \in 0 .. sending', ok \in BOOLEAN, c \in HttpCodes \cup {0},
                type \in ContentTypes \cup {"none"} :
               /\ ok => k = sending'
               /\ \/ Fetch!Fails("batch", Fetch!Collected(k, ok, c, type))
                  \/ result' = Fetch!Collected(k, ok, c, type) /\ UNCHANGED errors
    <2>1. PICK k, ok, c, type :
             /\ ok => k = sending'
             /\ \/ Fetch!Fails("batch", Fetch!Collected(k, ok, c, type))
                \/ result' = Fetch!Collected(k, ok, c, type) /\ UNCHANGED errors
      BY <1>6
    <2> QED BY <1>2, <1>3, <1>4, <1>5, <2>1
  <1>7. CASE Fetch!Fails("batch", Fetch!NoAnswer) \/ (result' = Fetch!NoAnswer /\ UNCHANGED errors)
    BY <1>2, <1>4, <1>5, <1>7
  <1> QED BY <1>6, <1>7 DEF Fetch!multi_request_data

LEMMA ValidateStep == ASSUME Inv, Validate PROVE Inv'
  <1>1. /\ LogInv /\ calls' = calls + 1 /\ errors' = errors
        /\ result'.fn = "validate_certificate"
    BY DEF Inv, Validate, Fetch!validate_certificate, Fetch!Verdict
  <1> QED BY <1>1, QuietCall DEF Inv, HandleTells, Fetch!HandleTells, BatchInv

LEMMA InitInv == Init => Inv
  <1> SUFFICES ASSUME Init PROVE Inv
    OBVIOUS
  <1>1. calls = 0 /\ errors = <<>> /\ Len(errors) = 0 /\ result.fn = "threw"
    BY DEF Init, Fetch!Init, Fetch!Threw
  <1>2. LogInv
    BY <1>1 DEF LogInv
  <1> QED BY <1>1, <1>2 DEF Inv, HandleTells, Fetch!HandleTells, BatchInv

LEMMA NextInv == Inv /\ [Next]_vars => Inv'
  <1> SUFFICES ASSUME Inv, [Next]_vars PROVE Inv'
    OBVIOUS
  <1>1. CASE UNCHANGED fetchVars
    BY <1>1 DEF fetchVars, Inv, LogInv, HandleTells, Fetch!HandleTells, Fetch!LoggedLast, BatchInv
  <1>2. Store \/ Direct \/ UNCHANGED vars => UNCHANGED fetchVars
    BY DEF Store, Direct, vars
  <1> QED BY <1>1, <1>2, RequestStep, BatchStep, ValidateStep DEF Next, Request

LEMMA AlwaysInv == Spec => []Inv
  BY InitInv, NextInv, PTL DEF Spec

-----------------------------------------------------------------------------
(* The properties.                                                          *)

\* A caller of request_data can tell a failed call from a good one by its handle,
\* whatever calls came before (libcurl_request.h:29-99).
THEOREM HandlesTell == Spec => []HandleTells
  <1>1. Inv => HandleTells
    BY DEF Inv
  <1> QED BY <1>1, AlwaysInv, PTL

-----------------------------------------------------------------------------
(* The array.                                                               *)

\* A payload as it may stand in the array.
GoodPayload ==
  {p \in [data : Array!Json, label : 1 .. 256, recipient_id : Recipients, fetched : BOOLEAN] :
     Array!IsEmptyJson(p.data) => p.fetched}

ArrayInv == mine \in Array!Json /\ injectables = accepted /\ injectables \in Seq(GoodPayload)

\* What each call leaves: the array and its caller's view of it.
Kept == injectables' = accepted' /\ injectables' \in Seq(GoodPayload)

LEMMA RefusedKeeps ==
  ASSUME ArrayInv, NEW answers, "Success" \notin answers, Array!Refuse(answers), Array!Told
  PROVE  Kept
  <1>1. answer' # "Success" /\ injectables' = injectables
    BY DEF Array!Refuse
  <1> QED BY <1>1 DEF Array!Told, ArrayInv, Kept

LEMMA AcceptedKeeps ==
  ASSUME ArrayInv, Array!Accept, Array!Told, Array!Given' \in GoodPayload
  PROVE  Kept
  <1>1. CASE injectables' = Append(injectables, Array!Given') /\ answer' = "Success"
    <2>1. accepted' = injectables'
      BY <1>1 DEF Array!Told, ArrayInv
    <2>2. injectables' \in Seq(GoodPayload)
      BY <1>1 DEF ArrayInv
    <2> QED BY <2>1, <2>2 DEF Kept
  <1>2. CASE Array!Refuse({})
    BY <1>2, RefusedKeeps
  <1> QED BY <1>1, <1>2 DEF Array!Accept

\* A label that is not bad has 1 to 256 characters, and a bad one is not a success.
LEMMA LabelRange ==
  ASSUME NEW size \in LabelSizes
  PROVE  /\ "Success" \notin Array!BadLabel(size)
         /\ Array!BadLabel(size) = {} => size \in 1 .. 256
  <1>1. size \in Nat
    BY BoundsAssumption
  <1>2. Array!BadLabel(size) = {} => size # 0 /\ ~(size > 256)
    BY DEF Array!BadLabel
  <1>3. "Success" \notin Array!BadLabel(size)
    BY DEF Array!BadLabel
  <1> QED BY <1>1, <1>2, <1>3

\* The arguments make a good payload.
LEMMA GivenIsGood ==
  ASSUME given'.json \in Array!Json, given'.label \in 1 .. 256, given'.id \in Recipients,
         Array!IsEmptyJson(given'.json) => given'.fn = "handle"
  PROVE  Array!Given' \in GoodPayload
  BY DEF Array!Given, GoodPayload

\* The first two overloads take the same checks.
CheckedCall(size) ==
  IF Array!IsEmptyJson(mine) THEN Array!Refuse({"Failure: empty data"})
  ELSE IF Array!BadLabel(size) # {} THEN Array!Refuse(Array!BadLabel(size))
  ELSE Array!Accept

LEMMA CheckedKeeps ==
  ASSUME ArrayInv, NEW size \in LabelSizes, NEW id \in Recipients, NEW fn \in {"copy", "move"},
         given'.json = mine, given'.label = size, given'.id = id, given'.fn = fn,
         CheckedCall(size), Array!Told
  PROVE  Kept
  <1>1. "Success" \notin {"Failure: empty data"}
    OBVIOUS
  <1>2. CASE Array!Refuse({"Failure: empty data"}) \/ Array!Refuse(Array!BadLabel(size))
    BY <1>1, <1>2, LabelRange, RefusedKeeps
  <1>3. CASE ~Array!IsEmptyJson(mine) /\ Array!BadLabel(size) = {} /\ Array!Accept
    <2>1. size \in 1 .. 256 /\ mine \in Array!Json
      BY <1>3, LabelRange DEF ArrayInv
    <2>2. Array!Given' \in GoodPayload
      BY <1>3, <2>1, GivenIsGood
    <2> QED BY <1>3, <2>2, AcceptedKeeps
  <1> QED BY <1>2, <1>3 DEF CheckedCall

LEMMA HandleKeeps ==
  ASSUME ArrayInv, NEW good, NEW body, NEW type, NEW size \in LabelSizes, NEW id \in Recipients,
         Array!FromHandle(good, body, type, size, id)
  PROVE  Kept
  <1>1. given' = [fn |-> "handle", is_good |-> good, json |-> body, type |-> type,
                  label |-> size, id |-> id] /\ Array!Told
    BY DEF Array!FromHandle, Array!Call
  <1>2. ASSUME NEW text \in {"Failure: Broken handle", "Failure: Empty data",
                             "Failure: Not a json", "parse error"},
               Array!Refuse({text})
        PROVE  Kept
    <2>1. "Success" \notin {text}
      BY <1>2
    <2> QED BY <1>1, <1>2, <2>1, RefusedKeeps
  <1>3. CASE Array!Refuse(Array!BadLabel(size))
    BY <1>1, <1>3, LabelRange, RefusedKeeps
  <1>4. CASE Array!BadLabel(size) = {} /\ body \in Array!Json /\ Array!Accept
    <2>1. /\ given'.json = body /\ given'.label = size /\ given'.id = id
          /\ given'.fn = "handle"
      BY <1>1
    <2>2. size \in 1 .. 256
      BY <1>4, LabelRange
    <2>3. Array!Given' \in GoodPayload
      BY <1>4, <2>1, <2>2, GivenIsGood
    <2> QED BY <1>1, <1>4, <2>3, AcceptedKeeps
  <1> QED BY <1>2, <1>3, <1>4 DEF Array!FromHandle

LEMMA ArrayInvStep ==
  ASSUME ArrayInv, [Next]_vars
  PROVE  ArrayInv'
  <1>1. CASE Request \/ Validate \/ UNCHANGED vars
    BY <1>1 DEF Request, Validate, vars, arrayVars, ArrayInv
  <1>2. CASE Store
    <2>1. PICK size \in LabelSizes, id \in Recipients :
            Array!FromHandle(result.is_good, Body, result.contentType, size, id)
      BY <1>2 DEF Store
    <2>2. Kept /\ mine' = mine
      BY <2>1, HandleKeeps DEF Array!FromHandle
    <2> QED BY <2>2 DEF Kept, ArrayInv
  <1>3. CASE Direct
    <2>1. CASE Array!Assign
      BY <2>1 DEF Array!Assign, ArrayInv
    <2>2. ASSUME NEW size \in LabelSizes, NEW id \in Recipients, Array!CopyIn(size, id)
          PROVE  ArrayInv'
      <3>1. /\ given' = [fn |-> "copy", json |-> mine, label |-> size, id |-> id]
            /\ CheckedCall(size) /\ Array!Told /\ mine' = mine
        BY <2>2 DEF Array!CopyIn, Array!Call, CheckedCall
      <3>2. Kept
        BY <3>1, CheckedKeeps
      <3> QED BY <3>1, <3>2 DEF Kept, ArrayInv
    <2>3. ASSUME NEW size \in LabelSizes, NEW id \in Recipients, Array!MoveIn(size, id)
          PROVE  ArrayInv'
      <3>1. /\ given' = [fn |-> "move", json |-> mine, label |-> size, id |-> id]
            /\ CheckedCall(size) /\ Array!Told /\ mine' = "null"
        BY <2>3 DEF Array!MoveIn, Array!Call, CheckedCall
      <3>2. Kept
        BY <3>1, CheckedKeeps
      <3> QED BY <3>1, <3>2 DEF Kept, ArrayInv, Array!Json
    <2> QED BY <1>3, <2>1, <2>2, <2>3 DEF Direct, Array!FromMine
  <1> QED BY <1>1, <1>2, <1>3 DEF Next

\* The array holds the payloads of the calls that answered Success, in their order and
\* no other, each with a legal label, and empty only if it was parsed from an answer
\* (Payload_array.cpp:5-80).
THEOREM HoldsSuccesses == Spec => []HoldsWhatSucceeded
  <1>1. Init => ArrayInv
    BY DEF Init, Array!Init, ArrayInv
  <1>2. ArrayInv /\ [Next]_vars => ArrayInv'
    BY ArrayInvStep
  <1>3. ArrayInv => HoldsWhatSucceeded
    <2> SUFFICES ASSUME ArrayInv, NEW k \in DOMAIN injectables
                 PROVE  /\ injectables[k].label \in 1 .. 256
                        /\ Array!IsEmptyJson(injectables[k].data) => injectables[k].fetched
      BY DEF ArrayInv, HoldsWhatSucceeded, Array!HoldsWhatSucceeded
    <2>1. injectables[k] \in GoodPayload
      BY ElementOfSeq DEF ArrayInv
    <2> QED BY <2>1 DEF GoodPayload
  <1> QED BY <1>1, <1>2, <1>3, PTL DEF Spec

-----------------------------------------------------------------------------
(* What is stored of a web answer.                                          *)

\* What stores a payload made from a web answer, and what it stores.
LEMMA StoreStep ==
  ASSUME [Next]_vars, Stored
  PROVE  /\ HasHandle /\ result.is_good /\ Body \in Array!Json
         /\ injectables' = Append(injectables, Array!Given')
         /\ Array!Given'.data = Body
  <1>1. injectables' # injectables /\ given'.fn = "handle"
    BY DEF Stored
  <1>2. ASSUME Direct PROVE FALSE
    <2>1. ASSUME NEW size, NEW id, Array!CopyIn(size, id) \/ Array!MoveIn(size, id)
          PROVE  given'.fn # "handle"
      <3>1. CASE Array!CopyIn(size, id)
        <4>1. given' = [fn |-> "copy", json |-> mine, label |-> size, id |-> id]
          BY <3>1 DEF Array!CopyIn, Array!Call
        <4> QED BY <4>1
      <3>2. CASE Array!MoveIn(size, id)
        <4>1. given' = [fn |-> "move", json |-> mine, label |-> size, id |-> id]
          BY <3>2 DEF Array!MoveIn, Array!Call
        <4> QED BY <4>1
      <3> QED BY <2>1, <3>1, <3>2
    <2> QED BY <1>1, <1>2, <2>1 DEF Direct, Array!FromMine, Array!Assign
  <1>3. Request \/ Validate \/ UNCHANGED vars => injectables' = injectables
    BY DEF Request, Validate, arrayVars, vars
  <1>4. Store
    BY <1>1, <1>2, <1>3 DEF Next
  <1>5. PICK type, size, id : Array!FromHandle(result.is_good, Body, type, size, id)
    BY <1>4 DEF Store
  <1>6. given' = [fn |-> "handle", is_good |-> result.is_good, json |-> Body, type |-> type,
                  label |-> size, id |-> id]
    BY <1>5 DEF Array!FromHandle, Array!Call
  <1>7. result.is_good /\ Body \in Array!Json /\ Array!Accept
    BY <1>1, <1>5 DEF Array!FromHandle, Array!Refuse
  <1>8. injectables' = Append(injectables, Array!Given')
    BY <1>1, <1>7 DEF Array!Accept, Array!Refuse
  <1>9. Array!Given'.data = Body
    BY <1>6 DEF Array!Given
  <1> QED BY <1>4, <1>7, <1>8, <1>9 DEF Store

\* A payload made from a web answer is the whole answer of a transfer: one without an
\* error in the log, or with a good status (libcurl_request.h:49-99, 165-257,
\* Payload_array.cpp:49-80).
THEOREM StoredAreGoodAnswers == Spec => StoredIsGoodAnswer
  <1>1. ASSUME Inv, [Next]_vars, Stored
        PROVE  /\ result.data = sending
               /\ injectables'[Len(injectables')].data = served
               /\ IF result.fn = "request_data" THEN ~Fetch!LoggedLast
                  ELSE result.httpcode \in Fetch!Successful
    <2>1. /\ result.data = sending
          /\ IF result.fn = "request_data" THEN ~Fetch!LoggedLast
             ELSE result.httpcode \in Fetch!Successful
      BY <1>1, StoreStep DEF Inv, HandleTells, Fetch!HandleTells, BatchInv, HasHandle
    <2>2. Body = served
      BY <1>1, <2>1, StoreStep DEF Body, Array!Json
    <2>3. injectables' = Append(injectables, Array!Given') /\ Array!Given'.data = served
      BY <1>1, <2>2, StoreStep
    <2> QED BY <2>1, <2>3
  <1>2. Inv /\ [Next]_vars =>
          [Stored =>
             /\ result.data = sending
             /\ injectables'[Len(injectables')].data = served
             /\ IF result.fn = "request_data" THEN ~Fetch!LoggedLast
                ELSE result.httpcode \in Fetch!Successful]_vars
    BY <1>1
  <1> QED BY <1>2, AlwaysInv, PTL DEF Spec, StoredIsGoodAnswer

=============================================================================
