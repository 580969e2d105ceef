------------------------------ MODULE WebFetch ------------------------------
(***************************************************************************)
(* What a caller of libcurl_request.h sees of a call: its result, and the  *)
(* Logger's list of errors, which outlives the call.  request_data and     *)
(* validate_certificate are one blocking transfer each, on an easy handle  *)
(* of their own; multi_request_data is here given one URL, and MultiRequest*)
(* has what it does inside.                                                *)
(*                                                                         *)
(* libcurl is external: each of its calls may fail, and a transfer may     *)
(* fail after some of the body has been written.  A body is the number of  *)
(* chunks in it.  The handlers of bad_alloc are nowhere in this code: a    *)
(* message that cannot be stored ends the call with the exception.         *)
(***************************************************************************)
EXTENDS Integers, Sequences

CONSTANTS MaxCalls,      \* bound: calls made
          MaxChunks,     \* bound: chunks of one body
          HttpCodes,     \* status codes a server may answer
          ContentTypes   \* content types it may give

VARIABLES
  calls,       \* calls made so far
  result,      \* what the last call returned, or that it threw
  errors,      \* Logger's mErrors: which call gave each message, and why
  sending      \* history: chunks the server had for the last call

fetchVars == <<calls, result, errors, sending>>

\* (mutant) a handle is good until something fails.
NewHandleGood == [fn |-> "request_data", data |-> 0, httpcode |-> -1, is_good |-> TRUE,
                  contentType |-> "none"]

\* A WebRequestHandle as it is constructed.
NewHandle == [fn |-> "request_data", data |-> 0, httpcode |-> -1, is_good |-> FALSE,
              contentType |-> "none"]
Verdict(ok) == [fn |-> "validate_certificate", ok |-> ok]
Threw == [fn |-> "threw"]
NoAnswer == [fn |-> "none"]      \* an empty Sequence of handles

Init ==
  /\ calls = 0 /\ result = Threw /\ errors = <<>> /\ sending = 0

\* (mutant) the failure is returned but not logged.
FailsUnlogged(why, r) == result' = r /\ UNCHANGED errors

\* logger.add_error(why), and r is returned.
Fails(why, r) ==
  \/ errors' = Append(errors, [call |-> calls', why |-> why]) /\ result' = r
  \/ result' = Threw /\ UNCHANGED errors

\* The handle when curl_easy_perform has failed after k chunks.
Fetched(k) == [NewHandle EXCEPT !.data = k]

\* The transfer itself: complete, or not.  For contentType libcurl is given the
\* address of a std::string and writes a char* there: what the string then holds is
\* undefined.
Perform ==
  \/ /\ \E c \in HttpCodes :
          result' = [Fetched(sending') EXCEPT !.is_good = TRUE, !.httpcode = c,
                                              !.contentType = "undefined"]
     /\ UNCHANGED errors
  \/ \E k \in 0 .. sending' : Fails("perform", Fetched(k))

\* curl_easy_init, four options, the transfer: the first failure ends it.
request_data ==
  /\ calls < MaxCalls /\ calls' = calls + 1
  /\ sending' \in 0 .. MaxChunks
  /\ Fails("init", NewHandle) \/ Fails("setopt", NewHandle) \/ Perform

\* No failure is logged, and CURLE_COULDNT_CONNECT counts as a success.
validate_certificate ==
  /\ calls < MaxCalls /\ calls' = calls + 1
  /\ \E ok \in BOOLEAN : result' = Verdict(ok)
  /\ UNCHANGED <<errors, sending>>

Successful == 200 .. 299

\* The handle of a transfer that multi_request_data collects after k chunks; ok is
\* msg->data.result == CURLE_OK, and the status is 0 when no answer came.
Collected(k, ok, c, type) ==
  [fn |-> "multi_request_data", data |-> k, httpcode |-> c, contentType |-> type,
   is_good |-> ok /\ c \in Successful]

\* A batch of one URL: a handle or none, and a message of the loop or none, as a
\* loop that failed may have finished the transfer, and one that lost it be silent.
multi_request_data ==
  /\ calls < MaxCalls /\ calls' = calls + 1
  /\ sending' \in 0 .. MaxChunks
  /\ \/ \E k \in 0 .. sending', ok \in BOOLEAN, c \in HttpCodes \cup {0},
           type \in ContentTypes \cup {"none"} :
          /\ ok => k = sending'
          /\ \/ Fails("batch", Collected(k, ok, c, type))
             \/ result' = Collected(k, ok, c, type) /\ UNCHANGED errors
     \/ Fails("batch", NoAnswer)
     \/ result' = NoAnswer /\ UNCHANGED errors

Next == request_data \/ validate_certificate \/ multi_request_data

Spec == Init /\ [][Next]_fetchVars

-----------------------------------------------------------------------------
\* What Logger::last_error is about.
LoggedLast == errors # <<>> /\ errors[Len(errors)].call = calls

\* A caller of request_data can tell a failed call from a good one, whatever the
\* calls before it left in the logger: last_error speaks of this call exactly when
\* the handle is not good, and a good handle holds the whole body and a status.
HandleTells ==
  result.fn = "request_data" =>
    /\ result.is_good <=> ~LoggedLast
    /\ result.is_good => result.data = sending /\ result.httpcode \in HttpCodes

\* What the comment of validate_certificate says: after a failure last_error has
\* more about it.  The function writes no message at all.
CertificateFailureLogged ==
  result.fn = "validate_certificate" /\ ~result.ok => LoggedLast

=============================================================================
