---------------------------- MODULE MultiRequest ----------------------------
(***************************************************************************)
(* badSQL::multi_request_data (libcurl_request.h): one thread drives a     *)
(* libcurl multi handle over a batch of URLs in three phases - set up the  *)
(* requests, perform and poll until no transfer runs, collect the DONE     *)
(* messages - and then destroys the requests and the multi handle.         *)
(*                                                                         *)
(* Each CurlRequest lives in a slot of a Sequence<CurlRequest>.  libcurl   *)
(* is given the ADDRESS of that object (CURLOPT_WRITEDATA and              *)
(* CURLOPT_PRIVATE), so the code is right only if no reallocation moves    *)
(* the objects while libcurl may still follow the pointer.  An address is  *)
(* <<block, slot>>, where block numbers the storage the Sequence owns.     *)
(*                                                                         *)
(* libcurl is external and is modelled from how the code uses it: inside   *)
(* curl_multi_perform a transfer may deliver a chunk to call_back or       *)
(* finish; CURLOPT_TIMEOUT makes every transfer finish in the perform call *)
(* that follows the deadline; setup, adding a handle, performing and       *)
(* polling may each fail.  Any allocation of the function's own - the      *)
(* requests, a message for the logger, a result - may throw bad_alloc,     *)
(* which nothing here catches: the locals are destroyed on its way.  A URL *)
(* is its position in the caller's span and a chunk of a body is the URL   *)
(* it was sent for.                                                        *)
(***************************************************************************)
EXTENDS SequenceMath, Sequences, FiniteSets

CONSTANTS NumUrls,      \* urls.size()
          MaxChunks,    \* bound: chunks a server sends for one URL
          HttpCodes,    \* status codes a server may answer
          Timeout       \* CURLOPT_TIMEOUT, in clock ticks

ASSUME NumUrlsAssumption == NumUrls \in Nat
ASSUME ServerAssumption == MaxChunks \in Nat /\ HttpCodes \subseteq Nat
ASSUME TimeoutAssumption == Timeout \in Nat

Url == 1 .. NumUrls

VARIABLES
  pc,         \* where multi_request_data is
  next,       \* the next URL of the range-for of phase 1
  requests,   \* requests: the URL whose CurlRequest is in each slot
  capacity,   \* requests.mCapacity
  block,      \* requests.mArray
  ptr,        \* the CurlRequest address each easy handle was given
  body,       \* handle.data of each request: the chunks written so far
  easy,       \* each easy handle: "none", "null", "live" or "freed"
  multi,      \* the multi handle: "none", "live" or "freed"
  attached,   \* easy handles inside the multi handle
  running,    \* attached handles whose transfer has not finished
  msgs,       \* DONE messages not yet read by curl_multi_info_read
  sent,       \* chunks the server has sent for each URL
  rc,         \* result of each finished transfer: "none", "ok", "error"
  http,       \* response code libcurl holds for each handle
  clock,      \* ticks since the transfers began, up to Timeout
  results,    \* the WebRequestHandles to be returned
  errors,     \* messages given to Logger::add_error
  refused,    \* history: handles curl_multi_add_handle refused
  wild        \* history: an address that holds no request was followed

storageVars == <<requests, capacity, block>>
serverVars  == <<sent, rc, http>>
multiVars   == <<attached, running, msgs>>
vars == <<pc, next, storageVars, ptr, body, easy, multi, multiVars,
          serverVars, clock, results, errors, refused, wild>>

NullPtr == <<0, 0>>

\* p is the address of an object that requests holds now.
Valid(p) == p[1] = block /\ p[2] \in DOMAIN requests

\* The request an address leads to.
Deref(p) == requests[p[2]]

\* (mutant) a setup failure reported with the words of another failure.
SetupErrorMixedUp(u) == [what |-> "perform", url |-> u]

\* The messages given to the logger, as far as they can be told apart.
SetupError(u) == [what |-> "setup", url |-> u]
MultiError(w) == [what |-> w, url |-> 0]

\* (mutant) the failure is not logged.
LogErrorForgotten(e) == UNCHANGED errors

\* Logger::add_error
LogError(e) == errors' = errors \cup {e}

\* (mutant) the requests are not reserved before their addresses are taken.
ReservedSlotsForgotten == 0

\* What requests.set_capacity is given before the first emplace_back.
ReservedSlots == NumUrls

\* (mutant) every handle is given the address of the first request.
BackAddressFront == <<block, 1>>

\* The address of requests.back(), the "this" of setup.
BackAddress == <<block, Len(requests)>>

\* (mutant) the destructor's loop stops one element early.
OwnedHandlesButLast == {requests[k] : k \in 1 .. Len(requests) - 1}

\* The easy handles that the destructor of requests cleans up.
OwnedHandles == {requests[k] : k \in DOMAIN requests}

-----------------------------------------------------------------------------
Init ==
  /\ pc = "init" /\ next = 1
  /\ requests = <<>> /\ capacity = 0 /\ block = 0
  /\ ptr = [u \in Url |-> NullPtr]
  /\ body = [u \in Url |-> <<>>]
  /\ easy = [u \in Url |-> "none"]
  /\ multi = "none"
  /\ attached = {} /\ running = {} /\ msgs = <<>>
  /\ sent = [u \in Url |-> 0]
  /\ rc = [u \in Url |-> "none"]
  /\ http = [u \in Url |-> 0]
  /\ clock = 0
  /\ results = <<>> /\ errors = {} /\ refused = {} /\ wild = FALSE

\* curl_multi_init fails: logged, and an empty Sequence is returned.
InitMultiFails ==
  /\ pc = "init"
  /\ LogError(MultiError("multi_init"))
  /\ pc' = "returned"
  /\ UNCHANGED <<next, storageVars, ptr, body, easy, multi, multiVars,
                 serverVars, clock, results, refused, wild>>

\* curl_multi_init succeeds; requests.set_capacity(urls.size()).
InitMulti ==
  /\ pc = "init"
  /\ multi' = "live"
  /\ block' = block + 1 /\ capacity' = ReservedSlots
  /\ pc' = "setup"
  /\ UNCHANGED <<next, requests, ptr, body, easy, multiVars, serverVars,
                 clock, results, errors, refused, wild>>

\* requests.emplace_back(): a full block is replaced by a larger one, and the
\* new CurlRequest calls curl_easy_init, which may give a null handle.
EmplaceRequest ==
  /\ pc = "setup" /\ next <= NumUrls
  /\ IF Len(requests) = capacity
     THEN block' = block + 1 /\ capacity' = growthFactor(capacity, 1)
     ELSE UNCHANGED <<block, capacity>>
  /\ requests' = Append(requests, next)
  /\ \E e \in {"live", "null"} : easy' = [easy EXCEPT ![next] = e]
  /\ pc' = "setopt"
  /\ UNCHANGED <<next, ptr, body, multi, multiVars, serverVars, clock,
                 results, errors, refused, wild>>

\* setup returns an error (it must when the handle is null): the failure is
\* logged and pop_back destroys the request, which cleans up its handle.
SetupFails ==
  /\ pc = "setopt"
  /\ LogError(SetupError(next))
  /\ requests' = SubSeq(requests, 1, Len(requests) - 1)
  /\ easy' = [easy EXCEPT ![next] = IF @ = "live" THEN "freed" ELSE @]
  /\ next' = next + 1
  /\ pc' = "setup"
  /\ UNCHANGED <<capacity, block, ptr, body, multi, multiVars, serverVars,
                 clock, results, refused, wild>>

\* setup hands the address of requests.back() to libcurl and succeeds; the
\* handle is added to the multi handle, whose refusal nobody looks at.
SetupAndAdd ==
  /\ pc = "setopt" /\ easy[next] = "live"
  /\ ptr' = [ptr EXCEPT ![next] = BackAddress]
  /\ \/ /\ attached' = attached \cup {next}
        /\ running' = running \cup {next}
        /\ UNCHANGED refused
     \/ /\ refused' = refused \cup {next}
        /\ UNCHANGED <<attached, running>>
  /\ next' = next + 1
  /\ pc' = "setup"
  /\ UNCHANGED <<storageVars, body, easy, multi, msgs, serverVars, clock,
                 results, errors, wild>>

\* Phase 1 is over; still_running = 1 lets the loop enter its first perform.
SetupDone ==
  /\ pc = "setup" /\ next > NumUrls
  /\ pc' = "performing"
  /\ UNCHANGED <<next, storageVars, ptr, body, easy, multi, multiVars,
                 serverVars, clock, results, errors, refused, wild>>

-----------------------------------------------------------------------------
\* The message about curl_multi_init, or requests.set_capacity, cannot be
\* allocated.
InitThrows ==
  /\ pc = "init"
  /\ \E m \in {"none", "live"} : multi' = m
  /\ pc' = "unwinding"
  /\ UNCHANGED <<next, storageVars, ptr, body, easy, multiVars, serverVars,
                 clock, results, errors, refused, wild>>

\* A message for the logger, the copy of a content type or the room for a
\* result cannot be allocated; results is destroyed first.
Throws ==
  /\ pc \in {"setopt", "performing", "poll", "collect"}
  /\ pc = "collect" => msgs # <<>>
  /\ results' = <<>>
  /\ pc' = "unwinding"
  /\ UNCHANGED <<next, storageVars, ptr, body, easy, multi, multiVars,
                 serverVars, clock, errors, refused, wild>>

-----------------------------------------------------------------------------
\* A chunk for u arrives: call_back appends it to the WebRequestHandle that
\* CURLOPT_WRITEDATA points to.
WriteCallback(u) ==
  /\ pc = "performing" /\ u \in running /\ sent[u] < MaxChunks
  /\ sent' = [sent EXCEPT ![u] = @ + 1]
  /\ IF Valid(ptr[u])
     THEN /\ body' = [body EXCEPT ![Deref(ptr[u])] = Append(@, u)]
          /\ UNCHANGED wild
     ELSE wild' = TRUE /\ UNCHANGED body
  /\ UNCHANGED <<pc, next, storageVars, ptr, easy, multi, multiVars, rc,
                 http, clock, results, errors, refused>>

\* The transfer of u ends, by itself or by its timeout: libcurl queues DONE.
\* A transfer that failed may or may not have seen a response code.
TransferDone(u) ==
  /\ pc = "performing" /\ u \in running
  /\ \/ \E c \in HttpCodes : /\ http' = [http EXCEPT ![u] = c]
                             /\ \E r \in {"ok", "error"} :
                                  rc' = [rc EXCEPT ![u] = r]
     \/ rc' = [rc EXCEPT ![u] = "error"] /\ UNCHANGED http
  /\ running' = running \ {u}
  /\ msgs' = Append(msgs, u)
  /\ UNCHANGED <<pc, next, storageVars, ptr, body, easy, multi, attached,
                 sent, clock, results, errors, refused, wild>>

\* (mutant) the loop polls again whatever curl_multi_perform has said.
PerformReturnsToPoll ==
  /\ pc = "performing"
  /\ clock >= Timeout => running = {}
  /\ pc' = "poll"
  /\ UNCHANGED <<next, storageVars, ptr, body, easy, multi, multiVars,
                 serverVars, clock, results, errors, refused, wild>>

\* curl_multi_perform returns CURLM_OK (or CURLM_CALL_MULTI_PERFORM); past the
\* deadline it has ended every transfer.  The loop polls or leaves.
PerformReturns ==
  /\ pc = "performing"
  /\ clock >= Timeout => running = {}
  /\ pc' = IF running = {} THEN "collect" ELSE "poll"
  /\ UNCHANGED <<next, storageVars, ptr, body, easy, multi, multiVars,
                 serverVars, clock, results, errors, refused, wild>>

\* (mutant) the failure leaves the function instead of the loop.
PerformFailsToExit ==
  /\ pc = "performing"
  /\ LogError(MultiError("perform"))
  /\ pc' = "destroy"
  /\ UNCHANGED <<next, storageVars, ptr, body, easy, multi, multiVars,
                 serverVars, clock, results, refused, wild>>

\* curl_multi_perform fails: logged, and the loop is left at once.
PerformFails ==
  /\ pc = "performing"
  /\ LogError(MultiError("perform"))
  /\ pc' = "collect"
  /\ UNCHANGED <<next, storageVars, ptr, body, easy, multi, multiVars,
                 serverVars, clock, results, refused, wild>>

\* curl_multi_poll returns; its failure is logged and the loop goes on.
Poll ==
  /\ pc = "poll"
  /\ LogError(MultiError("poll")) \/ UNCHANGED errors
  /\ pc' = "performing"
  /\ UNCHANGED <<next, storageVars, ptr, body, easy, multi, multiVars,
                 serverVars, clock, results, refused, wild>>

\* Time passes while transfers are under way.
Tick ==
  /\ pc \in {"performing", "poll"} /\ clock < Timeout
  /\ clock' = clock + 1
  /\ UNCHANGED <<pc, next, storageVars, ptr, body, easy, multi, multiVars,
                 serverVars, results, errors, refused, wild>>

-----------------------------------------------------------------------------
\* The WebRequestHandle that request r yields when handle u reports DONE.
ResultOf(r, u) ==
  [url |-> r, data |-> body[r], httpcode |-> http[u],
   is_good |-> rc[u] = "ok" /\ http[u] >= 200 /\ http[u] < 300]

\* One turn of the curl_multi_info_read loop: find the request through
\* CURLINFO_PRIVATE, move its WebRequestHandle into results, remove the handle.
CollectMessage ==
  /\ pc = "collect" /\ msgs # <<>>
  /\ LET u == Head(msgs)
     IN /\ IF Valid(ptr[u])
           THEN /\ results' = Append(results, ResultOf(Deref(ptr[u]), u))
                /\ body' = [body EXCEPT ![Deref(ptr[u])] = <<>>]
                /\ UNCHANGED wild
           ELSE wild' = TRUE /\ UNCHANGED <<results, body>>
        /\ attached' = attached \ {u}
  /\ msgs' = Tail(msgs)
  /\ UNCHANGED <<pc, next, storageVars, ptr, easy, multi, running,
                 serverVars, clock, errors, refused>>

CollectDone ==
  /\ pc = "collect" /\ msgs = <<>>
  /\ pc' = "destroy"
  /\ UNCHANGED <<next, storageVars, ptr, body, easy, multi, multiVars,
                 serverVars, clock, results, errors, refused, wild>>

\* Leaving the scope, by the return or by an exception, destroys requests first:
\* every easy handle still owned is cleaned up, and libcurl detaches the ones a
\* broken loop left attached, with their messages.
DestroyRequests ==
  /\ pc \in {"destroy", "unwinding"} /\ requests # <<>>
  /\ easy' = [u \in Url |-> IF u \in OwnedHandles THEN "freed" ELSE easy[u]]
  /\ attached' = attached \ OwnedHandles
  /\ running' = running \ OwnedHandles
  /\ msgs' = <<>>
  /\ requests' = <<>> /\ capacity' = 0
  /\ UNCHANGED <<pc, next, block, ptr, body, multi, serverVars, clock,
                 results, errors, refused, wild>>

\* ... and multiRAII, declared first, last.
DestroyMulti ==
  /\ pc \in {"destroy", "unwinding"} /\ requests = <<>>
  /\ multi' = IF multi = "live" THEN "freed" ELSE multi
  /\ pc' = IF pc = "destroy" THEN "returned" ELSE "thrown"
  /\ UNCHANGED <<next, storageVars, ptr, body, easy, multiVars, serverVars,
                 clock, results, errors, refused, wild>>

-----------------------------------------------------------------------------
\* The statements of multi_request_data itself.
Program ==
  \/ InitMultiFails \/ InitMulti
  \/ EmplaceRequest \/ SetupFails \/ SetupAndAdd \/ SetupDone
  \/ PerformReturns \/ PerformFails \/ Poll
  \/ CollectMessage \/ CollectDone
  \/ InitThrows \/ Throws
  \/ DestroyRequests \/ DestroyMulti

\* What happens inside curl_multi_perform.
Transfer(u) == WriteCallback(u) \/ TransferDone(u)

Next == Program \/ Tick \/ \E u \in Url : Transfer(u)

Fairness ==
  /\ WF_vars(Program)
  /\ WF_vars(Tick)
  /\ WF_vars(\E u \in Url : TransferDone(u))

Spec == Init /\ [][Next]_vars

FairSpec == Spec /\ Fairness

-----------------------------------------------------------------------------
\* The URLs answered so far.
Answered == {results[k].url : k \in DOMAIN results}

\* The URLs whose setup failure was logged.
Rejected == {u \in Url : SetupError(u) \in errors}

Result == [url : Url, data : Seq(Url), httpcode : HttpCodes \cup {0},
           is_good : BOOLEAN]

\* Every variable has the type the code declares for it.
TypeOK ==
  /\ pc \in {"init", "setup", "setopt", "performing", "poll", "collect",
              "destroy", "unwinding", "returned", "thrown"}
  /\ next \in 1 .. NumUrls + 1
  /\ requests \in Seq(Url) /\ capacity \in Nat /\ block \in Nat
  /\ ptr \in [Url -> Nat \X Nat]
  /\ body \in [Url -> Seq(Url)]
  /\ easy \in [Url -> {"none", "null", "live", "freed"}]
  /\ multi \in {"none", "live", "freed"}
  /\ attached \subseteq Url /\ running \subseteq Url
  /\ msgs \in Seq(Url)
  /\ sent \in [Url -> Nat]
  /\ rc \in [Url -> {"none", "ok", "error"}]
  /\ http \in [Url -> HttpCodes \cup {0}]
  /\ clock \in 0 .. Timeout
  /\ results \in Seq(Result)
  /\ errors \subseteq [what : {"setup"}, url : Url]
                      \cup [what : {"multi_init", "perform", "poll"}, url : {0}]
  /\ refused \subseteq Url
  /\ wild \in BOOLEAN

\* While libcurl may follow it (the handle is attached), the address stored by
\* setup is that of the very request that owns the handle: no emplace_back or
\* pop_back of a later URL moved or replaced the object.  No other address is
\* ever followed.
PointersResolve ==
  /\ \A u \in attached : Valid(ptr[u]) /\ Deref(ptr[u]) = u
  /\ ~wild

\* b holds the chunks sent for u, all of them and nothing else.
WholeBody(b, u) == Len(b) = sent[u] /\ \A j \in DOMAIN b : b[j] = u

\* Bodies never mix or lose chunks, in the requests still attached and in the
\* results; and what was moved out of a request is never written to again.
BodiesBelong ==
  /\ \A u \in attached : WholeBody(body[u], u)
  /\ \A k \in DOMAIN results : WholeBody(results[k].data, results[k].url)
  /\ \A u \in Answered : body[u] = <<>>

\* When the call returns, a URL that was not answered has a logged reason (its
\* own setup error, or the failure of the multi handle) - unless it is one
\* whose handle curl_multi_add_handle refused, the one silent loss - and a URL
\* with such a reason of its own was not answered.
LossesAccounted ==
  pc = "returned" =>
    /\ \A u \in Url : \/ u \in Answered \cup Rejected \cup refused
                      \/ {MultiError("multi_init"), MultiError("perform")}
                           \cap errors # {}
    /\ Answered \cap (Rejected \cup refused) = {}

\* A transfer that had finished is answered even when a later perform call
\* broke the loop.
FinishedAreAnswered ==
  pc = "returned" => \A u \in Url : rc[u] # "none" => u \in Answered

\* The multi handle is cleaned up last, also on the way of an exception from
\* any phase: by then nothing is attached to it, no easy handle is still live,
\* and no transfer can call back.  And it is cleaned up.
CleanShutdown ==
  /\ multi = "freed" => /\ attached = {} /\ running = {}
                        /\ \A u \in Url : easy[u] # "live"
  /\ pc \in {"returned", "thrown"} => multi # "live"

\* The call returns, or throws: the transfers' timeout ends the polling loop.
Termination == <>(pc \in {"returned", "thrown"})

\* The fate of u as the caller will see it.
FateOf(u) ==
  IF u \in Rejected THEN "rejected"
  ELSE IF \E k \in DOMAIN results : results[k].url = u /\ results[k].is_good
  THEN "good"
  ELSE IF u \in Answered THEN "bad" ELSE "pending"

Abstract == INSTANCE BatchFetch
              WITH fate <- [u \in Url |-> FateOf(u)],
                   answers <- [k \in DOMAIN results |-> results[k].url],
                   over <- pc \in {"returned", "unwinding", "thrown"}

\* The detailed loop implements the caller's view of a batch.
ImplementsBatchFetch == Abstract!Spec

=============================================================================
