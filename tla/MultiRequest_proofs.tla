------------------------ MODULE MultiRequest_proofs ------------------------
(***************************************************************************)
(* Proofs about MultiRequest, for every number of URLs, every bound on the *)
(* servers' answers and every timeout.                                     *)
(***************************************************************************)
EXTENDS MultiRequest, SequenceTheorems, TLAPS

\* What emplace_back does to the elements: one more at the end.
LEMMA PushBackType ==
  ASSUME NEW S, NEW s \in Seq(S), NEW e \in S
  PROVE  /\ Append(s, e) \in Seq(S)
         /\ Append(s, e) # <<>>
         /\ Len(Append(s, e)) = Len(s) + 1
         /\ DOMAIN Append(s, e) = 1 .. Len(s) + 1
         /\ \A k \in 1 .. Len(s) : Append(s, e)[k] = s[k]
         /\ Append(s, e)[Len(s) + 1] = e
<1>1. /\ Append(s, e) \in Seq(S)
      /\ Append(s, e) # <<>>
      /\ Len(Append(s, e)) = Len(s) + 1
      /\ \A k \in 1 .. Len(s) : Append(s, e)[k] = s[k]
      /\ Append(s, e)[Len(s) + 1] = e
  BY AppendProperties
<1>. QED
  BY <1>1, LenProperties

\* What pop_back does to the elements: one less at the end.
LEMMA PopBackType ==
  ASSUME NEW S, NEW s \in Seq(S), s # <<>>
  PROVE  /\ SubSeq(s, 1, Len(s) - 1) \in Seq(S)
         /\ Len(SubSeq(s, 1, Len(s) - 1)) = Len(s) - 1
         /\ \A k \in 1 .. Len(s) - 1 : SubSeq(s, 1, Len(s) - 1)[k] = s[k]
<1>1. Len(s) \in Nat \ {0}
  BY EmptySeq
<1>2. \A k \in 1 .. Len(s) - 1 : s[k] \in S
  BY <1>1, ElementOfSeq
<1>3. ASSUME NEW n \in Int, n = Len(s) - 1
      PROVE  /\ SubSeq(s, 1, n) \in Seq(S)
             /\ Len(SubSeq(s, 1, n)) = n
             /\ \A k \in 1 .. n : SubSeq(s, 1, n)[k] = s[k]
  <2>1. \A k \in 1 .. n : s[k] \in S
    BY <1>2, <1>3
  <2>2. /\ SubSeq(s, 1, n) \in Seq(S)
        /\ Len(SubSeq(s, 1, n)) = IF 1 <= n THEN n - 1 + 1 ELSE 0
        /\ \A k \in 1 .. n - 1 + 1 : SubSeq(s, 1, n)[k] = s[1 + k - 1]
    BY <2>1, SubSeqProperties
  <2>. QED
    BY <1>1, <1>3, <2>2
<1>4. Len(s) - 1 \in Int
  BY <1>1
<1>. QED
  BY <1>3, <1>4, Zenon

-----------------------------------------------------------------------------
(* Type correctness.                                                        *)

\* TypeOK is not inductive alone: next must still be a URL in "setopt".
Typed == TypeOK /\ (pc = "setopt" => next \in Url)

\* A valid address leads to a URL of the batch.
LEMMA DerefType ==
  ASSUME TypeOK, NEW p, Valid(p)
  PROVE  Deref(p) \in Url
<1>1. requests \in Seq(Url) /\ p[2] \in DOMAIN requests
  BY DEF TypeOK, Valid
<1>. QED
  BY <1>1, ElementOfSeq, LenProperties DEF Deref

\* Every step of the loop, of libcurl or of the clock keeps the types.
LEMMA TypeStep == Typed /\ [Next]_vars => Typed'
<1>. SUFFICES ASSUME Typed, [Next]_vars PROVE Typed'
  OBVIOUS
<1>. USE NumUrlsAssumption, ServerAssumption, TimeoutAssumption
         DEF Typed, TypeOK, storageVars, serverVars, multiVars
<1>1. CASE InitMultiFails
  BY <1>1 DEF InitMultiFails, LogError, MultiError
<1>2. CASE InitMulti
  BY <1>2 DEF InitMulti, ReservedSlots
<1>3. CASE EmplaceRequest
  <2>1. next \in Url
    BY <1>3 DEF EmplaceRequest, Url
  <2>2. requests' \in Seq(Url)
    BY <1>3, <2>1, AppendProperties DEF EmplaceRequest
  <2>3. block' \in Nat /\ capacity' \in Nat
    <3>1. growthFactor(capacity, 1) \in Nat
      BY DEF growthFactor
    <3>. QED
      BY <1>3, <3>1 DEF EmplaceRequest
  <2>4. easy' \in [Url -> {"none", "null", "live", "freed"}]
    BY <1>3 DEF EmplaceRequest
  <2>. QED
    BY <1>3, <2>1, <2>2, <2>3, <2>4 DEF EmplaceRequest
<1>4. CASE SetupFails
  <2>1. next \in Url /\ next' \in 1 .. NumUrls + 1
    BY <1>4 DEF SetupFails, Url
  <2>2. requests' \in Seq(Url)
    <3>1. CASE requests = <<>>
      <4>1. Len(requests) = 0
        BY <3>1
      <4>2. SubSeq(requests, 1, Len(requests) - 1) = <<>>
        BY <4>1, SubSeqEmpty
      <4>. QED
        BY <1>4, <4>2, EmptySeq DEF SetupFails
    <3>2. CASE requests # <<>>
      BY <1>4, <3>2, PopBackType DEF SetupFails
    <3>. QED
      BY <3>1, <3>2
  <2>3. errors' \subseteq [what : {"setup"}, url : Url]
                   \cup [what : {"multi_init", "perform", "poll"}, url : {0}]
    BY <1>4, <2>1 DEF SetupFails, LogError, SetupError
  <2>4. easy' \in [Url -> {"none", "null", "live", "freed"}]
    BY <1>4, <2>1 DEF SetupFails
  <2>. QED
    BY <1>4, <2>1, <2>2, <2>3, <2>4 DEF SetupFails
<1>5. CASE SetupAndAdd
  <2>1. next \in Url /\ next' \in 1 .. NumUrls + 1
    BY <1>5 DEF SetupAndAdd, Url
  <2>2. ptr' \in [Url -> Nat \X Nat]
    BY <1>5, <2>1 DEF SetupAndAdd, BackAddress
  <2>. QED
    BY <1>5, <2>1, <2>2 DEF SetupAndAdd
<1>6. CASE SetupDone
  BY <1>6 DEF SetupDone
<1>7. CASE PerformReturns
  BY <1>7 DEF PerformReturns
<1>8. CASE PerformFails
  BY <1>8 DEF PerformFails, LogError, MultiError
<1>9. CASE Poll
  BY <1>9 DEF Poll, LogError, MultiError
<1>10. CASE CollectMessage
  <2>1. msgs' \in Seq(Url) /\ Head(msgs) \in Url
    BY <1>10, HeadTailProperties DEF CollectMessage
  <2> DEFINE u == Head(msgs)
             r == Deref(ptr[u])
  <2>2. CASE Valid(ptr[u])
    <3>1. r \in Url
      BY <2>2, DerefType
    <3>2. ResultOf(r, u) \in Result
      BY <2>1, <3>1 DEF ResultOf, Result
    <3>3. /\ results' = Append(results, ResultOf(r, u))
          /\ body' = [body EXCEPT ![r] = <<>>]
          /\ wild' = wild
      BY <1>10, <2>2 DEF CollectMessage
    <3>4. results' \in Seq(Result)
      BY <3>2, <3>3, AppendProperties
    <3>5. body' \in [Url -> Seq(Url)]
      BY <3>1, <3>3, EmptySeq
    <3>. QED
      BY <1>10, <2>1, <3>3, <3>4, <3>5 DEF CollectMessage
  <2>3. CASE ~Valid(ptr[u])
    BY <1>10, <2>1, <2>3 DEF CollectMessage
  <2>. QED
    BY <2>2, <2>3
<1>11. CASE CollectDone
  BY <1>11 DEF CollectDone
<1>12. CASE DestroyRequests
  BY <1>12, EmptySeq DEF DestroyRequests
<1>13. CASE DestroyMulti \/ InitThrows
  BY <1>13 DEF DestroyMulti, InitThrows
<1>14. CASE Tick
  <2>1. clock' \in 0 .. Timeout
    BY <1>14 DEF Tick
  <2>. QED
    BY <1>14, <2>1 DEF Tick
<1>15. ASSUME NEW u \in Url, WriteCallback(u) PROVE Typed'
  <2>1. body' \in [Url -> Seq(Url)]
    <3>1. CASE Valid(ptr[u])
      <4>1. Deref(ptr[u]) \in Url
        BY <3>1, DerefType
      <4>2. Append(body[Deref(ptr[u])], u) \in Seq(Url)
        BY <4>1, AppendProperties
      <4>. QED
        BY <1>15, <3>1, <4>1, <4>2 DEF WriteCallback
    <3>2. CASE ~Valid(ptr[u])
      BY <1>15, <3>2 DEF WriteCallback
    <3>. QED
      BY <3>1, <3>2
  <2>2. sent' \in [Url -> Nat]
    BY <1>15 DEF WriteCallback
  <2>. QED
    BY <1>15, <2>1, <2>2 DEF WriteCallback
<1>16. ASSUME NEW u \in Url, TransferDone(u) PROVE Typed'
  <2>1. msgs' \in Seq(Url)
    BY <1>16, AppendProperties DEF TransferDone
  <2>2. rc' \in [Url -> {"none", "ok", "error"}]
    BY <1>16 DEF TransferDone
  <2>3. http' \in [Url -> HttpCodes \cup {0}]
    BY <1>16 DEF TransferDone
  <2>. QED
    BY <1>16, <2>1, <2>2, <2>3 DEF TransferDone
<1>17. CASE Throws
  BY <1>17, EmptySeq DEF Throws
<1>18. CASE UNCHANGED vars
  BY <1>18 DEF vars
<1>. QED
  BY <1>1, <1>2, <1>3, <1>4, <1>5, <1>6, <1>7, <1>8, <1>9, <1>10, <1>11,
     <1>12, <1>13, <1>14, <1>15, <1>16, <1>17, <1>18
  DEF Next, Program, Transfer

\* The types hold in every reachable state.
THEOREM TypesHold == Spec => []Typed
<1>1. ASSUME Init PROVE Typed
  <2>0. Init
    BY <1>1
  <2>1. 1 \in 1 .. NumUrls + 1
    BY NumUrlsAssumption
  <2>2. 0 \in 0 .. Timeout
    BY TimeoutAssumption
  <2>3. <<>> \in Seq(Url) /\ <<>> \in Seq(Result)
    BY EmptySeq
  <2>4. NullPtr \in Nat \X Nat
    BY DEF NullPtr
  <2>. QED
    <3>1. pc \in {"init", "setup", "setopt", "performing", "poll", "collect",
                  "destroy", "unwinding", "returned", "thrown"} /\ pc # "setopt"
      BY <2>0 DEF Init
    <3>2. /\ requests \in Seq(Url) /\ capacity \in Nat /\ block \in Nat
          /\ ptr \in [Url -> Nat \X Nat] /\ body \in [Url -> Seq(Url)]
          /\ msgs \in Seq(Url) /\ results \in Seq(Result)
      BY <2>0, <2>3, <2>4 DEF Init
    <3>3. /\ next \in 1 .. NumUrls + 1 /\ clock \in 0 .. Timeout
      BY <2>0, <2>1, <2>2 DEF Init
    <3>4. /\ sent \in [Url -> Nat] /\ rc \in [Url -> {"none", "ok", "error"}]
          /\ http \in [Url -> HttpCodes \cup {0}]
          /\ easy \in [Url -> {"none", "null", "live", "freed"}]
          /\ multi \in {"none", "live", "freed"} /\ wild \in BOOLEAN
      BY <2>0 DEF Init
    <3>5. /\ attached \subseteq Url /\ running \subseteq Url /\ errors = {}
          /\ refused \subseteq Url
      BY <2>0 DEF Init
    <3>. QED
      BY <3>1, <3>2, <3>3, <3>4, <3>5 DEF Typed, TypeOK
<1>. QED
  BY <1>1, TypeStep, PTL DEF Spec

\* TypeOK: no variable ever leaves its type, for any batch of URLs.
THEOREM TypeCorrect == Spec => []TypeOK
<1>1. Typed => TypeOK
  BY DEF Typed
<1>. QED
  BY <1>1, TypesHold, PTL

-----------------------------------------------------------------------------
(* Addresses.                                                               *)

\* Where phase 1 stands: the block reserved before the loop has room for the
\* URLs still to come, and only earlier URLs are attached.
SetupInv ==
  /\ pc = "init" => attached = {} /\ requests = <<>> /\ next = 1
  /\ pc \in {"setup", "setopt"} =>
       capacity = NumUrls /\ \A u \in attached : u < next
  /\ pc = "setup" => Len(requests) < next
  /\ pc = "setopt" => /\ requests # <<>> /\ Len(requests) <= next
                      /\ requests[Len(requests)] = next

\* A handle is running, or has one message, or is detached.
MessageInv ==
  /\ running \subseteq attached
  /\ \A i \in DOMAIN msgs : msgs[i] \in attached \ running
  /\ \A i, j \in DOMAIN msgs : msgs[i] = msgs[j] => i = j
  /\ pc \in {"init", "destroy", "returned"} => msgs = <<>>

PointerInv == SetupInv /\ MessageInv /\ PointersResolve

\* The steps that touch no storage, no address and no transfer.
LEMMA PointerStutter ==
  ASSUME PointerInv,
         UNCHANGED <<next, storageVars, ptr, attached, running, msgs, wild>>,
         \/ pc' = pc
         \/ pc' \in {"performing", "poll", "collect", "unwinding", "thrown"}
         \/ pc' \in {"destroy", "returned"} /\ msgs = <<>>
  PROVE  PointerInv'
BY DEF PointerInv, SetupInv, MessageInv, PointersResolve, storageVars, Valid,
       Deref

LEMMA PointerStep == Typed /\ PointerInv /\ [Next]_vars => PointerInv'
<1>. SUFFICES ASSUME Typed, PointerInv, [Next]_vars PROVE PointerInv'
  OBVIOUS
<1>. USE NumUrlsAssumption DEF storageVars, serverVars, multiVars
<1>0. /\ requests \in Seq(Url) /\ msgs \in Seq(Url)
      /\ next \in 1 .. NumUrls + 1 /\ ptr \in [Url -> Nat \X Nat]
      /\ attached \subseteq Url /\ Len(requests) \in Nat
      /\ next \in Int /\ attached \subseteq Int
      /\ DOMAIN requests = 1 .. Len(requests)
      /\ DOMAIN msgs = 1 .. Len(msgs) /\ Len(msgs) \in Nat
  <2>1. 1 .. NumUrls + 1 \subseteq Int /\ Url \subseteq Int
    BY DEF Url
  <2>. QED
    BY <2>1, LenProperties DEF Typed, TypeOK
<1>1. CASE \/ InitMultiFails \/ SetupDone \/ PerformReturns \/ PerformFails
           \/ Poll \/ CollectDone \/ InitThrows \/ Throws \/ DestroyMulti
           \/ Tick \/ UNCHANGED vars
  <2>1. /\ UNCHANGED <<next, storageVars, ptr, attached, running, msgs, wild>>
        /\ \/ pc' = pc
           \/ pc' \in {"performing", "poll", "collect", "unwinding", "thrown"}
           \/ pc' \in {"destroy", "returned"} /\ msgs = <<>>
    BY <1>1 DEF InitMultiFails, SetupDone, PerformReturns, PerformFails, Poll,
                CollectDone, InitThrows, Throws, DestroyMulti, Tick, vars,
                PointerInv, MessageInv
  <2>. QED
    BY <2>1, PointerStutter
<1>2. CASE InitMulti
  BY <1>0, <1>2 DEF InitMulti, ReservedSlots, PointerInv, SetupInv, MessageInv,
                    PointersResolve
<1>3. CASE EmplaceRequest
  <2>0. /\ pc = "setup" /\ pc' = "setopt" /\ next <= NumUrls
        /\ requests' = Append(requests, next)
        /\ UNCHANGED <<next, attached, ptr, wild>>
    BY <1>3 DEF EmplaceRequest
  <2>1. /\ next \in Url /\ Len(requests) # capacity /\ block' = block
        /\ capacity' = capacity /\ capacity = NumUrls
    <3>1. next \in Url
      BY <1>0, <2>0 DEF Url
    <3>2. Len(requests) < capacity /\ capacity = NumUrls
      BY <1>0, <2>0 DEF PointerInv, SetupInv
    <3>3. Len(requests) # capacity
      <4>1. Len(requests) \in Nat
        BY <1>0
      <4>. QED
        BY <3>2, <4>1
    <3>. QED
      BY <1>3, <3>1, <3>2, <3>3 DEF EmplaceRequest
  <2>2. /\ Len(requests') = Len(requests) + 1
        /\ DOMAIN requests' = 1 .. Len(requests) + 1
        /\ \A k \in 1 .. Len(requests) : requests'[k] = requests[k]
        /\ requests'[Len(requests) + 1] = next /\ requests' # <<>>
    <3>1. requests \in Seq(Url) /\ next \in Url
      BY <1>0, <2>1
    <3>2. requests' = Append(requests, next)
      BY <2>0
    <3>3. /\ Len(Append(requests, next)) = Len(requests) + 1
          /\ DOMAIN Append(requests, next) = 1 .. Len(requests) + 1
          /\ \A k \in 1 .. Len(requests) :
               Append(requests, next)[k] = requests[k]
          /\ Append(requests, next)[Len(requests) + 1] = next
          /\ Append(requests, next) # <<>>
      BY <3>1, PushBackType
    <3>. QED
      BY <3>2, <3>3
  <2>3. SetupInv'
    <3>1. Len(requests') <= next' /\ requests'[Len(requests')] = next'
      BY <1>0, <2>0, <2>2 DEF PointerInv, SetupInv
    <3>2. capacity' = NumUrls /\ \A u \in attached' : u < next'
      BY <2>0, <2>1 DEF PointerInv, SetupInv
    <3>. QED
      BY <2>0, <2>2, <3>1, <3>2 DEF SetupInv
  <2>4. MessageInv'
    BY <1>3 DEF EmplaceRequest, PointerInv, MessageInv
  <2>5. PointersResolve'
    <3>1. ASSUME NEW u \in attached PROVE Valid(ptr[u])' /\ Deref(ptr[u])' = u
      <4>1. Valid(ptr[u]) /\ Deref(ptr[u]) = u
        BY DEF PointerInv, PointersResolve
      <4>2. ptr[u][2] \in 1 .. Len(requests)
        BY <1>0, <4>1 DEF Valid
      <4>3. ptr[u][2] \in DOMAIN requests'
        BY <1>0, <2>2, <4>2
      <4>. QED
        BY <2>0, <2>1, <2>2, <4>1, <4>2, <4>3 DEF Valid, Deref
    <3>. QED
      BY <2>0, <3>1 DEF PointerInv, PointersResolve
  <2>. QED
    BY <2>3, <2>4, <2>5 DEF PointerInv
<1>4. CASE SetupFails
  <2>1. /\ requests # <<>> /\ Len(requests) <= next
        /\ requests[Len(requests)] = next
        /\ capacity = NumUrls /\ \A u \in attached : u < next
    BY <1>4 DEF SetupFails, PointerInv, SetupInv
  <2>2. /\ Len(requests') = Len(requests) - 1
        /\ DOMAIN requests' = 1 .. Len(requests) - 1
        /\ \A k \in 1 .. Len(requests) - 1 : requests'[k] = requests[k]
    BY <1>0, <1>4, <2>1, PopBackType, LenProperties DEF SetupFails
  <2>3. SetupInv'
    <3>1. Len(requests') < next' /\ pc' = "setup" /\ capacity' = NumUrls
      BY <1>0, <1>4, <2>1, <2>2 DEF SetupFails
    <3>2. \A u \in attached' : u < next'
      BY <1>0, <1>4, <2>1 DEF SetupFails
    <3>. QED
      BY <3>1, <3>2 DEF SetupInv
  <2>4. MessageInv'
    BY <1>4 DEF SetupFails, PointerInv, MessageInv
  <2>5. PointersResolve'
    <3>1. ASSUME NEW u \in attached PROVE Valid(ptr[u])' /\ Deref(ptr[u])' = u
      <4>1. Valid(ptr[u]) /\ Deref(ptr[u]) = u /\ u # next
        BY <1>0, <2>1 DEF PointerInv, PointersResolve
      <4>2. ptr[u][2] \in 1 .. Len(requests) - 1
        BY <1>0, <2>1, <4>1 DEF Valid, Deref
      <4>. QED
        BY <1>4, <2>2, <4>1, <4>2 DEF SetupFails, Valid, Deref
    <3>. QED
      BY <1>4, <3>1 DEF SetupFails, PointerInv, PointersResolve
  <2>. QED
    BY <2>3, <2>4, <2>5 DEF PointerInv
<1>5. CASE SetupAndAdd
  <2>1. /\ requests # <<>> /\ Len(requests) <= next
        /\ requests[Len(requests)] = next
        /\ capacity = NumUrls /\ \A u \in attached : u < next
    BY <1>5 DEF SetupAndAdd, PointerInv, SetupInv
  <2>2. next \in Url /\ Len(requests) \in 1 .. Len(requests)
    <3>1. Len(requests) # 0
      BY <1>0, <2>1, EmptySeq
    <3>. QED
      BY <1>0, <1>5, <3>1 DEF SetupAndAdd, Typed
  <2>3. /\ ptr'[next] = <<block, Len(requests)>>
        /\ \A u \in attached : ptr'[u] = ptr[u]
        /\ attached \subseteq attached' /\ attached' \subseteq attached \cup {next}
        /\ \/ attached' = attached \cup {next} /\ running' = running \cup {next}
           \/ attached' = attached /\ running' = running
        /\ next' = next + 1 /\ pc' = "setup"
        /\ UNCHANGED <<requests, capacity, block, msgs, wild>>
    <3>1. next \notin attached
      BY <1>0, <2>1
    <3>. QED
      BY <1>0, <1>5, <2>2, <3>1 DEF SetupAndAdd, BackAddress
  <2>4. SetupInv'
    <3>1. Len(requests') < next' /\ pc' = "setup" /\ capacity' = NumUrls
      BY <1>0, <2>1, <2>3
    <3>2. \A u \in attached' : u < next'
      BY <1>0, <2>1, <2>3
    <3>. QED
      BY <3>1, <3>2 DEF SetupInv
  <2>5. MessageInv'
    <3>1. next \notin attached
      BY <1>0, <2>1
    <3>. QED
      BY <2>3, <3>1 DEF PointerInv, MessageInv
  <2>6. PointersResolve'
    <3>1. ASSUME NEW u \in attached' PROVE Valid(ptr[u])' /\ Deref(ptr[u])' = u
      <4>1. CASE u = next
        BY <1>0, <2>1, <2>2, <2>3, <4>1 DEF Valid, Deref
      <4>2. CASE u \in attached
        BY <2>3, <4>2 DEF PointerInv, PointersResolve, Valid, Deref
      <4>. QED
        BY <2>3, <4>1, <4>2
    <3>. QED
      BY <2>3, <3>1 DEF PointerInv, PointersResolve
  <2>. QED
    BY <2>4, <2>5, <2>6 DEF PointerInv
<1>6. CASE CollectMessage
  <2> DEFINE u == Head(msgs)
  <2>1. /\ pc = "collect" /\ pc' = pc /\ msgs # <<>> /\ msgs' = Tail(msgs)
        /\ attached' = attached \ {u}
        /\ Valid(ptr[u]) => wild' = wild
        /\ UNCHANGED <<next, requests, capacity, block, ptr, running>>
    BY <1>6 DEF CollectMessage
  <2>2. /\ Len(msgs) >= 1 /\ u = msgs[1]
        /\ Len(msgs') = Len(msgs) - 1
        /\ \A i \in 1 .. Len(msgs) - 1 : msgs'[i] = msgs[i + 1]
        /\ DOMAIN msgs' = 1 .. Len(msgs) - 1
    <3>1. /\ Len(msgs) >= 1 /\ u = msgs[1] /\ Tail(msgs) \in Seq(Url)
          /\ Len(Tail(msgs)) = Len(msgs) - 1
          /\ \A i \in 1 .. Len(Tail(msgs)) : Tail(msgs)[i] = msgs[i + 1]
      BY <1>0, <2>1, EmptySeq, HeadTailProperties
    <3>. QED
      BY <2>1, <3>1, LenProperties
  <2>3. u \in attached \ running
    BY <1>0, <2>2 DEF PointerInv, MessageInv
  <2>4. SetupInv'
    BY <2>1 DEF SetupInv
  <2>5. MessageInv'
    <3>1. \A i \in DOMAIN msgs' : i + 1 \in DOMAIN msgs /\ i + 1 # 1 /\ i \in Int
      BY <1>0, <2>2
    <3>2. \A i \in DOMAIN msgs' : msgs'[i] = msgs[i + 1] /\ msgs[i + 1] # u
      <4>1. 1 \in DOMAIN msgs
        BY <1>0, <2>2
      <4>. QED
        BY <2>2, <3>1, <4>1 DEF PointerInv, MessageInv
    <3>3. \A i \in DOMAIN msgs' : msgs'[i] \in attached' \ running'
      BY <2>1, <3>1, <3>2 DEF PointerInv, MessageInv
    <3>4. \A i, j \in DOMAIN msgs' : msgs'[i] = msgs'[j] => i = j
      <4>1. ASSUME NEW i \in DOMAIN msgs', NEW j \in DOMAIN msgs',
                   msgs'[i] = msgs'[j]
            PROVE  i = j
        <5>1. i + 1 = j + 1
          BY <3>1, <3>2, <4>1 DEF PointerInv, MessageInv
        <5>. QED
          BY <3>1, <5>1
      <4>. QED
        BY <4>1
    <3>5. running' \subseteq attached'
      BY <2>1, <2>3 DEF PointerInv, MessageInv
    <3>. QED
      BY <2>1, <3>3, <3>4, <3>5 DEF MessageInv
  <2>6. PointersResolve'
    BY <2>1, <2>3 DEF PointerInv, PointersResolve, Valid, Deref
  <2>. QED
    BY <2>4, <2>5, <2>6 DEF PointerInv
<1>7. CASE DestroyRequests
  <2>1. \A u \in attached : \E k \in DOMAIN requests : requests[k] = u
    BY DEF PointerInv, PointersResolve, Valid, Deref
  <2>2. attached' = {} /\ running' = {} /\ msgs' = <<>> /\ requests' = <<>>
    BY <1>7, <2>1 DEF DestroyRequests, OwnedHandles, PointerInv, MessageInv
  <2>3. pc' \in {"destroy", "unwinding"} /\ wild' = wild
    BY <1>7 DEF DestroyRequests
  <2>. QED
    BY <2>2, <2>3 DEF PointerInv, SetupInv, MessageInv, PointersResolve
<1>8. ASSUME NEW u \in Url, WriteCallback(u) PROVE PointerInv'
  <2>1. Valid(ptr[u])
    BY <1>8 DEF WriteCallback, PointerInv, MessageInv, PointersResolve
  <2>2. UNCHANGED <<pc, next, requests, capacity, block, ptr, attached, running,
                    msgs, wild>>
    BY <1>8, <2>1 DEF WriteCallback
  <2>. QED
    BY <2>2, PointerStutter
<1>9. ASSUME NEW u \in Url, TransferDone(u) PROVE PointerInv'
  <2>1. /\ pc = "performing" /\ pc' = pc /\ u \in running
        /\ running' = running \ {u} /\ msgs' = Append(msgs, u)
        /\ UNCHANGED <<next, requests, capacity, block, ptr, attached, wild>>
    BY <1>9 DEF TransferDone
  <2>2. /\ DOMAIN msgs' = 1 .. Len(msgs) + 1 /\ msgs'[Len(msgs) + 1] = u
        /\ \A i \in DOMAIN msgs : msgs'[i] = msgs[i]
        /\ \A i \in DOMAIN msgs' : i \in DOMAIN msgs \/ i = Len(msgs) + 1
    BY <1>0, <2>1, AppendProperties, LenProperties
  <2>3. \A i \in DOMAIN msgs : msgs[i] # u
    BY <2>1 DEF PointerInv, MessageInv
  <2>4. MessageInv'
    BY <2>1, <2>2, <2>3 DEF PointerInv, MessageInv
  <2>5. SetupInv' /\ PointersResolve'
    BY <2>1 DEF PointerInv, SetupInv, PointersResolve, Valid, Deref
  <2>. QED
    BY <2>4, <2>5 DEF PointerInv
<1>. QED
  BY <1>1, <1>2, <1>3, <1>4, <1>5, <1>6, <1>7, <1>8, <1>9
     DEF Next, Program, Transfer

\* PointersResolve: libcurl never follows an address whose request was moved
\* or destroyed, for any batch of URLs and any outcome of the libcurl calls.
THEOREM PointersAlwaysResolve == Spec => []PointersResolve
<1>1. Init => PointerInv
  BY EmptySeq DEF Init, PointerInv, SetupInv, MessageInv, PointersResolve
<1>2. PointerInv => PointersResolve
  BY DEF PointerInv
<1>. QED
  BY <1>1, <1>2, TypesHold, PointerStep, PTL DEF Spec

-----------------------------------------------------------------------------
(* Ownership of the handles.                                                *)

\* A live easy handle belongs to a request that is still stored, and the multi
\* handle is freed only by the last destructor to run.
OwnerInv ==
  /\ \A u \in Url : easy[u] = "live" => u \in OwnedHandles
  /\ multi = "freed" => pc \in {"returned", "thrown"} /\ requests = <<>>
  /\ pc = "init" => multi = "none"
  /\ pc \in {"returned", "thrown"} => multi # "live"

LEMMA OwnerStep ==
  Typed /\ PointerInv /\ OwnerInv /\ [Next]_vars => OwnerInv'
<1>. SUFFICES ASSUME Typed, PointerInv, OwnerInv, [Next]_vars PROVE OwnerInv'
  OBVIOUS
<1>. USE DEF storageVars, serverVars, multiVars
<1>0. /\ requests \in Seq(Url) /\ easy \in [Url -> {"none", "null", "live", "freed"}]
      /\ DOMAIN requests = 1 .. Len(requests) /\ Len(requests) \in Nat
  BY LenProperties DEF Typed, TypeOK
<1>1. CASE /\ UNCHANGED <<easy, requests, multi>> /\ pc \notin {"init"}
           /\ pc' \notin {"init", "returned", "thrown"}
           /\ pc \notin {"returned", "thrown"}
  BY <1>1 DEF OwnerInv, OwnedHandles
<1>2. CASE UNCHANGED vars
  BY <1>2 DEF OwnerInv, OwnedHandles, vars
<1>3. CASE \/ SetupDone \/ PerformReturns \/ PerformFails \/ Poll
           \/ CollectDone \/ Throws \/ Tick \/ SetupAndAdd \/ CollectMessage
           \/ \E u \in Url : Transfer(u)
  <2>1. /\ UNCHANGED <<easy, requests, multi>> /\ pc \notin {"init"}
        /\ pc' \notin {"init", "returned", "thrown"}
        /\ pc \notin {"returned", "thrown"}
    BY <1>3 DEF SetupDone, PerformReturns, PerformFails, Poll, CollectDone,
                Throws, Tick, SetupAndAdd, CollectMessage, Transfer,
                WriteCallback, TransferDone
  <2>. QED
    BY <1>1, <2>1
<1>4. CASE InitMultiFails \/ InitMulti \/ InitThrows
  <2>1. /\ UNCHANGED <<easy, requests>> /\ pc = "init"
        /\ \/ pc' = "returned" /\ multi' = multi
           \/ pc' \in {"setup", "unwinding"} /\ multi' \in {"none", "live"}
    BY <1>4 DEF InitMultiFails, InitMulti, InitThrows
  <2>. QED
    BY <2>1 DEF OwnerInv, OwnedHandles
<1>5. CASE EmplaceRequest
  <2>0. /\ pc = "setup" /\ pc' = "setopt" /\ multi' = multi /\ next <= NumUrls
        /\ requests' = Append(requests, next)
        /\ \E e \in {"live", "null"} : easy' = [easy EXCEPT ![next] = e]
    BY <1>5 DEF EmplaceRequest
  <2>1. next \in Url
    BY <2>0, NumUrlsAssumption DEF Typed, TypeOK, Url
  <2>2. /\ DOMAIN requests' = 1 .. Len(requests) + 1
        /\ \A k \in 1 .. Len(requests) : requests'[k] = requests[k]
        /\ requests'[Len(requests) + 1] = next
    BY <1>0, <2>0, <2>1, PushBackType
  <2>3. ASSUME NEW u \in Url, easy'[u] = "live"
        PROVE  \E k \in DOMAIN requests' : requests'[k] = u
    <3>1. CASE u = next
      <4>1. Len(requests) + 1 \in DOMAIN requests'
        BY <1>0, <2>2
      <4>. QED
        BY <2>2, <3>1, <4>1
    <3>2. CASE u # next
      <4>1. easy[u] = "live"
        BY <1>0, <2>0, <2>3, <3>2
      <4>2. PICK k \in DOMAIN requests : requests[k] = u
        BY <4>1 DEF OwnerInv, OwnedHandles
      <4>3. k \in DOMAIN requests' /\ requests'[k] = u
        BY <1>0, <2>2, <4>2
      <4>. QED
        BY <4>3
    <3>. QED
      BY <3>1, <3>2
  <2>4. \A u \in Url : easy'[u] = "live" => u \in OwnedHandles'
    BY <2>3 DEF OwnedHandles
  <2>. QED
    BY <2>0, <2>4 DEF OwnerInv
<1>6. CASE SetupFails
  <2>0. /\ pc = "setopt" /\ pc' = "setup" /\ multi' = multi
        /\ requests' = SubSeq(requests, 1, Len(requests) - 1)
        /\ easy' = [easy EXCEPT ![next] = IF @ = "live" THEN "freed" ELSE @]
        /\ next \in Url
        /\ requests # <<>> /\ requests[Len(requests)] = next
    BY <1>6 DEF SetupFails, PointerInv, SetupInv, Typed
  <2>1. /\ DOMAIN requests' = 1 .. Len(requests) - 1
        /\ \A k \in 1 .. Len(requests) - 1 : requests'[k] = requests[k]
    BY <1>0, <2>0, PopBackType, LenProperties
  <2>2. ASSUME NEW u \in Url, easy'[u] = "live"
        PROVE  \E k \in DOMAIN requests' : requests'[k] = u
    <3>1. easy[u] = "live" /\ u # next
      BY <1>0, <2>0, <2>2
    <3>2. PICK k \in DOMAIN requests : requests[k] = u
      BY <3>1 DEF OwnerInv, OwnedHandles
    <3>3. k \in 1 .. Len(requests) - 1
      BY <1>0, <2>0, <3>1, <3>2
    <3>. QED
      BY <2>1, <3>2, <3>3
  <2>3. \A u \in Url : easy'[u] = "live" => u \in OwnedHandles'
    BY <2>2 DEF OwnedHandles
  <2>. QED
    BY <2>0, <2>3 DEF OwnerInv
<1>7. CASE DestroyRequests
  <2>1. /\ pc' = pc /\ multi' = multi /\ requests' = <<>>
        /\ pc \in {"destroy", "unwinding"}
        /\ easy' = [u \in Url |-> IF u \in OwnedHandles THEN "freed" ELSE easy[u]]
    BY <1>7 DEF DestroyRequests
  <2>2. \A u \in Url : easy'[u] # "live"
    BY <2>1 DEF OwnerInv
  <2>. QED
    BY <2>1, <2>2 DEF OwnerInv
<1>8. CASE DestroyMulti
  <2>1. /\ UNCHANGED <<easy, requests>> /\ requests = <<>>
        /\ multi' # "live" /\ pc' \in {"returned", "thrown"}
    BY <1>8 DEF DestroyMulti
  <2>. QED
    BY <2>1 DEF OwnerInv, OwnedHandles
<1>. QED
  BY <1>2, <1>3, <1>4, <1>5, <1>6, <1>7, <1>8 DEF Next, Program

\* Addresses and ownership hold together: the facts of the theorems below.
LEMMA LoopInvHolds == Spec => [](Typed /\ PointerInv /\ OwnerInv)
<1>1. Init => PointerInv /\ OwnerInv
  BY EmptySeq
     DEF Init, PointerInv, SetupInv, MessageInv, PointersResolve, OwnerInv
<1>. QED
  BY <1>1, TypesHold, PointerStep, OwnerStep, PTL DEF Spec

\* CleanShutdown: on every way out, by return or by exception, the multi handle
\* goes last, when no easy handle is live or attached, and it does go.
THEOREM ShutdownIsClean == Spec => []CleanShutdown
<1>1. Typed /\ PointerInv /\ OwnerInv => CleanShutdown
  <2>. SUFFICES ASSUME Typed, PointerInv, OwnerInv PROVE CleanShutdown
    OBVIOUS
  <2>1. ASSUME multi = "freed"
        PROVE  attached = {} /\ running = {} /\ \A u \in Url : easy[u] # "live"
    <3>1. requests = <<>>
      BY <2>1 DEF OwnerInv
    <3>2. DOMAIN requests = {}
      BY <3>1
    <3>. QED
      BY <3>2 DEF PointerInv, MessageInv, PointersResolve, Valid, OwnerInv,
                  OwnedHandles
  <2>. QED
    BY <2>1 DEF CleanShutdown, OwnerInv
<1>. QED
  BY <1>1, LoopInvHolds, PTL

-----------------------------------------------------------------------------
(* Bodies and answers.                                                      *)

\* What is attached still has all of its chunks, what was answered took them
\* along and left the multi handle, and nothing is sent during phase 1.
BodyInv ==
  /\ BodiesBelong
  /\ \A u \in Answered : u \notin attached
  /\ pc \in {"init", "setup", "setopt"} =>
       results = <<>> /\ \A u \in Url : sent[u] = 0 /\ body[u] = <<>>

\* A transfer that ended is answered or has its message waiting.
FinishInv ==
  pc \notin {"unwinding", "thrown"} =>
    \A u \in Url : rc[u] # "none" =>
      u \in Answered \/ \E i \in DOMAIN msgs : msgs[i] = u

ResultInv == BodyInv /\ FinishInv

\* What one turn of the curl_multi_info_read loop does, addresses resolved.
LEMMA CollectEffect ==
  ASSUME Typed, PointerInv, CollectMessage
  PROVE  /\ Head(msgs) \in Url \cap attached
         /\ results' = Append(results, ResultOf(Head(msgs), Head(msgs)))
         /\ DOMAIN results' = 1 .. Len(results) + 1
         /\ \A k \in DOMAIN results : results'[k] = results[k]
         /\ results'[Len(results) + 1] = ResultOf(Head(msgs), Head(msgs))
         /\ DOMAIN results = 1 .. Len(results) /\ Len(results) \in Nat
         /\ body' = [body EXCEPT ![Head(msgs)] = <<>>]
         /\ attached' = attached \ {Head(msgs)}
<1>1. /\ msgs \in Seq(Url) /\ msgs # <<>> /\ results \in Seq(Result)
      /\ attached \subseteq Url
  BY DEF Typed, TypeOK, CollectMessage
<1>2. Head(msgs) = msgs[1] /\ 1 \in DOMAIN msgs
  BY <1>1, EmptySeq, HeadTailProperties, LenProperties
<1>3. Head(msgs) \in attached
  BY <1>2 DEF PointerInv, MessageInv
<1>4. Valid(ptr[Head(msgs)]) /\ Deref(ptr[Head(msgs)]) = Head(msgs)
  BY <1>3 DEF PointerInv, PointersResolve
<1>5. /\ results' = Append(results, ResultOf(Head(msgs), Head(msgs)))
      /\ body' = [body EXCEPT ![Head(msgs)] = <<>>]
      /\ attached' = attached \ {Head(msgs)}
  BY <1>4 DEF CollectMessage
<1>6. ResultOf(Head(msgs), Head(msgs)) \in Result
  <2>1. /\ body[Head(msgs)] \in Seq(Url)
        /\ http[Head(msgs)] \in HttpCodes \cup {0}
    BY <1>1, <1>3 DEF Typed, TypeOK
  <2>. QED
    BY <1>1, <1>3, <2>1 DEF ResultOf, Result
<1>. QED
  BY <1>1, <1>3, <1>5, <1>6, PushBackType, LenProperties

LEMMA ResultStep ==
  Typed /\ PointerInv /\ ResultInv /\ [Next]_vars => ResultInv'
<1>. SUFFICES ASSUME Typed, PointerInv, ResultInv, [Next]_vars
              PROVE  ResultInv'
  OBVIOUS
<1>. USE DEF storageVars, serverVars, multiVars
<1>0. /\ results \in Seq(Result) /\ attached \subseteq Url /\ running \subseteq attached
      /\ body \in [Url -> Seq(Url)] /\ sent \in [Url -> Nat]
      /\ rc \in [Url -> {"none", "ok", "error"}]
      /\ DOMAIN results = 1 .. Len(results) /\ Len(results) \in Nat
      /\ msgs \in Seq(Url)
      /\ \A k \in DOMAIN results : results[k].url \in Url
  <2>1. results \in Seq(Result) /\ msgs \in Seq(Url)
    BY DEF Typed, TypeOK
  <2>2. \A k \in DOMAIN results : results[k] \in Result
    BY <2>1, ElementOfSeq, LenProperties
  <2>3. \A k \in DOMAIN results : results[k].url \in Url
    BY <2>2 DEF Result
  <2>. QED
    BY <2>1, <2>3, LenProperties DEF Typed, TypeOK, PointerInv, MessageInv
<1>1. CASE \/ InitMultiFails \/ InitMulti \/ EmplaceRequest \/ SetupFails
           \/ SetupDone \/ PerformReturns \/ PerformFails \/ Poll
           \/ CollectDone \/ DestroyMulti \/ InitThrows \/ Tick \/ UNCHANGED vars
  <2>1. /\ UNCHANGED <<results, attached, body, sent, rc, msgs>>
        /\ pc' \in {"init", "setup", "setopt"} => pc \in {"init", "setup", "setopt"}
        /\ pc' \notin {"unwinding", "thrown"} => pc \notin {"unwinding", "thrown"}
    BY <1>1 DEF InitMultiFails, InitMulti, EmplaceRequest, SetupFails, SetupDone,
                PerformReturns, PerformFails, Poll, CollectDone, DestroyMulti,
                InitThrows, Tick, vars
  <2>. QED
    BY <2>1 DEF ResultInv, BodyInv, BodiesBelong, WholeBody, FinishInv, Answered
<1>2. CASE Throws
  <2>1. /\ results' = <<>> /\ pc' = "unwinding"
        /\ UNCHANGED <<attached, body, sent>>
    BY <1>2 DEF Throws
  <2>2. Answered' = {} /\ DOMAIN results' = {}
    BY <2>1 DEF Answered
  <2>. QED
    BY <2>1, <2>2 DEF ResultInv, BodyInv, BodiesBelong, WholeBody, FinishInv
<1>3. CASE SetupAndAdd
  <2>1. /\ pc = "setopt" /\ pc' = "setup" /\ next \in Url
        /\ attached' \subseteq attached \cup {next}
        /\ UNCHANGED <<results, body, sent, rc, msgs>>
    BY <1>3 DEF SetupAndAdd, Typed
  <2>2. Answered = {} /\ results = <<>> /\ sent[next] = 0 /\ body[next] = <<>>
    BY <2>1 DEF ResultInv, BodyInv, Answered
  <2>3. WholeBody(body[next], next)
    BY <2>2 DEF WholeBody
  <2>. QED
    BY <2>1, <2>2, <2>3
       DEF ResultInv, BodyInv, BodiesBelong, WholeBody, FinishInv, Answered
<1>4. CASE CollectMessage
  <2> DEFINE u == Head(msgs)
  <2>1. /\ u \in Url \cap attached
        /\ DOMAIN results' = 1 .. Len(results) + 1
        /\ \A k \in DOMAIN results : results'[k] = results[k]
        /\ results'[Len(results) + 1].url = u
        /\ results'[Len(results) + 1].data = body[u]
        /\ body' = [body EXCEPT ![u] = <<>>]
        /\ attached' = attached \ {u}
    BY <1>4, CollectEffect DEF ResultOf
  <2>2. /\ pc = "collect" /\ pc' = pc /\ UNCHANGED <<sent, rc>>
        /\ msgs # <<>> /\ msgs' = Tail(msgs)
    BY <1>4 DEF CollectMessage
  <2>. HIDE DEF u
  <2>0. /\ \A k \in DOMAIN results' : k \in DOMAIN results \/ k = Len(results) + 1
        /\ \A k \in DOMAIN results : k \in DOMAIN results'
        /\ Len(results) + 1 \in DOMAIN results'
    BY <1>0, <2>1
  <2>3. Answered' = Answered \cup {u}
    BY <2>0, <2>1 DEF Answered
  <2>4. \A v \in attached' : WholeBody(body[v], v)'
    BY <1>0, <2>1, <2>2 DEF ResultInv, BodyInv, BodiesBelong, WholeBody
  <2>5. \A k \in DOMAIN results' : WholeBody(results[k].data, results[k].url)'
    <3>1. ASSUME NEW k \in DOMAIN results
          PROVE  WholeBody(results[k].data, results[k].url)'
      BY <2>1, <2>2 DEF ResultInv, BodyInv, BodiesBelong, WholeBody
    <3>2. ASSUME NEW k \in DOMAIN results', k = Len(results) + 1
          PROVE  WholeBody(results[k].data, results[k].url)'
      <4>1. WholeBody(body[u], u)
        BY <2>1 DEF ResultInv, BodyInv, BodiesBelong
      <4>2. results'[k].data = body[u] /\ results'[k].url = u
        BY <2>1, <3>2
      <4>. QED
        BY <2>2, <4>1, <4>2 DEF WholeBody
    <3>. QED
      BY <2>0, <3>1, <3>2
  <2>6. \A v \in Answered' : body'[v] = <<>> /\ v \notin attached'
    <3>1. \A v \in Answered : v \in Url /\ body[v] = <<>> /\ v \notin attached
      BY <1>0 DEF ResultInv, BodyInv, BodiesBelong, Answered
    <3>. QED
      BY <1>0, <2>1, <2>3, <3>1
  <2>7. FinishInv'
    <3>1. ASSUME NEW v \in Url, rc[v] # "none", v \notin Answered, v # u
          PROVE  \E i \in DOMAIN msgs' : msgs'[i] = v
      <4>1. PICK i \in DOMAIN msgs : msgs[i] = v
        BY <2>2, <3>1 DEF ResultInv, FinishInv
      <4>2. /\ Len(msgs) \in Nat /\ DOMAIN msgs = 1 .. Len(msgs)
            /\ u = msgs[1] /\ Tail(msgs) \in Seq(Url)
            /\ Len(Tail(msgs)) = Len(msgs) - 1
            /\ \A j \in 1 .. Len(Tail(msgs)) : Tail(msgs)[j] = msgs[j + 1]
            /\ DOMAIN Tail(msgs) = 1 .. Len(Tail(msgs))
        BY <1>0, <2>2, EmptySeq, HeadTailProperties, LenProperties DEF u
      <4>3. i \in 1 .. Len(msgs) /\ i # 1
        BY <3>1, <4>1, <4>2
      <4>4. i - 1 \in 1 .. Len(msgs) - 1 /\ (i - 1) + 1 = i
        BY <4>2, <4>3
      <4>5. i - 1 \in DOMAIN msgs' /\ msgs'[i - 1] = v
        BY <2>2, <4>1, <4>2, <4>4
      <4>. QED
        BY <4>5
    <3>. QED
      BY <2>2, <2>3, <3>1 DEF FinishInv
  <2>. QED
    BY <2>2, <2>4, <2>5, <2>6, <2>7 DEF ResultInv, BodyInv, BodiesBelong
<1>5. CASE DestroyRequests
  <2>1. /\ pc \in {"destroy", "unwinding"} /\ pc' = pc
        /\ attached' \subseteq attached
        /\ UNCHANGED <<results, body, sent, rc>>
    BY <1>5 DEF DestroyRequests
  <2>2. FinishInv'
    <3>1. CASE pc = "destroy"
      <4>1. DOMAIN msgs = {}
        BY <3>1 DEF PointerInv, MessageInv
      <4>. QED
        BY <2>1, <3>1, <4>1 DEF ResultInv, FinishInv, Answered
    <3>. QED
      BY <2>1, <3>1 DEF FinishInv
  <2>. QED
    BY <2>1, <2>2 DEF ResultInv, BodyInv, BodiesBelong, WholeBody, Answered
<1>6. ASSUME NEW u \in Url, WriteCallback(u) PROVE ResultInv'
  <2>1. u \in running /\ u \in attached /\ u \notin Answered
    BY <1>0, <1>6 DEF WriteCallback, ResultInv, BodyInv
  <2>2. Valid(ptr[u]) /\ Deref(ptr[u]) = u
    BY <2>1 DEF PointerInv, PointersResolve
  <2>3. /\ body' = [body EXCEPT ![u] = Append(@, u)]
        /\ sent' = [sent EXCEPT ![u] = @ + 1]
        /\ pc = "performing"
        /\ UNCHANGED <<pc, results, attached, rc, msgs>>
    BY <1>6, <2>2 DEF WriteCallback
  <2>4. WholeBody(body[u], u)'
    <3>1. body[u] \in Seq(Url) /\ WholeBody(body[u], u)
      BY <1>0, <2>1 DEF ResultInv, BodyInv, BodiesBelong
    <3>2. /\ Len(Append(body[u], u)) = Len(body[u]) + 1
          /\ DOMAIN Append(body[u], u) = 1 .. Len(body[u]) + 1
          /\ \A j \in 1 .. Len(body[u]) : Append(body[u], u)[j] = body[u][j]
          /\ Append(body[u], u)[Len(body[u]) + 1] = u
          /\ DOMAIN body[u] = 1 .. Len(body[u]) /\ Len(body[u]) \in Nat
      BY <3>1, PushBackType, LenProperties
    <3>3. \A j \in DOMAIN Append(body[u], u) : Append(body[u], u)[j] = u
      BY <3>1, <3>2 DEF WholeBody
    <3>4. body'[u] = Append(body[u], u) /\ sent'[u] = sent[u] + 1
      BY <1>0, <2>3
    <3>. QED
      BY <3>1, <3>2, <3>3, <3>4 DEF WholeBody
  <2>5. \A v \in Url \ {u} : body'[v] = body[v] /\ sent'[v] = sent[v]
    BY <1>0, <2>3
  <2>6. \A v \in attached' : WholeBody(body[v], v)'
    BY <1>0, <2>3, <2>4, <2>5 DEF ResultInv, BodyInv, BodiesBelong, WholeBody
  <2>7. \A k \in DOMAIN results' : WholeBody(results[k].data, results[k].url)'
    <3>1. \A k \in DOMAIN results : results[k].url \in Url \ {u}
      BY <1>0, <2>1 DEF Answered
    <3>. QED
      BY <2>3, <2>5, <3>1 DEF ResultInv, BodyInv, BodiesBelong, WholeBody
  <2>8. \A v \in Answered' : body'[v] = <<>> /\ v \notin attached'
    <3>1. \A v \in Answered : v \in Url \ {u}
      BY <1>0, <2>1 DEF Answered
    <3>. QED
      BY <2>3, <2>5, <3>1 DEF ResultInv, BodyInv, BodiesBelong, Answered
  <2>9. FinishInv'
    BY <2>3 DEF ResultInv, FinishInv, Answered
  <2>. QED
    BY <2>3, <2>6, <2>7, <2>8, <2>9 DEF ResultInv, BodyInv, BodiesBelong
<1>7. ASSUME NEW u \in Url, TransferDone(u) PROVE ResultInv'
  <2>1. /\ pc = "performing" /\ msgs' = Append(msgs, u)
        /\ UNCHANGED <<pc, results, attached, body, sent>>
        /\ \A v \in Url \ {u} : rc'[v] = rc[v]
    BY <1>0, <1>7 DEF TransferDone
  <2>2. /\ DOMAIN msgs' = 1 .. Len(msgs) + 1 /\ msgs'[Len(msgs) + 1] = u
        /\ \A i \in DOMAIN msgs : i \in DOMAIN msgs' /\ msgs'[i] = msgs[i]
        /\ Len(msgs) + 1 \in DOMAIN msgs'
    <3>1. /\ DOMAIN Append(msgs, u) = 1 .. Len(msgs) + 1
          /\ \A k \in 1 .. Len(msgs) : Append(msgs, u)[k] = msgs[k]
          /\ Append(msgs, u)[Len(msgs) + 1] = u
          /\ DOMAIN msgs = 1 .. Len(msgs) /\ Len(msgs) \in Nat
      BY <1>0, PushBackType, LenProperties
    <3>. QED
      BY <2>1, <3>1
  <2>3. FinishInv'
    BY <2>1, <2>2 DEF ResultInv, FinishInv, Answered
  <2>4. BodyInv'
    BY <2>1 DEF ResultInv, BodyInv, BodiesBelong, WholeBody, Answered
  <2>. QED
    BY <2>3, <2>4 DEF ResultInv
<1>. QED
  BY <1>1, <1>2, <1>3, <1>4, <1>5, <1>6, <1>7 DEF Next, Program, Transfer

LEMMA ResultInvHolds == Spec => []ResultInv
<1>1. Init => PointerInv
  BY EmptySeq DEF Init, PointerInv, SetupInv, MessageInv, PointersResolve
<1>2. Init => ResultInv
  BY DEF Init, ResultInv, BodyInv, BodiesBelong, FinishInv, Answered
<1>. QED
  BY <1>1, <1>2, TypesHold, PointerStep, ResultStep, PTL DEF Spec

\* BodiesBelong: a body, in a request or in a result, is all the chunks its own
\* server has sent and nothing else, whatever the interleaving of transfers.
THEOREM BodiesNeverMix == Spec => []BodiesBelong
<1>1. ResultInv => BodiesBelong
  BY DEF ResultInv, BodyInv
<1>. QED
  BY <1>1, ResultInvHolds, PTL

\* FinishedAreAnswered: a call that returns has answered every transfer that
\* ended, also the ones that ended before curl_multi_perform failed.
THEOREM FinishedTransfersAnswered == Spec => []FinishedAreAnswered
<1>1. PointerInv /\ ResultInv => FinishedAreAnswered
  <2>. SUFFICES ASSUME PointerInv, ResultInv, pc = "returned",
                       NEW u \in Url, rc[u] # "none"
                PROVE  u \in Answered
    BY DEF FinishedAreAnswered
  <2>1. DOMAIN msgs = {}
    BY DEF PointerInv, MessageInv
  <2>. QED
    BY <2>1 DEF ResultInv, FinishInv
<1>. QED
  BY <1>1, LoopInvHolds, ResultInvHolds, PTL

-----------------------------------------------------------------------------
(* Losses.                                                                  *)

\* A failure of the multi handle was logged.
MultiFailed == {MultiError("multi_init"), MultiError("perform")} \cap errors # {}

\* The URLs known to be lost for a reason of their own.
Lost == Rejected \cup refused

\* Every URL that phase 1 has passed is attached, answered or lost, and only
\* one of them; the attached ones run or have a message, so that a collect
\* phase that starts with no transfer running leaves none behind.
LossInv ==
  /\ \A u \in Url : u >= next => u \notin Lost
  /\ \A u \in attached \cup Answered : u \notin Lost
  /\ \A u \in attached : u \in running \/ \E i \in DOMAIN msgs : msgs[i] = u
  /\ pc \in {"setup", "setopt"} =>
       \A u \in Url : u < next => u \in attached \cup Lost
  /\ pc \in {"performing", "poll", "collect"} =>
       \A u \in Url : u \in attached \cup Answered \cup Lost
  /\ pc = "collect" => MultiFailed \/ running = {}
  /\ pc \in {"destroy", "returned"} =>
       MultiFailed \/ \A u \in Url : u \in Answered \cup Lost

\* A message about the multi handle is about no URL.
LEMMA MultiErrorRejectsNone ==
  ASSUME NEW w \in {"multi_init", "perform", "poll"},
         errors' = errors \cup {MultiError(w)}
  PROVE  Rejected' = Rejected /\ (MultiFailed => MultiFailed')
BY DEF MultiError, SetupError, Rejected, MultiFailed

\* The answered URLs are the same when results is.
LEMMA SameAnswers == UNCHANGED results => Answered' = Answered
BY DEF Answered

\* The logged reasons are the same when errors is.
LEMMA SameErrors ==
  UNCHANGED errors => Rejected' = Rejected /\ MultiFailed' = MultiFailed
BY DEF Rejected, MultiFailed

LEMMA LossStep ==
  Typed /\ PointerInv /\ ResultInv /\ LossInv /\ [Next]_vars => LossInv'
<1>. SUFFICES ASSUME Typed, PointerInv, ResultInv, LossInv, [Next]_vars
              PROVE  LossInv'
  OBVIOUS
<1>. USE DEF storageVars, serverVars, multiVars
<1>0. /\ attached \subseteq Url /\ running \subseteq attached /\ next \in Int
      /\ Url \subseteq Int /\ msgs \in Seq(Url) /\ results \in Seq(Result)
      /\ \A u \in Url : u <= NumUrls
  BY DEF Typed, TypeOK, Url, PointerInv, MessageInv
<1>1. CASE UNCHANGED vars
  <2>1. Answered' = Answered /\ Rejected' = Rejected /\ MultiFailed' = MultiFailed
    BY <1>1, SameAnswers, SameErrors DEF vars
  <2>. QED
    BY <1>1, <2>1 DEF LossInv, Lost, vars
<1>2. CASE InitMultiFails
  <2>1. /\ pc = "init" /\ pc' = "returned"
        /\ errors' = errors \cup {MultiError("multi_init")}
        /\ UNCHANGED <<next, attached, running, msgs, results, refused>>
    BY <1>2 DEF InitMultiFails, LogError
  <2>2. Rejected' = Rejected /\ Answered' = Answered /\ MultiFailed'
    BY <2>1, MultiErrorRejectsNone, SameAnswers DEF MultiFailed
  <2>. QED
    BY <2>1, <2>2 DEF LossInv, Lost
<1>3. CASE InitMulti \/ InitThrows
  <2>1. /\ pc = "init" /\ pc' \in {"setup", "unwinding"}
        /\ UNCHANGED <<next, attached, running, msgs, results, errors, refused>>
    BY <1>3 DEF InitMulti, InitThrows
  <2>2. Answered' = Answered /\ Rejected' = Rejected /\ MultiFailed' = MultiFailed
    BY <2>1, SameAnswers, SameErrors
  <2>3. next = 1 /\ \A u \in Url : u >= 1
    BY <2>1 DEF PointerInv, SetupInv, Url
  <2>4. \A u \in Url : ~(u < next)
    BY <1>0, <2>3
  <2>. QED
    BY <2>1, <2>2, <2>4 DEF LossInv, Lost
<1>4. CASE EmplaceRequest
  <2>1. /\ pc = "setup" /\ pc' = "setopt"
        /\ UNCHANGED <<next, attached, running, msgs, results, errors, refused>>
    BY <1>4 DEF EmplaceRequest
  <2>2. Answered' = Answered /\ Rejected' = Rejected /\ MultiFailed' = MultiFailed
    BY <2>1, SameAnswers, SameErrors
  <2>. QED
    BY <2>1, <2>2 DEF LossInv, Lost
<1>5. CASE SetupFails
  <2>1. /\ pc = "setopt" /\ pc' = "setup" /\ next' = next + 1 /\ next \in Url
        /\ errors' = errors \cup {SetupError(next)}
        /\ UNCHANGED <<attached, running, msgs, results, refused>>
        /\ \A u \in attached : u < next
    BY <1>5 DEF SetupFails, LogError, Typed, PointerInv, SetupInv
  <2>2. Rejected' = Rejected \cup {next}
    BY <2>1 DEF Rejected, SetupError
  <2>3. Answered' = Answered /\ Answered = {}
    BY <2>1, SameAnswers DEF ResultInv, BodyInv, Answered
  <2>4. Lost' = Lost \cup {next}
    BY <2>1, <2>2 DEF Lost
  <2>5. /\ \A u \in Url : u >= next' => u > next
        /\ \A u \in Url : u < next' => u < next \/ u = next
        /\ next \notin attached
    BY <1>0, <2>1
  <2>6. \A u \in Url : u >= next' => u \notin Lost'
    BY <1>0, <2>4, <2>5 DEF LossInv
  <2>7. \A u \in attached' \cup Answered' : u \notin Lost'
    BY <2>1, <2>3, <2>4, <2>5 DEF LossInv
  <2>8. \A u \in Url : u < next' => u \in attached' \cup Lost'
    BY <2>1, <2>4, <2>5 DEF LossInv
  <2>. QED
    BY <2>1, <2>6, <2>7, <2>8 DEF LossInv
<1>6. CASE SetupAndAdd
  <2>1. /\ pc = "setopt" /\ pc' = "setup" /\ next' = next + 1 /\ next \in Url
        /\ \/ /\ attached' = attached \cup {next}
              /\ running' = running \cup {next} /\ refused' = refused
           \/ /\ refused' = refused \cup {next}
              /\ attached' = attached /\ running' = running
        /\ UNCHANGED <<msgs, results, errors>>
        /\ \A u \in attached : u < next
    BY <1>6 DEF SetupAndAdd, Typed, PointerInv, SetupInv
  <2>2. Rejected' = Rejected /\ Answered' = Answered /\ Answered = {}
    BY <2>1, SameAnswers, SameErrors DEF ResultInv, BodyInv, Answered
  <2>3. /\ \A u \in Url : u >= next' => u >= next /\ u # next
        /\ \A u \in Url : u < next' => u < next \/ u = next
        /\ next \notin attached /\ next \notin Lost
    BY <1>0, <2>1 DEF LossInv
  <2>4. \/ attached' = attached \cup {next} /\ Lost' = Lost
        \/ attached' = attached /\ Lost' = Lost \cup {next}
    BY <2>1, <2>2 DEF Lost
  <2>5. \A u \in Url : u >= next' => u \notin Lost'
    BY <2>3, <2>4 DEF LossInv
  <2>6. \A u \in attached' \cup Answered' : u \notin Lost'
    BY <2>2, <2>3, <2>4 DEF LossInv
  <2>7. \A u \in Url : u < next' => u \in attached' \cup Lost'
    BY <2>1, <2>3, <2>4 DEF LossInv
  <2>8. \A u \in attached' : u \in running' \/ \E i \in DOMAIN msgs' : msgs'[i] = u
    BY <2>1 DEF LossInv
  <2>. QED
    BY <2>1, <2>5, <2>6, <2>7, <2>8 DEF LossInv
<1>7. CASE SetupDone
  <2>1. /\ pc = "setup" /\ pc' = "performing" /\ next > NumUrls
        /\ UNCHANGED <<next, attached, running, msgs, results, errors, refused>>
    BY <1>7 DEF SetupDone
  <2>2. Answered' = Answered /\ Rejected' = Rejected /\ MultiFailed' = MultiFailed
    BY <2>1, SameAnswers, SameErrors
  <2>3. \A u \in Url : u < next
    BY <1>0, <2>1, NumUrlsAssumption
  <2>. QED
    BY <2>1, <2>2, <2>3 DEF LossInv, Lost
<1>8. CASE PerformReturns \/ Tick \/ DestroyMulti
  <2>1. /\ \/ pc' = pc
           \/ pc = "performing" /\ pc' = "poll"
           \/ pc = "performing" /\ pc' = "collect" /\ running = {}
           \/ pc = "destroy" /\ pc' = "returned"
           \/ pc' = "thrown"
        /\ UNCHANGED <<next, attached, running, msgs, results, errors, refused>>
    BY <1>8 DEF PerformReturns, Tick, DestroyMulti
  <2>2. Answered' = Answered /\ Rejected' = Rejected /\ MultiFailed' = MultiFailed
    BY <2>1, SameAnswers, SameErrors
  <2>. QED
    BY <2>1, <2>2 DEF LossInv, Lost
<1>9. CASE PerformFails
  <2>1. /\ pc = "performing" /\ pc' = "collect"
        /\ errors' = errors \cup {MultiError("perform")}
        /\ UNCHANGED <<next, attached, running, msgs, results, refused>>
    BY <1>9 DEF PerformFails, LogError
  <2>2. Rejected' = Rejected /\ Answered' = Answered /\ MultiFailed'
    BY <2>1, MultiErrorRejectsNone, SameAnswers DEF MultiFailed
  <2>. QED
    BY <2>1, <2>2 DEF LossInv, Lost
<1>10. CASE Poll
  <2>1. /\ pc = "poll" /\ pc' = "performing"
        /\ \/ errors' = errors \cup {MultiError("poll")}
           \/ errors' = errors
        /\ UNCHANGED <<next, attached, running, msgs, results, refused>>
    BY <1>10 DEF Poll, LogError
  <2>2. Rejected' = Rejected /\ Answered' = Answered
    BY <2>1, MultiErrorRejectsNone, SameAnswers, SameErrors
  <2>. QED
    BY <2>1, <2>2 DEF LossInv, Lost
<1>11. CASE CollectMessage
  <2> DEFINE u == Head(msgs)
  <2>1. /\ u \in Url \cap attached
        /\ DOMAIN results' = 1 .. Len(results) + 1
        /\ DOMAIN results = 1 .. Len(results) /\ Len(results) \in Nat
        /\ \A k \in DOMAIN results : results'[k] = results[k]
        /\ results'[Len(results) + 1].url = u
        /\ attached' = attached \ {u}
    BY <1>11, CollectEffect DEF ResultOf
  <2>2. /\ pc = "collect" /\ pc' = pc /\ msgs # <<>> /\ msgs' = Tail(msgs)
        /\ UNCHANGED <<next, running, errors, refused>>
    BY <1>11 DEF CollectMessage
  <2>3. /\ Len(msgs) \in Nat /\ DOMAIN msgs = 1 .. Len(msgs) /\ u = msgs[1]
        /\ Len(Tail(msgs)) = Len(msgs) - 1
        /\ \A j \in 1 .. Len(Tail(msgs)) : Tail(msgs)[j] = msgs[j + 1]
        /\ DOMAIN Tail(msgs) = 1 .. Len(Tail(msgs))
    BY <1>0, <2>2, EmptySeq, HeadTailProperties, LenProperties
  <2>. HIDE DEF u
  <2>4. /\ \A k \in DOMAIN results' : k \in DOMAIN results \/ k = Len(results) + 1
        /\ \A k \in DOMAIN results : k \in DOMAIN results'
        /\ Len(results) + 1 \in DOMAIN results'
    BY <2>1
  <2>5. Answered' = Answered \cup {u}
    BY <2>1, <2>4 DEF Answered
  <2>6. Lost' = Lost /\ MultiFailed' = MultiFailed
    BY <2>2, SameErrors DEF Lost
  <2>7. ASSUME NEW v \in attached', v \notin running
        PROVE  \E i \in DOMAIN msgs' : msgs'[i] = v
    <3>1. v \in attached /\ v # u
      BY <2>1
    <3>2. PICK i \in DOMAIN msgs : msgs[i] = v
      BY <2>7, <3>1 DEF LossInv
    <3>3. i \in 1 .. Len(msgs) /\ i # 1
      BY <2>3, <3>1, <3>2
    <3>4. i - 1 \in 1 .. Len(msgs) - 1 /\ (i - 1) + 1 = i
      BY <2>3, <3>3
    <3>5. i - 1 \in DOMAIN msgs' /\ msgs'[i - 1] = v
      BY <2>2, <2>3, <3>2, <3>4
    <3>. QED
      BY <3>5
  <2>. QED
    BY <2>1, <2>2, <2>5, <2>6, <2>7 DEF LossInv
<1>12. CASE CollectDone
  <2>1. /\ pc = "collect" /\ pc' = "destroy" /\ msgs = <<>>
        /\ UNCHANGED <<next, attached, running, msgs, results, errors, refused>>
    BY <1>12 DEF CollectDone
  <2>2. Answered' = Answered /\ Rejected' = Rejected /\ MultiFailed' = MultiFailed
    BY <2>1, SameAnswers, SameErrors
  <2>3. attached \subseteq running
    BY <2>1 DEF LossInv
  <2>. QED
    BY <2>1, <2>2, <2>3 DEF LossInv, Lost
<1>13. CASE Throws
  <2>1. /\ pc' = "unwinding" /\ results' = <<>>
        /\ UNCHANGED <<next, attached, running, msgs, errors, refused>>
    BY <1>13 DEF Throws
  <2>2. Answered' = {} /\ Lost' = Lost
    BY <2>1, SameErrors DEF Answered, Lost
  <2>. QED
    BY <2>1, <2>2 DEF LossInv
<1>14. CASE DestroyRequests
  <2>1. /\ pc \in {"destroy", "unwinding"} /\ pc' = pc
        /\ UNCHANGED <<next, results, errors, refused>>
        /\ attached' = attached \ OwnedHandles
    BY <1>14 DEF DestroyRequests
  <2>2. Answered' = Answered /\ Rejected' = Rejected /\ MultiFailed' = MultiFailed
    BY <2>1, SameAnswers, SameErrors
  <2>3. attached \subseteq OwnedHandles
    BY DEF PointerInv, PointersResolve, Valid, Deref, OwnedHandles
  <2>4. attached' = {}
    BY <2>1, <2>3
  <2>. QED
    BY <2>1, <2>2, <2>4 DEF LossInv, Lost
<1>15. ASSUME NEW u \in Url, WriteCallback(u) PROVE LossInv'
  <2>1. UNCHANGED <<pc, next, attached, running, msgs, results, errors, refused>>
    BY <1>15 DEF WriteCallback
  <2>2. Answered' = Answered /\ Rejected' = Rejected /\ MultiFailed' = MultiFailed
    BY <2>1, SameAnswers, SameErrors
  <2>. QED
    BY <2>1, <2>2 DEF LossInv, Lost
<1>16. ASSUME NEW u \in Url, TransferDone(u) PROVE LossInv'
  <2>1. /\ pc = "performing" /\ msgs' = Append(msgs, u)
        /\ running' = running \ {u}
        /\ UNCHANGED <<pc, next, attached, results, errors, refused>>
    BY <1>16 DEF TransferDone
  <2>2. /\ msgs'[Len(msgs) + 1] = u /\ Len(msgs) + 1 \in DOMAIN msgs'
        /\ \A i \in DOMAIN msgs : i \in DOMAIN msgs' /\ msgs'[i] = msgs[i]
    <3>1. /\ DOMAIN Append(msgs, u) = 1 .. Len(msgs) + 1
          /\ \A k \in 1 .. Len(msgs) : Append(msgs, u)[k] = msgs[k]
          /\ Append(msgs, u)[Len(msgs) + 1] = u
          /\ DOMAIN msgs = 1 .. Len(msgs) /\ Len(msgs) \in Nat
      BY <1>0, PushBackType, LenProperties
    <3>. QED
      BY <2>1, <3>1
  <2>3. Answered' = Answered /\ Rejected' = Rejected /\ MultiFailed' = MultiFailed
    BY <2>1, SameAnswers, SameErrors
  <2>4. \A v \in attached' :
          v \in running' \/ \E i \in DOMAIN msgs' : msgs'[i] = v
    BY <2>1, <2>2 DEF LossInv
  <2>. QED
    BY <2>1, <2>3, <2>4 DEF LossInv, Lost
<1>. QED
  BY <1>1, <1>2, <1>3, <1>4, <1>5, <1>6, <1>7, <1>8, <1>9, <1>10, <1>11, <1>12,
     <1>13, <1>14, <1>15, <1>16 DEF Next, Program, Transfer

\* LossesAccounted: a call that returns has answered a URL, or logged why not,
\* or had its handle refused by curl_multi_add_handle - never two of these.
THEOREM LossesAreAccounted == Spec => []LossesAccounted
<1>1. Init => PointerInv
  BY EmptySeq DEF Init, PointerInv, SetupInv, MessageInv, PointersResolve
<1>2. Init => LossInv
  BY DEF Init, LossInv, Lost, Rejected, Answered
<1>3. LossInv => LossesAccounted
  BY DEF LossInv, Lost, MultiFailed, LossesAccounted
<1>. QED
  BY <1>1, <1>2, <1>3, TypesHold, PointerStep, ResultInvHolds, LossStep, PTL
     DEF Spec

-----------------------------------------------------------------------------
(* The caller's view: every step is a step of BatchFetch, or none.          *)

\* The refinement mapping of Abstract, named.
Fate == [u \in Url |-> FateOf(u)]
Answers == [k \in DOMAIN results |-> results[k].url]
Over == pc \in {"returned", "unwinding", "thrown"}

\* The mapped state depends on results, on the rejections and on pc alone.
LEMMA SameView ==
  ASSUME UNCHANGED results, Rejected' = Rejected
  PROVE  Fate' = Fate /\ Answers' = Answers
<1>1. Answered' = Answered
  BY SameAnswers
<1>2. \A u \in Url : FateOf(u)' = FateOf(u)
  BY <1>1 DEF FateOf
<1>. QED
  BY <1>2 DEF Fate, Answers

LEMMA RefinementStep ==
  Typed /\ PointerInv /\ ResultInv /\ LossInv /\ [Next]_vars
    => [Abstract!Next]_(Abstract!abstractVars)
<1>. SUFFICES ASSUME Typed, PointerInv, ResultInv, LossInv, [Next]_vars
              PROVE  \/ Abstract!Next
                     \/ Fate' = Fate /\ Answers' = Answers /\ Over' = Over
  BY DEF Abstract!abstractVars, Fate, Answers, Over
<1>. USE DEF storageVars, serverVars, multiVars
<1>1. CASE \/ InitMulti \/ EmplaceRequest \/ SetupAndAdd \/ SetupDone
           \/ PerformReturns \/ CollectDone \/ DestroyRequests \/ Tick
           \/ UNCHANGED vars \/ \E u \in Url : Transfer(u)
  <2>1. UNCHANGED <<results, errors>> /\ Over' = Over
    BY <1>1 DEF InitMulti, EmplaceRequest, SetupAndAdd, SetupDone, Over,
                PerformReturns, CollectDone, DestroyRequests, Tick, vars,
                Transfer, WriteCallback, TransferDone
  <2>. QED
    BY <2>1, SameErrors, SameView
<1>2. CASE PerformFails \/ Poll
  <2>1. /\ \/ errors' = errors \cup {MultiError("perform")}
           \/ errors' = errors \cup {MultiError("poll")}
           \/ errors' = errors
        /\ results' = results /\ Over' = Over
    BY <1>2 DEF PerformFails, Poll, LogError, Over
  <2>. QED
    BY <2>1, MultiErrorRejectsNone, SameErrors, SameView
<1>3. CASE InitMultiFails
  <2>1. /\ errors' = errors \cup {MultiError("multi_init")}
        /\ results' = results /\ ~Over /\ Over'
    BY <1>3 DEF InitMultiFails, LogError, Over
  <2>2. Fate' = Fate /\ Answers' = Answers
    BY <2>1, MultiErrorRejectsNone, SameView
  <2>3. Abstract!Return
    BY <2>1, <2>2 DEF Abstract!Return, Fate, Answers, Over
  <2>. QED
    BY <2>3 DEF Abstract!Next
<1>4. CASE DestroyMulti
  <2>1. UNCHANGED <<results, errors>> /\ Over'
    BY <1>4 DEF DestroyMulti, Over
  <2>2. Fate' = Fate /\ Answers' = Answers
    BY <2>1, SameErrors, SameView
  <2>3. CASE Over
    BY <2>1, <2>2, <2>3 DEF Over
  <2>4. CASE ~Over
    <3>1. Abstract!Return
      BY <2>1, <2>2, <2>4 DEF Abstract!Return, Fate, Answers, Over
    <3>. QED
      BY <3>1 DEF Abstract!Next
  <2>. QED
    BY <2>3, <2>4
<1>5. CASE InitThrows \/ Throws
  <2>1. ~Over /\ Over' /\ errors' = errors /\ results' = <<>>
    <3>1. InitThrows => results = <<>>
      BY DEF InitThrows, ResultInv, BodyInv
    <3>. QED
      BY <1>5, <3>1 DEF InitThrows, Throws, Over
  <2>2. Rejected' = Rejected /\ Answered' = {} /\ DOMAIN results' = {}
    BY <2>1, SameErrors DEF Answered
  <2>3. \A u \in Url :
          FateOf(u)' = IF FateOf(u) = "rejected" THEN FateOf(u) ELSE "pending"
    BY <2>2 DEF FateOf
  <2>4. Fate' = [u \in Url |-> IF Fate[u] = "rejected" THEN Fate[u] ELSE "pending"]
    BY <2>3 DEF Fate
  <2>5. Answers' = <<>>
    BY <2>1, <2>2 DEF Answers
  <2>6. Abstract!Throw
    BY <2>1, <2>4, <2>5 DEF Abstract!Throw, Fate, Answers, Over
  <2>. QED
    BY <2>6 DEF Abstract!Next
<1>6. CASE SetupFails
  <2>1. /\ next \in Url /\ errors' = errors \cup {SetupError(next)}
        /\ results' = results /\ ~Over /\ ~Over' /\ results = <<>>
        /\ next \notin Rejected
    <3>1. next \in Url /\ results = <<>>
      BY <1>6 DEF SetupFails, Typed, ResultInv, BodyInv
    <3>2. next >= next
      BY <3>1 DEF Typed, TypeOK
    <3>. QED
      BY <1>6, <3>1, <3>2 DEF SetupFails, LogError, Over, LossInv, Lost
  <2>2. Rejected' = Rejected \cup {next}
    BY <2>1 DEF Rejected, SetupError
  <2>3. Answered' = Answered /\ Answered = {} /\ DOMAIN results = {}
    BY <2>1, SameAnswers DEF Answered
  <2>4. \A u \in Url : FateOf(u)' = IF u = next THEN "rejected" ELSE FateOf(u)
    BY <2>1, <2>2, <2>3 DEF FateOf
  <2>5. Fate' = [Fate EXCEPT ![next] = "rejected"] /\ Fate[next] = "pending"
    BY <2>1, <2>3, <2>4 DEF Fate, FateOf
  <2>6. Answers' = Answers
    BY <2>1 DEF Answers
  <2>7. Abstract!Reject(next)
    BY <2>1, <2>5, <2>6 DEF Abstract!Reject, Fate, Answers, Over
  <2>. QED
    BY <2>1, <2>7 DEF Abstract!Next
<1>7. CASE CollectMessage
  <2>1. PICK u \in Url \cap attached :
        /\ DOMAIN results' = 1 .. Len(results) + 1
        /\ DOMAIN results = 1 .. Len(results) /\ Len(results) \in Nat
        /\ \A k \in DOMAIN results : results'[k] = results[k]
        /\ results'[Len(results) + 1].url = u
    BY <1>7, CollectEffect DEF ResultOf
  <2>2. errors' = errors /\ ~Over /\ ~Over'
    BY <1>7 DEF CollectMessage, Over
  <2>11. PICK f \in {"good", "bad"} :
           f = IF results'[Len(results) + 1].is_good THEN "good" ELSE "bad"
    OBVIOUS
  <2>3. /\ \A k \in DOMAIN results' : k \in DOMAIN results \/ k = Len(results) + 1
        /\ \A k \in DOMAIN results : k \in DOMAIN results'
        /\ Len(results) + 1 \in DOMAIN results'
        /\ Len(results) + 1 \notin DOMAIN results
    BY <2>1
  <2>4. Answered' = Answered \cup {u} /\ Rejected' = Rejected
    BY <2>1, <2>2, <2>3, SameErrors DEF Answered
  <2>5. u \notin Answered /\ u \notin Rejected
    BY <2>1 DEF ResultInv, BodyInv, LossInv, Lost
  <2>6. \A k \in DOMAIN results : results[k].url # u
    BY <2>5 DEF Answered
  <2>7. FateOf(u) = "pending" /\ FateOf(u)' = f
    BY <2>1, <2>3, <2>4, <2>5, <2>6, <2>11 DEF FateOf
  <2>8. \A v \in Url \ {u} : FateOf(v)' = FateOf(v)
    BY <2>1, <2>3, <2>4 DEF FateOf
  <2>9. Fate' = [Fate EXCEPT ![u] = f] /\ Fate[u] = "pending"
    BY <2>1, <2>7, <2>8 DEF Fate
  <2>10. Answers' = Append(Answers, u)
    <3>1. /\ Answers' = [k \in 1 .. Len(results) + 1 |-> results'[k].url]
          /\ Answers = [k \in 1 .. Len(results) |-> results[k].url]
      BY <2>1 DEF Answers
    <3>2. \A k \in 1 .. Len(results) : results[k].url \in Url
      <4>1. results \in Seq(Result)
        BY DEF Typed, TypeOK
      <4>2. \A k \in 1 .. Len(results) : results[k] \in Result
        BY <4>1, ElementOfSeq
      <4>. QED
        BY <4>2 DEF Result
    <3>3. Answers \in Seq(Url) /\ Len(Answers) = Len(results)
      BY <2>1, <3>1, <3>2, SeqDef, LenProperties
    <3>4. DOMAIN Append(Answers, u) = 1 .. Len(results) + 1
          /\ \A k \in 1 .. Len(results) : Append(Answers, u)[k] = Answers[k]
          /\ Append(Answers, u)[Len(results) + 1] = u
          /\ Append(Answers, u) \in Seq(Url)
      BY <2>1, <3>3, PushBackType
    <3>5. \A k \in 1 .. Len(results) + 1 : Answers'[k] = Append(Answers, u)[k]
      <4>1. \A k \in 1 .. Len(results) : Answers'[k] = Append(Answers, u)[k]
        BY <2>1, <2>3, <3>1, <3>4
      <4>2. Answers'[Len(results) + 1] = u
        BY <2>1, <3>1
      <4>. QED
        BY <2>1, <2>3, <3>4, <4>1, <4>2
    <3>6. Answers' \in Seq(Url) /\ Len(Answers') = Len(results) + 1
      BY <2>1, <3>1, <3>4, <3>5, SeqDef, LenProperties, ElementOfSeq
    <3>7. Len(Append(Answers, u)) = Len(results) + 1
      BY <2>1, <3>3, AppendProperties
    <3>. QED
      BY <3>4, <3>5, <3>6, <3>7, SeqEqual
  <2>12. Abstract!Answer(u, f)
    <3>1. Over' = Over
      BY <2>2 DEF Over
    <3>2. /\ ~Over /\ Fate[u] = "pending"
          /\ Fate' = [Fate EXCEPT ![u] = f]
          /\ Answers' = Append(Answers, u) /\ Over' = Over
      BY <2>2, <2>9, <2>10, <3>1
    <3>. QED
      BY <3>2, Zenon DEF Abstract!Answer, Fate, Answers, Over
  <2>. QED
    BY <2>1, <2>11, <2>12 DEF Abstract!Next
<1>. QED
  BY <1>1, <1>2, <1>3, <1>4, <1>5, <1>6, <1>7 DEF Next, Program

\* The loop does to a batch only what BatchFetch allows: one fate for each URL,
\* kept for good, one return or one throw, and no answer after a throw.
THEOREM BatchFetchSafety ==
  Spec => Abstract!Init /\ [][Abstract!Next]_(Abstract!abstractVars)
<1>1. Init => Abstract!Init
  BY EmptySeq DEF Init, Abstract!Init, FateOf, Rejected, Answered
<1>2. Init => PointerInv
  BY EmptySeq DEF Init, PointerInv, SetupInv, MessageInv, PointersResolve
<1>3. Init => LossInv
  BY DEF Init, LossInv, Lost, Rejected, Answered
<1>. QED
  BY <1>1, <1>2, <1>3, TypesHold, PointerStep, ResultInvHolds, LossStep,
     RefinementStep, PTL DEF Spec

=============================================================================
