------------------------------- MODULE Logger -------------------------------
(***************************************************************************)
(* badSQL::Logger (Logger.h): a singleton with two Sequence<std::string>,  *)
(* logs and errors, and one mutex.  add_log and add_error append under a   *)
(* lock_guard; last_log and last_error read WITHOUT the mutex.             *)
(*                                                                         *)
(* The append is the emplace_back of Sequence.h, in the order in which it  *)
(* writes the members, because a reader may look between any two of these  *)
(* writes; so is the read.  Such a race is undefined in C++; the values a  *)
(* reader may get here are those of the interleavings, Garbage standing  *)
(* for whatever raw or freed memory holds.                                 *)
(***************************************************************************)
EXTENDS SequenceMath, Sequences, FiniteSets

CONSTANTS Writers, Readers,   \* the threads that append, and that read
          NumWrites,          \* bound: messages of one writer
          Blocks,             \* addresses operator new may return
          NoThread, Raw, Moved,
          Empty, Garbage      \* what a read returns other than a message

ASSUME ThreadAssumption == NoThread \notin Writers /\ Writers \cap Readers = {}
ASSUME WritesAssumption == NumWrites \in Nat
ASSUME CellAssumption ==
  Raw # Moved /\ {Raw, Moved} \cap (Writers \X (1 .. NumWrites)) = {}
ASSUME BlockAssumption == Blocks \subseteq Nat \ {0}

List == {"mLogs", "mErrors"}
Message == Writers \X (1 .. NumWrites)
nullptr == 0

VARIABLES
  mMutex,                       \* the thread that holds it, or NoThread
  mArray, mSize, mCapacity,     \* of each list
  live, cells,                  \* the blocks allocated, the cells of each
  pc, list,                     \* of each writer: its place, the list it is at
  written,                      \* of each writer: messages given so far
  destination,                  \* of the writer inside reConstructAllocate
  accepted,                     \* history: the messages appended to each list
  dropped,                      \* history: those lost to bad_alloc
  rpc, rlist, rindex, rarray,   \* of each reader
  got,                          \* of each reader: what its last read returned
  quiet                         \* history: no append has overlapped its read

listVars   == <<mArray, mSize, mCapacity>>
heapVars   == <<live, cells>>
writerVars == <<mMutex, pc, list, written, destination, accepted, dropped>>
readerVars == <<rpc, rlist, rindex, rarray, got>>
vars == <<listVars, heapVars, writerVars, readerVars, quiet>>

Init ==
  /\ mMutex = NoThread
  /\ mArray = [l \in List |-> nullptr]
  /\ mSize = [l \in List |-> 0] /\ mCapacity = [l \in List |-> 0]
  /\ live = {} /\ cells = [b \in Blocks |-> <<>>]
  /\ pc = [w \in Writers |-> "idle"] /\ list = [w \in Writers |-> "mLogs"]
  /\ written = [w \in Writers |-> 0]
  /\ destination = nullptr
  /\ accepted = [l \in List |-> <<>>] /\ dropped = {}
  /\ rpc = [r \in Readers |-> "idle"] /\ rlist = [r \in Readers |-> "mLogs"]
  /\ rindex = [r \in Readers |-> 0] /\ rarray = [r \in Readers |-> nullptr]
  /\ got = [r \in Readers |-> Empty] /\ quiet = [r \in Readers |-> TRUE]

-----------------------------------------------------------------------------
(* add_log and add_error.                                                   *)

\* w takes one step, from one place of its code to another, and disturbs the
\* readers that are under way.
Move(w, from, to) ==
  /\ pc[w] = from /\ pc' = [pc EXCEPT ![w] = to]
  /\ quiet' = [r \in Readers |-> quiet[r] /\ rpc[r] = "idle"]
  /\ UNCHANGED readerVars

\* The message w is writing.
Current(w) == <<w, written[w]>>

\* add_log or add_error is called.
Write(w) ==
  /\ written[w] < NumWrites
  /\ Move(w, "idle", "lock")
  /\ \E l \in List : list' = [list EXCEPT ![w] = l]
  /\ written' = [written EXCEPT ![w] = @ + 1]
  /\ UNCHANGED <<mMutex, listVars, heapVars, destination, accepted, dropped>>

\* lock_guard lock(mMutex)
Lock(w) ==
  /\ mMutex = NoThread
  /\ Move(w, "lock", "grow")
  /\ mMutex' = w
  /\ UNCHANGED <<listVars, heapVars, list, written, destination, accepted,
                 dropped>>

\* There is room: emplace_back goes straight to the construction.
HasRoom(w) ==
  /\ mSize[list[w]] # mCapacity[list[w]]
  /\ Move(w, "grow", "construct")
  /\ UNCHANGED <<mMutex, listVars, heapVars, list, written, destination,
                 accepted, dropped>>

\* The list is full: alloc_memory(growthFactor(mCapacity)).
Allocate(w) ==
  /\ mSize[list[w]] = mCapacity[list[w]]
  /\ Move(w, "grow", "relocate")
  /\ \E b \in Blocks \ live :
       /\ \A c \in Blocks \ live : b <= c        \* freed memory is used again
       /\ destination' = b /\ live' = live \cup {b}
       /\ cells' = [cells EXCEPT ![b] =
                      [k \in 1 .. growthFactor(mCapacity[list[w]], 1) |-> Raw]]
  /\ UNCHANGED <<mMutex, listVars, list, written, accepted, dropped>>

\* (mutant) the exception leaves without the destructor of the lock_guard.
AllocateFailsLocked(w) ==
  /\ mSize[list[w]] = mCapacity[list[w]]
  /\ Move(w, "grow", "idle")
  /\ dropped' = dropped \cup {Current(w)}
  /\ UNCHANGED <<mMutex, listVars, heapVars, list, written, destination,
                 accepted>>

\* ... which throws bad_alloc: the message is lost.
AllocateFails(w) ==
  /\ mSize[list[w]] = mCapacity[list[w]]
  /\ Move(w, "grow", "unlock")
  /\ dropped' = dropped \cup {Current(w)}
  /\ UNCHANGED <<mMutex, listVars, heapVars, list, written, destination,
                 accepted>>

\* (mutant) the last element is not moved.
InstalledButLast(old, new, n) ==
  [k \in DOMAIN new |-> IF k < n THEN old[k] ELSE new[k]]

\* (mutant) the elements are moved in the opposite order.
InstalledBackwards(old, new, n) ==
  [k \in DOMAIN new |-> IF k <= n THEN old[n + 1 - k] ELSE new[k]]

\* The new cells once the first n objects of the old ones have come to them.
Installed(old, new, n) ==
  [k \in DOMAIN new |-> IF k <= n THEN old[k] ELSE new[k]]

\* uninitialized_move of the old elements.  Destroying the moved-from strings
\* leaves nothing a reader could tell from freed memory.
Relocate(w) ==
  /\ Move(w, "relocate", "release")
  /\ LET n == mSize[list[w]]  b == mArray[list[w]]
     IN cells' = [c \in Blocks |->
                    IF c = destination
                    THEN IF n = 0 THEN cells[c]
                         ELSE Installed(cells[b], cells[c], n)
                    ELSE IF c = b
                    THEN [k \in DOMAIN cells[c] |-> IF k <= n THEN Moved ELSE Raw]
                    ELSE cells[c]]
  /\ UNCHANGED <<mMutex, listVars, live, list, written, destination, accepted,
                 dropped>>

\* destroy_objects and free_memory, which clears mArray.
Release(w) ==
  /\ Move(w, "release", "adopt")
  /\ LET b == mArray[list[w]]
     IN /\ live' = live \ {b}
        /\ cells' = [c \in Blocks |-> IF c = b THEN <<>> ELSE cells[c]]
  /\ mArray' = [mArray EXCEPT ![list[w]] = nullptr]
  /\ UNCHANGED <<mMutex, mSize, mCapacity, list, written, destination,
                 accepted, dropped>>

\* mArray = destination
AdoptArray(w) ==
  /\ Move(w, "adopt", "resize")
  /\ mArray' = [mArray EXCEPT ![list[w]] = destination]
  /\ destination' = nullptr
  /\ UNCHANGED <<mMutex, mSize, mCapacity, heapVars, list, written, accepted,
                 dropped>>

\* mCapacity = newSize; set_capacity's mSize = moveCount changes nothing here.
AdoptCapacity(w) ==
  /\ Move(w, "resize", "construct")
  /\ mCapacity' = [mCapacity EXCEPT ![list[w]] = growthFactor(@, 1)]
  /\ UNCHANGED <<mMutex, mArray, mSize, heapVars, list, written, destination,
                 accepted, dropped>>

\* new(mArray + mSize) std::string(...)
Construct(w) ==
  /\ Move(w, "construct", "count")
  /\ LET l == list[w]
     IN cells' = [cells EXCEPT ![mArray[l]] =
                    [@ EXCEPT ![mSize[l] + 1] = Current(w)]]
  /\ UNCHANGED <<mMutex, listVars, live, list, written, destination, accepted,
                 dropped>>

\* ... which throws bad_alloc when there is no memory for the text: the block may
\* have grown, but mSize does not count what was never built.
ConstructFails(w) ==
  /\ Move(w, "construct", "unlock")
  /\ dropped' = dropped \cup {Current(w)}
  /\ UNCHANGED <<mMutex, listVars, heapVars, list, written, destination,
                 accepted>>

\* ++mSize
Count(w) ==
  /\ Move(w, "count", "unlock")
  /\ mSize' = [mSize EXCEPT ![list[w]] = @ + 1]
  /\ accepted' = [accepted EXCEPT ![list[w]] = Append(@, Current(w))]
  /\ UNCHANGED <<mMutex, mArray, mCapacity, heapVars, list, written,
                 destination, dropped>>

\* The lock_guard goes out of scope, by the return or by the exception.
Unlock(w) ==
  /\ Move(w, "unlock", "idle")
  /\ mMutex' = NoThread
  /\ UNCHANGED <<listVars, heapVars, list, written, destination, accepted,
                 dropped>>

-----------------------------------------------------------------------------
(* last_log and last_error.                                                 *)

ReaderStep == UNCHANGED <<listVars, heapVars, writerVars>>

\* The call is made; isEmpty() reads mSize.
ReadEmpty(r) ==
  /\ rpc[r] = "idle"
  /\ \E l \in List :
       /\ rlist' = [rlist EXCEPT ![r] = l]
       /\ IF mSize[l] = 0
          THEN got' = [got EXCEPT ![r] = Empty] /\ UNCHANGED rpc
          ELSE rpc' = [rpc EXCEPT ![r] = "index"] /\ UNCHANGED got
  /\ quiet' = [quiet EXCEPT ![r] = mMutex = NoThread]
  /\ UNCHANGED <<rindex, rarray>> /\ ReaderStep

\* (mutant) back() is one element short.
ReadIndexShort(r) ==
  /\ rpc[r] = "index"
  /\ rindex' = [rindex EXCEPT ![r] = mSize[rlist[r]] - 1]
  /\ rpc' = [rpc EXCEPT ![r] = "array"]
  /\ UNCHANGED <<rlist, rarray, got, quiet>> /\ ReaderStep

\* back() reads mSize ...
ReadIndex(r) ==
  /\ rpc[r] = "index"
  /\ rindex' = [rindex EXCEPT ![r] = mSize[rlist[r]]]
  /\ rpc' = [rpc EXCEPT ![r] = "array"]
  /\ UNCHANGED <<rlist, rarray, got, quiet>> /\ ReaderStep

\* ... and mArray ...
ReadArray(r) ==
  /\ rpc[r] = "array"
  /\ rarray' = [rarray EXCEPT ![r] = mArray[rlist[r]]]
  /\ rpc' = [rpc EXCEPT ![r] = "copy"]
  /\ UNCHANGED <<rlist, rindex, got, quiet>> /\ ReaderStep

\* What a copy of cell k of block b yields; a moved-from string is empty.
CopyOf(b, k) ==
  IF b \notin live \/ k \notin DOMAIN cells[b] THEN Garbage
  ELSE IF cells[b][k] = Raw THEN Garbage
  ELSE IF cells[b][k] = Moved THEN Empty
  ELSE cells[b][k]

\* ... and the returned string is copied from the element.  The functions are
\* noexcept: a copy for which there is no memory ends the program, and with it
\* every behaviour, here left out.
ReadCopy(r) ==
  /\ rpc[r] = "copy"
  /\ got' = [got EXCEPT ![r] = CopyOf(rarray[r], rindex[r])]
  /\ rpc' = [rpc EXCEPT ![r] = "idle"]
  /\ UNCHANGED <<rlist, rindex, rarray, quiet>> /\ ReaderStep

-----------------------------------------------------------------------------
AppendStep(w) ==
  \/ Lock(w) \/ HasRoom(w) \/ Allocate(w) \/ AllocateFails(w) \/ Relocate(w)
  \/ Release(w) \/ AdoptArray(w) \/ AdoptCapacity(w) \/ Construct(w)
  \/ ConstructFails(w) \/ Count(w) \/ Unlock(w)

Read(r) == ReadEmpty(r) \/ ReadIndex(r) \/ ReadArray(r) \/ ReadCopy(r)

Next ==
  \/ \E w \in Writers : Write(w) \/ AppendStep(w)
  \/ \E r \in Readers : Read(r)

Fairness == \A w \in Writers : WF_vars(AppendStep(w))

Spec == Init /\ [][Next]_vars /\ Fairness

-----------------------------------------------------------------------------
Contents(l) == [k \in 1 .. mSize[l] |-> cells[mArray[l]][k]]

InSection(w) == pc[w] \notin {"idle", "lock"}

Returned == {Empty, Garbage} \cup Message

Typed ==
  /\ mMutex \in Writers \cup {NoThread}
  /\ mArray \in [List -> Blocks \cup {nullptr}]
  /\ mSize \in [List -> Nat] /\ mCapacity \in [List -> Nat]
  /\ live \subseteq Blocks /\ cells \in [Blocks -> Seq(Message \cup {Raw, Moved})]
  /\ pc \in [Writers -> {"idle", "lock", "grow", "relocate", "release",
                         "adopt", "resize", "construct", "count", "unlock"}]
  /\ list \in [Writers -> List] /\ written \in [Writers -> 0 .. NumWrites]
  /\ destination \in Blocks \cup {nullptr}
  /\ accepted \in [List -> Seq(Message)] /\ dropped \subseteq Message
  /\ rpc \in [Readers -> {"idle", "index", "array", "copy"}]
  /\ rlist \in [Readers -> List] /\ rindex \in [Readers -> Nat]
  /\ rarray \in [Readers -> Blocks \cup {nullptr}]
  /\ got \in [Readers -> Returned] /\ quiet \in [Readers -> BOOLEAN]

\* Every variable has its type, and each list its bound: what it holds fits in what
\* was allocated for it, also between the writes of an append that reallocates, and
\* from the first message on, when there is no capacity for a half to be taken of.
TypeOK == Typed /\ \A l \in List : mSize[l] <= mCapacity[l]

\* Only the thread that holds mMutex is inside an append, even after one that
\* threw bad_alloc.
MutualExclusion == \A w \in Writers : InSection(w) <=> mMutex = w

\* Whenever the mutex is free each list holds exactly the messages appended to
\* it, in the order of the appends: no reallocation, and no allocation that
\* failed, loses, repeats or reorders one.
NothingLost == mMutex = NoThread => \A l \in List : Contents(l) = accepted[l]

\* The places of w's messages in list l, and the numbers of these messages.
Mine(l, w) == {k \in 1 .. mSize[l] : Contents(l)[k][1] = w}
Numbers(l, w) == {Contents(l)[k][2] : k \in Mine(l, w)}

\* A writer finds its messages in the order it gave them, each in one list
\* only, and all of them except those an allocation failed for.
WriterOrder ==
  mMutex = NoThread =>
    \A w \in Writers :
      LET given == {n \in 1 .. written[w] : <<w, n>> \notin dropped}
      IN /\ \A l \in List : \A i, j \in Mine(l, w) :
               i < j => Contents(l)[i][2] < Contents(l)[j][2]
         /\ Numbers("mLogs", w) \cap Numbers("mErrors", w) = {}
         /\ Numbers("mLogs", w) \cup Numbers("mErrors", w)
              = given \ IF pc[w] = "lock" THEN {written[w]} ELSE {}

\* last_log or last_error returns to r.
Finishes(r) == ReadCopy(r) \/ (ReadEmpty(r) /\ rpc'[r] = "idle")

LastOf(l) ==
  IF accepted[l] = <<>> THEN Empty ELSE accepted[l][Len(accepted[l])]

\* "returns last log or empty if none exist": so does a read that no append
\* overlaps, whatever reallocations came before it.
QuietReadIsLast ==
  [][\A r \in Readers :
       Finishes(r) /\ quiet'[r] => got'[r] = LastOf(rlist'[r])]_vars

\* The same comment, of every read: it returns a message of the list, or empty
\* if the list is empty.
EveryReadIsALog ==
  [][\A r \in Readers :
       Finishes(r) =>
         LET seen == accepted[rlist'[r]]
         IN IF got'[r] = Empty THEN seen = <<>>
            ELSE \E k \in DOMAIN seen : got'[r] = seen[k]]_vars

\* Every add_log and add_error returns: the lock_guard lets the mutex go also
\* when the allocation throws.
EveryWriteReturns == \A w \in Writers : pc[w] = "lock" ~> pc[w] = "idle"

=============================================================================
