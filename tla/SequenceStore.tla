---------------------------- MODULE SequenceStore ----------------------------
(***************************************************************************)
(* badSQL::Sequence<T> (Sequence.h): a growable array that separates the   *)
(* allocation of memory from the lifetime of the objects in it.            *)
(*                                                                         *)
(* The heap is a set of live blocks of cells; a cell is raw memory, an     *)
(* object that has been moved from, or an object with a value.  Every      *)
(* member function is a short program of the private steps it calls, run   *)
(* one element at a time, so that a bad_alloc can interrupt it anywhere it *)
(* may.  "t" is the unnamed Sequence that the assignment operators build   *)
(* and swap with.  An index is zero-based, as in the code; cell k of a     *)
(* block is its k-th from 1.                                               *)
(*                                                                         *)
(* Copying an element is taken not to throw here: a copy constructor that  *)
(* throws reaches destroy_objects(destination, nullptr), which has no      *)
(* defined behaviour.                                                      *)
(***************************************************************************)
EXTENDS SequenceMath, Sequences, FiniteSets

CONSTANTS Objects,        \* the named Sequence objects of the user
          Values,         \* what an element may hold
          MaxSize,        \* bound: elements a user puts in one object
          MaxAdditive,    \* bound: values given to set_additive
          Blocks,         \* addresses operator new may return
          OwnAtCapacity,  \* may push_back(s[k]) be called on a full Sequence?
          Raw, Moved      \* a cell without an object; a moved-from object

ASSUME CellAssumption == {Raw, Moved} \cap Values = {} /\ Raw # Moved
ASSUME BoundAssumption ==
  MaxSize \in Nat /\ MaxAdditive \in Nat \ {0} /\ OwnAtCapacity \in BOOLEAN
ASSUME BlockAssumption == Blocks \subseteq Nat \ {0}
ASSUME TempAssumption == "t" \notin Objects

Owner == Objects \cup {"t"}
Cell == Values \cup {Raw, Moved}
nullptr == 0
NoCall == [op |-> "none"]

VARIABLES
  mArray, mSize, mCapacity, mAdditive,     \* of each Sequence
  live,                                    \* blocks that are allocated
  cells,                                   \* the cells of each block
  destination,                             \* the block reConstructAllocate
  built,                                   \*   is filling, and how far it is
  call, todo,                              \* the member function running and
                                           \*   the steps it still has to take
  threw,                                   \* it has thrown bad_alloc
  shown,                                   \* history: the lists at its start
  wild                                     \* history: undefined behaviour

objVars  == <<mArray, mSize, mCapacity>>
heapVars == <<live, cells>>
ctorVars == <<destination, built>>
vars == <<objVars, mAdditive, heapVars, ctorVars, call, todo, threw, shown,
          wild>>

Lists(n) == UNION {[1 .. k -> Values] : k \in 0 .. n}

\* The elements of o as begin() and end() delimit them.
Elements(o) ==
  [k \in 1 .. mSize[o] |-> cells[mArray[o]][k]]

Init ==
  /\ mArray = [o \in Owner |-> nullptr]
  /\ mSize = [o \in Owner |-> 0] /\ mCapacity = [o \in Owner |-> 0]
  /\ mAdditive = [o \in Owner |-> 1]
  /\ live = {} /\ cells = [b \in Blocks |-> <<>>]
  /\ destination = nullptr /\ built = 0
  /\ call = NoCall /\ todo = <<>> /\ threw = FALSE
  /\ shown = [o \in Objects |-> <<>>]
  /\ wild = FALSE

-----------------------------------------------------------------------------
(* Calls.  A call names its member function and arguments; the program it   *)
(* starts is what the body of that function does.                           *)

\* An argument of type const T&: a value of the caller's own, or the address
\* of an element of the Sequence itself.
NoRef == <<nullptr, 0>>
OwnValue(v) == [val |-> v, ref |-> NoRef]
ElementOf(o, k) == [val |-> cells[mArray[o]][k], ref |-> <<mArray[o], k>>]

Argument(o, reallocates) ==
  {OwnValue(v) : v \in Values}
  \cup IF reallocates /\ ~OwnAtCapacity THEN {}
       ELSE {ElementOf(o, k) : k \in 1 .. mSize[o]}

\* Where the objects built in a new block come from.
FromOwn == [kind |-> "move"]
FromCopyOf(p) == [kind |-> "copy", p |-> p]
FromList(s) == [kind |-> "list", s |-> s]

\* reConstructAllocate(n, constructor), where the constructor builds count
\* objects of o; the caller then sets mSize = count.
reConstructAllocate(o, n, src, count) ==
  << [do |-> "allocate", n |-> n],
     [do |-> "construct", o |-> o, src |-> src, count |-> count],
     [do |-> "adopt", o |-> o, n |-> n, count |-> count] >>

\* set_capacity(n) on o.
setCapacity(o, n) ==
  reConstructAllocate(o, n, FromOwn, core_min(mSize[o], n))

\* emplace_back: grow if full, then construct in place.
emplaceBack(o, arg) ==
  << [do |-> "grow", o |-> o], [do |-> "place", o |-> o, arg |-> arg] >>

\* emplace_back in a loop, once for each of args.
emplaceAll(o, args) == << [do |-> "append", o |-> o, args |-> args] >>

\* The objects behind mSize are destroyed and mSize is reduced by n.
truncate(o, n) == << [do |-> "truncate", o |-> o, n |-> n] >>

\* (mutant) the range of erase is taken to be closed.
eraseRangeClosed(o, first, last) ==
  IF first = last THEN <<>>
  ELSE << [do |-> "shift", o |-> o, to |-> first, from |-> last] >>
       \o truncate(o, last - first - 1)

\* erase(first, last) of o.
eraseRange(o, first, last) ==
  IF first = last THEN <<>>
  ELSE << [do |-> "shift", o |-> o, to |-> first, from |-> last] >>
       \o truncate(o, last - first)

\* (mutant) the loop starts at end() and not at the last element.
swapEraseFromEnd(o, first, last) ==
  IF first = last THEN <<>>
  ELSE << [do |-> "refill", o |-> o, to |-> first, from |-> mSize[o],
           left |-> last - first] >>
       \o truncate(o, last - first)

\* swap_with_last_erase(first, last) of o.
swapErase(o, first, last) ==
  IF first = last THEN <<>>
  ELSE << [do |-> "refill", o |-> o, to |-> first, from |-> mSize[o] - 1,
           left |-> last - first] >>
       \o truncate(o, last - first)

\* (mutant) the temporary is not destroyed.
viaTemporaryLeaked(o, construction) ==
  construction \o << [do |-> "swap", o |-> o, p |-> "t"] >>

\* The Sequence "t" is built from src, swapped with o, and destroyed.
viaTemporary(o, construction) ==
  construction \o << [do |-> "swap", o |-> o, p |-> "t"],
                     [do |-> "destroy", o |-> "t"] >>

\* A constructor of "t" from n elements; none of them allocates for n = 0.
constructTemporary(src, n) ==
  IF n = 0 THEN <<>> ELSE reConstructAllocate("t", n, src, n)

Begin(c, program) ==
  /\ call = NoCall
  /\ call' = c /\ todo' = program
  /\ UNCHANGED <<objVars, mAdditive, heapVars, ctorVars, threw, shown, wild>>

push_back(o) ==
  /\ mSize[o] < MaxSize
  /\ \E a \in Argument(o, mSize[o] = mCapacity[o]) :
       Begin([op |-> "push_back", o |-> o, arg |-> a], emplaceBack(o, a))

insert_back(o) ==
  \E s \in Lists(MaxSize - mSize[o]) :
    Begin([op |-> "insert_back", o |-> o, list |-> s],
          emplaceAll(o, [k \in DOMAIN s |-> OwnValue(s[k])]))

pop_back(o) ==
  /\ mSize[o] > 0
  /\ Begin([op |-> "pop_back", o |-> o],
           eraseRange(o, mSize[o] - 1, mSize[o]))

erase(o) ==
  /\ mSize[o] > 0
  /\ \E first, last \in 0 .. mSize[o] :
       /\ first <= last
       /\ Begin([op |-> "erase", o |-> o, first |-> first, last |-> last],
                eraseRange(o, first, last))

swap_with_last_erase(o) ==
  /\ mSize[o] > 0
  /\ \E first, last \in 0 .. mSize[o] :
       /\ first <= last
       /\ Begin([op |-> "swap_with_last_erase", o |-> o, first |-> first,
                 last |-> last], swapErase(o, first, last))

set_capacity(o) ==
  \E n \in 0 .. MaxSize :
    Begin([op |-> "set_capacity", o |-> o, n |-> n], setCapacity(o, n))

shrink_to_fit(o) ==
  Begin([op |-> "shrink_to_fit", o |-> o], setCapacity(o, mSize[o]))

resize(o) ==
  \E n \in 0 .. MaxSize : \E a \in Argument(o, n > mCapacity[o]) :
    Begin([op |-> "resize", o |-> o, n |-> n, arg |-> a],
          IF n < mSize[o] THEN eraseRange(o, n, mSize[o])
          ELSE (IF n > mCapacity[o] THEN setCapacity(o, n) ELSE <<>>)
               \o emplaceAll(o, [k \in 1 .. n - mSize[o] |-> a]))

clear(o) == Begin([op |-> "clear", o |-> o], truncate(o, mSize[o]))

wipe(o) ==
  Begin([op |-> "wipe", o |-> o],
        IF mArray[o] = nullptr \/ mCapacity[o] = 0 THEN <<>>
        ELSE << [do |-> "destroy", o |-> o] >>)

swap(o, p) ==
  Begin([op |-> "swap", o |-> o, from |-> p],
        << [do |-> "swap", o |-> o, p |-> p] >>)

\* o = p
copy_assign(o, p) ==
  Begin([op |-> "copy_assign", o |-> o, from |-> p],
        viaTemporary(o, constructTemporary(FromCopyOf(p), mSize[p])))

\* o = std::move(p)
move_assign(o, p) ==
  Begin([op |-> "move_assign", o |-> o, from |-> p],
        viaTemporary(o, << [do |-> "take", o |-> "t", p |-> p] >>))

\* o = {...}, or a Sequence made by one of the counting constructors.
assign_list(o) ==
  \E s \in Lists(MaxSize) :
    Begin([op |-> "assign_list", o |-> o, list |-> s],
          viaTemporary(o, constructTemporary(FromList(s), Len(s))))

set_additive(o) ==
  /\ call = NoCall
  /\ \E k \in 1 .. MaxAdditive : mAdditive' = [mAdditive EXCEPT ![o] = k]
  /\ UNCHANGED <<objVars, heapVars, ctorVars, call, todo, threw, shown, wild>>

-----------------------------------------------------------------------------
(* The steps.  Anything the C++ leaves undefined - using raw memory as an   *)
(* object, building an object on top of another, reading through a freed    *)
(* block - only raises wild.                                                *)

step == Head(todo)
Doing(name) == todo # <<>> /\ step.do = name

\* The program goes on with more in the place of the step at hand.
GoOn(more) == todo' = more \o Tail(todo)

Defined(ok) == wild' = (wild \/ ~ok)

\* Cell k of block b, as far as there is one.
At(b, k) == IF b \in live /\ k \in DOMAIN cells[b] THEN cells[b][k] ELSE Raw

\* The objects of b from cell i to cell j are there, and what is left of b
\* when they have been destroyed.
AllBuilt(b, i, j) == \A k \in i .. j : At(b, k) # Raw
Destroyed(b, i, j) ==
  [k \in DOMAIN cells[b] |-> IF k \in i .. j THEN Raw ELSE cells[b][k]]

\* (mutant) the block is not given back.
freeMemoryForgotten(b) == live

\* free_memory(b): what is left of the live blocks.
freeMemory(b) == live \ {b}

allocate ==
  /\ Doing("allocate")
  /\ \/ \E b \in Blocks \ live :
          /\ \A c \in Blocks \ live : b <= c
          /\ live' = live \cup {b}
          /\ cells' = [cells EXCEPT ![b] = [k \in 1 .. step.n |-> Raw]]
          /\ destination' = b /\ built' = 0
          /\ GoOn(<<>>)
          /\ UNCHANGED threw
     \/ /\ threw' = TRUE /\ todo' = <<>>
        /\ UNCHANGED <<heapVars, ctorVars>>
  /\ UNCHANGED <<objVars, mAdditive, call, shown, wild>>

\* uninitialized_move, uninitialized_copy or uninitialized_fill_n: one object,
\* or the end of its loop.
construct ==
  /\ Doing("construct")
  /\ IF built = step.count
     THEN GoOn(<<>>) /\ UNCHANGED <<heapVars, ctorVars, wild>>
     ELSE LET i == built + 1
              src == step.src
              from == IF src.kind = "copy" THEN mArray[src.p] ELSE mArray[step.o]
              v == IF src.kind = "list" THEN src.s[i] ELSE At(from, i)
              new == [cells EXCEPT ![destination] =
                        [k \in DOMAIN @ |-> IF k = i THEN v ELSE @[k]]]
          IN /\ cells' = IF src.kind # "move" \/ At(from, i) = Raw THEN new
                         ELSE [new EXCEPT ![from][i] = Moved]
             /\ Defined(i \in DOMAIN cells[destination] /\ v # Raw)
             /\ built' = i
             /\ UNCHANGED <<live, destination, todo>>
  /\ UNCHANGED <<objVars, mAdditive, call, threw, shown>>

\* The end of reConstructAllocate: the old objects and their block go, the new
\* block takes their place.
adopt ==
  /\ Doing("adopt")
  /\ LET o == step.o  old == mArray[o]
     IN /\ IF old = nullptr THEN UNCHANGED <<heapVars, wild>>
           ELSE /\ Defined(AllBuilt(old, 1, mSize[o]))
                /\ live' = freeMemory(old)
                /\ cells' = [cells EXCEPT ![old] = <<>>]
        /\ mArray' = [mArray EXCEPT ![o] = destination]
        /\ mCapacity' = [mCapacity EXCEPT ![o] = step.n]
        /\ mSize' = [mSize EXCEPT ![o] = step.count]
  /\ destination' = nullptr /\ built' = 0
  /\ GoOn(<<>>)
  /\ UNCHANGED <<mAdditive, call, threw, shown>>

\* "if at capacity, reallocate with extra memory"
grow ==
  /\ Doing("grow")
  /\ LET o == step.o
     IN GoOn(IF mSize[o] = mCapacity[o]
             THEN setCapacity(o, growthFactor(mCapacity[o], mAdditive[o]))
             ELSE <<>>)
  /\ UNCHANGED <<objVars, mAdditive, heapVars, ctorVars, call, threw, shown,
                 wild>>

\* new(mArray + mSize) value_type(arg); ++mSize
place ==
  /\ Doing("place")
  /\ LET o == step.o  b == mArray[o]  i == mSize[o] + 1  ref == step.arg.ref
         v == IF ref = NoRef THEN step.arg.val ELSE At(ref[1], ref[2])
     IN /\ Defined(/\ i \in 1 .. mCapacity[o] /\ At(b, i) = Raw
                   /\ v \notin {Raw, Moved})
        /\ cells' = [cells EXCEPT ![b] =
                       [k \in DOMAIN @ |-> IF k = i THEN v ELSE @[k]]]
        /\ mSize' = [mSize EXCEPT ![o] = i]
  /\ GoOn(<<>>)
  /\ UNCHANGED <<mArray, mCapacity, mAdditive, live, ctorVars, call, threw,
                 shown>>

append ==
  /\ Doing("append")
  /\ LET args == step.args
     IN GoOn(IF args = <<>> THEN <<>>
             ELSE emplaceBack(step.o, Head(args))
                  \o emplaceAll(step.o, Tail(args)))
  /\ UNCHANGED <<objVars, mAdditive, heapVars, ctorVars, call, threw, shown,
                 wild>>

\* *(mArray + i) = std::move(*(mArray + j))
MoveElement(o, i, j) ==
  LET b == mArray[o]
  IN /\ Defined(At(b, i + 1) # Raw /\ At(b, j + 1) # Raw)
     /\ cells' = [cells EXCEPT ![b] =
                    [k \in DOMAIN @ |-> IF k = j + 1 THEN Moved
                                        ELSE IF k = i + 1 THEN At(b, j + 1)
                                        ELSE @[k]]]

\* (mutant) the loop of erase does not move on.
nextShiftStuck(m) == m

\* ++targetBegin, ++targetEnd
nextShift(m) == [m EXCEPT !.to = @ + 1, !.from = @ + 1]

\* One turn of the loop of erase, or its end.
shift ==
  /\ Doing("shift")
  /\ IF step.from = mSize[step.o]
     THEN GoOn(<<>>) /\ UNCHANGED <<cells, wild>>
     ELSE /\ MoveElement(step.o, step.to, step.from)
          /\ GoOn(<< nextShift(step) >>)
  /\ UNCHANGED <<objVars, mAdditive, live, ctorVars, call, threw, shown>>

\* One turn of the loop of swap_with_last_erase, or its end.
refill ==
  /\ Doing("refill")
  /\ IF step.left = 0
     THEN GoOn(<<>>) /\ UNCHANGED <<cells, wild>>
     ELSE /\ MoveElement(step.o, step.to, step.from)
          /\ GoOn(<< [step EXCEPT !.to = @ + 1, !.from = @ - 1,
                                  !.left = @ - 1] >>)
  /\ UNCHANGED <<objVars, mAdditive, live, ctorVars, call, threw, shown>>

truncateStep ==
  /\ Doing("truncate")
  /\ LET o == step.o  b == mArray[o]  left == mSize[o] - step.n
     IN /\ Defined(AllBuilt(b, left + 1, mSize[o]))
        /\ cells' = IF b = nullptr THEN cells
                    ELSE [cells EXCEPT ![b] = Destroyed(b, left + 1, mSize[o])]
        /\ mSize' = [mSize EXCEPT ![o] = left]
  /\ GoOn(<<>>)
  /\ UNCHANGED <<mArray, mCapacity, mAdditive, live, ctorVars, call, threw,
                 shown>>

swapStep ==
  /\ Doing("swap")
  /\ LET o == step.o  p == step.p
         Exchange(f) == [f EXCEPT ![o] = f[p], ![p] = f[o]]
     IN /\ mArray' = Exchange(mArray) /\ mSize' = Exchange(mSize)
        /\ mCapacity' = Exchange(mCapacity)
        /\ mAdditive' = Exchange(mAdditive)
  /\ GoOn(<<>>)
  /\ UNCHANGED <<heapVars, ctorVars, call, threw, shown, wild>>

\* The move constructor of o, from p.
take ==
  /\ Doing("take")
  /\ LET o == step.o  p == step.p
     IN /\ mArray' = [mArray EXCEPT ![o] = mArray[p], ![p] = nullptr]
        /\ mSize' = [mSize EXCEPT ![o] = mSize[p], ![p] = 0]
        /\ mCapacity' = [mCapacity EXCEPT ![o] = mCapacity[p], ![p] = 0]
        /\ mAdditive' = [mAdditive EXCEPT ![o] = mAdditive[p], ![p] = 1]
  /\ GoOn(<<>>)
  /\ UNCHANGED <<heapVars, ctorVars, call, threw, shown, wild>>

\* The destructor of "t", or the body of wipe: objects, block and pointer go.
\* "t" is gone for good: the next one is born with an additive of 1.
destroy ==
  /\ Doing("destroy")
  /\ LET o == step.o  b == mArray[o]
     IN /\ IF b = nullptr THEN UNCHANGED <<objVars, heapVars, wild>>
           ELSE /\ Defined(AllBuilt(b, 1, mSize[o]))
                /\ live' = freeMemory(b) /\ cells' = [cells EXCEPT ![b] = <<>>]
                /\ mArray' = [mArray EXCEPT ![o] = nullptr]
                /\ mSize' = [mSize EXCEPT ![o] = 0]
                /\ mCapacity' = [mCapacity EXCEPT ![o] = 0]
        /\ mAdditive' = IF o = "t" THEN [mAdditive EXCEPT ![o] = 1]
                        ELSE mAdditive
  /\ GoOn(<<>>)
  /\ UNCHANGED <<ctorVars, call, threw, shown>>

\* The member function returns, or its exception reaches the caller.
Return ==
  /\ call # NoCall /\ todo = <<>>
  /\ call' = NoCall /\ threw' = FALSE
  /\ shown' = [o \in Objects |-> Elements(o)]
  /\ UNCHANGED <<objVars, mAdditive, heapVars, ctorVars, todo, wild>>

-----------------------------------------------------------------------------
Call(o) ==
  \/ push_back(o) \/ insert_back(o) \/ pop_back(o) \/ erase(o)
  \/ swap_with_last_erase(o) \/ set_capacity(o) \/ shrink_to_fit(o)
  \/ resize(o) \/ clear(o) \/ wipe(o) \/ assign_list(o) \/ set_additive(o)
  \/ \E p \in Objects : swap(o, p) \/ copy_assign(o, p) \/ move_assign(o, p)

Step ==
  \/ allocate \/ construct \/ adopt \/ grow \/ place \/ append \/ shift
  \/ refill \/ truncateStep \/ swapStep \/ take \/ destroy \/ Return

Next == Step \/ \E o \in Objects : Call(o)

Spec == Init /\ [][Next]_vars

-----------------------------------------------------------------------------
\* The variables have the types of the members; elements that a user can see
\* are values.
TypeOK ==
  /\ mArray \in [Owner -> Blocks \cup {nullptr}]
  /\ mSize \in [Owner -> Nat] /\ mCapacity \in [Owner -> Nat]
  /\ mAdditive \in [Owner -> Nat \ {0}]
  /\ live \subseteq Blocks /\ cells \in [Blocks -> Seq(Cell)]
  /\ destination \in Blocks \cup {nullptr} /\ built \in Nat
  /\ threw \in BOOLEAN /\ wild \in BOOLEAN
  /\ shown \in [Objects -> Seq(Values)]

\* Every live block has exactly one owner - a Sequence, or the
\* reConstructAllocate that is filling it - so that no block leaks and none is
\* freed twice, whatever is copied, moved, swapped or interrupted.
OneOwnerEach ==
  /\ live = ({mArray[o] : o \in Owner} \cup {destination}) \ {nullptr}
  /\ \A o, p \in Owner : mArray[o] = mArray[p] /\ o # p => mArray[o] = nullptr
  /\ destination # nullptr => \A o \in Owner : mArray[o] # destination

\* mCapacity is the size of the block, and mSize fits in it.
FitsInBlock ==
  \A o \in Owner :
    /\ mSize[o] <= mCapacity[o]
    /\ IF mArray[o] = nullptr THEN mCapacity[o] = 0
       ELSE Len(cells[mArray[o]]) = mCapacity[o]

\* Between calls the first mSize cells of a block hold objects and the rest
\* are raw: no element is destroyed twice, leaked or built over, even when an
\* allocation failed half way.  And no Sequence but the user's is left.
LifetimesMatchSize ==
  call = NoCall =>
    /\ mArray["t"] = nullptr
    /\ \A o \in Objects : mArray[o] # nullptr =>
         \A k \in 1 .. mCapacity[o] :
           cells[mArray[o]][k] # Raw <=> k <= mSize[o]

\* No step is undefined in C++.
NoUndefinedBehaviour == ~wild

\* push_back(const T&) "copies elements": what it appends is the value its
\* argument had, whichever object the reference led to.
CopiesElements ==
  call # NoCall =>
    (call.op = "push_back" /\ todo = <<>> /\ ~threw =>
       Elements(call.o)[mSize[call.o]] = call.arg.val)

\* The memory, the moves and the temporaries implement lists.
List == INSTANCE SequenceList WITH content <- shown

ImplementsList == List!Spec

=============================================================================
