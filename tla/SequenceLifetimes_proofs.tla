----------------------- MODULE SequenceLifetimes_proofs -----------------------
(***************************************************************************)
(* Theorems about the cells of SequenceStore, for any Sequences, values,   *)
(* sizes and blocks: what is an object, what is raw memory, and that no    *)
(* step uses the one as the other.  They hold of callers that do not push  *)
(* an element of a full Sequence onto that Sequence.                       *)
(***************************************************************************)
EXTENDS SequenceStore_proofs

-----------------------------------------------------------------------------
(* The invariant.  Every block is at all times built up to the size of its  *)
(* owner; what the loops leave moved-from, and what will become of it, is   *)
(* told by the program that is still to run.                                *)

\* The types of the members and of the cells.
CellTypes ==
  /\ mSize \in [Owner -> Nat] /\ mCapacity \in [Owner -> Nat]
  /\ mAdditive \in [Owner -> Nat \ {0}]
  /\ cells \in [Blocks -> Seq(Cell)] /\ built \in Nat
  /\ threw \in BOOLEAN /\ shown \in [Objects -> Seq(Values)]

\* The first n cells of block b are objects and the others are raw.
BuiltUpTo(b, n) == \A k \in 1 .. Len(cells[b]) : cells[b][k] # Raw <=> k <= n

\* Cells i to j of block b have values.
Valued(b, i, j) == \A k \in i .. j : cells[b][k] \in Values

\* The block of o has its capacity, and is built up to its size.
Stored(o) ==
  /\ mSize[o] <= mCapacity[o]
  /\ mArray[o] = nullptr => mCapacity[o] = 0
  /\ mArray[o] # nullptr => Len(cells[mArray[o]]) = mCapacity[o] /\ BuiltUpTo(mArray[o], mSize[o])

\* No element of o is moved from.
Whole(o) == mArray[o] # nullptr => Valued(mArray[o], 1, mSize[o])

\* The step at hand is taking the elements of o apart.
Disturbed(o) ==
  /\ todo # <<>> /\ step.do \in {"construct", "adopt", "shift", "refill", "truncate"}
  /\ step.o = o

\* The argument of an append: a value of the caller's, or an element of o.
FreshArg(a) == a.ref = NoRef /\ a.val \in Values
OldArg(o, a) == a.ref[1] = mArray[o] /\ a.ref[2] \in 1 .. mSize[o]

\* At most one append is left for o.  What it is given outlives a reallocation,
\* or there is room for all of it, behind extra elements.
Appends(o, p, extra) ==
  p # <<>> =>
    LET s == Head(p)
    IN /\ s.do = "append" /\ s.o = o /\ o \in Objects /\ Tail(p) = <<>> /\ IsSequence(s.args)
       /\ \A k \in 1 .. Len(s.args) :
            \/ FreshArg(s.args[k])
            \/ OldArg(o, s.args[k]) /\ mSize[o] + extra + Len(s.args) <= mCapacity[o]
AppendsFresh(o, p) ==
  p # <<>> =>
    LET s == Head(p)
    IN /\ s.do = "append" /\ s.o = o /\ Tail(p) = <<>> /\ IsSequence(s.args)
       /\ \A k \in 1 .. Len(s.args) : FreshArg(s.args[k])

\* "t" is destroyed, after it has been swapped with an object.
Destroys(p) == Head(p).do = "destroy" /\ Head(p).o = "t" /\ Tail(p) = <<>>
Swaps(p) == Head(p).do = "swap" /\ Head(p).o \in Objects /\ Head(p).p = "t" /\ Destroys(Tail(p))

\* What follows when o has a new block of n cells, with count objects.
Follows(o, p, count, n) ==
  IF o = "t" THEN Swaps(p)
  ELSE \/ AppendsFresh(o, p)
       \/ /\ Head(p).do = "place" /\ Head(p).o = o /\ FreshArg(Head(p).arg) /\ count < n
          /\ AppendsFresh(o, Tail(p))

\* A construction takes its objects from where they are.
SourceOk(s) ==
  \/ s.src.kind = "move" /\ s.o \in Objects /\ s.count <= mSize[s.o]
  \/ s.src.kind = "copy" /\ s.o = "t" /\ s.src.p \in Objects /\ s.count = mSize[s.src.p]
  \/ s.src.kind = "list" /\ s.o = "t" /\ s.src.s \in Seq(Values) /\ s.count = Len(s.src.s)

\* The end of a reConstructAllocate, and its construction.
Adopts(p) ==
  LET d == Head(p)
  IN /\ p # <<>> /\ d.do = "adopt" /\ d.o \in Owner /\ d.n \in Nat /\ d.count \in 0 .. d.n
     /\ Follows(d.o, Tail(p), d.count, d.n)
Constructs(p) ==
  LET c == Head(p)  d == Head(Tail(p))
  IN /\ c.do = "construct" /\ SourceOk(c) /\ Adopts(Tail(p)) /\ d.o = c.o /\ d.count = c.count

\* The block that is being filled has n cells, of which the first k have values.
Filling(n, k) ==
  /\ destination # nullptr /\ Len(cells[destination]) = n
  /\ BuiltUpTo(destination, k) /\ Valued(destination, 1, k)

Allocating(p) ==
  /\ Head(p).do = "allocate" /\ Head(p).n = Head(Tail(Tail(p))).n /\ Constructs(Tail(p))
Constructing(p) ==
  /\ Constructs(p) /\ built <= Head(p).count /\ Filling(Head(Tail(p)).n, built)
  /\ Head(p).src.kind = "move" =>
       LET b == mArray[Head(p).o] IN b # nullptr => Valued(b, built + 1, mSize[Head(p).o])
Adopting(p) == Adopts(p) /\ Filling(Head(p).n, Head(p).count)

\* There is room for the element that place will build.
Places(o, p) ==
  /\ Head(p).do = "place" /\ Head(p).o = o /\ o \in Objects
  /\ \/ FreshArg(Head(p).arg)
     \/ OldArg(o, Head(p).arg) /\ mSize[o] < mCapacity[o]
  /\ Appends(o, Tail(p), 1)
Growing(p) == Head(p).do = "grow" /\ Places(Head(p).o, Tail(p))
Placing(p) == Places(Head(p).o, p) /\ mSize[Head(p).o] < mCapacity[Head(p).o]
Appending(p) == Head(p).do = "append" /\ Appends(Head(p).o, p, 0)

\* n objects at the end of o are destroyed; those before them have values.
Truncates(o, p, n) ==
  p # <<>> /\ Head(p).do = "truncate" /\ Head(p).o = o /\ Head(p).n = n /\ Tail(p) = <<>>
Truncating(p) ==
  LET o == Head(p).o  n == Head(p).n
  IN /\ Truncates(o, p, n) /\ o \in Objects /\ n \in 0 .. mSize[o]
     /\ mArray[o] # nullptr => Valued(mArray[o], 1, mSize[o] - n)

\* erase: only the cells from its target to its source may be moved from.
Shifting(p) ==
  LET o == Head(p).o  t == Head(p).to  f == Head(p).from
  IN /\ Head(p).do = "shift" /\ Head(p) = [do |-> "shift", o |-> o, to |-> t, from |-> f]
     /\ o \in Objects /\ t \in Nat /\ f \in Nat /\ t < f /\ f <= mSize[o]
     /\ Truncates(o, Tail(p), f - t)
     /\ Valued(mArray[o], 1, t) /\ Valued(mArray[o], f + 1, mSize[o])

\* swap_with_last_erase: the cells from its target to its source have values, and
\* so have those before its target, the last n apart.
Refilling(p) ==
  LET o == Head(p).o  t == Head(p).to  f == Head(p).from  left == Head(p).left
      n == Head(Tail(p)).n
  IN /\ Head(p).do = "refill"
     /\ Head(p) = [do |-> "refill", o |-> o, to |-> t, from |-> f, left |-> left]
     /\ o \in Objects /\ t \in Nat /\ left \in Nat /\ n \in 1 .. mSize[o] /\ left <= n
     /\ f = (mSize[o] - 1) - (n - left) /\ t + left <= mSize[o]
     /\ Truncates(o, Tail(p), n)
     /\ Valued(mArray[o], t + 1, f + 1)
     /\ \A k \in 1 .. t : k <= mSize[o] - n => cells[mArray[o]][k] \in Values

\* A swap, a move into "t", or the end of a Sequence.
Swapping(p) ==
  \/ Swaps(p)
  \/ Head(p).do = "swap" /\ Head(p).o \in Objects /\ Head(p).p \in Objects /\ Tail(p) = <<>>
Taking(p) == Head(p).do = "take" /\ Head(p).o = "t" /\ Head(p).p \in Objects /\ Swaps(Tail(p))
Destroying(p) == Head(p).do = "destroy" /\ Head(p).o \in Owner /\ Tail(p) = <<>>

Running(p) ==
  \/ Allocating(p) \/ Constructing(p) \/ Adopting(p) \/ Growing(p) \/ Placing(p) \/ Appending(p)
  \/ Truncating(p) \/ Shifting(p) \/ Refilling(p) \/ Swapping(p) \/ Taking(p) \/ Destroying(p)

CellInv ==
  /\ Inv /\ CellTypes /\ ~wild
  /\ \A o \in Owner : Stored(o) /\ (Disturbed(o) \/ Whole(o))
  /\ todo # <<>> => Running(todo)

-----------------------------------------------------------------------------
(* Blocks and cells.                                                        *)

LEMMA CellKinds == Raw \notin Values /\ Moved \notin Values /\ Raw # Moved /\ Values \subseteq Cell
                   /\ Raw \in Cell /\ Moved \in Cell
  BY CellAssumption DEF Cell

\* A block is its owner's alone.
LEMMA OwnBlock ==
  ASSUME Inv, NEW o \in Owner, mArray[o] # nullptr
  PROVE  /\ mArray[o] \in live /\ mArray[o] \in Blocks /\ mArray[o] # destination
         /\ \A q \in Owner : q # o => mArray[q] # mArray[o]
  BY DEF Inv, Typed, OneOwnerEach

\* What is left alone keeps its elements.
LEMMA Kept ==
  ASSUME NEW o \in Owner, mArray'[o] = mArray[o], mSize'[o] = mSize[o], mCapacity'[o] = mCapacity[o],
         mArray[o] # nullptr => cells'[mArray[o]] = cells[mArray[o]]
  PROVE  (Stored(o) => Stored(o)') /\ (Whole(o) => Whole(o)')
  BY DEF Stored, Whole, BuiltUpTo, Valued

\* A block whose cells are written is a block of as many cells.
LEMMA Rewritten ==
  ASSUME NEW f \in Seq(Cell), NEW g, DOMAIN g = DOMAIN f, g = [k \in DOMAIN g |-> g[k]],
         \A k \in 1 .. Len(f) : g[k] \in Cell
  PROVE  g \in Seq(Cell) /\ Len(g) = Len(f)
  <1>1. DOMAIN f = 1 .. Len(f) /\ Len(f) \in Nat
    OBVIOUS
  <1>2. g \in [1 .. Len(f) -> Cell]
    BY <1>1
  <1> QED BY <1>1, <1>2

\* The cells that the code can address.
LEMMA CellOf ==
  ASSUME CellInv, NEW o \in Owner, NEW k \in 1 .. mCapacity[o]
  PROVE  /\ mArray[o] # nullptr /\ mArray[o] \in Blocks /\ DOMAIN cells[mArray[o]] = 1 .. mCapacity[o]
         /\ Len(cells[mArray[o]]) = mCapacity[o] /\ mCapacity[o] \in Nat /\ mSize[o] \in 0 .. mCapacity[o]
         /\ At(mArray[o], k) = cells[mArray[o]][k] /\ (At(mArray[o], k) # Raw <=> k <= mSize[o])
  <1>1. mCapacity[o] \in Nat /\ mSize[o] \in Nat
    BY DEF CellInv, CellTypes
  <1>2. mArray[o] # nullptr
    BY <1>1 DEF CellInv, Stored
  <1>3. mArray[o] \in live /\ mArray[o] \in Blocks
    BY <1>2, OwnBlock DEF CellInv
  <1>4. cells[mArray[o]] \in Seq(Cell)
    BY <1>3 DEF CellInv, CellTypes
  <1>5. Len(cells[mArray[o]]) = mCapacity[o] /\ BuiltUpTo(mArray[o], mSize[o]) /\ mSize[o] <= mCapacity[o]
    BY <1>2 DEF CellInv, Stored
  <1>6. DOMAIN cells[mArray[o]] = 1 .. mCapacity[o]
    BY <1>4, <1>5
  <1>7. At(mArray[o], k) = cells[mArray[o]][k]
    BY <1>3, <1>6 DEF At
  <1> QED BY <1>1, <1>2, <1>3, <1>5, <1>6, <1>7 DEF BuiltUpTo

\* The steps that only change the program.
LEMMA HeapStays ==
  ASSUME CellInv, UNCHANGED <<objVars, heapVars, ctorVars>>
  PROVE  /\ \A o \in Owner : (Stored(o) => Stored(o)') /\ (Whole(o) => Whole(o)')
         /\ mArray' = mArray /\ mSize' = mSize /\ mCapacity' = mCapacity /\ cells' = cells
         /\ destination' = destination /\ built' = built
  BY Kept DEF objVars, heapVars, ctorVars

-----------------------------------------------------------------------------
(* The steps.                                                               *)

LEMMA LifetimesReturn ==
  ASSUME CellInv, Inv', Return
  PROVE  CellInv'
  <1>1. /\ UNCHANGED <<objVars, heapVars, ctorVars>> /\ mAdditive' = mAdditive /\ wild' = wild
        /\ todo = <<>> /\ todo' = todo /\ threw' = FALSE
        /\ shown' = [o \in Objects |-> Elements(o)]
    BY DEF Return
  <1>2. \A o \in Owner : Stored(o) /\ Whole(o)
    BY <1>1 DEF CellInv, Disturbed
  <1>3. ASSUME NEW o \in Objects PROVE Elements(o) \in Seq(Values)
    <2>1. o \in Owner /\ mSize[o] \in Nat
      BY Constants DEF CellInv, CellTypes
    <2>2. ASSUME NEW k \in 1 .. mSize[o] PROVE cells[mArray[o]][k] \in Values
      <3>1. k \in 1 .. mCapacity[o]
        BY <2>1, <1>2 DEF Stored, CellInv, CellTypes
      <3>2. mArray[o] # nullptr
        BY <2>1, <3>1, CellOf
      <3> QED BY <1>2, <2>1, <3>2 DEF Whole, Valued
    <2>3. Elements(o) \in [1 .. mSize[o] -> Values]
      BY <2>2 DEF Elements
    <2> QED BY <2>1, <2>3
  <1>4. shown' \in [Objects -> Seq(Values)]
    BY <1>1, <1>3
  <1>5. CellTypes'
    BY <1>1, <1>4, HeapStays DEF CellInv, CellTypes
  <1> QED BY <1>1, <1>2, <1>5, HeapStays DEF CellInv

\* The step at hand is the head of the program that runs.
LEMMA WhatRuns ==
  ASSUME CellInv, todo # <<>>
  PROVE  /\ step.do = "allocate" => Allocating(todo)
         /\ step.do = "construct" => Constructing(todo)
         /\ step.do = "adopt" => Adopting(todo)
         /\ step.do = "grow" => Growing(todo)
         /\ step.do = "place" => Placing(todo)
         /\ step.do = "append" => Appending(todo)
         /\ step.do = "truncate" => Truncating(todo)
         /\ step.do = "shift" => Shifting(todo)
         /\ step.do = "refill" => Refilling(todo)
         /\ step.do = "swap" => Swapping(todo)
         /\ step.do = "take" => Taking(todo)
         /\ step.do = "destroy" => Destroying(todo)
  BY DEF CellInv, Running, step, Allocating, Constructing, Constructs, Adopting, Adopts, Growing,
     Placing, Places, Appending, Truncating, Truncates, Shifting, Refilling, Swapping, Swaps, Taking,
     Destroying

\* A step is done, and the last of its program.
LEMMA Done ==
  ASSUME CellInv, todo # <<>>, GoOn(<<>>)
  PROVE  todo' = Tail(todo)
  BY Advance DEF CellInv

\* The cells of one block change, and those of its owner only.
LEMMA OneBlockChanges ==
  ASSUME CellInv, NEW o \in Owner, NEW g \in Seq(Cell), mArray[o] # nullptr,
         cells' = [cells EXCEPT ![mArray[o]] = g]
  PROVE  /\ cells' \in [Blocks -> Seq(Cell)] /\ cells'[mArray[o]] = g
         /\ \A b \in Blocks : b # mArray[o] => cells'[b] = cells[b]
         /\ \A q \in Owner : q # o /\ mArray[q] # nullptr => cells'[mArray[q]] = cells[mArray[q]]
         /\ destination # nullptr => cells'[destination] = cells[destination]
  <1>1. mArray[o] \in Blocks /\ mArray[o] # destination
    BY OwnBlock DEF CellInv
  <1>2. cells \in [Blocks -> Seq(Cell)] /\ destination \in Blocks \cup {nullptr}
    BY DEF CellInv, CellTypes, Inv, Typed
  <1>3. \A q \in Owner : q # o /\ mArray[q] # nullptr => mArray[q] \in Blocks /\ mArray[q] # mArray[o]
    BY OwnBlock DEF CellInv
  <1> QED BY <1>1, <1>2, <1>3

\* A program that is put before another.
LEMMA PushOne ==
  ASSUME NEW a, NEW r, IsSequence(r)
  PROVE  /\ <<a>> \o r # <<>> /\ Head(<<a>> \o r) = a /\ Tail(<<a>> \o r) = r
         /\ IsSequence(<<a>> \o r)
  <1>1. PICK S : r \in Seq(S)
    BY DEF IsSequence
  <1>2. PICK T : T = S \cup {a}
    OBVIOUS
  <1>3. r \in Seq(T) /\ <<a>> \in Seq(T) /\ Len(<<a>>) = 1 /\ <<a>>[1] = a
    BY <1>1, <1>2, SeqDef
  <1>4. PICK p : p = <<a>> \o r
    OBVIOUS
  <1>5. /\ p \in Seq(T) /\ Len(p) = 1 + Len(r) /\ Len(r) \in Nat
        /\ p[1] = a /\ \A k \in 1 .. Len(r) : p[1 + k] = r[k]
    BY <1>3, <1>4, ConcatProperties
  <1>6. p # <<>>
    BY <1>5
  <1>7. /\ Head(p) = p[1] /\ Tail(p) \in Seq(T) /\ Len(Tail(p)) = Len(p) - 1
        /\ \A k \in 1 .. Len(Tail(p)) : Tail(p)[k] = p[k + 1]
    BY <1>5, <1>6, HeadTailProperties
  <1>8. Len(Tail(p)) = Len(r) /\ \A k \in 1 .. Len(r) : Tail(p)[k] = r[k]
    BY <1>5, <1>7
  <1>9. Tail(p) = r
    BY <1>3, <1>7, <1>8, SeqEqual
  <1> QED BY <1>4, <1>5, <1>6, <1>7, <1>9 DEF IsSequence

LEMMA PushTwo ==
  ASSUME NEW a, NEW b, NEW r, IsSequence(r)
  PROVE  /\ <<a, b>> \o r = <<a>> \o (<<b>> \o r) /\ IsSequence(<<a, b>> \o r)
  <1>1. PICK S : r \in Seq(S)
    BY DEF IsSequence
  <1>2. PICK T : T = S \cup {a, b}
    OBVIOUS
  <1>3. r \in Seq(T) /\ <<a>> \in Seq(T) /\ <<b>> \in Seq(T)
    BY <1>1, <1>2, SeqDef
  <1>4. (<<a>> \o <<b>>) \o r = <<a>> \o (<<b>> \o r)
    BY <1>3, ConcatAssociative
  <1> QED BY <1>4, OneAndOne, PushOne

Starts(q, a, b, c, r) ==
  /\ q # <<>> /\ Head(q) = a /\ Tail(q) # <<>> /\ Head(Tail(q)) = b
  /\ Tail(Tail(q)) # <<>> /\ Head(Tail(Tail(q))) = c /\ Tail(Tail(Tail(q))) = r

LEMMA ThreeBefore ==
  ASSUME NEW a, NEW b, NEW c, NEW r, IsSequence(r), NEW q, q = <<a, b, c>> \o r
  PROVE  Starts(q, a, b, c, r)
  <1>1. PICK S : r \in Seq(S)
    BY DEF IsSequence
  <1>2. PICK T : T = S \cup {a, b, c}
    OBVIOUS
  <1>3. r \in Seq(T) /\ <<a>> \in Seq(T) /\ <<b, c>> \in Seq(T)
    BY <1>1, <1>2, SeqDef
  <1>4. PICK x, y : x = <<c>> \o r /\ y = <<b, c>> \o r
    OBVIOUS
  <1>5. (<<a>> \o <<b, c>>) \o r = <<a>> \o y
    BY <1>3, <1>4, ConcatAssociative
  <1>6. q = <<a>> \o y
    BY <1>5, OneAndTwo
  <1>7. y = <<b>> \o x
    BY <1>4, PushTwo
  <1>8. x # <<>> /\ Head(x) = c /\ Tail(x) = r /\ IsSequence(x)
    BY <1>4, PushOne
  <1>9. y # <<>> /\ Head(y) = b /\ Tail(y) = x /\ IsSequence(y)
    BY <1>7, <1>8, PushOne
  <1>10. q # <<>> /\ Head(q) = a /\ Tail(q) = y
    BY <1>6, <1>9, PushOne
  <1> QED BY <1>8, <1>9, <1>10 DEF Starts

\* A step of the running program, and what is left when it is done.
LEMMA Running1 ==
  ASSUME CellInv, todo # <<>>
  PROVE  IsSequence(Tail(todo)) /\ <<>> \o Tail(todo) = Tail(todo)
  BY TailIs DEF CellInv, Inv, ProgramInv, OwnProgram, TempProgram

\* A step that writes g over the block of o, which has n objects afterwards.
Writes(o, g, n) ==
  /\ mArray[o] # nullptr /\ n \in 0 .. mCapacity[o]
  /\ DOMAIN g = 1 .. mCapacity[o] /\ g = [k \in DOMAIN g |-> g[k]]
  /\ \A k \in 1 .. mCapacity[o] : g[k] \in Cell /\ (g[k] # Raw <=> k <= n)
  /\ cells' = [cells EXCEPT ![mArray[o]] = g]
  /\ mArray' = mArray /\ mCapacity' = mCapacity
  /\ mSize'[o] = n /\ \A q \in Owner : q # o => mSize'[q] = mSize[q]

LEMMA BlockRewritten ==
  ASSUME CellInv, NEW o \in Owner, NEW n, NEW g, Writes(o, g, n)
  PROVE  /\ cells' \in [Blocks -> Seq(Cell)] /\ cells'[mArray[o]] = g
         /\ \A q \in Owner : Stored(q)'
         /\ \A q \in Owner : q # o /\ Whole(q) => Whole(q)'
         /\ (\A k \in 1 .. n : g[k] \in Values) => Whole(o)'
         /\ destination # nullptr => cells'[destination] = cells[destination]
  <1>0. /\ mArray[o] # nullptr /\ n \in 0 .. mCapacity[o]
        /\ DOMAIN g = 1 .. mCapacity[o] /\ g = [k \in DOMAIN g |-> g[k]]
        /\ \A k \in 1 .. mCapacity[o] : g[k] \in Cell /\ (g[k] # Raw <=> k <= n)
        /\ cells' = [cells EXCEPT ![mArray[o]] = g]
        /\ mArray' = mArray /\ mCapacity' = mCapacity
    BY DEF Writes
  <1>1. /\ mCapacity[o] \in Nat /\ n \in Nat /\ mArray[o] \in Blocks /\ Stored(o)
        /\ mSize \in [Owner -> Nat] /\ cells[mArray[o]] \in Seq(Cell)
    BY <1>0, OwnBlock DEF CellInv, CellTypes
  <1>2. Len(cells[mArray[o]]) = mCapacity[o]
    BY <1>0, <1>1 DEF Stored
  <1>3. mSize'[o] = n /\ \A q \in Owner : q # o => mSize'[q] = mSize[q]
    BY DEF Writes
  <1>4. g \in Seq(Cell) /\ Len(g) = mCapacity[o]
    BY <1>0, <1>1, <1>2, Rewritten
  <1>5. /\ cells' \in [Blocks -> Seq(Cell)] /\ cells'[mArray[o]] = g
        /\ \A q \in Owner : q # o /\ mArray[q] # nullptr => cells'[mArray[q]] = cells[mArray[q]]
        /\ destination # nullptr => cells'[destination] = cells[destination]
    BY <1>0, <1>4, OneBlockChanges
  <1>6. \A q \in Owner : q # o => (Stored(q) => Stored(q)') /\ (Whole(q) => Whole(q)')
    BY <1>0, <1>3, <1>5, Kept
  <1>7. Stored(o)'
    BY <1>0, <1>3, <1>4, <1>5 DEF Stored, BuiltUpTo
  <1>8. (\A k \in 1 .. n : g[k] \in Values) => Whole(o)'
    BY <1>0, <1>3, <1>5 DEF Whole, Valued
  <1>9. \A q \in Owner : Stored(q)'
    BY <1>6, <1>7 DEF CellInv
  <1> QED BY <1>5, <1>6, <1>8, <1>9

\* What is known of the block of o.
LEMMA BlockOf ==
  ASSUME CellInv, NEW o \in Owner
  PROVE  /\ mCapacity[o] \in Nat /\ mSize[o] \in 0 .. mCapacity[o]
         /\ mArray[o] = nullptr => mCapacity[o] = 0
         /\ mArray[o] # nullptr =>
              /\ mArray[o] \in Blocks /\ mArray[o] \in live
              /\ DOMAIN cells[mArray[o]] = 1 .. mCapacity[o]
              /\ \A k \in 1 .. mCapacity[o] : cells[mArray[o]][k] \in Cell
              /\ \A k \in 1 .. mCapacity[o] : cells[mArray[o]][k] # Raw <=> k <= mSize[o]
              /\ \A k \in 1 .. mCapacity[o] : At(mArray[o], k) = cells[mArray[o]][k]
  <1>1. mCapacity[o] \in Nat /\ mSize[o] \in Nat /\ Stored(o)
    BY DEF CellInv, CellTypes
  <1>2. mSize[o] \in 0 .. mCapacity[o] /\ (mArray[o] = nullptr => mCapacity[o] = 0)
    BY <1>1 DEF Stored
  <1>3. ASSUME mArray[o] # nullptr
        PROVE  /\ mArray[o] \in Blocks /\ mArray[o] \in live
               /\ DOMAIN cells[mArray[o]] = 1 .. mCapacity[o]
               /\ \A k \in 1 .. mCapacity[o] : cells[mArray[o]][k] \in Cell
               /\ \A k \in 1 .. mCapacity[o] : cells[mArray[o]][k] # Raw <=> k <= mSize[o]
               /\ \A k \in 1 .. mCapacity[o] : At(mArray[o], k) = cells[mArray[o]][k]
    <2>1. mArray[o] \in Blocks /\ mArray[o] \in live
      BY <1>3, OwnBlock DEF CellInv
    <2>2. cells[mArray[o]] \in Seq(Cell)
      BY <2>1 DEF CellInv, CellTypes
    <2>3. Len(cells[mArray[o]]) = mCapacity[o] /\ BuiltUpTo(mArray[o], mSize[o])
      BY <1>1, <1>3 DEF Stored
    <2>4. /\ DOMAIN cells[mArray[o]] = 1 .. mCapacity[o]
          /\ \A k \in 1 .. mCapacity[o] : cells[mArray[o]][k] \in Cell
      BY <2>2, <2>3
    <2> QED BY <2>1, <2>3, <2>4 DEF BuiltUpTo, At
  <1> QED BY <1>1, <1>2, <1>3

LEMMA LifetimesTruncate ==
  ASSUME CellInv, Inv', truncateStep
  PROVE  CellInv'
  <1>1. /\ todo # <<>> /\ step.do = "truncate" /\ GoOn(<<>>)
        /\ mArray' = mArray /\ mCapacity' = mCapacity /\ mAdditive' = mAdditive
        /\ built' = built /\ threw' = threw /\ shown' = shown
    BY DEF truncateStep, Doing, ctorVars
  <1>2. PICK o, n : o = step.o /\ n = step.n
    OBVIOUS
  <1>3. /\ o \in Objects /\ n \in 0 .. mSize[o] /\ Tail(todo) = <<>> /\ o \in Owner
        /\ mArray[o] # nullptr => Valued(mArray[o], 1, mSize[o] - n)
    BY <1>1, <1>2, WhatRuns, Constants DEF Truncating, Truncates, step
  <1>4. PICK b, left : b = mArray[o] /\ left = mSize[o] - n
    OBVIOUS
  <1>5. mCapacity[o] \in Nat /\ mSize[o] \in 0 .. mCapacity[o] /\ left \in 0 .. mSize[o]
    BY <1>3, <1>4, BlockOf
  <1>6. /\ wild' = (wild \/ ~AllBuilt(b, left + 1, mSize[o]))
        /\ cells' = IF b = nullptr THEN cells
                    ELSE [cells EXCEPT ![b] = Destroyed(b, left + 1, mSize[o])]
        /\ mSize' = [mSize EXCEPT ![o] = left]
    BY <1>2, <1>4 DEF truncateStep, Defined
  <1>7. AllBuilt(b, left + 1, mSize[o])
    <2>1. ASSUME NEW k \in left + 1 .. mSize[o] PROVE At(b, k) # Raw
      <3>1. k \in 1 .. mCapacity[o] /\ k <= mSize[o]
        BY <1>5, <2>1
      <3> QED BY <1>3, <1>4, <3>1, CellOf
    <2> QED BY <2>1 DEF AllBuilt
  <1>8. todo' = <<>>
    BY <1>1, <1>3, Done
  <1>9. \A q \in Owner : q # o => Whole(q)
    BY <1>1, <1>2 DEF CellInv, Disturbed
  <1>10. CASE b = nullptr
    <2>1. mCapacity[o] = 0 /\ left = 0 /\ mSize[o] = 0
      <3>1. mArray[o] = nullptr /\ o \in Owner
        BY <1>3, <1>4, <1>10
      <3>2. mCapacity[o] = 0
        BY <3>1, BlockOf
      <3> QED BY <1>5, <3>2
    <2>2. mSize \in [Owner -> Nat]
      BY DEF CellInv, CellTypes
    <2>3. mSize' = mSize /\ cells' = cells
      BY <1>3, <1>6, <1>10, <2>1, <2>2
    <2>4. \A q \in Owner : (Stored(q) => Stored(q)') /\ (Whole(q) => Whole(q)')
      BY <1>1, <2>3, Kept
    <2>5. Whole(o)
      BY <1>4, <1>10 DEF Whole
    <2>6. CellTypes'
      BY <1>1, <2>3 DEF CellInv, CellTypes
    <2> QED BY <1>6, <1>7, <1>8, <1>9, <2>4, <2>5, <2>6 DEF CellInv
  <1>11. CASE b # nullptr
    <2>1. PICK g : g = Destroyed(b, left + 1, mSize[o])
      OBVIOUS
    <2>2. /\ DOMAIN cells[b] = 1 .. mCapacity[o]
          /\ \A k \in 1 .. mCapacity[o] : cells[b][k] \in Cell /\ (cells[b][k] # Raw <=> k <= mSize[o])
      BY <1>3, <1>4, <1>11, BlockOf
    <2>3. /\ DOMAIN g = 1 .. mCapacity[o] /\ g = [k \in DOMAIN g |-> g[k]]
          /\ \A k \in 1 .. mCapacity[o] : g[k] = IF k \in left + 1 .. mSize[o] THEN Raw ELSE cells[b][k]
      BY <2>1, <2>2 DEF Destroyed
    <2>4. \A k \in 1 .. mCapacity[o] : g[k] \in Cell /\ (g[k] # Raw <=> k <= left)
      BY <1>5, <2>2, <2>3, CellKinds
    <2>5. \A k \in 1 .. left : g[k] \in Values
      BY <1>3, <1>4, <1>5, <1>11, <2>3 DEF Valued
    <2>6. /\ o \in Owner /\ left \in 0 .. mCapacity[o] /\ mArray[o] # nullptr
          /\ mArray' = mArray /\ mCapacity' = mCapacity
          /\ mSize'[o] = left /\ \A q \in Owner : q # o => mSize'[q] = mSize[q]
          /\ mSize' \in [Owner -> Nat]
          /\ cells' = [cells EXCEPT ![mArray[o]] = g]
      <3>1. mSize \in [Owner -> Nat] /\ left \in Nat
        BY <1>5 DEF CellInv, CellTypes
      <3> QED BY <1>1, <1>3, <1>4, <1>5, <1>6, <1>11, <2>1, <3>1
    <2>10. Writes(o, g, left)
      BY <2>3, <2>4, <2>6 DEF Writes
    <2>7. /\ cells' \in [Blocks -> Seq(Cell)]
          /\ \A q \in Owner : Stored(q)' /\ (q # o /\ Whole(q) => Whole(q)')
          /\ (\A k \in 1 .. left : g[k] \in Values) => Whole(o)'
      BY <1>3, <2>10, BlockRewritten
    <2>8. \A q \in Owner : Whole(q)'
      BY <1>9, <2>5, <2>7
    <2>9. CellTypes'
      BY <1>1, <2>6, <2>7 DEF CellInv, CellTypes
    <2> QED BY <1>6, <1>7, <1>8, <2>7, <2>8, <2>9 DEF CellInv
  <1> QED BY <1>10, <1>11

\* An element of o is moved onto another.
LEMMA ElementMoved ==
  ASSUME CellInv, NEW o \in Owner, NEW i \in Nat, NEW j \in Nat, i < mSize[o], j < mSize[o],
         MoveElement(o, i, j), mArray' = mArray, mCapacity' = mCapacity, mSize' = mSize
  PROVE  /\ cells' \in [Blocks -> Seq(Cell)] /\ ~wild' /\ mArray[o] # nullptr
         /\ \A q \in Owner : Stored(q)' /\ (q # o /\ Whole(q) => Whole(q)')
         /\ \A k \in 1 .. mSize[o] :
              cells'[mArray[o]][k] = IF k = j + 1 THEN Moved
                                     ELSE cells[mArray[o]][IF k = i + 1 THEN j + 1 ELSE k]
  <1>1. /\ mCapacity[o] \in Nat /\ mSize[o] \in 0 .. mCapacity[o]
        /\ i + 1 \in 1 .. mSize[o] /\ j + 1 \in 1 .. mSize[o]
    BY BlockOf
  <1>2. mArray[o] # nullptr
    <2>1. mCapacity[o] # 0
      BY <1>1
    <2> QED BY <2>1, BlockOf
  <1>3. PICK b : b = mArray[o]
    OBVIOUS
  <1>4. /\ DOMAIN cells[b] = 1 .. mCapacity[o]
        /\ \A k \in 1 .. mCapacity[o] : /\ cells[b][k] \in Cell /\ (cells[b][k] # Raw <=> k <= mSize[o])
                                        /\ At(b, k) = cells[b][k]
    BY <1>2, <1>3, BlockOf
  <1>5. At(b, i + 1) = cells[b][i + 1] /\ cells[b][i + 1] # Raw
        /\ At(b, j + 1) = cells[b][j + 1] /\ cells[b][j + 1] # Raw /\ cells[b][j + 1] \in Cell
    <2>1. i + 1 \in 1 .. mCapacity[o] /\ j + 1 \in 1 .. mCapacity[o]
      BY <1>1
    <2> QED BY <1>1, <1>4, <2>1
  <1>6. PICK g : g = [k \in DOMAIN cells[b] |-> IF k = j + 1 THEN Moved
                                                ELSE IF k = i + 1 THEN cells[b][j + 1]
                                                ELSE cells[b][k]]
    OBVIOUS
  <1>7. /\ cells' = [cells EXCEPT ![mArray[o]] = g]
        /\ wild' = (wild \/ ~(At(b, i + 1) # Raw /\ At(b, j + 1) # Raw))
    <2>1. cells \in [Blocks -> Seq(Cell)] /\ b \in Blocks
      BY <1>2, <1>3, BlockOf DEF CellInv, CellTypes
    <2> QED BY <1>3, <1>5, <1>6, <2>1 DEF MoveElement, Defined
  <1>8. ~wild'
    BY <1>5, <1>7 DEF CellInv
  <1>9. /\ DOMAIN g = 1 .. mCapacity[o] /\ g = [k \in DOMAIN g |-> g[k]]
        /\ \A k \in 1 .. mCapacity[o] : g[k] = IF k = j + 1 THEN Moved
                                               ELSE IF k = i + 1 THEN cells[b][j + 1]
                                               ELSE cells[b][k]
    BY <1>4, <1>6
  <1>10. \A k \in 1 .. mCapacity[o] : g[k] \in Cell /\ (g[k] # Raw <=> k <= mSize[o])
    BY <1>1, <1>4, <1>5, <1>9, CellKinds
  <1>11. PICK n \in 0 .. mCapacity[o] : n = mSize[o]
    BY <1>1
  <1>12. /\ cells' \in [Blocks -> Seq(Cell)] /\ cells'[mArray[o]] = g
         /\ \A q \in Owner : Stored(q)' /\ (q # o /\ Whole(q) => Whole(q)')
    <2>1. \A k \in 1 .. mCapacity[o] : g[k] \in Cell /\ (g[k] # Raw <=> k <= n)
      BY <1>10, <1>11
    <2>2. mSize'[o] = n /\ \A q \in Owner : q # o => mSize'[q] = mSize[q]
      BY <1>11
    <2>3. cells' = [cells EXCEPT ![mArray[o]] = g]
      BY <1>7
    <2>4. Writes(o, g, n)
      BY <1>2, <1>9, <2>1, <2>2, <2>3 DEF Writes
    <2> QED BY <2>4, BlockRewritten
  <1>13. \A k \in 1 .. mSize[o] : k \in 1 .. mCapacity[o]
    BY <1>1
  <1> QED BY <1>2, <1>3, <1>8, <1>9, <1>12, <1>13

\* The bounds of the loops move.
LEMMA NextShift ==
  ASSUME NEW o, NEW t, NEW f
  PROVE  nextShift([do |-> "shift", o |-> o, to |-> t, from |-> f])
           = [do |-> "shift", o |-> o, to |-> t + 1, from |-> f + 1]
  <1>1. PICK x, y : x = t + 1 /\ y = f + 1
    OBVIOUS
  <1>2. PICK s : s = [do |-> "shift", o |-> o, to |-> t, from |-> f]
    OBVIOUS
  <1>3. PICK s1 : s1 = [do |-> "shift", o |-> o, to |-> x, from |-> f]
    OBVIOUS
  <1>4. nextShift(s) = [[s EXCEPT !.to = x] EXCEPT !.from = y]
    BY <1>1, <1>2 DEF nextShift
  <1>5. [s EXCEPT !.to = x] = s1
    BY <1>2, <1>3
  <1>6. [s1 EXCEPT !.from = y] = [do |-> "shift", o |-> o, to |-> x, from |-> y]
    BY <1>3
  <1> QED BY <1>1, <1>2, <1>4, <1>5, <1>6

nextRefill(m) == [m EXCEPT !.to = @ + 1, !.from = @ - 1, !.left = @ - 1]

LEMMA NextRefill ==
  ASSUME NEW o, NEW t, NEW f, NEW l,
         NEW s, s = [do |-> "refill", o |-> o, to |-> t, from |-> f, left |-> l]
  PROVE  nextRefill(s)
           = [do |-> "refill", o |-> o, to |-> t + 1, from |-> f - 1, left |-> l - 1]
  <1>1. PICK x, y, z : x = t + 1 /\ y = f - 1 /\ z = l - 1
    OBVIOUS
  <1>3. PICK s1 : s1 = [do |-> "refill", o |-> o, to |-> x, from |-> f, left |-> l]
    OBVIOUS
  <1>4. PICK s2 : s2 = [do |-> "refill", o |-> o, to |-> x, from |-> y, left |-> l]
    OBVIOUS
  <1>5. nextRefill(s)
          = [[[s EXCEPT !.to = x] EXCEPT !.from = y] EXCEPT !.left = z]
    BY <1>1 DEF nextRefill
  <1>6. [s EXCEPT !.to = x] = s1 /\ [s1 EXCEPT !.from = y] = s2
    BY <1>3, <1>4
  <1>7. [s2 EXCEPT !.left = z] = [do |-> "refill", o |-> o, to |-> x, from |-> y, left |-> z]
    BY <1>4
  <1> QED BY <1>1, <1>5, <1>6, <1>7

LEMMA LifetimesShift ==
  ASSUME CellInv, Inv', shift
  PROVE  CellInv'
  <1>1. /\ todo # <<>> /\ step.do = "shift"
        /\ mArray' = mArray /\ mSize' = mSize /\ mCapacity' = mCapacity /\ mAdditive' = mAdditive
        /\ destination' = destination /\ built' = built /\ threw' = threw /\ shown' = shown
        /\ live' = live
    BY DEF shift, Doing, objVars, ctorVars
  <1>2. PICK o, t, f : o = step.o /\ t = step.to /\ f = step.from
    OBVIOUS
  <1>3. /\ step = [do |-> "shift", o |-> o, to |-> t, from |-> f]
        /\ o \in Objects /\ o \in Owner /\ t \in Nat /\ f \in Nat /\ t < f /\ f <= mSize[o]
        /\ Truncates(o, Tail(todo), f - t)
        /\ Valued(mArray[o], 1, t) /\ Valued(mArray[o], f + 1, mSize[o])
    BY <1>1, <1>2, WhatRuns, Constants DEF Shifting, step
  <1>4. mSize[o] \in Nat
    BY <1>3, BlockOf
  <1>5. \A q \in Owner : q # o => Whole(q)
    BY <1>1, <1>2 DEF CellInv, Disturbed
  <1>6. CASE f = mSize[o]
    <2>1. GoOn(<<>>) /\ cells' = cells /\ wild' = wild
      BY <1>2, <1>6 DEF shift
    <2>2. todo' = Tail(todo)
      BY <1>1, <2>1, Done
    <2>3. Truncating(todo)'
      <3>1. f - t \in 0 .. mSize[o] /\ mSize[o] - (f - t) = t
        BY <1>3, <1>4, <1>6
      <3> QED BY <1>1, <1>3, <2>1, <2>2, <3>1 DEF Truncating, Truncates, Valued
    <2>4. Disturbed(o)'
      BY <1>3, <2>2 DEF Truncates, Disturbed, step
    <2>5. \A q \in Owner : (Stored(q) => Stored(q)') /\ (Whole(q) => Whole(q)')
      BY <1>1, <2>1, Kept
    <2>6. CellTypes'
      BY <1>1, <2>1 DEF CellInv, CellTypes
    <2> QED BY <1>5, <2>1, <2>3, <2>4, <2>5, <2>6 DEF CellInv, Running
  <1>7. CASE f # mSize[o]
    <2>1. MoveElement(o, t, f) /\ todo' = << nextShift(step) >> \o Tail(todo)
      BY <1>2, <1>7 DEF shift, GoOn
    <2>2. t < mSize[o] /\ f < mSize[o]
      BY <1>3, <1>4, <1>7
    <2>3. PICK c : c = cells'[mArray[o]]
      OBVIOUS
    <2>4. /\ cells' \in [Blocks -> Seq(Cell)] /\ ~wild'
          /\ \A q \in Owner : Stored(q)' /\ (q # o /\ Whole(q) => Whole(q)')
          /\ \A k \in 1 .. mSize[o] :
               c[k] = IF k = f + 1 THEN Moved
                      ELSE cells[mArray[o]][IF k = t + 1 THEN f + 1 ELSE k]
      BY <1>1, <1>3, <2>1, <2>2, <2>3, ElementMoved
    <2>5. \A k \in 1 .. t + 1 : c[k] \in Values
      <3>1. ASSUME NEW k \in 1 .. t PROVE c[k] = cells[mArray[o]][k]
        BY <1>3, <1>4, <2>4
      <3>2. c[t + 1] = cells[mArray[o]][f + 1]
        BY <1>3, <1>4, <2>2, <2>4
      <3>3. f + 1 \in f + 1 .. mSize[o]
        BY <1>3, <1>4, <2>2
      <3>4. \A k \in 1 .. t + 1 : k \in 1 .. t \/ k = t + 1
        BY <1>3
      <3> QED BY <1>3, <3>1, <3>2, <3>3, <3>4 DEF Valued
    <2>6. \A k \in f + 2 .. mSize[o] : c[k] \in Values
      <3>1. ASSUME NEW k \in f + 2 .. mSize[o] PROVE c[k] = cells[mArray[o]][k] /\ k \in f + 1 .. mSize[o]
        BY <1>3, <1>4, <2>4
      <3> QED BY <1>3, <3>1 DEF Valued
    <2>7. PICK s : s = [do |-> "shift", o |-> o, to |-> t + 1, from |-> f + 1]
      OBVIOUS
    <2>8. nextShift(step) = s
      BY <1>3, <2>7, NextShift
    <2>9. todo' # <<>> /\ Head(todo') = s /\ Tail(todo') = Tail(todo)
      BY <1>1, <2>1, <2>8, Running1, PushOne
    <2>10. Shifting(todo)'
      <3>1. t + 1 \in Nat /\ f + 1 \in Nat /\ t + 1 < f + 1 /\ f + 1 <= mSize[o]
            /\ (f + 1) - (t + 1) = f - t /\ (f + 1) + 1 = f + 2
        BY <1>3, <1>4, <2>2
      <3>2. Truncates(o, Tail(todo'), (f + 1) - (t + 1))
        BY <1>3, <2>9, <3>1
      <3>3. Valued(mArray[o], 1, t + 1)' /\ Valued(mArray[o], (f + 1) + 1, mSize[o])'
        BY <1>1, <2>3, <2>5, <2>6, <3>1 DEF Valued
      <3>4. /\ o \in Objects /\ t + 1 \in Nat /\ f + 1 \in Nat /\ t + 1 < f + 1
            /\ f + 1 <= mSize'[o] /\ mArray'[o] = mArray[o] /\ mSize'[o] = mSize[o]
        BY <1>1, <1>3, <2>7, <2>9, <3>1
      <3>5. /\ Head(todo') = s /\ s.do = "shift" /\ s.o = o /\ s.to = t + 1 /\ s.from = f + 1
            /\ s = [do |-> "shift", o |-> s.o, to |-> s.to, from |-> s.from]
        BY <2>7, <2>9
      <3>6. Truncates(o, Tail(todo'), s.from - s.to)
        BY <3>2, <3>5
      <3>7. Valued(mArray[o], 1, s.to)' /\ Valued(mArray[o], s.from + 1, mSize[o])'
        BY <3>3, <3>4, <3>5 DEF Valued
      <3> HIDE DEF Valued, Truncates
      <3> QED BY <3>4, <3>5, <3>6, <3>7 DEF Shifting
    <2>11. Disturbed(o)'
      BY <2>7, <2>9 DEF Disturbed, step
    <2>12. CellTypes'
      BY <1>1, <2>4 DEF CellInv, CellTypes
    <2> QED BY <1>5, <2>4, <2>9, <2>10, <2>11, <2>12 DEF CellInv, Running
  <1> QED BY <1>6, <1>7

LEMMA LifetimesRefill ==
  ASSUME CellInv, Inv', refill
  PROVE  CellInv'
  <1>1. /\ todo # <<>> /\ step.do = "refill"
        /\ mArray' = mArray /\ mSize' = mSize /\ mCapacity' = mCapacity /\ mAdditive' = mAdditive
        /\ destination' = destination /\ built' = built /\ threw' = threw /\ shown' = shown
        /\ live' = live
    BY DEF refill, Doing, objVars, ctorVars
  <1>2. PICK o, t, f, l, n : o = step.o /\ t = step.to /\ f = step.from /\ l = step.left
                             /\ n = Head(Tail(todo)).n
    OBVIOUS
  <1>3. /\ step = [do |-> "refill", o |-> o, to |-> t, from |-> f, left |-> l]
        /\ o \in Objects /\ o \in Owner /\ t \in Nat /\ l \in Nat /\ n \in 1 .. mSize[o] /\ l <= n
        /\ f = (mSize[o] - 1) - (n - l) /\ t + l <= mSize[o]
        /\ Truncates(o, Tail(todo), n)
        /\ Valued(mArray[o], t + 1, f + 1)
        /\ \A k \in 1 .. t : k <= mSize[o] - n => cells[mArray[o]][k] \in Values
    BY <1>1, <1>2, WhatRuns, Constants DEF Refilling, step
  <1>4. mSize[o] \in Nat /\ n \in Nat
    BY <1>3, BlockOf
  <1>5. \A q \in Owner : q # o => Whole(q)
    BY <1>1, <1>2 DEF CellInv, Disturbed
  <1>6. CASE l = 0
    <2>1. GoOn(<<>>) /\ cells' = cells /\ wild' = wild
      BY <1>2, <1>6 DEF refill
    <2>2. todo' = Tail(todo)
      BY <1>1, <2>1, Done
    <2>3. Truncating(todo)'
      <3>1. n \in 0 .. mSize[o] /\ f + 1 = mSize[o] - n
        BY <1>3, <1>4, <1>6
      <3>2. ASSUME NEW k \in 1 .. mSize[o] - n PROVE cells[mArray[o]][k] \in Values
        <4>1. k \in t + 1 .. f + 1 \/ (k \in 1 .. t /\ k <= mSize[o] - n)
          BY <1>3, <1>4, <3>1, <3>2
        <4> QED BY <1>3, <4>1 DEF Valued
      <3> QED BY <1>1, <1>3, <2>1, <2>2, <3>1, <3>2 DEF Truncating, Truncates, Valued
    <2>4. Disturbed(o)'
      BY <1>3, <2>2 DEF Truncates, Disturbed, step
    <2>5. \A q \in Owner : (Stored(q) => Stored(q)') /\ (Whole(q) => Whole(q)')
      BY <1>1, <2>1, Kept
    <2>6. CellTypes'
      BY <1>1, <2>1 DEF CellInv, CellTypes
    <2> QED BY <1>5, <2>1, <2>3, <2>4, <2>5, <2>6 DEF CellInv, Running
  <1>7. CASE l # 0
    <2>1. MoveElement(o, t, f) /\ GoOn(<< [step EXCEPT !.to = @ + 1, !.from = @ - 1, !.left = @ - 1] >>)
      BY <1>2, <1>7 DEF refill
    <2>2. t < mSize[o] /\ f < mSize[o] /\ f \in Nat
      BY <1>3, <1>4, <1>7
    <2>3. PICK c : c = cells'[mArray[o]]
      OBVIOUS
    <2>4. /\ cells' \in [Blocks -> Seq(Cell)] /\ ~wild'
          /\ \A q \in Owner : Stored(q)' /\ (q # o /\ Whole(q) => Whole(q)')
          /\ \A k \in 1 .. mSize[o] :
               c[k] = IF k = f + 1 THEN Moved
                      ELSE cells[mArray[o]][IF k = t + 1 THEN f + 1 ELSE k]
      BY <1>1, <1>3, <2>1, <2>2, <2>3, ElementMoved
    <2>5. \A k \in t + 2 .. f : c[k] \in Values
      <3>1. ASSUME NEW k \in t + 2 .. f PROVE c[k] = cells[mArray[o]][k] /\ k \in t + 1 .. f + 1
        <4>1. k \in 1 .. mSize[o] /\ k # f + 1 /\ k # t + 1 /\ k \in t + 1 .. f + 1
          BY <1>3, <1>4, <2>2, <3>1
        <4> QED BY <2>4, <4>1
      <3> QED BY <1>3, <3>1 DEF Valued
    <2>6. ASSUME NEW k \in 1 .. t + 1, k <= mSize[o] - n PROVE c[k] \in Values
      <3>1. k # f + 1 /\ k \in 1 .. mSize[o]
        BY <1>3, <1>4, <1>7, <2>2, <2>6
      <3>2. CASE k = t + 1
        <4>1. f + 1 \in t + 1 .. f + 1
          BY <1>3, <1>4, <1>7, <2>2, <2>6, <3>1, <3>2
        <4>2. c[k] = cells[mArray[o]][f + 1]
          BY <2>4, <3>1, <3>2
        <4> QED BY <1>3, <4>1, <4>2 DEF Valued
      <3>3. CASE k # t + 1
        <4>1. k \in 1 .. t /\ c[k] = cells[mArray[o]][k]
          BY <1>3, <2>4, <3>1, <3>3
        <4> QED BY <1>3, <2>6, <4>1
      <3> QED BY <3>2, <3>3
    <2>7. PICK s : s = [do |-> "refill", o |-> o, to |-> t + 1, from |-> f - 1, left |-> l - 1]
      OBVIOUS
    <2>8. todo' = <<s>> \o Tail(todo)
      <3>1. [step EXCEPT !.to = @ + 1, !.from = @ - 1, !.left = @ - 1] = s
        <4>1. nextRefill(step) = s
          BY <1>3, <2>7, NextRefill
        <4> QED BY <4>1 DEF nextRefill
      <3>2. GoOn(<<s>>)
        BY <2>1, <3>1
      <3> QED BY <3>2 DEF GoOn
    <2>9. todo' # <<>> /\ Head(todo') = s /\ Tail(todo') = Tail(todo)
      BY <1>1, <2>8, Running1, PushOne
    <2>10. Refilling(todo)'
      <3>1. /\ t + 1 \in Nat /\ l - 1 \in Nat /\ l - 1 <= n /\ (t + 1) + (l - 1) <= mSize[o]
            /\ f - 1 = (mSize[o] - 1) - (n - (l - 1)) /\ (t + 1) + 1 = t + 2 /\ (f - 1) + 1 = f
        BY <1>3, <1>4, <1>7, <2>2
      <3>2. Truncates(o, Tail(todo'), n) /\ Head(Tail(todo')).n = n
        BY <1>2, <1>3, <2>9
      <3>3. Valued(mArray[o], (t + 1) + 1, (f - 1) + 1)'
        BY <1>1, <2>3, <2>5, <3>1 DEF Valued
      <3>4. \A k \in 1 .. t + 1 : k <= mSize'[o] - n => cells'[mArray'[o]][k] \in Values
        BY <1>1, <2>3, <2>6
      <3>5. Head(todo') = [do |-> "refill", o |-> o, to |-> t + 1, from |-> f - 1, left |-> l - 1]
        BY <2>7, <2>9
      <3>6. /\ Head(todo').o = o /\ Head(todo').to = t + 1 /\ Head(todo').from = f - 1
            /\ Head(todo').left = l - 1 /\ Head(todo').do = "refill"
        BY <3>5
      <3>7. mSize' = mSize
        BY <1>1
      <3> QED BY <1>3, <3>1, <3>2, <3>3, <3>4, <3>5, <3>6, <3>7 DEF Refilling
    <2>11. Disturbed(o)'
      BY <2>7, <2>9 DEF Disturbed, step
    <2>12. CellTypes'
      BY <1>1, <2>4 DEF CellInv, CellTypes
    <2> QED BY <1>5, <2>4, <2>9, <2>10, <2>11, <2>12 DEF CellInv, Running
  <1> QED BY <1>6, <1>7

LEMMA LifetimesPlace ==
  ASSUME CellInv, Inv', place
  PROVE  CellInv'
  <1>1. /\ todo # <<>> /\ step.do = "place" /\ GoOn(<<>>)
        /\ mArray' = mArray /\ mCapacity' = mCapacity /\ mAdditive' = mAdditive
        /\ built' = built /\ threw' = threw /\ shown' = shown
    BY DEF place, Doing, ctorVars
  <1>2. PICK o, a, b, i, v :
          /\ o = step.o /\ a = step.arg /\ b = mArray[o] /\ i = mSize[o] + 1
          /\ v = IF a.ref = NoRef THEN a.val ELSE At(a.ref[1], a.ref[2])
    OBVIOUS
  <1>3. /\ o \in Objects /\ o \in Owner /\ mSize[o] < mCapacity[o]
        /\ FreshArg(a) \/ OldArg(o, a)
        /\ Appends(o, Tail(todo), 1)
    BY <1>1, <1>2, WhatRuns, Constants DEF Placing, Places, step
  <1>4. /\ mCapacity[o] \in Nat /\ mSize[o] \in 0 .. mCapacity[o]
        /\ i \in 1 .. mCapacity[o] /\ b # nullptr
    BY <1>2, <1>3, BlockOf
  <1>5. /\ b \in Blocks /\ DOMAIN cells[b] = 1 .. mCapacity[o]
        /\ \A k \in 1 .. mCapacity[o] : /\ cells[b][k] \in Cell /\ (cells[b][k] # Raw <=> k <= mSize[o])
                                        /\ At(b, k) = cells[b][k]
    BY <1>2, <1>3, <1>4, BlockOf
  <1>6. \A q \in Owner : Whole(q)
    BY <1>1 DEF CellInv, Disturbed
  <1>7. v \in Values
    <2>1. CASE FreshArg(a)
      BY <1>2, <2>1 DEF FreshArg
    <2>2. CASE OldArg(o, a)
      <3>1. a.ref[1] = b /\ a.ref[2] \in 1 .. mSize[o] /\ a.ref # NoRef
        BY <1>2, <1>4, <2>2 DEF OldArg, NoRef
      <3>2. PICK k \in 1 .. mSize[o] : k = a.ref[2]
        BY <3>1
      <3>3. v = cells[b][k]
        BY <1>2, <1>4, <1>5, <3>1, <3>2
      <3> QED BY <1>2, <1>3, <1>4, <1>6, <3>3 DEF Whole, Valued
    <2> QED BY <1>3, <2>1, <2>2
  <1>8. /\ wild' = (wild \/ ~(/\ i \in 1 .. mCapacity[o] /\ At(b, i) = Raw
                              /\ v \notin {Raw, Moved}))
        /\ cells' = [cells EXCEPT ![b] = [k \in DOMAIN @ |-> IF k = i THEN v ELSE @[k]]]
        /\ mSize' = [mSize EXCEPT ![o] = i]
    BY <1>2 DEF place, Defined
  <1>9. ~wild'
    <2>1. At(b, i) = Raw
      BY <1>2, <1>4, <1>5
    <2> QED BY <1>4, <1>7, <1>8, <2>1, CellKinds DEF CellInv
  <1>10. PICK g : g = [k \in DOMAIN cells[b] |-> IF k = i THEN v ELSE cells[b][k]]
    OBVIOUS
  <1>11. Writes(o, g, i)
    <2>1. /\ DOMAIN g = 1 .. mCapacity[o] /\ g = [k \in DOMAIN g |-> g[k]]
          /\ \A k \in 1 .. mCapacity[o] : g[k] = IF k = i THEN v ELSE cells[b][k]
      BY <1>5, <1>10
    <2>2. \A k \in 1 .. mCapacity[o] : g[k] \in Cell /\ (g[k] # Raw <=> k <= i)
      <3>1. ASSUME NEW k \in 1 .. mCapacity[o], k # i PROVE k <= mSize[o] <=> k <= i
        BY <1>2, <1>4, <3>1
      <3> QED BY <1>4, <1>5, <1>7, <2>1, <3>1, CellKinds
    <2>3. cells' = [cells EXCEPT ![mArray[o]] = g]
      BY <1>2, <1>5, <1>8, <1>10 DEF CellInv, CellTypes
    <2>4. mSize'[o] = i /\ \A q \in Owner : q # o => mSize'[q] = mSize[q]
      BY <1>3, <1>8 DEF CellInv, CellTypes
    <2> QED BY <1>1, <1>2, <1>4, <2>1, <2>2, <2>3, <2>4 DEF Writes
  <1>12. /\ cells' \in [Blocks -> Seq(Cell)]
         /\ \A q \in Owner : Stored(q)' /\ (q # o /\ Whole(q) => Whole(q)')
         /\ (\A k \in 1 .. i : g[k] \in Values) => Whole(o)'
    BY <1>3, <1>11, BlockRewritten
  <1>13. \A k \in 1 .. i : g[k] \in Values
    <2>1. ASSUME NEW k \in 1 .. i PROVE k = i \/ k \in 1 .. mSize[o]
      BY <1>2, <1>4
    <2>2. \A k \in 1 .. i : k \in 1 .. mCapacity[o]
      BY <1>4
    <2> QED BY <1>2, <1>3, <1>4, <1>5, <1>6, <1>7, <1>10, <2>1, <2>2 DEF Whole, Valued
  <1>14. \A q \in Owner : Whole(q)'
    BY <1>6, <1>12, <1>13
  <1>15. CellTypes'
    <2>1. mSize' \in [Owner -> Nat]
      BY <1>3, <1>4, <1>8 DEF CellInv, CellTypes
    <2> QED BY <1>1, <1>12, <2>1 DEF CellInv, CellTypes
  <1>16. todo' = Tail(todo)
    BY <1>1, Done
  <1>17. todo' # <<>> => Appending(todo)'
    <2> SUFFICES ASSUME todo' # <<>> PROVE Appending(todo)'
      OBVIOUS
    <2>1. PICK s : s = Head(todo')
      OBVIOUS
    <2>2. /\ s.do = "append" /\ s.o = o /\ Tail(todo') = <<>> /\ IsSequence(s.args)
          /\ \A k \in 1 .. Len(s.args) :
               \/ FreshArg(s.args[k])
               \/ OldArg(o, s.args[k]) /\ mSize[o] + 1 + Len(s.args) <= mCapacity[o]
      BY <1>3, <1>16, <2>1 DEF Appends
    <2>3. mSize'[o] = mSize[o] + 1 /\ mSize'[o] = i
      BY <1>2, <1>3, <1>8 DEF CellInv, CellTypes
    <2>4. ASSUME NEW x, OldArg(o, x) PROVE OldArg(o, x)'
      <3>1. 1 .. mSize[o] \subseteq 1 .. i
        BY <1>2, <1>4
      <3> QED BY <1>1, <2>3, <2>4, <3>1 DEF OldArg
    <2>5. ASSUME mSize[o] + 1 + Len(s.args) <= mCapacity[o]
          PROVE  mSize'[o] + 0 + Len(s.args) <= mCapacity'[o]
      <3>1. mSize[o] + 1 + 0 + Len(s.args) = mSize[o] + 1 + Len(s.args)
        BY <1>4, <2>2 DEF IsSequence
      <3> QED BY <1>1, <2>3, <2>5, <3>1
    <2>6. \A k \in 1 .. Len(s.args) :
            \/ FreshArg(s.args[k])
            \/ OldArg(o, s.args[k])' /\ mSize'[o] + 0 + Len(s.args) <= mCapacity'[o]
      BY <2>2, <2>4, <2>5
    <2> QED BY <1>3, <2>1, <2>2, <2>6 DEF Appending, Appends, FreshArg
  <1> QED BY <1>9, <1>12, <1>14, <1>15, <1>17 DEF CellInv, Running

-----------------------------------------------------------------------------
(* The steps and the calls that only change the program.                    *)

LEMMA Single ==
  ASSUME NEW a
  PROVE  <<a>> # <<>> /\ Head(<<a>>) = a /\ Tail(<<a>>) = <<>> /\ IsSequence(<<a>>)
  <1>1. <<>> \in Seq({a}) /\ <<a>> \in Seq({a})
    OBVIOUS
  <1>2. IsSequence(<<>>) /\ <<a>> \o <<>> = <<a>>
    BY <1>1, ConcatEmptySeq DEF IsSequence
  <1> QED BY <1>2, PushOne

LEMMA NothingBehind ==
  ASSUME NEW p, IsSequence(p)
  PROVE  p \o <<>> = p
  BY ConcatEmptySeq DEF IsSequence

LEMMA ProgramChanges ==
  ASSUME CellInv, Inv', \A o \in Owner : Whole(o), UNCHANGED <<objVars, heapVars, ctorVars>>,
         mAdditive' = mAdditive, wild' = wild, threw' = threw, shown' = shown,
         todo' # <<>> => Running(todo)'
  PROVE  CellInv'
  <1>1. \A o \in Owner : Stored(o)' /\ Whole(o)'
    BY HeapStays DEF CellInv
  <1>2. CellTypes'
    BY HeapStays DEF CellInv, CellTypes
  <1> QED BY <1>1, <1>2 DEF CellInv

\* The program of reConstructAllocate, with what follows it.
LEMMA Builds ==
  ASSUME NEW o \in Owner, NEW n \in Nat, NEW src, NEW count \in 0 .. n, NEW r, IsSequence(r),
         todo' = reConstructAllocate(o, n, src, count) \o r, Follows(o, r, count, n),
         SourceOk([do |-> "construct", o |-> o, src |-> src, count |-> count])'
  PROVE  todo' # <<>> /\ Allocating(todo)'
  <1>1. PICK a, c, d : /\ a = [do |-> "allocate", n |-> n]
                       /\ c = [do |-> "construct", o |-> o, src |-> src, count |-> count]
                       /\ d = [do |-> "adopt", o |-> o, n |-> n, count |-> count]
    OBVIOUS
  <1>2. todo' = <<a, c, d>> \o r
    BY <1>1 DEF reConstructAllocate
  <1>10. /\ a.do = "allocate" /\ a.n = n
         /\ c.do = "construct" /\ c.o = o /\ c.count = count
         /\ d.do = "adopt" /\ d.o = o /\ d.n = n /\ d.count = count
    BY <1>1
  <1>11. SourceOk(c)'
    BY <1>1
  <1>3. PICK p, q : q = Tail(todo') /\ p = Tail(q)
    OBVIOUS
  <1>4. /\ todo' # <<>> /\ Head(todo') = a /\ q # <<>> /\ Head(q) = c
        /\ p # <<>> /\ Head(p) = d /\ Tail(p) = r
    <2>1. Starts(todo', a, c, d, r)
      BY <1>2, ThreeBefore
    <2> QED BY <1>3, <2>1 DEF Starts
  <1>7. Adopts(p)
    BY <1>4, <1>10 DEF Adopts
  <1>8. Constructs(q)'
    BY <1>3, <1>4, <1>7, <1>10, <1>11 DEF Constructs, Adopts
  <1>9. Constructs(Tail(todo))'
    BY <1>3, <1>8
  <1> QED BY <1>3, <1>4, <1>9, <1>10 DEF Allocating

\* A reallocation keeps what fits.
LEMMA Reallocates ==
  ASSUME CellInv, NEW o \in Objects, NEW n \in Nat, NEW r, IsSequence(r),
         todo' = setCapacity(o, n) \o r, Follows(o, r, core_min(mSize[o], n), n), mSize' = mSize
  PROVE  todo' # <<>> /\ Running(todo)'
  <1>1. PICK count : count = core_min(mSize[o], n)
    OBVIOUS
  <1>2. o \in Owner /\ mSize[o] \in Nat
    BY Constants DEF CellInv, CellTypes
  <1>3. count \in 0 .. n /\ count <= mSize[o]
    BY <1>1, <1>2 DEF core_min
  <1>4. SourceOk([do |-> "construct", o |-> o, src |-> FromOwn, count |-> count])'
    BY <1>3 DEF SourceOk, FromOwn
  <1>5. todo' = reConstructAllocate(o, n, FromOwn, count) \o r
    BY <1>1 DEF setCapacity
  <1> QED BY <1>1, <1>2, <1>3, <1>4, <1>5, Builds DEF Running

LEMMA LifetimesGrow ==
  ASSUME CellInv, Inv', grow
  PROVE  CellInv'
  <1>1. /\ todo # <<>> /\ step.do = "grow" /\ UNCHANGED <<objVars, heapVars, ctorVars>>
        /\ mAdditive' = mAdditive /\ wild' = wild /\ threw' = threw /\ shown' = shown
    BY DEF grow, Doing
  <1>2. PICK o, a : o = step.o /\ a = Head(Tail(todo)).arg
    OBVIOUS
  <1>3. o \in Objects /\ o \in Owner /\ Places(o, Tail(todo))
    BY <1>1, <1>2, WhatRuns, Constants DEF Growing, Places, step
  <1>4. /\ mArray' = mArray /\ mSize' = mSize /\ mCapacity' = mCapacity
    BY <1>1, HeapStays
  <1>5. mCapacity[o] \in Nat /\ mSize[o] \in 0 .. mCapacity[o] /\ mAdditive[o] \in Nat \ {0}
    BY <1>3, BlockOf DEF CellInv, CellTypes
  <1>6. todo' # <<>> => Running(todo)'
    <2>1. CASE mSize[o] # mCapacity[o]
      <3>1. todo' = Tail(todo)
        BY <1>1, <1>2, <2>1, Done DEF grow
      <3>2. mSize[o] < mCapacity[o]
        BY <1>5, <2>1
      <3>3. Places(o, todo')
        BY <1>3, <3>1
      <3>4. Places(o, todo)'
        BY <1>4, <3>3 DEF Places, Appends, OldArg, FreshArg
      <3>5. Placing(todo)'
        BY <1>4, <3>2, <3>3, <3>4 DEF Placing, Places
      <3> QED BY <3>5 DEF Running
    <2>2. CASE mSize[o] = mCapacity[o]
      <3>1. PICK n : n = growthFactor(mCapacity[o], mAdditive[o])
        OBVIOUS
      <3>2. todo' = setCapacity(o, n) \o Tail(todo)
        BY <1>1, <1>2, <2>2, <3>1 DEF grow, GoOn
      <3>3. n \in Nat /\ mSize[o] < n /\ core_min(mSize[o], n) = mSize[o]
        BY <1>5, <2>2, <3>1 DEF growthFactor, core_min
      <3>4. FreshArg(a) /\ AppendsFresh(o, Tail(Tail(todo)))
        <4>1. FreshArg(a)
          <5>1. FreshArg(a) \/ mSize[o] < mCapacity[o]
            BY <1>2, <1>3 DEF Places
          <5> QED BY <1>5, <2>2, <5>1
        <4>2. Appends(o, Tail(Tail(todo)), 1)
          BY <1>3 DEF Places
        <4>3. ASSUME NEW x, IsSequence(x) PROVE ~(mSize[o] + 1 + Len(x) <= mCapacity[o])
          BY <1>5, <2>2, <4>3 DEF IsSequence
        <4> QED BY <4>1, <4>2, <4>3 DEF Appends, AppendsFresh
      <3>5. Follows(o, Tail(todo), mSize[o], n)
        BY <1>2, <1>3, <3>3, <3>4, Constants DEF Follows, Places
      <3> QED BY <1>1, <1>3, <1>4, <3>2, <3>3, <3>5, Running1, Reallocates
    <2> QED BY <2>1, <2>2
  <1>7. \A q \in Owner : Whole(q)
    BY <1>1 DEF CellInv, Disturbed
  <1> QED BY <1>1, <1>6, <1>7, ProgramChanges

\* The program of emplace_back, with the appends that follow it.
LEMMA Grows ==
  ASSUME NEW o \in Objects, NEW a, NEW r, IsSequence(r), todo' = emplaceBack(o, a) \o r,
         \/ FreshArg(a)
         \/ OldArg(o, a)' /\ mSize'[o] < mCapacity'[o],
         Appends(o, r, 1)'
  PROVE  Running(todo)'
  <1>1. PICK g, p : g = [do |-> "grow", o |-> o] /\ p = [do |-> "place", o |-> o, arg |-> a]
    OBVIOUS
  <1>2. PICK q : q = <<p>> \o r
    OBVIOUS
  <1>3. todo' = <<g>> \o q
    <2>1. todo' = <<g, p>> \o r
      BY <1>1 DEF emplaceBack
    <2> QED BY <1>2, <2>1, PushTwo
  <1>8. g.do = "grow" /\ g.o = o /\ p.do = "place" /\ p.o = o /\ p.arg = a
    BY <1>1
  <1>4. Head(q) = p /\ Tail(q) = r /\ IsSequence(q)
    BY <1>2, PushOne
  <1>5. Head(todo') = g /\ Tail(todo') = q
    BY <1>3, <1>4, PushOne
  <1>6. Places(o, q)'
    BY <1>4, <1>8 DEF Places, FreshArg
  <1>7. Places(o, Tail(todo))'
    BY <1>5, <1>6
  <1> QED BY <1>5, <1>7, <1>8 DEF Running, Growing

LEMMA LifetimesAppend ==
  ASSUME CellInv, Inv', append
  PROVE  CellInv'
  <1>1. /\ todo # <<>> /\ step.do = "append" /\ UNCHANGED <<objVars, heapVars, ctorVars>>
        /\ mAdditive' = mAdditive /\ wild' = wild /\ threw' = threw /\ shown' = shown
    BY DEF append, Doing
  <1>2. PICK o, args : o = step.o /\ args = step.args
    OBVIOUS
  <1>3. /\ o \in Objects /\ o \in Owner /\ Tail(todo) = <<>> /\ IsSequence(args)
        /\ \A k \in 1 .. Len(args) :
             \/ FreshArg(args[k])
             \/ OldArg(o, args[k]) /\ mSize[o] + 0 + Len(args) <= mCapacity[o]
    BY <1>1, <1>2, WhatRuns, Constants DEF Appending, Appends, step
  <1>4. mArray' = mArray /\ mSize' = mSize /\ mCapacity' = mCapacity
    BY <1>1, HeapStays
  <1>5. mCapacity[o] \in Nat /\ mSize[o] \in 0 .. mCapacity[o]
    BY <1>3, BlockOf
  <1>6. todo' # <<>> => Running(todo)'
    <2>1. CASE args = <<>>
      BY <1>1, <1>2, <1>3, <2>1, Done DEF append
    <2>2. CASE args # <<>>
      <3>1. PICK a, rest : a = Head(args) /\ rest = Tail(args)
        OBVIOUS
      <3>2. /\ IsSequence(rest) /\ Len(args) \in Nat \ {0} /\ Len(rest) = Len(args) - 1
            /\ \A k \in 1 .. Len(rest) : rest[k] = args[k + 1]
            /\ a = args[1]
        BY <1>3, <2>2, <3>1, TailIs
      <3>3. PICK e : e = [do |-> "append", o |-> o, args |-> rest]
        OBVIOUS
      <3>4. todo' = emplaceBack(o, a) \o <<e>>
        <4>1. todo' = (emplaceBack(o, a) \o <<e>>) \o <<>>
          BY <1>2, <1>3, <2>2, <3>1, <3>3 DEF append, GoOn, emplaceAll
        <4>2. IsSequence(emplaceBack(o, a) \o <<e>>)
          BY Single, PushTwo DEF emplaceBack
        <4> QED BY <4>1, <4>2, NothingBehind
      <3>5. \/ FreshArg(a)
            \/ OldArg(o, a)' /\ mSize'[o] < mCapacity'[o]
        <4>1. 1 \in 1 .. Len(args)
          BY <3>2
        <4>2. \/ FreshArg(a)
              \/ OldArg(o, a) /\ mSize[o] + 0 + Len(args) <= mCapacity[o]
          BY <1>3, <3>2, <4>1
        <4>3. mSize[o] + 0 + Len(args) <= mCapacity[o] => mSize[o] < mCapacity[o]
          BY <1>5, <3>2
        <4> QED BY <1>4, <4>2, <4>3 DEF OldArg
      <3>6. Appends(o, <<e>>, 1)'
        <4>1. Head(<<e>>) = e /\ Tail(<<e>>) = <<>>
          BY Single
        <4>2. mSize[o] + 0 + Len(args) = mSize[o] + 1 + Len(rest)
          BY <1>5, <3>2
        <4>3. ASSUME NEW k \in 1 .. Len(rest)
              PROVE  \/ FreshArg(rest[k])
                     \/ OldArg(o, rest[k]) /\ mSize[o] + 1 + Len(rest) <= mCapacity[o]
          <5>1. k + 1 \in 1 .. Len(args) /\ rest[k] = args[k + 1]
            BY <3>2, <4>3
          <5> QED BY <1>3, <4>2, <5>1
        <4>4. e.do = "append" /\ e.o = o /\ e.args = rest
          BY <3>3
        <4> QED BY <1>3, <1>4, <3>2, <4>1, <4>3, <4>4 DEF Appends, OldArg, FreshArg
      <3> QED BY <1>3, <3>4, <3>5, <3>6, Single, Grows
    <2> QED BY <2>1, <2>2
  <1>7. \A q \in Owner : Whole(q)
    BY <1>1 DEF CellInv, Disturbed
  <1> QED BY <1>1, <1>6, <1>7, ProgramChanges

-----------------------------------------------------------------------------
(* The calls.                                                               *)

\* Between calls every object is whole, and a call changes the program only.
LEMMA BeginRuns ==
  ASSUME CellInv, Inv', NEW c, NEW p, Begin(c, p), p # <<>> => Running(todo)'
  PROVE  CellInv'
  <1>1. /\ call = NoCall /\ todo' = p /\ UNCHANGED <<objVars, heapVars, ctorVars>>
        /\ mAdditive' = mAdditive /\ wild' = wild /\ threw' = threw /\ shown' = shown
    BY DEF Begin
  <1>2. todo = <<>>
    BY <1>1 DEF CellInv, Inv, ProgramInv
  <1>3. \A o \in Owner : Whole(o)
    BY <1>2 DEF CellInv, Disturbed
  <1> QED BY <1>1, <1>3, ProgramChanges

\* What a call finds.
LEMMA BeforeCall ==
  ASSUME CellInv, NEW c, NEW p, Begin(c, p), NEW o \in Objects
  PROVE  /\ todo' = p /\ mArray' = mArray /\ mSize' = mSize /\ mCapacity' = mCapacity /\ cells' = cells
         /\ o \in Owner /\ mCapacity[o] \in Nat /\ mSize[o] \in 0 .. mCapacity[o]
         /\ mArray[o] = nullptr => mCapacity[o] = 0
         /\ mArray[o] # nullptr => Valued(mArray[o], 1, mSize[o])
  <1>1. call = NoCall /\ todo' = p /\ UNCHANGED <<objVars, heapVars, ctorVars>>
    BY DEF Begin
  <1>2. todo = <<>>
    BY <1>1 DEF CellInv, Inv, ProgramInv
  <1>3. o \in Owner /\ Whole(o)
    BY <1>2, Constants DEF CellInv, Disturbed
  <1> QED BY <1>1, <1>3, HeapStays, BlockOf DEF Whole

\* An element of o is an argument only where no reallocation comes first.
LEMMA ArgumentIs ==
  ASSUME ~OwnAtCapacity, CellInv, NEW o \in Objects, NEW r, NEW a \in Argument(o, r)
  PROVE  FreshArg(a) \/ (~r /\ OldArg(o, a))
  <1>1. CASE \E v \in Values : a = OwnValue(v)
    BY <1>1 DEF OwnValue, FreshArg
  <1>2. CASE ~r /\ \E k \in 1 .. mSize[o] : a = ElementOf(o, k)
    <2>1. PICK k \in 1 .. mSize[o] : a = ElementOf(o, k)
      BY <1>2
    <2>2. a.ref = <<mArray[o], k>>
      BY <2>1 DEF ElementOf
    <2>3. a.ref[1] = mArray[o] /\ a.ref[2] = k
      BY <2>2
    <2> QED BY <1>2, <2>1, <2>3 DEF OldArg
  <1> QED BY <1>1, <1>2 DEF Argument

LEMMA LifetimesPushBack ==
  ASSUME ~OwnAtCapacity, CellInv, Inv', NEW o \in Objects, push_back(o)
  PROVE  CellInv'
  <1>1. PICK a, c : a \in Argument(o, mSize[o] = mCapacity[o]) /\ Begin(c, emplaceBack(o, a))
    BY DEF push_back
  <1>2. FreshArg(a) \/ (mSize[o] # mCapacity[o] /\ OldArg(o, a))
    BY <1>1, ArgumentIs
  <1>3. /\ todo' = emplaceBack(o, a) /\ mArray' = mArray /\ mSize' = mSize /\ mCapacity' = mCapacity
        /\ mCapacity[o] \in Nat /\ mSize[o] \in 0 .. mCapacity[o]
    BY <1>1, BeforeCall
  <1>4. todo' = emplaceBack(o, a) \o <<>> /\ IsSequence(<<>>)
    <2>1. IsSequence(<<>>)
      BY EmptyProgram DEF OwnProgram
    <2>2. PICK g, p : emplaceBack(o, a) = <<g, p>>
      BY DEF emplaceBack
    <2>3. <<g, p>> \in Seq({g, p})
      OBVIOUS
    <2>4. IsSequence(emplaceBack(o, a))
      BY <2>2, <2>3 DEF IsSequence
    <2> QED BY <1>3, <2>1, <2>4, NothingBehind
  <1>5. \/ FreshArg(a)
        \/ OldArg(o, a)' /\ mSize'[o] < mCapacity'[o]
    BY <1>2, <1>3 DEF OldArg
  <1>6. Appends(o, <<>>, 1)'
    BY DEF Appends
  <1>7. Running(todo)'
    BY <1>4, <1>5, <1>6, Grows
  <1> QED BY <1>1, <1>7, BeginRuns

\* The arguments of a loop of appends.
LEMMA LoopOf ==
  ASSUME NEW o \in Objects, NEW args, IsSequence(args),
         \A k \in 1 .. Len(args) :
           \/ FreshArg(args[k])
           \/ OldArg(o, args[k]) /\ mSize[o] + 0 + Len(args) <= mCapacity[o]
  PROVE  /\ Appending(emplaceAll(o, args))
         /\ (\A k \in 1 .. Len(args) : FreshArg(args[k])) => AppendsFresh(o, emplaceAll(o, args))
  <1>1. PICK e : e = [do |-> "append", o |-> o, args |-> args]
    OBVIOUS
  <1>2. emplaceAll(o, args) = <<e>> /\ e.do = "append" /\ e.o = o /\ e.args = args
    BY <1>1 DEF emplaceAll
  <1>3. Head(<<e>>) = e /\ Tail(<<e>>) = <<>>
    BY Single
  <1> QED BY <1>2, <1>3 DEF Appending, Appends, AppendsFresh

\* What a loop of appends may do does not change when the call begins.
LEMMA LoopBegins ==
  ASSUME Appending(todo'), mArray' = mArray, mSize' = mSize, mCapacity' = mCapacity
  PROVE  Running(todo)'
  <1>1. Appending(todo)'
    BY DEF Appending, Appends, OldArg, FreshArg
  <1> QED BY <1>1 DEF Running

LEMMA LifetimesInsertBack ==
  ASSUME CellInv, Inv', NEW o \in Objects, insert_back(o)
  PROVE  CellInv'
  <1>1. PICK s, c :
          s \in Lists(MaxSize - mSize[o]) /\ Begin(c, emplaceAll(o, [k \in DOMAIN s |-> OwnValue(s[k])]))
    BY DEF insert_back
  <1>2. PICK args : args = [k \in DOMAIN s |-> OwnValue(s[k])]
    OBVIOUS
  <1>3. PICK n \in 0 .. MaxSize - mSize[o] : s \in [1 .. n -> Values]
    BY <1>1 DEF Lists
  <1>4. n \in Nat
    BY <1>3
  <1>5. args \in Seq({OwnValue(v) : v \in Values}) /\ Len(args) = n
    BY <1>2, <1>3, <1>4
  <1>6. \A k \in 1 .. Len(args) : FreshArg(args[k])
    BY <1>2, <1>3, <1>5 DEF FreshArg, OwnValue
  <1>7. IsSequence(args)
    BY <1>5 DEF IsSequence
  <1>8. todo' = emplaceAll(o, args)
    BY <1>1, <1>2, BeforeCall
  <1>9. Appending(todo')
    BY <1>6, <1>7, <1>8, LoopOf
  <1>10. Running(todo)'
    BY <1>1, <1>9, BeforeCall, LoopBegins
  <1> QED BY <1>1, <1>10, BeginRuns

\* The objects that erase has moved down, or that clear leaves, are destroyed.
LEMMA Shortens ==
  ASSUME CellInv, NEW c, NEW o \in Objects, NEW n \in 0 .. mSize[o], Begin(c, truncate(o, n))
  PROVE  Running(todo)'
  <1>1. PICK s : s = [do |-> "truncate", o |-> o, n |-> n]
    OBVIOUS
  <1>2. s.do = "truncate" /\ s.o = o /\ s.n = n
    BY <1>1
  <1>3. /\ todo' = truncate(o, n)
        /\ mArray' = mArray /\ mSize' = mSize /\ cells' = cells /\ mSize[o] \in Nat
        /\ mArray[o] # nullptr => Valued(mArray[o], 1, mSize[o])
    BY BeforeCall
  <1>4. todo' # <<>> /\ Head(todo') = s /\ Tail(todo') = <<>>
    BY <1>1, <1>3, Single DEF truncate
  <1>5. 1 .. mSize[o] - n \subseteq 1 .. mSize[o]
    BY <1>3
  <1>6. Truncating(todo)'
    BY <1>2, <1>3, <1>4, <1>5 DEF Truncating, Truncates, Valued
  <1> QED BY <1>6 DEF Running

LEMMA Erases ==
  ASSUME CellInv, NEW c, NEW o \in Objects, NEW first \in 0 .. mSize[o], NEW last \in 0 .. mSize[o],
         first < last, NEW p, Begin(c, p)
  PROVE  /\ p = eraseRange(o, first, last) => Running(todo)'
         /\ p = swapErase(o, first, last) => Running(todo)'
  <1>1. /\ todo' = p /\ mArray' = mArray /\ mSize' = mSize /\ mCapacity' = mCapacity /\ cells' = cells
        /\ o \in Owner /\ mSize[o] \in 0 .. mCapacity[o] /\ mCapacity[o] \in Nat
        /\ mArray[o] = nullptr => mCapacity[o] = 0
        /\ mArray[o] # nullptr => Valued(mArray[o], 1, mSize[o])
    BY BeforeCall
  <1>2. Valued(mArray[o], 1, mSize[o])
    <2>1. mCapacity[o] # 0
      BY <1>1
    <2> QED BY <1>1, <2>1
  <1>3. PICK n, t : n = last - first /\ t = [do |-> "truncate", o |-> o, n |-> n]
    OBVIOUS
  <1>4. n \in 1 .. mSize[o] /\ mSize[o] \in Nat /\ first \in Nat /\ last \in Nat /\ first + n <= mSize[o]
    BY <1>1, <1>3
  <1>5. IsSequence(<<t>>) /\ Truncates(o, <<t>>, n) /\ truncate(o, n) = <<t>> /\ Head(<<t>>).n = n
    <2>1. t.do = "truncate" /\ t.o = o /\ t.n = n
      BY <1>3
    <2>2. <<t>> # <<>> /\ Head(<<t>>) = t /\ Tail(<<t>>) = <<>> /\ IsSequence(<<t>>)
      BY Single
    <2> QED BY <1>3, <2>1, <2>2 DEF Truncates, truncate
  <1>6. ASSUME p = eraseRange(o, first, last) PROVE Running(todo)'
    <2>1. PICK s : s = [do |-> "shift", o |-> o, to |-> first, from |-> last]
      OBVIOUS
    <2>2. todo' = <<s>> \o <<t>>
      <3>1. p = << [do |-> "shift", o |-> o, to |-> first, from |-> last] >> \o truncate(o, last - first)
        BY <1>4, <1>6 DEF eraseRange
      <3>2. p = <<s>> \o truncate(o, n)
        BY <1>3, <2>1, <3>1
      <3> QED BY <1>1, <1>5, <3>2
    <2>3. Head(todo') = s /\ Tail(todo') = <<t>>
      BY <1>5, <2>2, PushOne
    <2>4. /\ Head(todo').do = "shift" /\ Head(todo').o = o /\ Head(todo').to = first
          /\ Head(todo').from = last
          /\ Head(todo') = [do |-> "shift", o |-> o, to |-> first, from |-> last]
      BY <2>1, <2>3
    <2>5. Valued(mArray[o], 1, first)' /\ Valued(mArray[o], last + 1, mSize[o])'
      <3>1. 1 .. first \subseteq 1 .. mSize[o] /\ last + 1 .. mSize[o] \subseteq 1 .. mSize[o]
        BY <1>4
      <3> QED BY <1>1, <1>2, <3>1 DEF Valued
    <2>6. Truncates(o, Tail(todo'), last - first)
      BY <1>3, <1>5, <2>3
    <2>7. Shifting(todo)'
      BY <1>1, <1>4, <2>4, <2>5, <2>6 DEF Shifting
    <2> QED BY <2>7 DEF Running
  <1>7. ASSUME p = swapErase(o, first, last) PROVE Running(todo)'
    <2>1. PICK f, s : /\ f = mSize[o] - 1
                      /\ s = [do |-> "refill", o |-> o, to |-> first, from |-> f, left |-> n]
      OBVIOUS
    <2>2. todo' = <<s>> \o <<t>>
      <3>1. p = << [do |-> "refill", o |-> o, to |-> first, from |-> mSize[o] - 1, left |-> last - first] >>
                \o truncate(o, last - first)
        BY <1>4, <1>7 DEF swapErase
      <3>2. p = <<s>> \o truncate(o, n)
        BY <1>3, <2>1, <3>1
      <3> QED BY <1>1, <1>5, <3>2
    <2>3. Head(todo') = s /\ Tail(todo') = <<t>>
      BY <1>5, <2>2, PushOne
    <2>4. /\ Head(todo').do = "refill" /\ Head(todo').o = o /\ Head(todo').to = first
          /\ Head(todo').from = f /\ Head(todo').left = n
          /\ Head(todo') = [do |-> "refill", o |-> o, to |-> first, from |-> f, left |-> n]
      BY <2>1, <2>3
    <2>5. Valued(mArray[o], first + 1, f + 1)'
      <3>1. first + 1 .. f + 1 \subseteq 1 .. mSize[o]
        BY <1>4, <2>1
      <3> QED BY <1>1, <1>2, <3>1 DEF Valued
    <2>6. \A k \in 1 .. first : k <= mSize'[o] - n => cells'[mArray'[o]][k] \in Values
      <3>1. 1 .. first \subseteq 1 .. mSize[o]
        BY <1>4
      <3> QED BY <1>1, <1>2, <3>1 DEF Valued
    <2>7. Truncates(o, Tail(todo'), n) /\ Head(Tail(todo')).n = n
      BY <1>5, <2>3
    <2>8. n \in Nat /\ n <= n /\ f = (mSize[o] - 1) - (n - n)
      BY <1>4, <2>1
    <2>9. Refilling(todo)'
      BY <1>1, <1>4, <2>4, <2>5, <2>6, <2>7, <2>8 DEF Refilling
    <2> QED BY <2>9 DEF Running
  <1> QED BY <1>6, <1>7

LEMMA LifetimesErase ==
  ASSUME CellInv, Inv', NEW o \in Objects,
         pop_back(o) \/ erase(o) \/ swap_with_last_erase(o) \/ clear(o)
  PROVE  CellInv'
  <1>1. ASSUME NEW c, NEW first \in 0 .. mSize[o], NEW last \in 0 .. mSize[o], first <= last, NEW p,
               Begin(c, p), p = eraseRange(o, first, last) \/ p = swapErase(o, first, last)
        PROVE  CellInv'
    <2>1. CASE first = last
      <3>1. p = <<>>
        BY <1>1, <2>1 DEF eraseRange, swapErase
      <3> QED BY <1>1, <3>1, BeginRuns
    <2>2. CASE first # last
      <3>1. first < last
        BY <1>1, <2>2, BeforeCall
      <3>2. Running(todo)'
        BY <1>1, <3>1, Erases
      <3> QED BY <1>1, <3>2, BeginRuns
    <2> QED BY <2>1, <2>2
  <1>2. mSize[o] \in Nat
    BY Constants, BlockOf
  <1>3. ASSUME pop_back(o) PROVE CellInv'
    <2>1. mSize[o] - 1 \in 0 .. mSize[o] /\ mSize[o] \in 0 .. mSize[o] /\ mSize[o] - 1 <= mSize[o]
      BY <1>2, <1>3 DEF pop_back
    <2> QED BY <1>1, <1>3, <2>1 DEF pop_back
  <1>4. ASSUME erase(o) PROVE CellInv'
    BY <1>1, <1>4 DEF erase
  <1>5. ASSUME swap_with_last_erase(o) PROVE CellInv'
    BY <1>1, <1>5 DEF swap_with_last_erase
  <1>6. ASSUME clear(o) PROVE CellInv'
    <2>1. PICK c : Begin(c, truncate(o, mSize[o]))
      BY <1>6 DEF clear
    <2>2. mSize[o] \in 0 .. mSize[o]
      BY <1>2
    <2>3. Running(todo)'
      BY <2>1, <2>2, Shortens
    <2> QED BY <2>1, <2>3, BeginRuns
  <1> QED BY <1>3, <1>4, <1>5, <1>6

\* set_capacity and shrink_to_fit.
LEMMA LifetimesSetCapacity ==
  ASSUME CellInv, Inv', NEW o \in Objects, set_capacity(o) \/ shrink_to_fit(o)
  PROVE  CellInv'
  <1>0. mSize[o] \in Nat /\ 0 .. MaxSize \subseteq Nat
    BY Constants, BlockOf, BoundAssumption
  <1>1. PICK n, c : n \in Nat /\ Begin(c, setCapacity(o, n))
    <2>1. CASE set_capacity(o)
      BY <1>0, <2>1 DEF set_capacity
    <2>2. CASE shrink_to_fit(o)
      BY <1>0, <2>2 DEF shrink_to_fit
    <2> QED BY <2>1, <2>2
  <1>2. todo' = setCapacity(o, n) /\ mSize' = mSize
    BY <1>1, BeforeCall
  <1>3. IsSequence(<<>>) /\ IsSequence(setCapacity(o, n))
    BY EmptyProgram, CapacityProgram DEF OwnProgram
  <1>4. todo' = setCapacity(o, n) \o <<>>
    BY <1>2, <1>3, NothingBehind
  <1>5. Follows(o, <<>>, core_min(mSize[o], n), n)
    BY Constants DEF Follows, AppendsFresh
  <1>6. Running(todo)'
    BY <1>1, <1>2, <1>3, <1>4, <1>5, Reallocates
  <1> QED BY <1>1, <1>6, BeginRuns

LEMMA LifetimesResize ==
  ASSUME ~OwnAtCapacity, CellInv, Inv', NEW o \in Objects, resize(o)
  PROVE  CellInv'
  <1>0. PICK n \in 0 .. MaxSize : \E a \in Argument(o, n > mCapacity[o]) :
          Begin([op |-> "resize", o |-> o, n |-> n, arg |-> a],
                IF n < mSize[o] THEN eraseRange(o, n, mSize[o])
                ELSE (IF n > mCapacity[o] THEN setCapacity(o, n) ELSE <<>>)
                     \o emplaceAll(o, [k \in 1 .. n - mSize[o] |-> a]))
    BY DEF resize
  <1>1. PICK a, c, p :
          /\ a \in Argument(o, n > mCapacity[o]) /\ Begin(c, p)
          /\ p = IF n < mSize[o] THEN eraseRange(o, n, mSize[o])
                 ELSE (IF n > mCapacity[o] THEN setCapacity(o, n) ELSE <<>>)
                      \o emplaceAll(o, [k \in 1 .. n - mSize[o] |-> a])
    BY <1>0
  <1>2. FreshArg(a) \/ (~(n > mCapacity[o]) /\ OldArg(o, a))
    BY <1>1, ArgumentIs
  <1>3. /\ todo' = p /\ mArray' = mArray /\ mSize' = mSize /\ mCapacity' = mCapacity
        /\ mCapacity[o] \in Nat /\ mSize[o] \in 0 .. mCapacity[o] /\ n \in Nat
    <2>1. n \in Nat
      BY BoundAssumption
    <2>2. Begin(c, p)
      BY <1>1
    <2> QED BY <2>1, <2>2, BeforeCall
  <1>4. CASE n < mSize[o]
    <2>1. n \in 0 .. mSize[o] /\ mSize[o] \in 0 .. mSize[o]
      BY <1>3, <1>4
    <2>2. Running(todo)'
      BY <1>1, <1>4, <2>1, Erases
    <2> QED BY <1>1, <2>2, BeginRuns
  <1>5. CASE ~(n < mSize[o])
    <2>1. PICK m, args : m = n - mSize[o] /\ args = [k \in 1 .. m |-> a]
      OBVIOUS
    <2>2. m \in Nat /\ mSize[o] + 0 + m = n
      BY <1>3, <1>5, <2>1
    <2>3. args \in Seq({a}) /\ Len(args) = m /\ \A k \in 1 .. m : args[k] = a
      BY <2>1, <2>2
    <2>4. IsSequence(args)
      BY <2>3 DEF IsSequence
    <2>5. IsSequence(emplaceAll(o, args)) /\ IsSequence(setCapacity(o, n))
      BY AppendPrograms, CapacityProgram DEF OwnProgram
    <2>6. CASE n > mCapacity[o]
      <3>1. FreshArg(a)
        BY <1>2, <2>6
      <3>2. todo' = setCapacity(o, n) \o emplaceAll(o, args)
        BY <1>1, <1>3, <1>5, <2>1, <2>6
      <3>3. AppendsFresh(o, emplaceAll(o, args))
        BY <2>3, <2>4, <3>1, LoopOf
      <3>4. Follows(o, emplaceAll(o, args), core_min(mSize[o], n), n)
        BY <3>3, Constants DEF Follows
      <3>5. Running(todo)'
        BY <1>3, <2>5, <3>2, <3>4, Reallocates
      <3> QED BY <1>1, <3>5, BeginRuns
    <2>7. CASE ~(n > mCapacity[o])
      <3>1. mSize[o] + 0 + Len(args) <= mCapacity[o]
        BY <1>3, <2>2, <2>3, <2>7
      <3>2. \A k \in 1 .. Len(args) :
              \/ FreshArg(args[k])
              \/ OldArg(o, args[k]) /\ mSize[o] + 0 + Len(args) <= mCapacity[o]
        BY <1>2, <2>3, <3>1
      <3>3. Appending(emplaceAll(o, args))
        BY <2>4, <3>2, LoopOf
      <3>4. todo' = emplaceAll(o, args)
        <4>1. p = <<>> \o emplaceAll(o, args)
          BY <1>1, <1>5, <2>1, <2>7
        <4>2. PICK S : emplaceAll(o, args) \in Seq(S)
          BY <2>5 DEF IsSequence
        <4> QED BY <1>3, <4>1, <4>2, ConcatEmptySeq
      <3>5. Running(todo)'
        BY <1>3, <3>3, <3>4, LoopBegins
      <3> QED BY <1>1, <3>5, BeginRuns
    <2> QED BY <2>6, <2>7
  <1> QED BY <1>4, <1>5

\* wipe, and swap with another object.
LEMMA LifetimesWipe ==
  ASSUME CellInv, Inv', NEW o \in Objects, wipe(o)
  PROVE  CellInv'
  <1>1. PICK p, c : Begin(c, p) /\ (p = <<>> \/ p = << [do |-> "destroy", o |-> o] >>)
    BY DEF wipe
  <1>2. ASSUME p # <<>> PROVE Running(todo)'
    <2>1. PICK d : d = [do |-> "destroy", o |-> o]
      OBVIOUS
    <2>2. d.do = "destroy" /\ d.o = o /\ todo' = <<d>>
      BY <1>1, <1>2, <2>1, BeforeCall
    <2>3. Head(todo') = d /\ Tail(todo') = <<>>
      BY <2>2, Single
    <2> QED BY <2>2, <2>3, Constants DEF Running, Destroying
  <1> QED BY <1>1, <1>2, BeginRuns

LEMMA LifetimesSwapCall ==
  ASSUME CellInv, Inv', NEW o \in Objects, NEW q \in Objects, swap(o, q)
  PROVE  CellInv'
  <1>1. PICK c, d : d = [do |-> "swap", o |-> o, p |-> q] /\ Begin(c, <<d>>)
    BY DEF swap
  <1>2. d.do = "swap" /\ d.o = o /\ d.p = q /\ todo' = <<d>>
    BY <1>1, BeforeCall
  <1>3. Head(todo') = d /\ Tail(todo') = <<>>
    BY <1>2, Single
  <1>4. Running(todo)'
    BY <1>2, <1>3 DEF Running, Swapping
  <1> QED BY <1>1, <1>4, BeginRuns

\* The end of an assignment.
LEMMA Assigns ==
  ASSUME NEW o \in Objects, NEW s, NEW e,
         s = [do |-> "swap", o |-> o, p |-> "t"], e = [do |-> "destroy", o |-> "t"]
  PROVE  Swaps(<<s, e>>) /\ IsSequence(<<s, e>>)
  <1>1. s.do = "swap" /\ s.o = o /\ s.p = "t" /\ e.do = "destroy" /\ e.o = "t"
    OBVIOUS
  <1>2. <<s>> \o <<e>> = <<s, e>>
    BY OneAndOne
  <1>3. IsSequence(<<e>>) /\ Head(<<e>>) = e /\ Tail(<<e>>) = <<>>
    BY Single
  <1>4. Head(<<s, e>>) = s /\ Tail(<<s, e>>) = <<e>> /\ IsSequence(<<s, e>>)
    BY <1>2, <1>3, PushOne
  <1> QED BY <1>1, <1>3, <1>4 DEF Swaps, Destroys

LEMMA LifetimesAssign ==
  ASSUME CellInv, Inv', NEW o \in Objects, NEW c, NEW src, NEW n \in Nat,
         Begin(c, viaTemporary(o, constructTemporary(src, n))),
         \/ src.kind = "copy" /\ src.p \in Objects /\ n = mSize[src.p]
         \/ src.kind = "list" /\ src.s \in Seq(Values) /\ n = Len(src.s)
  PROVE  CellInv'
  <1>1. PICK s, e : s = [do |-> "swap", o |-> o, p |-> "t"] /\ e = [do |-> "destroy", o |-> "t"]
    OBVIOUS
  <1>2. Swaps(<<s, e>>) /\ IsSequence(<<s, e>>)
    BY <1>1, Assigns
  <1>3. /\ todo' = viaTemporary(o, constructTemporary(src, n)) /\ mSize' = mSize
    BY BeforeCall
  <1>4. todo' = constructTemporary(src, n) \o <<s, e>>
    BY <1>1, <1>3 DEF viaTemporary
  <1>5. CASE n = 0
    <2>1. todo' = <<>> \o <<s, e>>
      BY <1>4, <1>5 DEF constructTemporary
    <2>2. PICK S : <<s, e>> \in Seq(S)
      BY <1>2 DEF IsSequence
    <2>3. todo' = <<s, e>>
      BY <2>1, <2>2, ConcatEmptySeq
    <2>4. Swapping(todo)'
      BY <1>2, <2>3 DEF Swapping, Swaps, Destroys
    <2>5. Running(todo)'
      BY <2>4 DEF Running
    <2> QED BY <1>3, <2>5, BeginRuns
  <1>6. CASE n # 0
    <2>1. todo' = reConstructAllocate("t", n, src, n) \o <<s, e>>
      BY <1>4, <1>6 DEF constructTemporary
    <2>2. SourceOk([do |-> "construct", o |-> "t", src |-> src, count |-> n])'
      BY <1>3 DEF SourceOk
    <2>3. Follows("t", <<s, e>>, n, n)
      BY <1>2 DEF Follows
    <2>4. "t" \in Owner /\ n \in 0 .. n
      BY Constants
    <2>5. Allocating(todo)'
      BY <1>2, <2>1, <2>2, <2>3, <2>4, Builds
    <2>6. Running(todo)'
      BY <2>5 DEF Running
    <2> QED BY <2>6, BeginRuns
  <1> QED BY <1>5, <1>6

LEMMA LifetimesAssignments ==
  ASSUME CellInv, Inv', NEW o \in Objects,
         assign_list(o) \/ \E q \in Objects : copy_assign(o, q) \/ move_assign(o, q)
  PROVE  CellInv'
  <1>1. ASSUME assign_list(o) PROVE CellInv'
    <2>1. PICK l, c : l \in Lists(MaxSize) /\ Begin(c, viaTemporary(o, constructTemporary(FromList(l), Len(l))))
      BY <1>1 DEF assign_list
    <2>2. PICK k \in 0 .. MaxSize : l \in [1 .. k -> Values]
      BY <2>1 DEF Lists
    <2>3. l \in Seq(Values) /\ Len(l) \in Nat
      BY <2>2, BoundAssumption
    <2>4. FromList(l).kind = "list" /\ FromList(l).s = l
      BY DEF FromList
    <2> QED BY <2>1, <2>3, <2>4, LifetimesAssign
  <1>2. ASSUME NEW q \in Objects, copy_assign(o, q) PROVE CellInv'
    <2>1. PICK c : Begin(c, viaTemporary(o, constructTemporary(FromCopyOf(q), mSize[q])))
      BY <1>2 DEF copy_assign
    <2>2. mSize[q] \in Nat
      BY Constants, BlockOf
    <2>3. FromCopyOf(q).kind = "copy" /\ FromCopyOf(q).p = q
      BY DEF FromCopyOf
    <2> QED BY <2>1, <2>2, <2>3, LifetimesAssign
  <1>3. ASSUME NEW q \in Objects, move_assign(o, q) PROVE CellInv'
    <2>1. PICK s, e, d : /\ s = [do |-> "swap", o |-> o, p |-> "t"] /\ e = [do |-> "destroy", o |-> "t"]
                         /\ d = [do |-> "take", o |-> "t", p |-> q]
      OBVIOUS
    <2>2. PICK c : Begin(c, viaTemporary(o, <<d>>))
      BY <1>3, <2>1 DEF move_assign
    <2>3. Swaps(<<s, e>>) /\ IsSequence(<<s, e>>)
      BY <2>1, Assigns
    <2>4. d.do = "take" /\ d.o = "t" /\ d.p = q
      BY <2>1
    <2>5. todo' = <<d>> \o <<s, e>>
      <3>1. viaTemporary(o, <<d>>) = <<d>> \o <<s, e>>
        BY <2>1 DEF viaTemporary
      <3> QED BY <2>2, <3>1, BeforeCall
    <2>6. Head(todo') = d /\ Tail(todo') = <<s, e>>
      BY <2>3, <2>5, PushOne
    <2>7. Taking(todo)'
      BY <2>3, <2>4, <2>6 DEF Taking, Swaps, Destroys
    <2>8. Running(todo)'
      BY <2>7 DEF Running
    <2> QED BY <2>2, <2>8, BeginRuns
  <1> QED BY <1>1, <1>2, <1>3

-----------------------------------------------------------------------------
(* The steps that give a block to another Sequence, or free it.             *)

\* A Sequence that takes over the members of another has its elements.
LEMMA Inherits ==
  ASSUME NEW q \in Owner, NEW r \in Owner, cells' = cells,
         mArray'[q] = mArray[r], mSize'[q] = mSize[r], mCapacity'[q] = mCapacity[r]
  PROVE  (Stored(r) => Stored(q)') /\ (Whole(r) => Whole(q)')
  BY DEF Stored, Whole, BuiltUpTo, Valued

LEMMA LifetimesSwapStep ==
  ASSUME CellInv, Inv', swapStep
  PROVE  CellInv'
  <1>1. /\ todo # <<>> /\ step.do = "swap" /\ GoOn(<<>>) /\ cells' = cells
        /\ built' = built /\ threw' = threw /\ shown' = shown /\ wild' = wild
    BY DEF swapStep, Doing, heapVars, ctorVars
  <1>2. PICK o, p : o = step.o /\ p = step.p
    OBVIOUS
  <1>3. Swapping(todo) /\ todo' = Tail(todo)
    BY <1>1, WhatRuns, Done
  <1>4. o \in Owner /\ p \in Owner /\ (todo' # <<>> => Destroys(todo'))
    BY <1>2, <1>3, Constants DEF Swapping, Swaps, step
  <1>5. /\ mArray' = [mArray EXCEPT ![o] = mArray[p], ![p] = mArray[o]]
        /\ mSize' = [mSize EXCEPT ![o] = mSize[p], ![p] = mSize[o]]
        /\ mCapacity' = [mCapacity EXCEPT ![o] = mCapacity[p], ![p] = mCapacity[o]]
        /\ mAdditive' = [mAdditive EXCEPT ![o] = mAdditive[p], ![p] = mAdditive[o]]
    BY <1>2 DEF swapStep
  <1>6. CellTypes'
    BY <1>1, <1>4, <1>5 DEF CellInv, CellTypes
  <1>7. \A q \in Owner : Whole(q)
    BY <1>1 DEF CellInv, Disturbed
  <1>8. ASSUME NEW q \in Owner PROVE Stored(q)' /\ Whole(q)'
    <2>1. PICK r \in Owner : r = IF q = p THEN o ELSE IF q = o THEN p ELSE q
      BY <1>4
    <2>2. mArray'[q] = mArray[r] /\ mSize'[q] = mSize[r] /\ mCapacity'[q] = mCapacity[r]
      BY <1>4, <1>5, <2>1 DEF CellInv, CellTypes, Inv, Typed
    <2>3. (Stored(r) => Stored(q)') /\ (Whole(r) => Whole(q)')
      BY <1>1, <2>2, Inherits
    <2> QED BY <1>7, <2>3 DEF CellInv
  <1>9. todo' # <<>> => Running(todo)'
    <2> SUFFICES ASSUME todo' # <<>> PROVE Destroying(todo)'
      BY DEF Running
    <2> QED BY <1>4, Constants DEF Destroys, Destroying
  <1> QED BY <1>1, <1>6, <1>8, <1>9 DEF CellInv

LEMMA LifetimesTake ==
  ASSUME CellInv, Inv', take
  PROVE  CellInv'
  <1>1. /\ todo # <<>> /\ step.do = "take" /\ GoOn(<<>>) /\ cells' = cells
        /\ built' = built /\ threw' = threw /\ shown' = shown /\ wild' = wild
    BY DEF take, Doing, heapVars, ctorVars
  <1>2. PICK o, p : o = step.o /\ p = step.p
    OBVIOUS
  <1>3. Taking(todo) /\ todo' = Tail(todo)
    BY <1>1, WhatRuns, Done
  <1>4. o \in Owner /\ p \in Owner /\ o # p /\ Swaps(todo')
    BY <1>2, <1>3, Constants DEF Taking, step
  <1>5. /\ mArray' = [mArray EXCEPT ![o] = mArray[p], ![p] = nullptr]
        /\ mSize' = [mSize EXCEPT ![o] = mSize[p], ![p] = 0]
        /\ mCapacity' = [mCapacity EXCEPT ![o] = mCapacity[p], ![p] = 0]
        /\ mAdditive' = [mAdditive EXCEPT ![o] = mAdditive[p], ![p] = 1]
    BY <1>2 DEF take
  <1>6. CellTypes'
    <2>1. /\ mSize \in [Owner -> Nat] /\ mCapacity \in [Owner -> Nat]
          /\ mAdditive \in [Owner -> Nat \ {0}] /\ 1 \in Nat \ {0}
      BY DEF CellInv, CellTypes
    <2>2. mSize' \in [Owner -> Nat] /\ mCapacity' \in [Owner -> Nat]
      BY <1>4, <1>5, <2>1
    <2>3. mAdditive' \in [Owner -> Nat \ {0}]
      BY <1>4, <1>5, <2>1
    <2> QED BY <1>1, <2>2, <2>3 DEF CellInv, CellTypes
  <1>7. \A q \in Owner : Whole(q)
    BY <1>1 DEF CellInv, Disturbed
  <1>8. Stored(p)' /\ Whole(p)'
    <2>1. mArray'[p] = nullptr /\ mSize'[p] = 0 /\ mCapacity'[p] = 0
      BY <1>4, <1>5 DEF CellInv, CellTypes, Inv, Typed
    <2> QED BY <2>1 DEF Stored, Whole
  <1>9. ASSUME NEW q \in Owner, q # p PROVE Stored(q)' /\ Whole(q)'
    <2>1. PICK r \in Owner : r = IF q = o THEN p ELSE q
      BY <1>4
    <2>2. mArray'[q] = mArray[r] /\ mSize'[q] = mSize[r] /\ mCapacity'[q] = mCapacity[r]
      BY <1>4, <1>5, <1>9, <2>1 DEF CellInv, CellTypes, Inv, Typed
    <2>3. (Stored(r) => Stored(q)') /\ (Whole(r) => Whole(q)')
      BY <1>1, <2>2, Inherits
    <2> QED BY <1>7, <2>3 DEF CellInv
  <1>10. Running(todo)'
    BY <1>4 DEF Running, Swapping, Swaps, Destroys
  <1> QED BY <1>1, <1>6, <1>8, <1>9, <1>10 DEF CellInv

\* The objects of o can be destroyed, and its block emptied.
LEMMA BlockFreed ==
  ASSUME CellInv, NEW o \in Owner, mArray[o] # nullptr, cells' = [cells EXCEPT ![mArray[o]] = <<>>]
  PROVE  /\ AllBuilt(mArray[o], 1, mSize[o]) /\ cells' \in [Blocks -> Seq(Cell)]
         /\ \A q \in Owner : q # o /\ mArray[q] # nullptr => cells'[mArray[q]] = cells[mArray[q]]
         /\ destination # nullptr => cells'[destination] = cells[destination]
  <1>1. mCapacity[o] \in Nat /\ mSize[o] \in 0 .. mCapacity[o]
    BY BlockOf
  <1>2. ASSUME NEW k \in 1 .. mSize[o] PROVE At(mArray[o], k) # Raw
    <2>1. k \in 1 .. mCapacity[o] /\ k <= mSize[o]
      BY <1>1
    <2> QED BY <2>1, CellOf
  <1>3. PICK g \in Seq(Cell) : g = <<>>
    <2>1. <<>> \in Seq(Cell)
      OBVIOUS
    <2> QED BY <2>1
  <1>4. cells' = [cells EXCEPT ![mArray[o]] = g]
    BY <1>3
  <1> QED BY <1>2, <1>4, OneBlockChanges DEF AllBuilt

LEMMA LifetimesDestroy ==
  ASSUME CellInv, Inv', destroy
  PROVE  CellInv'
  <1>1. /\ todo # <<>> /\ step.do = "destroy" /\ GoOn(<<>>)
        /\ built' = built /\ threw' = threw /\ shown' = shown
    BY DEF destroy, Doing, ctorVars
  <1>2. PICK o : o = step.o
    OBVIOUS
  <1>3. o \in Owner /\ todo' = <<>>
    BY <1>1, <1>2, WhatRuns, Done DEF Destroying, step
  <1>4. mAdditive' \in [Owner -> Nat \ {0}]
    <2>1. mAdditive' = (IF o = "t" THEN [mAdditive EXCEPT ![o] = 1] ELSE mAdditive)
      BY <1>2 DEF destroy
    <2>2. mAdditive \in [Owner -> Nat \ {0}] /\ 1 \in Nat \ {0}
      BY DEF CellInv, CellTypes
    <2> QED BY <2>1, <2>2
  <1>5. \A q \in Owner : Whole(q)
    BY <1>1 DEF CellInv, Disturbed
  <1>6. CASE mArray[o] = nullptr
    <2>1. UNCHANGED <<objVars, heapVars, wild>>
      BY <1>2, <1>6 DEF destroy
    <2>2. mArray' = mArray /\ mSize' = mSize /\ mCapacity' = mCapacity /\ cells' = cells /\ wild' = wild
      BY <2>1 DEF objVars, heapVars
    <2>3. \A q \in Owner : (Stored(q) => Stored(q)') /\ (Whole(q) => Whole(q)')
      BY <2>2, Kept
    <2>4. CellTypes'
      BY <1>1, <1>4, <2>2 DEF CellInv, CellTypes
    <2> QED BY <1>3, <1>5, <2>2, <2>3, <2>4 DEF CellInv
  <1>7. CASE mArray[o] # nullptr
    <2>1. /\ wild' = (wild \/ ~AllBuilt(mArray[o], 1, mSize[o]))
          /\ cells' = [cells EXCEPT ![mArray[o]] = <<>>]
          /\ mArray' = [mArray EXCEPT ![o] = nullptr] /\ mSize' = [mSize EXCEPT ![o] = 0]
          /\ mCapacity' = [mCapacity EXCEPT ![o] = 0]
      BY <1>2, <1>7 DEF destroy, Defined
    <2>2. /\ AllBuilt(mArray[o], 1, mSize[o]) /\ cells' \in [Blocks -> Seq(Cell)]
          /\ \A q \in Owner : q # o /\ mArray[q] # nullptr => cells'[mArray[q]] = cells[mArray[q]]
      BY <1>3, <1>7, <2>1, BlockFreed
    <2>3. /\ mArray'[o] = nullptr /\ mSize'[o] = 0 /\ mCapacity'[o] = 0
          /\ \A q \in Owner : q # o => /\ mArray'[q] = mArray[q] /\ mSize'[q] = mSize[q]
                                       /\ mCapacity'[q] = mCapacity[q]
      BY <1>3, <2>1 DEF CellInv, CellTypes, Inv, Typed
    <2>4. Stored(o)' /\ Whole(o)'
      BY <2>3 DEF Stored, Whole
    <2>5. \A q \in Owner : q # o => (Stored(q) => Stored(q)') /\ (Whole(q) => Whole(q)')
      BY <2>2, <2>3, Kept
    <2>6. CellTypes'
      BY <1>1, <1>3, <1>4, <2>1, <2>2 DEF CellInv, CellTypes
    <2> QED BY <1>3, <1>5, <2>1, <2>2, <2>4, <2>5, <2>6 DEF CellInv
  <1> QED BY <1>6, <1>7

LEMMA LifetimesAdopt ==
  ASSUME CellInv, Inv', adopt
  PROVE  CellInv'
  <1>1. /\ todo # <<>> /\ step.do = "adopt" /\ GoOn(<<>>) /\ built' = 0
        /\ mAdditive' = mAdditive /\ threw' = threw /\ shown' = shown
    BY DEF adopt, Doing
  <1>2. PICK o, n, count : o = step.o /\ n = step.n /\ count = step.count
    OBVIOUS
  <1>3. /\ o \in Owner /\ n \in Nat /\ count \in 0 .. n /\ Follows(o, Tail(todo), count, n)
        /\ destination # nullptr /\ Len(cells[destination]) = n
        /\ BuiltUpTo(destination, count) /\ Valued(destination, 1, count)
    BY <1>1, <1>2, WhatRuns DEF Adopting, Adopts, Filling, step
  <1>4. todo' = Tail(todo)
    BY <1>1, Done
  <1>5. /\ mArray' = [mArray EXCEPT ![o] = destination] /\ mCapacity' = [mCapacity EXCEPT ![o] = n]
        /\ mSize' = [mSize EXCEPT ![o] = count]
    BY <1>2 DEF adopt
  <1>6. /\ mArray'[o] = destination /\ mCapacity'[o] = n /\ mSize'[o] = count
        /\ \A q \in Owner : q # o => /\ mArray'[q] = mArray[q] /\ mSize'[q] = mSize[q]
                                     /\ mCapacity'[q] = mCapacity[q]
    BY <1>3, <1>5 DEF CellInv, CellTypes, Inv, Typed
  <1>7. /\ ~wild' /\ cells' \in [Blocks -> Seq(Cell)]
        /\ cells'[destination] = cells[destination]
        /\ \A q \in Owner : q # o /\ mArray[q] # nullptr => cells'[mArray[q]] = cells[mArray[q]]
    <2>1. CASE mArray[o] = nullptr
      BY <1>2, <2>1 DEF adopt, heapVars, CellInv, CellTypes
    <2>2. CASE mArray[o] # nullptr
      <3>1. /\ wild' = (wild \/ ~AllBuilt(mArray[o], 1, mSize[o]))
            /\ cells' = [cells EXCEPT ![mArray[o]] = <<>>]
        BY <1>2, <2>2 DEF adopt, Defined
      <3>2. /\ AllBuilt(mArray[o], 1, mSize[o]) /\ cells' \in [Blocks -> Seq(Cell)]
            /\ \A q \in Owner : q # o /\ mArray[q] # nullptr => cells'[mArray[q]] = cells[mArray[q]]
            /\ destination # nullptr => cells'[destination] = cells[destination]
        BY <1>3, <2>2, <3>1, BlockFreed
      <3> QED BY <1>3, <3>1, <3>2 DEF CellInv
    <2> QED BY <2>1, <2>2
  <1>8. Stored(o)' /\ Whole(o)'
    BY <1>3, <1>6, <1>7 DEF Stored, Whole, BuiltUpTo, Valued
  <1>9. \A q \in Owner : q # o => Stored(q)' /\ Whole(q)'
    <2>1. \A q \in Owner : q # o => (Stored(q) => Stored(q)') /\ (Whole(q) => Whole(q)')
      BY <1>6, <1>7, Kept
    <2>2. \A q \in Owner : q # o => Whole(q)
      BY <1>1, <1>2 DEF CellInv, Disturbed
    <2> QED BY <2>1, <2>2 DEF CellInv
  <1>10. CellTypes'
    <2>1. count \in Nat
      BY <1>3
    <2> QED BY <1>1, <1>3, <1>5, <1>7, <2>1 DEF CellInv, CellTypes
  <1>11. todo' # <<>> => Running(todo)'
    <2> SUFFICES ASSUME todo' # <<>> PROVE Running(todo)'
      OBVIOUS
    <2>1. CASE o = "t"
      <3>1. Swaps(todo')
        BY <1>3, <1>4, <2>1 DEF Follows
      <3> QED BY <3>1 DEF Running, Swapping, Swaps, Destroys
    <2>2. CASE o # "t" /\ AppendsFresh(o, todo')
      <3>1. o \in Objects
        BY <1>3, <2>2 DEF Owner
      <3> QED BY <2>2, <3>1 DEF Running, Appending, Appends, AppendsFresh, FreshArg
    <2>3. CASE /\ o # "t" /\ Head(todo').do = "place" /\ Head(todo').o = o
               /\ FreshArg(Head(todo').arg) /\ count < n /\ AppendsFresh(o, Tail(todo'))
      <3>1. o \in Objects
        BY <1>3, <2>3 DEF Owner
      <3>2. Placing(todo)'
        BY <1>6, <2>3, <3>1 DEF Placing, Places, Appends, AppendsFresh, FreshArg
      <3> QED BY <3>2 DEF Running
    <2> QED BY <1>3, <1>4, <2>1, <2>2, <2>3 DEF Follows
  <1> QED BY <1>7, <1>8, <1>9, <1>10, <1>11 DEF CellInv

-----------------------------------------------------------------------------
(* The steps that build a new block.                                        *)

LEMMA LifetimesAllocate ==
  ASSUME CellInv, Inv', allocate
  PROVE  CellInv'
  <1>1. /\ todo # <<>> /\ step.do = "allocate"
        /\ mArray' = mArray /\ mSize' = mSize /\ mCapacity' = mCapacity
        /\ mAdditive' = mAdditive /\ shown' = shown /\ wild' = wild
    BY DEF allocate, Doing, objVars
  <1>2. \A q \in Owner : Whole(q)
    BY <1>1 DEF CellInv, Disturbed
  <1>3. CASE threw' = TRUE /\ todo' = <<>> /\ UNCHANGED <<heapVars, ctorVars>>
    <2>1. cells' = cells /\ built' = built
      BY <1>3 DEF heapVars, ctorVars
    <2>2. \A q \in Owner : (Stored(q) => Stored(q)') /\ (Whole(q) => Whole(q)')
      BY <1>1, <2>1, Kept
    <2>3. CellTypes'
      BY <1>1, <1>3, <2>1 DEF CellInv, CellTypes
    <2> QED BY <1>1, <1>2, <1>3, <2>2, <2>3 DEF CellInv
  <1>4. ASSUME NEW b \in Blocks \ live, cells' = [cells EXCEPT ![b] = [k \in 1 .. step.n |-> Raw]],
               destination' = b, built' = 0, GoOn(<<>>), threw' = threw
        PROVE  CellInv'
    <2>1. PICK n, c, d : n = step.n /\ c = Head(Tail(todo)) /\ d = Head(Tail(Tail(todo)))
      OBVIOUS
    <2>2. todo' = Tail(todo)
      BY <1>1, <1>4, Done
    <2>3. Constructs(todo') /\ n = d.n
      BY <1>1, <2>1, <2>2, WhatRuns DEF Allocating, step
    <2>4. /\ d.n \in Nat /\ d.count \in 0 .. d.n /\ c.count = d.count /\ c = Head(todo')
          /\ d = Head(Tail(todo')) /\ SourceOk(c)
      BY <2>1, <2>2, <2>3 DEF Constructs, Adopts
    <2>5. PICK g : g = [k \in 1 .. n |-> Raw]
      OBVIOUS
    <2>6. n \in Nat /\ c.count \in Nat
      <3>1. n \in Nat
        BY <2>3, <2>4
      <3>2. d.count \in 0 .. n
        BY <2>3, <2>4
      <3>3. d.count \in Nat
        BY <3>1, <3>2
      <3> QED BY <2>4, <3>1, <3>3
    <2>7. g \in Seq(Cell) /\ Len(g) = n /\ \A k \in 1 .. n : g[k] = Raw
      <3>1. g \in [1 .. n -> Cell]
        BY <2>5, CellKinds
      <3> QED BY <2>5, <2>6, <3>1
    <2>8. cells' \in [Blocks -> Seq(Cell)] /\ cells'[b] = g
      BY <1>4, <2>1, <2>5, <2>7 DEF CellInv, CellTypes
    <2>9. ASSUME NEW q \in Owner, mArray[q] # nullptr PROVE cells'[mArray[q]] = cells[mArray[q]]
      <3>1. mArray[q] \in Blocks /\ mArray[q] # b
        BY <1>4, <2>9, OwnBlock DEF CellInv
      <3> QED BY <1>4, <3>1 DEF CellInv, CellTypes
    <2>10. \A q \in Owner : (Stored(q) => Stored(q)') /\ (Whole(q) => Whole(q)')
      BY <1>1, <2>9, Kept
    <2>11. Filling(n, 0)'
      <3>1. b # nullptr
        BY <1>4, Constants
      <3>2. (\A k \in 1 .. n : ~(k <= 0)) /\ 1 .. 0 = {}
        BY <2>6
      <3>3. BuiltUpTo(b, 0)'
        BY <2>7, <2>8, <3>2 DEF BuiltUpTo
      <3>4. Valued(b, 1, 0)'
        BY <3>2 DEF Valued
      <3> QED BY <1>4, <2>7, <2>8, <3>1, <3>3, <3>4 DEF Filling
    <2>12. Constructs(todo)'
      BY <1>1, <2>3 DEF Constructs, SourceOk, Adopts, Follows, AppendsFresh, Swaps, Destroys, FreshArg
    <2>13. 0 <= c.count /\ 0 + 1 = 1
      BY <2>6
    <2>14. ASSUME c.src.kind = "move", mArray[c.o] # nullptr PROVE Valued(mArray[c.o], 1, mSize[c.o])'
      <3>1. c.o \in Owner
        BY <2>4, <2>14, Constants DEF SourceOk
      <3> QED BY <1>1, <1>2, <2>9, <2>14, <3>1 DEF Whole, Valued
    <2>15. Constructing(todo)'
      BY <1>1, <1>4, <2>3, <2>4, <2>11, <2>12, <2>13, <2>14 DEF Constructing
    <2>16. CellTypes'
      BY <1>1, <1>4, <2>8 DEF CellInv, CellTypes
    <2> QED BY <1>1, <1>2, <2>10, <2>15, <2>16 DEF CellInv, Running
  <1> QED BY <1>3, <1>4 DEF allocate

\* A step that builds an object with value v in cell i of the new block.
BuildsIn(new, i, v) ==
  new = [cells EXCEPT ![destination] = [k \in DOMAIN @ |-> IF k = i THEN v ELSE @[k]]]

\* One object more is built in the new block.
LEMMA OneMoreBuilt ==
  ASSUME CellInv, NEW n \in Nat, NEW i \in 1 .. n, i = built + 1, Filling(n, built), NEW v \in Values,
         NEW new, BuildsIn(new, i, v)
  PROVE  /\ new \in [Blocks -> Seq(Cell)] /\ i \in DOMAIN cells[destination]
         /\ destination # nullptr /\ Len(new[destination]) = n
         /\ \A k \in 1 .. n : new[destination][k] # Raw <=> k <= i
         /\ \A k \in 1 .. i : new[destination][k] \in Values
         /\ \A b \in Blocks : b # destination => new[b] = cells[b]
  <1>1. destination # nullptr /\ Len(cells[destination]) = n
    BY DEF Filling
  <1>2. destination \in Blocks /\ cells \in [Blocks -> Seq(Cell)] /\ built \in Nat
    BY <1>1 DEF CellInv, CellTypes, Inv, Typed
  <1>3. PICK f \in Seq(Cell) : f = cells[destination]
    BY <1>2
  <1>4. PICK g : g = [k \in DOMAIN f |-> IF k = i THEN v ELSE f[k]]
    OBVIOUS
  <1>5. new = [cells EXCEPT ![destination] = g]
    BY <1>2, <1>3, <1>4 DEF BuildsIn
  <1>6. DOMAIN f = 1 .. n /\ Len(f) = n /\ \A k \in 1 .. n : f[k] \in Cell
    BY <1>1, <1>3
  <1>7. /\ DOMAIN g = 1 .. n /\ g = [k \in DOMAIN g |-> g[k]]
        /\ \A k \in 1 .. n : g[k] = IF k = i THEN v ELSE f[k]
    BY <1>4, <1>6
  <1>8. g \in Seq(Cell) /\ Len(g) = n
    <2>1. \A k \in 1 .. Len(f) : g[k] \in Cell
      BY <1>6, <1>7, CellKinds
    <2> QED BY <1>6, <1>7, <2>1, Rewritten
  <1>9. (\A k \in 1 .. n : f[k] # Raw <=> k <= built) /\ \A k \in 1 .. built : f[k] \in Values
    BY <1>1, <1>3 DEF Filling, BuiltUpTo, Valued
  <1>10. \A k \in 1 .. n : g[k] # Raw <=> k <= i
    <2>1. \A k \in 1 .. n : k # i => (k <= i <=> k <= built)
      BY <1>2
    <2> QED BY <1>7, <1>9, <2>1, CellKinds
  <1>11. \A k \in 1 .. i : g[k] \in Values
    <2>1. \A k \in 1 .. i : k \in 1 .. n /\ (k = i \/ k \in 1 .. built)
      BY <1>2
    <2> QED BY <1>7, <1>9, <2>1
  <1> QED BY <1>1, <1>2, <1>3, <1>5, <1>6, <1>8, <1>10, <1>11

\* The value of the next object, and where it comes from.
LEMMA NextSource ==
  ASSUME CellInv, todo # <<>>, step.do = "construct", built # step.count, NEW i, i = built + 1,
         NEW from, from = IF step.src.kind = "copy" THEN mArray[step.src.p] ELSE mArray[step.o],
         NEW v, v = IF step.src.kind = "list" THEN step.src.s[i] ELSE At(from, i)
  PROVE  /\ v \in Values
         /\ step.src.kind = "move" =>
              /\ step.o \in Owner /\ from = mArray[step.o] /\ i \in 1 .. mSize[step.o] /\ At(from, i) # Raw
  <1>1. SourceOk(step) /\ built <= step.count /\ step.count \in Nat
    <2>1. Constructing(todo)
      BY WhatRuns
    <2> QED BY <2>1 DEF Constructing, Constructs, Adopts, step
  <1>2. built \in Nat /\ i \in 1 .. step.count
    BY <1>1 DEF CellInv, CellTypes
  <1>3. ASSUME NEW q \in Owner, i \in 1 .. mSize[q], from = mArray[q],
               mArray[q] # nullptr => Valued(mArray[q], i, mSize[q])
        PROVE  At(from, i) \in Values
    <2>1. i \in 1 .. mCapacity[q]
      BY <1>3, BlockOf
    <2>2. mArray[q] # nullptr /\ At(mArray[q], i) = cells[mArray[q]][i] /\ mSize[q] \in Nat
      BY <2>1, CellOf
    <2>3. i \in i .. mSize[q]
      BY <1>2, <1>3, <2>2
    <2> QED BY <1>3, <2>2, <2>3 DEF Valued
  <1>4. CASE step.src.kind = "move"
    <2>1. /\ step.o \in Owner /\ step.o \in Objects /\ step.count <= mSize[step.o]
          /\ mSize[step.o] \in Nat
      BY <1>1, <1>4, Constants, BlockOf DEF SourceOk
    <2>2. i \in 1 .. mSize[step.o] /\ from = mArray[step.o] /\ v = At(from, i)
      <3>1. 1 .. step.count \subseteq 1 .. mSize[step.o]
        BY <1>1, <2>1
      <3> QED BY <1>2, <1>4, <3>1
    <2>3. mArray[step.o] # nullptr => Valued(mArray[step.o], i, mSize[step.o])
      <3>1. Constructing(todo)
        BY WhatRuns
      <3> QED BY <1>4, <3>1 DEF Constructing, step
    <2>4. At(from, i) \in Values
      BY <1>3, <2>1, <2>2, <2>3
    <2> QED BY <2>1, <2>2, <2>4, CellKinds
  <1>5. CASE step.src.kind = "copy"
    <2>1. PICK q : q = step.src.p
      OBVIOUS
    <2>2. q \in Owner /\ q # step.o /\ i \in 1 .. mSize[q] /\ from = mArray[q] /\ v = At(from, i)
      BY <1>1, <1>2, <1>5, <2>1, Constants DEF SourceOk
    <2>3. mArray[q] # nullptr => Valued(mArray[q], 1, mSize[q])
      BY <2>2 DEF CellInv, Disturbed, Whole
    <2>4. i .. mSize[q] \subseteq 1 .. mSize[q]
      BY <1>2
    <2>5. mArray[q] # nullptr => Valued(mArray[q], i, mSize[q])
      BY <2>3, <2>4 DEF Valued
    <2> QED BY <1>3, <1>5, <2>2, <2>5
  <1>6. CASE step.src.kind = "list"
    <2>1. step.src.s \in Seq(Values) /\ step.count = Len(step.src.s)
      BY <1>1, <1>6 DEF SourceOk
    <2> QED BY <1>2, <1>6, <2>1
  <1> QED BY <1>1, <1>4, <1>5, <1>6 DEF SourceOk

LEMMA LifetimesConstruct ==
  ASSUME CellInv, Inv', construct
  PROVE  CellInv'
  <1>1. /\ todo # <<>> /\ step.do = "construct"
        /\ mArray' = mArray /\ mSize' = mSize /\ mCapacity' = mCapacity /\ mAdditive' = mAdditive
        /\ threw' = threw /\ shown' = shown /\ destination' = destination
    BY DEF construct, Doing, objVars, ctorVars
  <1>2. PICK o, n, count, d : o = step.o /\ d = Head(Tail(todo)) /\ n = d.n /\ count = step.count
    OBVIOUS
  <1>3. /\ Constructs(todo) /\ Adopts(Tail(todo)) /\ SourceOk(step) /\ built <= count /\ Filling(n, built)
        /\ o \in Owner /\ n \in Nat /\ count \in 0 .. n /\ d.count = count /\ d.o = o /\ d.do = "adopt"
        /\ step.src.kind = "move" => (mArray[o] # nullptr => Valued(mArray[o], built + 1, mSize[o]))
    <2>1. Constructing(todo)
      BY <1>1, WhatRuns
    <2> QED BY <1>2, <2>1 DEF Constructing, Constructs, Adopts, step
  <1>4. \A q \in Owner : q # o => Whole(q)
    BY <1>1, <1>2 DEF CellInv, Disturbed
  <1>5. built \in Nat
    BY DEF CellInv, CellTypes
  <1>6. CASE built = count
    <2>1. GoOn(<<>>) /\ cells' = cells /\ built' = built /\ wild' = wild
      BY <1>2, <1>6 DEF construct, heapVars, ctorVars
    <2>2. todo' = Tail(todo)
      BY <1>1, <2>1, Done
    <2>3. Adopts(todo)' /\ Head(todo').n = n /\ Head(todo').count = count
      BY <1>2, <1>3, <2>2 DEF Adopts, Follows, AppendsFresh, Swaps, Destroys, FreshArg
    <2>4. Filling(n, count)'
      BY <1>1, <1>3, <1>6, <2>1 DEF Filling, BuiltUpTo, Valued
    <2>5. Adopting(todo)'
      BY <2>3, <2>4 DEF Adopting
    <2>6. Disturbed(o)'
      <3>1. todo' # <<>>
        BY <1>3, <2>2 DEF Adopts
      <3> QED BY <1>2, <1>3, <2>2, <3>1 DEF Disturbed, step
    <2>7. \A q \in Owner : (Stored(q) => Stored(q)') /\ (Whole(q) => Whole(q)')
      BY <1>1, <2>1, Kept
    <2>8. CellTypes'
      BY <1>1, <2>1 DEF CellInv, CellTypes
    <2> QED BY <1>4, <2>1, <2>5, <2>6, <2>7, <2>8 DEF CellInv, Running
  <1>7. CASE built # count
    <2>1. PICK i, from : i = built + 1
                         /\ from = IF step.src.kind = "copy" THEN mArray[step.src.p] ELSE mArray[step.o]
      OBVIOUS
    <2>2. PICK v : v = IF step.src.kind = "list" THEN step.src.s[i] ELSE At(from, i)
      OBVIOUS
    <2>3. PICK new : new = [cells EXCEPT ![destination] = [k \in DOMAIN @ |-> IF k = i THEN v ELSE @[k]]]
      OBVIOUS
    <2>4. /\ cells' = IF step.src.kind # "move" \/ At(from, i) = Raw THEN new
                      ELSE [new EXCEPT ![from][i] = Moved]
          /\ wild' = (wild \/ ~(i \in DOMAIN cells[destination] /\ v # Raw))
          /\ built' = i /\ todo' = todo
      BY <1>2, <1>7, <2>1, <2>2, <2>3 DEF construct, Defined
    <2>5. /\ v \in Values
          /\ step.src.kind = "move" => from = mArray[o] /\ i \in 1 .. mSize[o] /\ At(from, i) # Raw
      BY <1>1, <1>2, <1>7, <2>1, <2>2, NextSource
    <2>6. i \in 1 .. n /\ i <= count
      BY <1>3, <1>5, <1>7, <2>1
    <2>7. /\ new \in [Blocks -> Seq(Cell)] /\ i \in DOMAIN cells[destination]
          /\ destination # nullptr /\ Len(new[destination]) = n
          /\ \A k \in 1 .. n : new[destination][k] # Raw <=> k <= i
          /\ \A k \in 1 .. i : new[destination][k] \in Values
          /\ \A b \in Blocks : b # destination => new[b] = cells[b]
      <3>1. BuildsIn(new, i, v)
        BY <2>3 DEF BuildsIn
      <3> QED BY <1>3, <2>1, <2>5, <2>6, <3>1, OneMoreBuilt
    <2>8. ~wild'
      BY <2>4, <2>5, <2>7, CellKinds DEF CellInv
    <2>9. \A q \in Owner : mArray[q] # nullptr => mArray[q] \in Blocks /\ mArray[q] # destination
      BY OwnBlock DEF CellInv
    <2>10. /\ cells' \in [Blocks -> Seq(Cell)] /\ cells'[destination] = new[destination]
           /\ \A q \in Owner : q # o /\ mArray[q] # nullptr => cells'[mArray[q]] = cells[mArray[q]]
           /\ Stored(o)' /\ (Disturbed(o)' \/ Whole(o)')
           /\ step.src.kind = "move" => (mArray[o] # nullptr => Valued(mArray[o], i + 1, mSize[o])')
      <3>1. CASE step.src.kind # "move"
        <4>1. cells' = new
          BY <2>4, <3>1
        <4>2. \A q \in Owner : mArray[q] # nullptr => cells'[mArray[q]] = cells[mArray[q]]
          BY <2>7, <2>9, <4>1
        <4>3. Stored(o)' /\ Disturbed(o)'
          <5>1. Stored(o)'
            BY <1>1, <1>3, <4>2, Kept DEF CellInv
          <5> QED BY <1>1, <1>2, <2>4, <5>1 DEF Disturbed, step
        <4> QED BY <2>7, <3>1, <4>1, <4>2, <4>3
      <3>2. CASE step.src.kind = "move"
        <4>1. from = mArray[o] /\ i \in 1 .. mSize[o] /\ At(from, i) # Raw
          BY <2>5, <3>2
        <4>2. mCapacity[o] \in Nat /\ mSize[o] \in 0 .. mCapacity[o] /\ i \in 1 .. mCapacity[o]
          BY <1>3, <4>1, BlockOf
        <4>3. /\ from # nullptr /\ from \in Blocks /\ from # destination
              /\ DOMAIN cells[from] = 1 .. mCapacity[o]
          BY <1>3, <2>9, <4>1, <4>2, CellOf
        <4>4. PICK f : f = cells[from]
          OBVIOUS
        <4>5. f \in Seq(Cell) /\ DOMAIN f = 1 .. mCapacity[o] /\ Len(f) = mCapacity[o] /\ new[from] = f
          BY <1>3, <2>7, <4>1, <4>2, <4>3, <4>4, CellOf DEF CellInv, CellTypes
        <4>6. PICK g : g = [f EXCEPT ![i] = Moved]
          OBVIOUS
        <4>7. cells' = [new EXCEPT ![from] = g]
          <5>1. cells' = [new EXCEPT ![from][i] = Moved]
            BY <2>4, <3>2, <4>1
          <5> QED BY <2>7, <4>3, <4>5, <4>6, <5>1
        <4>8. /\ DOMAIN g = 1 .. mCapacity[o] /\ g = [k \in DOMAIN g |-> g[k]]
              /\ \A k \in 1 .. mCapacity[o] : g[k] = IF k = i THEN Moved ELSE f[k]
          BY <4>2, <4>5, <4>6
        <4>9. g \in Seq(Cell) /\ Len(g) = mCapacity[o]
          <5>1. \A k \in 1 .. Len(f) : f[k] \in Cell
            BY <4>5
          <5>2. \A k \in 1 .. Len(f) : g[k] \in Cell
            BY <4>5, <4>8, <5>1, CellKinds
          <5> QED BY <4>5, <4>8, <5>2, Rewritten
        <4>10. /\ cells' \in [Blocks -> Seq(Cell)] /\ cells'[from] = g
               /\ \A b \in Blocks : b # from => cells'[b] = new[b]
          BY <2>7, <4>3, <4>7, <4>9
        <4>11. cells'[destination] = new[destination]
          <5>1. destination \in Blocks
            BY <2>7 DEF CellInv, Inv, Typed
          <5> QED BY <4>3, <4>10, <5>1
        <4>12. \A q \in Owner : q # o /\ mArray[q] # nullptr => cells'[mArray[q]] = cells[mArray[q]]
          <5>1. \A q \in Owner : q # o /\ mArray[q] # nullptr => mArray[q] # from
            BY <1>3, <4>1, <4>3, OwnBlock DEF CellInv
          <5> QED BY <2>7, <2>9, <4>10, <5>1
        <4>13. Stored(o)'
          <5>1. \A k \in 1 .. mCapacity[o] : f[k] # Raw <=> k <= mSize[o]
            BY <1>3, <4>1, <4>3, <4>4, BlockOf
          <5>2. \A k \in 1 .. mCapacity[o] : g[k] # Raw <=> k <= mSize[o]
            BY <4>1, <4>2, <4>8, <5>1, CellKinds
          <5>3. mSize[o] <= mCapacity[o]
            BY <4>2
          <5> QED BY <1>1, <4>1, <4>3, <4>9, <4>10, <5>2, <5>3 DEF Stored, BuiltUpTo
        <4>14. Disturbed(o)'
          BY <1>1, <1>2, <2>4 DEF Disturbed, step
        <4>15. Valued(mArray[o], i + 1, mSize[o])'
          <5>1. ASSUME NEW k \in i + 1 .. mSize[o] PROVE g[k] \in Values
            <6>1. k \in built + 1 .. mSize[o] /\ k # i /\ k \in 1 .. mCapacity[o]
              BY <1>5, <2>1, <2>6, <4>2, <5>1
            <6>2. f[k] \in Values
              BY <1>3, <3>2, <4>1, <4>3, <4>4, <6>1 DEF Valued
            <6> QED BY <4>8, <6>1, <6>2
          <5> QED BY <1>1, <4>1, <4>10, <5>1 DEF Valued
        <4> QED BY <4>10, <4>11, <4>12, <4>13, <4>14, <4>15
      <3> QED BY <3>1, <3>2
    <2>11. \A q \in Owner : q # o => (Stored(q) => Stored(q)') /\ (Whole(q) => Whole(q)')
      BY <1>1, <2>10, Kept
    <2>12. Filling(n, i)'
      <3>1. destination' = destination /\ cells'[destination] = new[destination]
        BY <1>1, <2>10
      <3>2. /\ destination # nullptr /\ Len(new[destination]) = n
            /\ \A k \in 1 .. Len(new[destination]) : new[destination][k] # Raw <=> k <= i
            /\ \A k \in 1 .. i : new[destination][k] \in Values
        BY <2>7
      <3> QED BY <3>1, <3>2 DEF Filling, BuiltUpTo, Valued
    <2>13. Constructs(todo)'
      BY <1>1, <1>3, <2>4 DEF Constructs, SourceOk, Adopts, Follows, AppendsFresh, Swaps, Destroys, FreshArg
    <2>14. Constructing(todo)'
      BY <1>1, <1>2, <2>4, <2>6, <2>10, <2>12, <2>13 DEF Constructing, step
    <2>15. CellTypes'
      <3>1. i \in Nat
        BY <2>6
      <3> QED BY <1>1, <2>4, <2>10, <3>1 DEF CellInv, CellTypes
    <2> QED BY <1>4, <2>8, <2>10, <2>11, <2>14, <2>15 DEF CellInv, Running
  <1> QED BY <1>6, <1>7

-----------------------------------------------------------------------------
(* The invariant holds.                                                     *)

LEMMA LifetimesSetAdditive ==
  ASSUME CellInv, Inv', NEW o \in Objects, set_additive(o)
  PROVE  CellInv'
  <1>1. /\ call = NoCall /\ UNCHANGED <<objVars, heapVars, ctorVars>>
        /\ todo' = todo /\ threw' = threw /\ shown' = shown /\ wild' = wild
    BY DEF set_additive
  <1>2. todo = <<>>
    BY <1>1 DEF CellInv, Inv, ProgramInv
  <1>3. \A q \in Owner : Stored(q)' /\ Whole(q)'
    BY <1>1, <1>2, HeapStays DEF CellInv, Disturbed
  <1>4. PICK k \in 1 .. MaxAdditive : mAdditive' = [mAdditive EXCEPT ![o] = k]
    BY DEF set_additive
  <1>5. k \in Nat \ {0} /\ mAdditive \in [Owner -> Nat \ {0}]
    BY <1>4, BoundAssumption DEF CellInv, CellTypes
  <1>6. mAdditive' \in [Owner -> Nat \ {0}]
    BY <1>4, <1>5
  <1>7. CellTypes'
    BY <1>1, <1>6, HeapStays DEF CellInv, CellTypes
  <1> QED BY <1>1, <1>2, <1>3, <1>7 DEF CellInv

LEMMA InitCellInv == Init => CellInv
  <1> SUFFICES ASSUME Init PROVE CellInv
    OBVIOUS
  <1>1. Inv
    BY InitInv
  <1>2. /\ mArray = [o \in Owner |-> nullptr] /\ mSize = [o \in Owner |-> 0]
        /\ mCapacity = [o \in Owner |-> 0] /\ mAdditive = [o \in Owner |-> 1]
        /\ cells = [b \in Blocks |-> <<>>] /\ built = 0 /\ threw = FALSE
        /\ shown = [o \in Objects |-> <<>>] /\ todo = <<>> /\ wild = FALSE
    BY DEF Init
  <1>3. <<>> \in Seq(Cell) /\ <<>> \in Seq(Values) /\ 0 \in Nat /\ 1 \in Nat \ {0}
    OBVIOUS
  <1>4. CellTypes
    BY <1>2, <1>3 DEF CellTypes
  <1>5. \A o \in Owner : Stored(o) /\ Whole(o)
    BY <1>2 DEF Stored, Whole
  <1> QED BY <1>1, <1>2, <1>4, <1>5 DEF CellInv

LEMMA LifetimesCall ==
  ASSUME ~OwnAtCapacity, CellInv, Inv', NEW o \in Objects, Call(o)
  PROVE  CellInv'
  BY LifetimesPushBack, LifetimesInsertBack, LifetimesErase, LifetimesSetCapacity, LifetimesResize,
     LifetimesWipe, LifetimesSwapCall, LifetimesAssignments, LifetimesSetAdditive DEF Call

LEMMA NextCellInv ==
  ASSUME ~OwnAtCapacity, CellInv, [Next]_vars
  PROVE  CellInv'
  <1>1. Inv'
    BY NextInv DEF CellInv
  <1>2. CASE Step
    BY <1>1, <1>2, LifetimesAllocate, LifetimesConstruct, LifetimesAdopt, LifetimesGrow, LifetimesPlace,
       LifetimesAppend, LifetimesShift, LifetimesRefill, LifetimesTruncate, LifetimesSwapStep,
       LifetimesTake, LifetimesDestroy, LifetimesReturn DEF Step
  <1>3. CASE \E o \in Objects : Call(o)
    BY <1>1, <1>3, LifetimesCall
  <1>4. CASE UNCHANGED vars
    <2>1. /\ UNCHANGED <<objVars, heapVars, ctorVars>> /\ mAdditive' = mAdditive
          /\ todo' = todo /\ threw' = threw /\ shown' = shown /\ wild' = wild
      BY <1>4 DEF vars
    <2>2. /\ mArray' = mArray /\ mSize' = mSize /\ mCapacity' = mCapacity /\ cells' = cells
          /\ destination' = destination /\ built' = built
      BY <2>1, HeapStays
    <2>3. CellTypes'
      BY <2>1, <2>2 DEF CellInv, CellTypes
    <2>4. \A o \in Owner : Stored(o)' /\ (Disturbed(o)' \/ Whole(o)')
      BY <2>1, HeapStays DEF CellInv, Disturbed, step
    <2>5. Running(todo) => Running(todo)'
      <3>1. /\ Allocating(todo) => Allocating(todo)'
            /\ Constructing(todo) => Constructing(todo)'
            /\ Adopting(todo) => Adopting(todo)'
        BY <2>1, <2>2 DEF Allocating, Constructing, Constructs, Adopting, Adopts, Follows, SourceOk,
           Filling, AppendsFresh, FreshArg, Swaps, Destroys, BuiltUpTo, Valued
      <3>2. /\ Growing(todo) => Growing(todo)'
            /\ Placing(todo) => Placing(todo)'
            /\ Appending(todo) => Appending(todo)'
        BY <2>1, <2>2 DEF Growing, Placing, Places, Appending, Appends, FreshArg, OldArg
      <3>3. Truncating(todo) => Truncating(todo)'
        BY <2>1, <2>2 DEF Truncating, Truncates, Valued
      <3>4. Shifting(todo) => Shifting(todo)'
        BY <2>1, <2>2 DEF Shifting, Truncates, Valued
      <3>5. Refilling(todo) => Refilling(todo)'
        BY <2>1, <2>2 DEF Refilling, Truncates, Valued
      <3>6. /\ Swapping(todo) => Swapping(todo)'
            /\ Taking(todo) => Taking(todo)'
            /\ Destroying(todo) => Destroying(todo)'
        BY <2>1, <2>2 DEF Swapping, Swaps, Destroys, Taking, Destroying
      <3> QED BY <3>1, <3>2, <3>3, <3>4, <3>5, <3>6, Zenon DEF Running
    <2> QED BY <1>1, <2>1, <2>3, <2>4, <2>5 DEF CellInv
  <1> QED BY <1>2, <1>3, <1>4 DEF Next

LEMMA AlwaysCellInv == ASSUME ~OwnAtCapacity PROVE Spec => []CellInv
  <1>1. Init => CellInv
    BY InitCellInv
  <1>2. CellInv /\ [Next]_vars => CellInv'
    BY NextCellInv
  <1> QED BY <1>1, <1>2, PTL DEF Spec

\* Undefined behaviour has happened or it has not.
WildType == wild \in BOOLEAN

LEMMA WildOrNot == Spec => []WildType
  <1>1. Init => WildType
    BY DEF Init, WildType
  <1>2. WildType /\ [Next]_vars => WildType'
    <2> SUFFICES ASSUME wild \in BOOLEAN, [Next]_vars PROVE wild' \in BOOLEAN
      BY DEF WildType
    <2>1. CASE wild' = wild
      BY <2>1
    <2>2. CASE \E ok : Defined(ok)
      BY <2>2 DEF Defined
    <2>3. ASSUME NEW o \in Objects, Call(o) PROVE wild' = wild
      BY <2>3 DEF Call, push_back, insert_back, pop_back, erase, swap_with_last_erase, set_capacity,
         shrink_to_fit, resize, clear, wipe, assign_list, set_additive, swap, copy_assign, move_assign,
         Begin
    <2>4. CASE Step
      BY <2>1, <2>2, <2>4 DEF Step, allocate, construct, adopt, grow, place, append, shift, refill,
         truncateStep, swapStep, take, destroy, Return, MoveElement
    <2> QED BY <2>1, <2>3, <2>4 DEF Next, vars
  <1> QED BY <1>1, <1>2, PTL DEF Spec

-----------------------------------------------------------------------------
(* What follows for every caller that never gives a full Sequence one of    *)
(* its own elements.                                                        *)

\* Sizes, capacities and additives stay numbers, the cells stay cells, and what a
\* user sees of a Sequence between calls is a list of values: nothing moved from
\* or raw is left where a call returns, or throws.
THEOREM MembersKeepTheirTypes == ASSUME ~OwnAtCapacity PROVE Spec => []TypeOK
  <1>1. CellInv /\ WildType => TypeOK
    BY DEF WildType, CellInv, CellTypes, Inv, Typed, TypeOK
  <1> QED BY <1>1, AlwaysCellInv, WildOrNot, PTL

\* mCapacity is the size of the block at mArray, and mSize never exceeds it: no
\* step of push_back, resize, erase or an assignment writes past the block.
THEOREM SizeFitsInBlock == ASSUME ~OwnAtCapacity PROVE Spec => []FitsInBlock
  <1>1. CellInv => FitsInBlock
    BY DEF CellInv, FitsInBlock, Stored
  <1> QED BY <1>1, AlwaysCellInv, PTL

\* Between calls the first mSize cells of every block are objects and the others
\* are raw memory, also after a bad_alloc, and the temporary of an assignment is
\* gone: no element is leaked or destroyed twice.
THEOREM LifetimesMatch == ASSUME ~OwnAtCapacity PROVE Spec => []LifetimesMatchSize
  <1>1. CellInv => LifetimesMatchSize
    <2> SUFFICES ASSUME CellInv, call = NoCall
                 PROVE  /\ mArray["t"] = nullptr
                        /\ \A o \in Objects : mArray[o] # nullptr =>
                             \A k \in 1 .. mCapacity[o] : cells[mArray[o]][k] # Raw <=> k <= mSize[o]
      BY DEF LifetimesMatchSize
    <2>1. todo = <<>>
      BY DEF CellInv, Inv, ProgramInv
    <2>2. ~TempProgram(todo)
      BY <2>1 DEF TempProgram
    <2>3. mArray["t"] = nullptr
      BY <2>2 DEF CellInv, Inv, ProgramInv
    <2> QED BY <2>3, BlockOf, Constants
  <1> QED BY <1>1, AlwaysCellInv, PTL

\* No step of any member function uses raw memory as an object, builds an object
\* on top of another, or reads through a freed block.
THEOREM NeverUndefined == ASSUME ~OwnAtCapacity PROVE Spec => []NoUndefinedBehaviour
  <1>1. CellInv => NoUndefinedBehaviour
    BY DEF CellInv, NoUndefinedBehaviour
  <1> QED BY <1>1, AlwaysCellInv, PTL
=============================================================================
