---------------------------- MODULE Logger_proofs ----------------------------
(***************************************************************************)
(* Theorems about Logger for any numbers of writers, readers, messages and *)
(* blocks: its types, mutual exclusion, that no message is lost, and that  *)
(* a read which no append overlaps returns the last message.               *)
(***************************************************************************)
EXTENDS Logger, SequenceTheorems, TLAPS

-----------------------------------------------------------------------------
(* The invariant.                                                           *)

\* Where the append to list l is: at the place of the thread that holds mMutex,
\* or nowhere.
Place(l) == IF mMutex # NoThread /\ list[mMutex] = l THEN pc[mMutex] ELSE "idle"

\* A writer inside an append has given a message.
WriterInv == \A w \in Writers : pc[w] # "idle" => written[w] > 0

\* The list at l is in block b.
Holds(l, b) == \A k \in 1 .. mSize[l] : cells[b][k] = accepted[l][k]

\* Block b is allocated, with n cells.
Allocated(b, n) == b \in live /\ DOMAIN cells[b] = 1 .. n

\* The members of list l count what was appended, and leave room for what is
\* about to be constructed.
SizeInv(l) ==
  /\ Len(accepted[l]) = mSize[l] /\ mSize[l] <= mCapacity[l]
  /\ Place(l) \in {"relocate", "release", "adopt", "resize"} => mSize[l] = mCapacity[l]
  /\ Place(l) \in {"construct", "count"} => mSize[l] < mCapacity[l]

\* Where the elements of list l are, at each place of an append.
BlockInv(l) ==
  /\ Place(l) \in {"relocate", "release", "adopt"} =>
       Allocated(destination, growthFactor(mCapacity[l], 1))
  /\ Place(l) \in {"release", "adopt"} => Holds(l, destination)
  /\ Place(l) = "resize" => Allocated(mArray[l], growthFactor(mCapacity[l], 1))
  /\ Place(l) \notin {"adopt", "resize"} /\ mCapacity[l] > 0 => Allocated(mArray[l], mCapacity[l])
  /\ Place(l) \notin {"release", "adopt"} => Holds(l, mArray[l])
  /\ Place(l) = "count" => cells[mArray[l]][mSize[l] + 1] = Current(mMutex)

\* No block has two owners.
OwnerInv ==
  /\ \A l \in List : mArray[l] \in live \cup {nullptr}
  /\ mArray["mLogs"] = mArray["mErrors"] => mArray["mLogs"] = nullptr
  /\ \A l, m \in List : Place(l) \in {"relocate", "release", "adopt"} => mArray[m] # destination

\* A read under way that no append has overlapped sees the members as they are.
ReaderInv ==
  \A r \in Readers :
    quiet[r] /\ rpc[r] # "idle" =>
      /\ mMutex = NoThread /\ mSize[rlist[r]] > 0
      /\ rpc[r] \in {"array", "copy"} => rindex[r] = mSize[rlist[r]]
      /\ rpc[r] = "copy" => rarray[r] = mArray[rlist[r]]

Inv ==
  /\ Typed /\ MutualExclusion /\ WriterInv /\ OwnerInv /\ ReaderInv
  /\ \A l \in List : SizeInv(l) /\ BlockInv(l)

-----------------------------------------------------------------------------
(* Lemmas.                                                                  *)

Cell == Message \cup {Raw, Moved}

Places == {"idle", "lock", "grow", "relocate", "release",
           "adopt", "resize", "construct", "count", "unlock"}

\* The places of an append at which list l is as it is between appends.
Resting == {"idle", "lock", "grow", "unlock"}

LEMMA Constants ==
  /\ NumWrites \in Nat /\ nullptr \notin Blocks /\ NoThread \notin Writers
  /\ Raw \notin Message /\ Moved \notin Message
  BY WritesAssumption, BlockAssumption, ThreadAssumption, CellAssumption
  DEF nullptr, Message

LEMMA GrowthIsPositive ==
  ASSUME NEW n \in Nat
  PROVE  growthFactor(n, 1) \in Nat /\ growthFactor(n, 1) > n
  BY DEF growthFactor

\* Functions over 1 .. n and sequences of length n.
LEMMA CellsOf ==
  ASSUME NEW n \in Nat, NEW f \in [1 .. n -> Cell]
  PROVE  f \in Seq(Cell)
  BY SeqDef

LEMMA CellsAre ==
  ASSUME NEW s \in Seq(Cell), NEW n \in Nat, DOMAIN s = 1 .. n
  PROVE  s \in [1 .. n -> Cell]
  BY SeqDef

LEMMA Rebuilt ==
  ASSUME NEW s \in Seq(Message), NEW n, Len(s) = n
  PROVE  [k \in 1 .. n |-> s[k]] = s
  OBVIOUS

\* A writer's message has a number of its own.
LEMMA CurrentIsMessage ==
  ASSUME Typed, WriterInv, NEW w \in Writers, pc[w] # "idle"
  PROVE  Current(w) \in Message
  <1>1. written[w] \in 0 .. NumWrites /\ written[w] > 0
    BY DEF Typed, WriterInv
  <1>2. written[w] \in 1 .. NumWrites
    BY <1>1, Constants
  <1> QED BY <1>2 DEF Current, Message

\* A step of the thread inside an append moves the place of its list, and of no
\* other; the other threads stay where they are.
LEMMA HolderStep ==
  ASSUME Typed, MutualExclusion, WriterInv,
         NEW w \in Writers, NEW from \in Places \ {"idle", "lock"}, NEW to \in Places \ {"idle", "lock"},
         Move(w, from, to), mMutex' = mMutex, list' = list, written' = written
  PROVE  /\ mMutex = w /\ pc[w] = from
         /\ \A m \in List : m = list[w] => Place(m) = from /\ Place(m)' = to
         /\ \A m \in List : m # list[w] => Place(m) = "idle" /\ Place(m)' = "idle"
         /\ pc' \in [Writers -> Places]
         /\ MutualExclusion' /\ WriterInv'
  <1>1. pc[w] = from /\ pc' = [pc EXCEPT ![w] = to] /\ pc \in [Writers -> Places]
    BY DEF Move, Typed, Places
  <1>2. mMutex = w /\ w # NoThread
    BY <1>1, Constants DEF MutualExclusion, InSection
  <1>3. pc'[w] = to /\ \A v \in Writers : v # w => pc'[v] = pc[v]
    BY <1>1
  <1>4. MutualExclusion'
    BY <1>1, <1>2, <1>3 DEF MutualExclusion, InSection
  <1>5. WriterInv'
    BY <1>1, <1>3 DEF WriterInv
  <1> QED BY <1>1, <1>2, <1>3, <1>4, <1>5 DEF Place

\* A step of a writer disturbs every read.
LEMMA MoveDisturbs ==
  ASSUME Typed, NEW w, NEW from, NEW to, Move(w, from, to)
  PROVE  ReaderInv'
  BY DEF Move, readerVars, ReaderInv

\* A list whose append is at rest before and after, and whose members and cells
\* stay as they are, stays right.
LEMMA AtRest ==
  ASSUME NEW l \in List, Typed, SizeInv(l), BlockInv(l),
         Place(l) \in Resting, Place(l)' \in Resting,
         mArray'[l] = mArray[l], mSize'[l] = mSize[l], mCapacity'[l] = mCapacity[l],
         accepted'[l] = accepted[l],
         mArray[l] \in live => mArray[l] \in live' /\ cells'[mArray[l]] = cells[mArray[l]]
  PROVE  SizeInv(l)' /\ BlockInv(l)'
  <1>1. mSize[l] \in Nat /\ mCapacity[l] \in Nat
    BY DEF Typed
  <1>2. SizeInv(l)'
    BY DEF SizeInv, Resting
  <1>3. mCapacity[l] > 0 => Allocated(mArray[l], mCapacity[l])
    BY DEF BlockInv, Resting
  <1>4. mCapacity'[l] > 0 => mArray'[l] \in live' /\ DOMAIN cells'[mArray'[l]] = 1 .. mCapacity'[l]
    BY <1>3 DEF Allocated
  <1>5. Holds(l, mArray[l]) /\ mSize[l] <= mCapacity[l]
    BY DEF BlockInv, SizeInv, Resting
  <1>6. \A k \in 1 .. mSize'[l] : cells'[mArray'[l]][k] = accepted'[l][k]
    <2>1. CASE mCapacity[l] = 0
      BY <1>1, <1>5, <2>1
    <2>2. CASE mCapacity[l] > 0
      BY <1>3, <1>5, <2>2 DEF Allocated, Holds
    <2> QED BY <1>1, <2>1, <2>2
  <1>7. BlockInv(l)'
    BY <1>4, <1>6 DEF BlockInv, Allocated, Holds, Resting
  <1> QED BY <1>2, <1>7

-----------------------------------------------------------------------------
(* The steps of a writer.                                                   *)

ListsInv == \A l \in List : SizeInv(l) /\ BlockInv(l)

\* A step that touches neither the lists nor their blocks nor the thread inside.
LEMMA SameLists ==
  ASSUME Typed, ListsInv, OwnerInv,
         UNCHANGED <<listVars, heapVars, destination, accepted>>,
         \A l \in List : Place(l)' = Place(l),
         mMutex # NoThread => mMutex' = mMutex /\ Current(mMutex)' = Current(mMutex)
  PROVE  ListsInv' /\ OwnerInv'
  <1>1. /\ mArray' = mArray /\ mSize' = mSize /\ mCapacity' = mCapacity
        /\ live' = live /\ cells' = cells /\ destination' = destination /\ accepted' = accepted
    BY DEF listVars, heapVars
  <1>2. OwnerInv'
    BY <1>1 DEF OwnerInv
  <1>3. ASSUME NEW l \in List PROVE SizeInv(l)' /\ BlockInv(l)'
    <2>1. SizeInv(l) /\ BlockInv(l) /\ Place(l)' = Place(l)
      BY DEF ListsInv
    <2>2. SizeInv(l)'
      BY <1>1, <2>1 DEF SizeInv
    <2>3. Place(l)' = "count" => Current(mMutex)' = Current(mMutex)
      BY <2>1 DEF Place
    <2>4. BlockInv(l)'
      BY <1>1, <2>1, <2>3 DEF BlockInv, Holds, Allocated
    <2> QED BY <2>2, <2>4
  <1> QED BY <1>2, <1>3 DEF ListsInv

LEMMA WriteStep ==
  ASSUME Inv, NEW w \in Writers, Write(w)
  PROVE  Inv'
  <1>0. written' \in [Writers -> 0 .. NumWrites]
    <2>1. written[w] \in 0 .. NumWrites /\ written[w] < NumWrites
      BY DEF Inv, Typed, Write
    <2>2. written[w] + 1 \in 0 .. NumWrites
      BY <2>1, Constants
    <2> QED BY <2>2 DEF Inv, Typed, Write
  <1>1. Typed'
    BY <1>0 DEF Inv, Typed, Write, Move, readerVars, listVars, heapVars
  <1>2. pc[w] = "idle" /\ mMutex # w /\ mMutex' = mMutex
    BY DEF Inv, Write, Move, MutualExclusion, InSection
  <1>3. /\ pc'[w] = "lock" /\ \A v \in Writers : v # w => pc'[v] = pc[v]
        /\ \A v \in Writers : v # w => list'[v] = list[v] /\ written'[v] = written[v]
        /\ written'[w] = written[w] + 1 /\ written[w] \in Nat
    BY Constants DEF Inv, Write, Move, Typed
  <1>4. mMutex \in Writers \cup {NoThread}
    BY DEF Inv, Typed
  <1>5. MutualExclusion' /\ WriterInv'
    BY <1>2, <1>3 DEF Inv, MutualExclusion, InSection, WriterInv
  <1>6. \A l \in List : Place(l)' = Place(l)
    BY <1>2, <1>3, <1>4 DEF Place
  <1>7. mMutex # NoThread => Current(mMutex)' = Current(mMutex)
    BY <1>2, <1>3, <1>4 DEF Current
  <1>8. ListsInv' /\ OwnerInv'
    BY <1>2, <1>6, <1>7, SameLists DEF Inv, ListsInv, Write
  <1>9. ReaderInv'
    BY MoveDisturbs DEF Inv, Write
  <1> QED BY <1>1, <1>5, <1>8, <1>9 DEF Inv, ListsInv

LEMMA LockStep ==
  ASSUME Inv, NEW w \in Writers, Lock(w)
  PROVE  Inv'
  <1>1. Typed'
    BY DEF Inv, Typed, Lock, Move, readerVars, listVars, heapVars
  <1>2. /\ mMutex = NoThread /\ mMutex' = w /\ pc[w] = "lock" /\ list' = list /\ written' = written
        /\ pc'[w] = "grow" /\ \A v \in Writers : v # w => pc'[v] = pc[v]
    BY DEF Inv, Lock, Move, Typed
  <1>3. MutualExclusion' /\ WriterInv'
    BY <1>2, Constants DEF Inv, MutualExclusion, InSection, WriterInv
  <1>4. \A l \in List : Place(l) \in Resting /\ Place(l)' \in Resting
    BY <1>2 DEF Place, Resting
  <1>5. /\ mArray' = mArray /\ mSize' = mSize /\ mCapacity' = mCapacity
        /\ live' = live /\ cells' = cells /\ accepted' = accepted
    BY DEF Lock, listVars, heapVars
  <1>6. ListsInv'
    BY <1>4, <1>5, AtRest DEF Inv, ListsInv
  <1>7. OwnerInv'
    BY <1>4, <1>5 DEF Inv, OwnerInv, Resting
  <1>8. ReaderInv'
    BY MoveDisturbs DEF Inv, Lock
  <1> QED BY <1>1, <1>3, <1>6, <1>7, <1>8 DEF Inv, ListsInv

LEMMA HasRoomStep ==
  ASSUME Inv, NEW w \in Writers, HasRoom(w)
  PROVE  Inv'
  <1>1. Typed'
    BY DEF Inv, Typed, HasRoom, Move, readerVars, listVars, heapVars
  <1>2. PICK l \in List : l = list[w]
    BY DEF Inv, Typed
  <1>3. /\ Place(l) = "grow" /\ Place(l)' = "construct"
        /\ \A m \in List : m # l => Place(m) = "idle" /\ Place(m)' = "idle"
        /\ MutualExclusion' /\ WriterInv'
    BY <1>2, HolderStep DEF Inv, HasRoom, Places
  <1>4. /\ mArray' = mArray /\ mSize' = mSize /\ mCapacity' = mCapacity
        /\ live' = live /\ cells' = cells /\ accepted' = accepted
        /\ mSize[l] # mCapacity[l]
    BY <1>2 DEF HasRoom, listVars, heapVars
  <1>5. ASSUME NEW m \in List, m # l PROVE SizeInv(m)' /\ BlockInv(m)'
    BY <1>3, <1>4, <1>5, AtRest DEF Inv, Resting
  <1>6. SizeInv(l)'
    <2>1. mSize[l] \in Nat /\ mCapacity[l] \in Nat
      BY DEF Inv, Typed
    <2> QED BY <1>3, <1>4, <2>1 DEF Inv, SizeInv
  <1>7. BlockInv(l)'
    BY <1>3, <1>4 DEF Inv, BlockInv, Holds, Allocated
  <1>8. OwnerInv'
    BY <1>3, <1>4 DEF Inv, OwnerInv
  <1>9. ReaderInv'
    BY MoveDisturbs DEF Inv, HasRoom
  <1> QED BY <1>1, <1>3, <1>5, <1>6, <1>7, <1>8, <1>9 DEF Inv

LEMMA AllocateStep ==
  ASSUME Inv, NEW w \in Writers, Allocate(w)
  PROVE  Inv'
  <1>0. PICK l \in List : l = list[w]
    BY DEF Inv, Typed
  <1>1. PICK b \in Blocks \ live :
          /\ destination' = b /\ live' = live \cup {b}
          /\ cells' = [cells EXCEPT ![b] = [k \in 1 .. growthFactor(mCapacity[l], 1) |-> Raw]]
    BY <1>0 DEF Allocate
  <1>2. /\ Place(l) = "grow" /\ Place(l)' = "relocate"
        /\ \A m \in List : m # l => Place(m) = "idle" /\ Place(m)' = "idle"
        /\ MutualExclusion' /\ WriterInv'
    BY <1>0, HolderStep DEF Inv, Allocate, Places
  <1>3. /\ mArray' = mArray /\ mSize' = mSize /\ mCapacity' = mCapacity /\ accepted' = accepted
        /\ mSize[l] = mCapacity[l]
    BY <1>0 DEF Allocate, listVars
  <1>4. mSize[l] \in Nat /\ mCapacity[l] \in Nat /\ growthFactor(mCapacity[l], 1) \in Nat
    BY <1>2, GrowthIsPositive DEF Inv, Typed
  <1>5. cells'[b] \in Seq(Cell) /\ DOMAIN cells'[b] = 1 .. growthFactor(mCapacity[l], 1)
        /\ \A c \in Blocks : c # b => cells'[c] = cells[c]
    <2>1. cells'[b] = [k \in 1 .. growthFactor(mCapacity[l], 1) |-> Raw]
          /\ \A c \in Blocks : c # b => cells'[c] = cells[c]
      BY <1>1 DEF Inv, Typed
    <2>2. cells'[b] \in [1 .. growthFactor(mCapacity[l], 1) -> Cell]
      BY <2>1 DEF Cell
    <2> QED BY <1>4, <2>1, <2>2, CellsOf
  <1>6. Typed'
    <2>1. cells' \in [Blocks -> Seq(Message \cup {Raw, Moved})]
      BY <1>1, <1>5 DEF Inv, Typed, Cell
    <2> QED BY <1>1, <2>1 DEF Inv, Typed, Allocate, Move, readerVars, listVars
  <1>7. \A m \in List : mArray[m] # b /\ (mArray[m] \in live => mArray[m] \in Blocks)
    BY Constants DEF Inv, OwnerInv, Typed
  <1>8. ASSUME NEW m \in List, m # l PROVE SizeInv(m)' /\ BlockInv(m)'
    <2>1. Place(m) \in Resting /\ Place(m)' \in Resting
      BY <1>2, <1>8 DEF Resting
    <2>2. mArray[m] \in live => mArray[m] \in live' /\ cells'[mArray[m]] = cells[mArray[m]]
      BY <1>1, <1>5, <1>7
    <2> QED BY <1>3, <2>1, <2>2, AtRest DEF Inv
  <1>9. SizeInv(l)'
    BY <1>2, <1>3 DEF Inv, SizeInv
  <1>10. BlockInv(l)'
    <2>1. Allocated(b, growthFactor(mCapacity[l], 1))'
      BY <1>1, <1>3, <1>5 DEF Allocated
    <2>2. mCapacity[l] > 0 => Allocated(mArray[l], mCapacity[l])
      BY <1>2 DEF Inv, BlockInv
    <2>3. mCapacity[l] > 0 => cells'[mArray[l]] = cells[mArray[l]] /\ mArray[l] \in live'
      BY <2>2, <1>1, <1>5, <1>7 DEF Allocated
    <2>4. \A k \in 1 .. mSize[l] : cells'[mArray[l]][k] = accepted[l][k]
      BY <1>2, <1>3, <1>4, <2>3 DEF Inv, BlockInv, Holds
    <2> QED BY <1>1, <1>2, <1>3, <2>1, <2>2, <2>3, <2>4 DEF BlockInv, Allocated, Holds
  <1>11. OwnerInv'
    BY <1>1, <1>2, <1>3, <1>7 DEF Inv, OwnerInv
  <1>12. ReaderInv'
    BY MoveDisturbs DEF Inv, Allocate
  <1> QED BY <1>2, <1>6, <1>8, <1>9, <1>10, <1>11, <1>12 DEF Inv

LEMMA AllocateFailsStep ==
  ASSUME Inv, NEW w \in Writers, AllocateFails(w)
  PROVE  Inv'
  <1>0. Current(w) \in Message
    BY CurrentIsMessage DEF Inv, AllocateFails, Move
  <1>1. Typed'
    BY <1>0 DEF Inv, Typed, AllocateFails, Move, readerVars, listVars, heapVars
  <1>2. /\ \A m \in List : m = list[w] => Place(m) = "grow" /\ Place(m)' = "unlock"
        /\ \A m \in List : m # list[w] => Place(m) = "idle" /\ Place(m)' = "idle"
        /\ MutualExclusion' /\ WriterInv'
    BY HolderStep DEF Inv, AllocateFails, Places
  <1>3. \A m \in List : Place(m) \in Resting /\ Place(m)' \in Resting
    BY <1>2 DEF Resting
  <1>4. /\ mArray' = mArray /\ mSize' = mSize /\ mCapacity' = mCapacity
        /\ live' = live /\ cells' = cells /\ accepted' = accepted
    BY DEF AllocateFails, listVars, heapVars
  <1>5. ListsInv'
    BY <1>3, <1>4, AtRest DEF Inv, ListsInv
  <1>6. OwnerInv'
    BY <1>3, <1>4 DEF Inv, OwnerInv, Resting
  <1>7. ReaderInv'
    BY MoveDisturbs DEF Inv, AllocateFails
  <1> QED BY <1>1, <1>2, <1>5, <1>6, <1>7 DEF Inv, ListsInv

LEMMA RelocateStep ==
  ASSUME Inv, NEW w \in Writers, Relocate(w)
  PROVE  Inv'
  <1>1. PICK l \in List : l = list[w]
    BY DEF Inv, Typed
  <1> DEFINE n == mSize[l]
             b == mArray[l]
             big == growthFactor(mCapacity[l], 1)
  <1>2. /\ Place(l) = "relocate" /\ Place(l)' = "release"
        /\ \A m \in List : m # l => Place(m) = "idle" /\ Place(m)' = "idle"
        /\ MutualExclusion' /\ WriterInv'
    BY <1>1, HolderStep DEF Inv, Relocate, Places
  <1>3. /\ mArray' = mArray /\ mSize' = mSize /\ mCapacity' = mCapacity
        /\ live' = live /\ destination' = destination /\ accepted' = accepted
    BY DEF Relocate, listVars
  <1>4. /\ n \in Nat /\ mCapacity[l] = n /\ big \in Nat /\ big > n
        /\ destination \in live /\ destination \in Blocks /\ DOMAIN cells[destination] = 1 .. big
        /\ destination # b
    <2>1. n \in Nat /\ mCapacity[l] = n
      BY <1>2 DEF Inv, Typed, SizeInv
    <2>2. Allocated(destination, big) /\ destination # b
      BY <1>2 DEF Inv, BlockInv, OwnerInv
    <2> QED BY <2>1, <2>2, GrowthIsPositive DEF Allocated, Inv, Typed
  <1>5. n > 0 => b \in Blocks /\ b \in live /\ DOMAIN cells[b] = 1 .. n
    BY <1>2, <1>4 DEF Inv, BlockInv, Allocated, Typed
  <1>6. \A k \in 1 .. n : cells[b][k] = accepted[l][k] /\ accepted[l][k] \in Message
    <2>1. \A k \in 1 .. n : cells[b][k] = accepted[l][k]
      BY <1>2 DEF Inv, BlockInv, Holds
    <2>2. accepted[l] \in Seq(Message) /\ Len(accepted[l]) = n
      BY DEF Inv, Typed, SizeInv
    <2> QED BY <2>1, <2>2
  <1>7. cells' = [c \in Blocks |->
                    IF c = destination
                    THEN IF n = 0 THEN cells[c] ELSE Installed(cells[b], cells[c], n)
                    ELSE IF c = b
                    THEN [k \in DOMAIN cells[c] |-> IF k <= n THEN Moved ELSE Raw]
                    ELSE cells[c]]
    BY <1>1 DEF Relocate
  <1>8. cells'[destination] \in [1 .. big -> Cell]
        /\ \A k \in 1 .. n : cells'[destination][k] = accepted[l][k]
    <2>1. cells[destination] \in [1 .. big -> Cell]
      BY <1>4, CellsAre DEF Inv, Typed, Cell
    <2>2. CASE n = 0
      BY <1>4, <1>7, <2>1, <2>2
    <2>3. CASE n # 0
      <3>1. cells'[destination] = [k \in 1 .. big |-> IF k <= n THEN cells[b][k] ELSE cells[destination][k]]
        BY <1>4, <1>7, <2>3 DEF Installed
      <3>2. \A k \in 1 .. big : k <= n => k \in 1 .. n
        BY <1>4
      <3>3. \A k \in 1 .. big : (IF k <= n THEN cells[b][k] ELSE cells[destination][k]) \in Cell
        BY <1>6, <2>1, <3>2 DEF Cell
      <3>4. \A k \in 1 .. n : k \in 1 .. big /\ k <= n
        BY <1>4
      <3> QED BY <1>6, <3>1, <3>3, <3>4
    <2> QED BY <2>2, <2>3
  <1>9. \A c \in Blocks : c # destination /\ c # b => cells'[c] = cells[c]
    BY <1>7
  <1>10. b \in Blocks => cells'[b] \in Seq(Cell) /\ DOMAIN cells'[b] = DOMAIN cells[b]
    <2> SUFFICES ASSUME b \in Blocks
                 PROVE  cells'[b] \in Seq(Cell) /\ DOMAIN cells'[b] = DOMAIN cells[b]
      OBVIOUS
    <2>1. cells[b] \in Seq(Cell)
      BY DEF Inv, Typed, Cell
    <2>2. PICK size \in Nat : DOMAIN cells[b] = 1 .. size
      BY <2>1
    <2>3. cells'[b] = [k \in 1 .. size |-> IF k <= n THEN Moved ELSE Raw]
      BY <1>4, <1>7, <2>2
    <2>4. cells'[b] \in [1 .. size -> Cell]
      BY <2>3 DEF Cell
    <2> QED BY <2>2, <2>4, CellsOf
  <1>11. Typed'
    <2>1. cells'[destination] \in Seq(Cell)
      BY <1>4, <1>8, CellsOf
    <2>2. \A c \in Blocks : cells'[c] \in Seq(Cell)
      BY <1>9, <1>10, <2>1 DEF Inv, Typed, Cell
    <2>3. cells' \in [Blocks -> Seq(Message \cup {Raw, Moved})]
      BY <1>7, <2>2 DEF Cell
    <2> QED BY <2>3 DEF Inv, Typed, Relocate, Move, readerVars, listVars
  <1>12. ASSUME NEW m \in List, m # l PROVE SizeInv(m)' /\ BlockInv(m)'
    <2>1. Place(m) \in Resting /\ Place(m)' \in Resting
      BY <1>2, <1>12 DEF Resting
    <2>2. mArray[m] \in live => mArray[m] # destination /\ mArray[m] # b /\ mArray[m] \in Blocks
      BY <1>2, <1>12, Constants DEF Inv, OwnerInv, Typed, List
    <2>3. mArray[m] \in live => mArray[m] \in live' /\ cells'[mArray[m]] = cells[mArray[m]]
      BY <1>3, <1>9, <2>2
    <2> QED BY <1>3, <2>1, <2>3, AtRest DEF Inv
  <1>13. SizeInv(l)'
    BY <1>2, <1>3 DEF Inv, SizeInv
  <1>14. BlockInv(l)'
    <2>1. DOMAIN cells'[destination] = 1 .. big
      BY <1>8
    <2>2. mCapacity[l] > 0 => DOMAIN cells'[b] = 1 .. mCapacity[l] /\ b \in live
      BY <1>4, <1>5, <1>10
    <2> QED BY <1>2, <1>3, <1>4, <1>8, <2>1, <2>2 DEF BlockInv, Allocated, Holds
  <1>15. OwnerInv'
    BY <1>2, <1>3 DEF Inv, OwnerInv
  <1>16. ReaderInv'
    BY MoveDisturbs DEF Inv, Relocate
  <1> QED BY <1>2, <1>11, <1>12, <1>13, <1>14, <1>15, <1>16 DEF Inv

LEMMA ReleaseStep ==
  ASSUME Inv, NEW w \in Writers, Release(w)
  PROVE  Inv'
  <1>1. PICK l \in List : l = list[w]
    BY DEF Inv, Typed
  <1> DEFINE b == mArray[l]
  <1>2. /\ Place(l) = "release" /\ Place(l)' = "adopt"
        /\ \A m \in List : m # l => Place(m) = "idle" /\ Place(m)' = "idle"
        /\ MutualExclusion' /\ WriterInv'
    BY <1>1, HolderStep DEF Inv, Release, Places
  <1>3. /\ mSize' = mSize /\ mCapacity' = mCapacity /\ destination' = destination
        /\ accepted' = accepted /\ live' = live \ {b}
        /\ cells' = [c \in Blocks |-> IF c = b THEN <<>> ELSE cells[c]]
    BY <1>1 DEF Release
  <1>4. mArray'[l] = nullptr /\ \A m \in List : m # l => mArray'[m] = mArray[m]
    BY <1>1 DEF Inv, Typed, Release
  <1>5. Typed'
    <2>1. cells' \in [Blocks -> Seq(Message \cup {Raw, Moved})]
      BY <1>3 DEF Inv, Typed
    <2> QED BY <1>3, <2>1 DEF Inv, Typed, Release, Move, readerVars
  <1>6. destination \in live /\ destination \in Blocks /\ destination # b
        /\ DOMAIN cells[destination] = 1 .. growthFactor(mCapacity[l], 1)
        /\ Holds(l, destination)
    BY <1>2 DEF Inv, BlockInv, Allocated, OwnerInv, Typed
  <1>7. \A m \in List : m # l /\ mArray[m] \in live => mArray[m] # b /\ mArray[m] \in Blocks
    BY <1>1, Constants DEF Inv, OwnerInv, Typed, List
  <1>8. ASSUME NEW m \in List, m # l PROVE SizeInv(m)' /\ BlockInv(m)'
    <2>1. Place(m) \in Resting /\ Place(m)' \in Resting
      BY <1>2, <1>8 DEF Resting
    <2>2. mArray[m] \in live => mArray[m] \in live' /\ cells'[mArray[m]] = cells[mArray[m]]
      BY <1>3, <1>7, <1>8
    <2> QED BY <1>3, <1>4, <1>8, <2>1, <2>2, AtRest DEF Inv
  <1>9. SizeInv(l)'
    BY <1>2, <1>3 DEF Inv, SizeInv
  <1>10. BlockInv(l)'
    <2>1. destination \in live' /\ cells'[destination] = cells[destination]
      BY <1>3, <1>6
    <2> QED BY <1>2, <1>3, <1>6, <2>1 DEF BlockInv, Allocated, Holds
  <1>11. OwnerInv'
    <2>1. \A m \in List : mArray'[m] \in live' \cup {nullptr}
      BY <1>3, <1>4, <1>7 DEF Inv, OwnerInv
    <2>2. mArray'["mLogs"] = mArray'["mErrors"] => mArray'["mLogs"] = nullptr
      BY <1>4 DEF List
    <2>3. \A m \in List : mArray'[m] # destination
      BY <1>2, <1>4, <1>6, Constants DEF Inv, OwnerInv
    <2> QED BY <1>3, <2>1, <2>2, <2>3 DEF OwnerInv
  <1>12. ReaderInv'
    BY MoveDisturbs DEF Inv, Release
  <1> QED BY <1>2, <1>5, <1>8, <1>9, <1>10, <1>11, <1>12 DEF Inv

LEMMA AdoptArrayStep ==
  ASSUME Inv, NEW w \in Writers, AdoptArray(w)
  PROVE  Inv'
  <1>1. PICK l \in List : l = list[w]
    BY DEF Inv, Typed
  <1>2. /\ Place(l) = "adopt" /\ Place(l)' = "resize"
        /\ \A m \in List : m # l => Place(m) = "idle" /\ Place(m)' = "idle"
        /\ MutualExclusion' /\ WriterInv'
    BY <1>1, HolderStep DEF Inv, AdoptArray, Places
  <1>3. /\ mSize' = mSize /\ mCapacity' = mCapacity /\ accepted' = accepted
        /\ live' = live /\ cells' = cells
    BY DEF AdoptArray, heapVars
  <1>4. mArray'[l] = destination /\ \A m \in List : m # l => mArray'[m] = mArray[m]
    BY <1>1 DEF Inv, Typed, AdoptArray
  <1>5. Typed'
    BY DEF Inv, Typed, AdoptArray, Move, readerVars, heapVars
  <1>6. /\ Allocated(destination, growthFactor(mCapacity[l], 1)) /\ Holds(l, destination)
        /\ \A m \in List : mArray[m] # destination
    BY <1>2 DEF Inv, BlockInv, OwnerInv
  <1>7. ASSUME NEW m \in List, m # l PROVE SizeInv(m)' /\ BlockInv(m)'
    BY <1>2, <1>3, <1>4, <1>7, AtRest DEF Inv, Resting
  <1>8. SizeInv(l)'
    BY <1>2, <1>3 DEF Inv, SizeInv
  <1>9. BlockInv(l)'
    BY <1>2, <1>3, <1>4, <1>6 DEF BlockInv, Allocated, Holds
  <1>10. OwnerInv'
    <2>1. \A m \in List : mArray'[m] \in live' \cup {nullptr}
      BY <1>3, <1>4, <1>6 DEF Inv, OwnerInv, Allocated
    <2>2. mArray'["mLogs"] # mArray'["mErrors"] \/ mArray'["mLogs"] = nullptr
      BY <1>4, <1>6 DEF List
    <2>3. \A m \in List : Place(m)' \notin {"relocate", "release", "adopt"}
      BY <1>2
    <2> QED BY <2>1, <2>2, <2>3 DEF OwnerInv
  <1>11. ReaderInv'
    BY MoveDisturbs DEF Inv, AdoptArray
  <1> QED BY <1>2, <1>5, <1>7, <1>8, <1>9, <1>10, <1>11 DEF Inv

LEMMA AdoptCapacityStep ==
  ASSUME Inv, NEW w \in Writers, AdoptCapacity(w)
  PROVE  Inv'
  <1>1. PICK l \in List : l = list[w]
    BY DEF Inv, Typed
  <1>2. /\ Place(l) = "resize" /\ Place(l)' = "construct"
        /\ \A m \in List : m # l => Place(m) = "idle" /\ Place(m)' = "idle"
        /\ MutualExclusion' /\ WriterInv'
    BY <1>1, HolderStep DEF Inv, AdoptCapacity, Places
  <1>3. /\ mArray' = mArray /\ mSize' = mSize /\ accepted' = accepted
        /\ live' = live /\ cells' = cells
    BY DEF AdoptCapacity, heapVars
  <1>4. /\ mCapacity'[l] = growthFactor(mCapacity[l], 1)
        /\ \A m \in List : m # l => mCapacity'[m] = mCapacity[m]
    BY <1>1 DEF Inv, Typed, AdoptCapacity
  <1>5. mCapacity[l] \in Nat /\ mCapacity'[l] \in Nat /\ mCapacity'[l] > mCapacity[l]
    BY <1>4, GrowthIsPositive DEF Inv, Typed
  <1>6. Typed'
    <2>1. mCapacity' \in [List -> Nat]
      BY <1>4, <1>5 DEF Inv, Typed, AdoptCapacity
    <2> QED BY <2>1 DEF Inv, Typed, AdoptCapacity, Move, readerVars, heapVars
  <1>7. ASSUME NEW m \in List, m # l PROVE SizeInv(m)' /\ BlockInv(m)'
    BY <1>2, <1>3, <1>4, <1>7, AtRest DEF Inv, Resting
  <1>8. SizeInv(l)'
    BY <1>2, <1>3, <1>5 DEF Inv, SizeInv
  <1>9. BlockInv(l)'
    BY <1>2, <1>3, <1>4 DEF Inv, BlockInv, Allocated, Holds
  <1>10. OwnerInv'
    BY <1>2, <1>3 DEF Inv, OwnerInv
  <1>11. ReaderInv'
    BY MoveDisturbs DEF Inv, AdoptCapacity
  <1> QED BY <1>2, <1>6, <1>7, <1>8, <1>9, <1>10, <1>11 DEF Inv

LEMMA ConstructStep ==
  ASSUME Inv, NEW w \in Writers, Construct(w)
  PROVE  Inv'
  <1>1. PICK l \in List : l = list[w]
    BY DEF Inv, Typed
  <1> DEFINE b == mArray[l]
             n == mSize[l]
  <1>2. /\ Place(l) = "construct" /\ Place(l)' = "count" /\ mMutex = w
        /\ \A m \in List : m # l => Place(m) = "idle" /\ Place(m)' = "idle"
        /\ MutualExclusion' /\ WriterInv'
    BY <1>1, HolderStep DEF Inv, Construct, Places
  <1>3. /\ mArray' = mArray /\ mSize' = mSize /\ mCapacity' = mCapacity
        /\ live' = live /\ accepted' = accepted /\ mMutex' = mMutex /\ written' = written
    BY DEF Construct, listVars
  <1>4. n \in Nat /\ mCapacity[l] \in Nat /\ n < mCapacity[l] /\ n + 1 \in 1 .. mCapacity[l]
    <2>1. n \in Nat /\ mCapacity[l] \in Nat /\ n < mCapacity[l]
      BY <1>2 DEF Inv, Typed, SizeInv
    <2> QED BY <2>1
  <1>5. b \in live /\ b \in Blocks /\ DOMAIN cells[b] = 1 .. mCapacity[l]
    <2>1. mCapacity[l] > 0
      BY <1>4
    <2>2. Allocated(b, mCapacity[l])
      BY <1>2, <2>1 DEF Inv, BlockInv
    <2> QED BY <2>2 DEF Allocated, Inv, Typed
  <1>6. cells[b] \in [1 .. mCapacity[l] -> Cell]
    BY <1>4, <1>5, CellsAre DEF Inv, Typed, Cell
  <1>7. Current(w) \in Cell
    BY CurrentIsMessage DEF Inv, Construct, Move, Cell
  <1>8. cells'[b] = [cells[b] EXCEPT ![n + 1] = Current(w)]
        /\ \A c \in Blocks : c # b => cells'[c] = cells[c]
    BY <1>1, <1>5 DEF Inv, Typed, Construct
  <1>9. /\ cells'[b] \in [1 .. mCapacity[l] -> Cell]
        /\ cells'[b][n + 1] = Current(w)
        /\ \A k \in 1 .. n : cells'[b][k] = cells[b][k]
    <2>1. \A k \in 1 .. n : k \in 1 .. mCapacity[l] /\ k # n + 1
      BY <1>4
    <2> QED BY <1>4, <1>6, <1>7, <1>8, <2>1
  <1>10. Typed'
    <2>1. cells'[b] \in Seq(Cell)
      BY <1>4, <1>9, CellsOf
    <2>2. cells' \in [Blocks -> Seq(Message \cup {Raw, Moved})]
      BY <1>5, <1>8, <2>1 DEF Inv, Typed, Cell, Construct
    <2> QED BY <2>2 DEF Inv, Typed, Construct, Move, readerVars, listVars
  <1>11. ASSUME NEW m \in List, m # l PROVE SizeInv(m)' /\ BlockInv(m)'
    <2>1. Place(m) \in Resting /\ Place(m)' \in Resting
      BY <1>2, <1>11 DEF Resting
    <2>2. mArray[m] \in live => mArray[m] # b /\ mArray[m] \in Blocks
      BY <1>5, <1>11, Constants DEF Inv, OwnerInv, Typed, List
    <2>3. mArray[m] \in live => mArray[m] \in live' /\ cells'[mArray[m]] = cells[mArray[m]]
      BY <1>3, <1>8, <2>2
    <2> QED BY <1>3, <2>1, <2>3, AtRest DEF Inv
  <1>12. SizeInv(l)'
    BY <1>2, <1>3 DEF Inv, SizeInv
  <1>13. BlockInv(l)'
    <2>1. Current(mMutex)' = Current(w)
      BY <1>2, <1>3 DEF Current
    <2>2. DOMAIN cells'[b] = 1 .. mCapacity[l]
      BY <1>9
    <2>3. \A k \in 1 .. n : cells'[b][k] = accepted[l][k]
      BY <1>2, <1>9 DEF Inv, BlockInv, Holds
    <2> QED BY <1>2, <1>3, <1>5, <1>9, <2>1, <2>2, <2>3 DEF BlockInv, Allocated, Holds
  <1>14. OwnerInv'
    BY <1>2, <1>3 DEF Inv, OwnerInv
  <1>15. ReaderInv'
    BY MoveDisturbs DEF Inv, Construct
  <1> QED BY <1>2, <1>10, <1>11, <1>12, <1>13, <1>14, <1>15 DEF Inv

LEMMA ConstructFailsStep ==
  ASSUME Inv, NEW w \in Writers, ConstructFails(w)
  PROVE  Inv'
  <1>1. PICK l \in List : l = list[w]
    BY DEF Inv, Typed
  <1>2. Current(w) \in Message
    BY CurrentIsMessage DEF Inv, ConstructFails, Move
  <1>3. Typed'
    BY <1>2 DEF Inv, Typed, ConstructFails, Move, readerVars, listVars, heapVars
  <1>4. /\ Place(l) = "construct" /\ Place(l)' = "unlock"
        /\ \A m \in List : m # l => Place(m) = "idle" /\ Place(m)' = "idle"
        /\ MutualExclusion' /\ WriterInv'
    BY <1>1, HolderStep DEF Inv, ConstructFails, Places
  <1>5. /\ mArray' = mArray /\ mSize' = mSize /\ mCapacity' = mCapacity
        /\ live' = live /\ cells' = cells /\ accepted' = accepted
    BY DEF ConstructFails, listVars, heapVars
  <1>6. ASSUME NEW m \in List, m # l PROVE SizeInv(m)' /\ BlockInv(m)'
    BY <1>4, <1>5, <1>6, AtRest DEF Inv, Resting
  <1>7. SizeInv(l)'
    BY <1>4, <1>5 DEF Inv, SizeInv
  <1>8. BlockInv(l)'
    BY <1>4, <1>5 DEF Inv, BlockInv, Allocated, Holds
  <1>9. OwnerInv'
    BY <1>4, <1>5 DEF Inv, OwnerInv
  <1>10. ReaderInv'
    BY MoveDisturbs DEF Inv, ConstructFails
  <1> QED BY <1>3, <1>4, <1>6, <1>7, <1>8, <1>9, <1>10 DEF Inv

LEMMA CountStep ==
  ASSUME Inv, NEW w \in Writers, Count(w)
  PROVE  Inv'
  <1>1. PICK l \in List : l = list[w]
    BY DEF Inv, Typed
  <1> DEFINE n == mSize[l]
  <1>2. /\ Place(l) = "count" /\ Place(l)' = "unlock" /\ mMutex = w
        /\ \A m \in List : m # l => Place(m) = "idle" /\ Place(m)' = "idle"
        /\ MutualExclusion' /\ WriterInv'
    BY <1>1, HolderStep DEF Inv, Count, Places
  <1>3. /\ mArray' = mArray /\ mCapacity' = mCapacity /\ live' = live /\ cells' = cells
    BY DEF Count, heapVars
  <1>4. /\ mSize'[l] = n + 1 /\ accepted'[l] = Append(accepted[l], Current(w))
        /\ \A m \in List : m # l => mSize'[m] = mSize[m] /\ accepted'[m] = accepted[m]
    BY <1>1 DEF Inv, Typed, Count
  <1>5. n \in Nat /\ mCapacity[l] \in Nat /\ n < mCapacity[l] /\ Len(accepted[l]) = n
        /\ accepted[l] \in Seq(Message) /\ Current(w) \in Message
    <2>1. Current(w) \in Message
      BY CurrentIsMessage DEF Inv, Count, Move
    <2> QED BY <1>2, <2>1 DEF Inv, Typed, SizeInv
  <1>6. /\ accepted'[l] \in Seq(Message) /\ Len(accepted'[l]) = n + 1
        /\ accepted'[l][n + 1] = Current(w)
        /\ \A k \in 1 .. n : accepted'[l][k] = accepted[l][k]
    BY <1>4, <1>5, AppendProperties
  <1>7. Typed'
    <2>1. mSize' \in [List -> Nat] /\ accepted' \in [List -> Seq(Message)]
      BY <1>1, <1>4, <1>5, <1>6 DEF Inv, Typed, Count
    <2> QED BY <2>1 DEF Inv, Typed, Count, Move, readerVars, heapVars
  <1>8. ASSUME NEW m \in List, m # l PROVE SizeInv(m)' /\ BlockInv(m)'
    BY <1>2, <1>3, <1>4, <1>8, AtRest DEF Inv, Resting
  <1>9. SizeInv(l)'
    BY <1>2, <1>3, <1>4, <1>5, <1>6 DEF SizeInv
  <1>10. BlockInv(l)'
    <2>1. mCapacity[l] > 0 => Allocated(mArray[l], mCapacity[l])
      BY <1>2 DEF Inv, BlockInv
    <2>2. /\ \A k \in 1 .. n : cells[mArray[l]][k] = accepted[l][k]
          /\ cells[mArray[l]][n + 1] = Current(w)
      BY <1>2 DEF Inv, BlockInv, Holds
    <2>3. \A k \in 1 .. n + 1 : k \in 1 .. n \/ k = n + 1
      BY <1>5
    <2>4. \A k \in 1 .. n + 1 : cells[mArray[l]][k] = accepted'[l][k]
      BY <1>6, <2>2, <2>3
    <2> QED BY <1>2, <1>3, <1>4, <2>1, <2>4 DEF BlockInv, Allocated, Holds
  <1>11. OwnerInv'
    BY <1>2, <1>3 DEF Inv, OwnerInv
  <1>12. ReaderInv'
    BY MoveDisturbs DEF Inv, Count
  <1> QED BY <1>2, <1>7, <1>8, <1>9, <1>10, <1>11, <1>12 DEF Inv

LEMMA UnlockStep ==
  ASSUME Inv, NEW w \in Writers, Unlock(w)
  PROVE  Inv'
  <1>1. Typed'
    BY DEF Inv, Typed, Unlock, Move, readerVars, listVars, heapVars
  <1>2. /\ mMutex = w /\ mMutex' = NoThread /\ pc[w] = "unlock" /\ written' = written
        /\ pc'[w] = "idle" /\ \A v \in Writers : v # w => pc'[v] = pc[v]
    BY DEF Inv, Unlock, Move, Typed, MutualExclusion, InSection
  <1>3. MutualExclusion' /\ WriterInv'
    BY <1>2, Constants DEF Inv, MutualExclusion, InSection, WriterInv
  <1>4. \A l \in List : Place(l) \in Resting /\ Place(l)' \in Resting
    BY <1>2 DEF Place, Resting
  <1>5. /\ mArray' = mArray /\ mSize' = mSize /\ mCapacity' = mCapacity
        /\ live' = live /\ cells' = cells /\ accepted' = accepted
    BY DEF Unlock, listVars, heapVars
  <1>6. ListsInv'
    BY <1>4, <1>5, AtRest DEF Inv, ListsInv
  <1>7. OwnerInv'
    BY <1>4, <1>5 DEF Inv, OwnerInv, Resting
  <1>8. ReaderInv'
    BY MoveDisturbs DEF Inv, Unlock
  <1> QED BY <1>1, <1>3, <1>6, <1>7, <1>8 DEF Inv, ListsInv

-----------------------------------------------------------------------------
(* The steps of a reader.                                                   *)

\* Readers change nothing that a writer knows.
LEMMA ReadersOnlyRead ==
  ASSUME Inv, ReaderStep
  PROVE  ListsInv' /\ OwnerInv' /\ MutualExclusion' /\ WriterInv'
  <1>1. /\ mMutex' = mMutex /\ pc' = pc /\ list' = list /\ written' = written
        /\ UNCHANGED <<listVars, heapVars, destination, accepted>>
    BY DEF ReaderStep, writerVars
  <1>2. MutualExclusion' /\ WriterInv'
    BY <1>1 DEF Inv, MutualExclusion, InSection, WriterInv
  <1>3. \A l \in List : Place(l)' = Place(l)
    BY <1>1 DEF Place
  <1>4. Current(mMutex)' = Current(mMutex)
    BY <1>1 DEF Current
  <1> QED BY <1>1, <1>2, <1>3, <1>4, SameLists DEF Inv, ListsInv

\* What a copy through a read that nothing has overlapped yields.
LEMMA QuietCopy ==
  ASSUME Inv, NEW r \in Readers, rpc[r] = "copy", quiet[r]
  PROVE  CopyOf(rarray[r], rindex[r]) = LastOf(rlist[r])
  <1>1. PICK l \in List : l = rlist[r]
    BY DEF Inv, Typed
  <1>2. /\ mMutex = NoThread /\ mSize[l] > 0
        /\ rindex[r] = mSize[l] /\ rarray[r] = mArray[l]
    BY <1>1 DEF Inv, ReaderInv
  <1>3. mSize[l] \in Nat /\ mCapacity[l] \in Nat /\ mSize[l] <= mCapacity[l]
        /\ Len(accepted[l]) = mSize[l] /\ accepted[l] \in Seq(Message)
    BY DEF Inv, Typed, SizeInv
  <1>4. mSize[l] \in 1 .. mCapacity[l] /\ mSize[l] \in 1 .. mSize[l] /\ mCapacity[l] > 0
    BY <1>2, <1>3
  <1>5. Allocated(mArray[l], mCapacity[l]) /\ Holds(l, mArray[l])
    BY <1>2, <1>4 DEF Inv, BlockInv, Place
  <1>6. cells[mArray[l]][mSize[l]] = accepted[l][mSize[l]]
    BY <1>4, <1>5 DEF Holds
  <1>7. accepted[l][mSize[l]] \in Message /\ accepted[l] # <<>>
    BY <1>3, <1>4
  <1>8. cells[mArray[l]][mSize[l]] # Raw /\ cells[mArray[l]][mSize[l]] # Moved
    BY <1>6, <1>7, Constants
  <1>9. CopyOf(mArray[l], mSize[l]) = accepted[l][mSize[l]]
    BY <1>4, <1>5, <1>6, <1>8 DEF CopyOf, Allocated
  <1>10. LastOf(l) = accepted[l][mSize[l]]
    BY <1>3, <1>7 DEF LastOf
  <1> QED BY <1>1, <1>2, <1>9, <1>10

\* Whatever it finds, a copy is something a read may return.
LEMMA CopyType ==
  ASSUME Typed, NEW r \in Readers
  PROVE  CopyOf(rarray[r], rindex[r]) \in Returned
  <1>1. ASSUME NEW b \in live, NEW k \in DOMAIN cells[b], cells[b][k] # Raw, cells[b][k] # Moved
        PROVE  cells[b][k] \in Message
    <2>1. cells[b] \in Seq(Message \cup {Raw, Moved})
      BY DEF Typed
    <2>2. cells[b][k] \in Message \cup {Raw, Moved}
      BY <2>1
    <2> QED BY <1>1, <2>2
  <1> QED BY <1>1 DEF CopyOf, Returned

LEMMA ReadStep ==
  ASSUME Inv, NEW r \in Readers, Read(r)
  PROVE  Inv'
  <1>1. ReaderStep
    BY DEF Read, ReadEmpty, ReadIndex, ReadArray, ReadCopy
  <1>2. /\ mMutex' = mMutex /\ mSize' = mSize /\ mArray' = mArray
        /\ UNCHANGED <<listVars, heapVars, writerVars>>
    BY <1>1 DEF ReaderStep, listVars, writerVars
  <1>3. CASE ReadEmpty(r)
    <2>1. PICK l \in List :
            /\ rlist' = [rlist EXCEPT ![r] = l]
            /\ \/ /\ mSize[l] = 0 /\ got' = [got EXCEPT ![r] = Empty] /\ rpc' = rpc
               \/ /\ mSize[l] # 0 /\ rpc' = [rpc EXCEPT ![r] = "index"] /\ got' = got
      BY <1>3 DEF ReadEmpty
    <2>2. rpc[r] = "idle" /\ quiet' = [quiet EXCEPT ![r] = mMutex = NoThread]
          /\ rindex' = rindex /\ rarray' = rarray
      BY <1>3 DEF ReadEmpty
    <2>3. Typed'
      BY <1>2, <2>1, <2>2 DEF Inv, Typed, listVars, heapVars, writerVars, Returned
    <2>4. ReaderInv'
      <3>1. ASSUME NEW s \in Readers, s # r, quiet'[s], rpc'[s] # "idle"
            PROVE  /\ quiet[s] /\ rpc'[s] = rpc[s] /\ rlist'[s] = rlist[s]
        BY <2>1, <2>2, <3>1 DEF Inv, Typed
      <3>2. ASSUME quiet'[r], rpc'[r] # "idle"
            PROVE  mMutex = NoThread /\ mSize[rlist'[r]] > 0 /\ rpc'[r] = "index"
        <4>1. mSize[l] # 0 /\ rpc' = [rpc EXCEPT ![r] = "index"]
          BY <2>1, <2>2, <3>2
        <4>2. rpc'[r] = "index" /\ rlist'[r] = l
          BY <2>1, <4>1 DEF Inv, Typed
        <4>3. mSize[l] \in Nat
          BY DEF Inv, Typed
        <4>4. mSize[l] > 0
          BY <4>1, <4>3
        <4>5. mMutex = NoThread
          BY <2>2, <3>2 DEF Inv, Typed
        <4> QED BY <4>2, <4>4, <4>5
      <3> QED BY <1>2, <2>2, <3>1, <3>2 DEF Inv, ReaderInv
    <2> QED BY <1>1, <2>3, <2>4, ReadersOnlyRead DEF Inv, ListsInv
  <1>4. CASE ReadIndex(r)
    <2>1. Typed'
      BY <1>2, <1>4 DEF Inv, Typed, ReadIndex, listVars, heapVars, writerVars
    <2>2. ReaderInv'
      BY <1>2, <1>4 DEF Inv, Typed, ReaderInv, ReadIndex
    <2> QED BY <1>1, <2>1, <2>2, ReadersOnlyRead DEF Inv, ListsInv
  <1>5. CASE ReadArray(r)
    <2>1. Typed'
      BY <1>2, <1>5 DEF Inv, Typed, ReadArray, listVars, heapVars, writerVars
    <2>2. ReaderInv'
      BY <1>2, <1>5 DEF Inv, Typed, ReaderInv, ReadArray
    <2> QED BY <1>1, <2>1, <2>2, ReadersOnlyRead DEF Inv, ListsInv
  <1>6. CASE ReadCopy(r)
    <2>1. CopyOf(rarray[r], rindex[r]) \in Returned
      BY CopyType DEF Inv
    <2>2. Typed'
      BY <1>2, <1>6, <2>1 DEF Inv, Typed, ReadCopy, listVars, heapVars, writerVars
    <2>3. ReaderInv'
      BY <1>2, <1>6 DEF Inv, Typed, ReaderInv, ReadCopy
    <2> QED BY <1>1, <2>2, <2>3, ReadersOnlyRead DEF Inv, ListsInv
  <1> QED BY <1>3, <1>4, <1>5, <1>6 DEF Read

-----------------------------------------------------------------------------
(* The invariant holds.                                                     *)

LEMMA InitInv == Init => Inv
  <1> SUFFICES ASSUME Init PROVE Inv
    OBVIOUS
  <1>1. Typed
    <2>1. \A T : <<>> \in Seq(T)
      OBVIOUS
    <2>2. written \in [Writers -> 0 .. NumWrites]
      BY Constants DEF Init
    <2> QED BY <2>1, <2>2 DEF Init, Typed, List, Returned
  <1>2. MutualExclusion /\ WriterInv
    BY Constants DEF Init, MutualExclusion, InSection, WriterInv
  <1>3. OwnerInv /\ ReaderInv
    <2>1. \A l \in List : mArray[l] = nullptr /\ Place(l) = "idle"
      BY DEF Init, Place
    <2>2. OwnerInv
      BY <2>1 DEF OwnerInv, List
    <2>3. \A r \in Readers : rpc[r] = "idle"
      BY DEF Init
    <2>4. ReaderInv
      BY <2>3 DEF ReaderInv
    <2> QED BY <2>2, <2>4
  <1>4. ASSUME NEW l \in List PROVE SizeInv(l) /\ BlockInv(l)
    <2>1. /\ Place(l) = "idle" /\ mSize[l] = 0 /\ mCapacity[l] = 0
          /\ accepted[l] = <<>>
      BY DEF Init, Place
    <2> QED BY <2>1 DEF SizeInv, BlockInv, Holds
  <1> QED BY <1>1, <1>2, <1>3, <1>4 DEF Inv

LEMMA StutterInv == ASSUME Inv, UNCHANGED vars PROVE Inv'
  <1>1. Typed'
    BY DEF Inv, Typed, vars, listVars, heapVars, writerVars, readerVars
  <1>2. ReaderInv'
    BY DEF Inv, ReaderInv, vars, listVars, writerVars, readerVars
  <1>3. ReaderStep
    BY DEF vars, ReaderStep
  <1> QED BY <1>1, <1>2, <1>3, ReadersOnlyRead DEF Inv, ListsInv

LEMMA NextInv == Inv /\ [Next]_vars => Inv'
  <1> SUFFICES ASSUME Inv, [Next]_vars PROVE Inv'
    OBVIOUS
  <1>1. ASSUME NEW w \in Writers, Write(w) \/ AppendStep(w) PROVE Inv'
    BY <1>1, WriteStep, LockStep, HasRoomStep, AllocateStep, AllocateFailsStep, RelocateStep,
       ReleaseStep, AdoptArrayStep, AdoptCapacityStep, ConstructStep, ConstructFailsStep, CountStep,
       UnlockStep
    DEF AppendStep
  <1> QED BY <1>1, ReadStep, StutterInv DEF Next

LEMMA AlwaysInv == Spec => []Inv
  BY InitInv, NextInv, PTL DEF Spec

-----------------------------------------------------------------------------
(* The properties.                                                          *)

\* Every variable has its type, also in the midst of a reallocation and whatever
\* a racing reader finds, and no list holds more than was allocated for it
\* (Logger.h:23-59, Sequence.h:95, 359-370).
THEOREM TypeCorrect == Spec => []TypeOK
  <1>1. Inv => TypeOK
    BY DEF Inv, TypeOK, SizeInv
  <1> QED BY <1>1, AlwaysInv, PTL

\* One thread at a time is inside add_log and add_error, also after an append that
\* threw (Logger.h:23-37).
THEOREM OneWriterAtATime == Spec => []MutualExclusion
  <1>1. Inv => MutualExclusion
    BY DEF Inv
  <1> QED BY <1>1, AlwaysInv, PTL

\* While no thread is inside an append, a list holds what was appended to it.
LEMMA ContentsAccepted ==
  ASSUME Inv, mMutex = NoThread, NEW l \in List
  PROVE  Contents(l) = accepted[l]
  <1>1. Place(l) = "idle"
    BY DEF Place
  <1>2. \A k \in 1 .. mSize[l] : cells[mArray[l]][k] = accepted[l][k]
    BY <1>1 DEF Inv, BlockInv, Holds
  <1>3. Contents(l) = [k \in 1 .. mSize[l] |-> accepted[l][k]]
    BY <1>2 DEF Contents
  <1>4. accepted[l] \in Seq(Message) /\ Len(accepted[l]) = mSize[l]
    BY DEF Inv, Typed, SizeInv
  <1> QED BY <1>3, <1>4, Rebuilt

\* No message is lost, repeated or moved by any number of reallocations and of
\* allocations that fail (Logger.h:23-37 over Sequence.h:359-370).
THEOREM NoMessageLost == Spec => []NothingLost
  <1>1. Inv => NothingLost
    BY ContentsAccepted DEF NothingLost
  <1> QED BY <1>1, AlwaysInv, PTL

-----------------------------------------------------------------------------
(* The order of a writer's messages.                                        *)

\* Message m has been appended to list l.
In(l, m) == \E k \in 1 .. Len(accepted[l]) : accepted[l][k] = m

\* The message a writer is about is neither appended nor given up.
Pending(w) == pc[w] \notin {"idle", "unlock"}

\* Whatever is appended or given up was given before, once, and only the message
\* a writer is about is neither; each list has a writer's messages in order.
OrderInv ==
  /\ \A w \in Writers, n \in 1 .. NumWrites :
       /\ n <= written[w] /\ ~(n = written[w] /\ Pending(w)) <=>
            <<w, n>> \in dropped \/ \E l \in List : In(l, <<w, n>>)
       /\ <<w, n>> \in dropped => \A l \in List : ~In(l, <<w, n>>)
       /\ ~(In("mLogs", <<w, n>>) /\ In("mErrors", <<w, n>>))
  /\ \A l \in List : \A i, j \in 1 .. Len(accepted[l]) :
       i < j /\ accepted[l][i][1] = accepted[l][j][1] => accepted[l][i][2] < accepted[l][j][2]

LEMMA InitOrderInv == Init => OrderInv
  <1> SUFFICES ASSUME Init PROVE OrderInv
    OBVIOUS
  <1>1. \A l \in List : accepted[l] = <<>> /\ Len(accepted[l]) = 0
    BY DEF Init
  <1>2. \A l \in List : \A m : ~In(l, m)
    BY <1>1 DEF In
  <1>3. dropped = {} /\ \A w \in Writers : written[w] = 0
    BY DEF Init
  <1>4. \A w \in Writers, n \in 1 .. NumWrites : ~(n <= written[w])
    BY <1>3, Constants
  <1> QED BY <1>1, <1>2, <1>3, <1>4 DEF OrderInv, List

\* A step after which the same messages are appended, given up and pending.
LEMMA SameOrder ==
  ASSUME OrderInv, written' = written, accepted' = accepted, dropped' = dropped,
         \A w \in Writers : Pending(w)' = Pending(w)
  PROVE  OrderInv'
  <1>1. \A l \in List : \A m : In(l, m)' = In(l, m)
    BY DEF In
  <1> QED BY <1>1 DEF OrderInv, List

LEMMA WriteOrder ==
  ASSUME Inv, OrderInv, NEW w \in Writers, Write(w)
  PROVE  OrderInv'
  <1>1. /\ written[w] \in Nat /\ written'[w] = written[w] + 1
        /\ \A v \in Writers : v # w => written'[v] = written[v]
    BY Constants DEF Inv, Typed, Write
  <1>2. /\ ~Pending(w) /\ Pending(w)'
        /\ \A v \in Writers : v # w => Pending(v)' = Pending(v)
    BY DEF Inv, Typed, Write, Move, Pending
  <1>3. accepted' = accepted /\ dropped' = dropped
    BY DEF Write
  <1>4. \A l \in List : \A m : In(l, m)' = In(l, m)
    BY <1>3 DEF In
  <1>5. ASSUME NEW v \in Writers, NEW n \in 1 .. NumWrites
        PROVE  (n <= written[v] /\ ~(n = written[v] /\ Pending(v)))
               = (n <= written'[v] /\ ~(n = written'[v] /\ Pending(v)'))
    <2>1. CASE v # w
      BY <1>1, <1>2, <2>1
    <2>2. CASE v = w
      <3>1. n \in Nat
        BY Constants
      <3>2. n <= written[w] <=> n <= written[w] + 1 /\ n # written[w] + 1
        BY <1>1, <3>1
      <3> QED BY <1>1, <1>2, <2>2, <3>2
    <2> QED BY <2>1, <2>2
  <1>6. \A v \in Writers, n \in 1 .. NumWrites :
          n <= written'[v] /\ ~(n = written'[v] /\ Pending(v)') <=>
            <<v, n>> \in dropped \/ \E l \in List : In(l, <<v, n>>)
    BY <1>5 DEF OrderInv
  <1> QED BY <1>3, <1>4, <1>6 DEF OrderInv, List

\* The message a writer inside an append is about.
LEMMA PendingMessage ==
  ASSUME Inv, OrderInv, NEW w \in Writers, Pending(w)
  PROVE  /\ written[w] \in 1 .. NumWrites
         /\ Current(w) \notin dropped /\ \A l \in List : ~In(l, Current(w))
  <1>1. pc[w] # "idle"
    BY DEF Pending
  <1>2. written[w] \in 1 .. NumWrites
    BY <1>1, Constants DEF Inv, Typed, WriterInv
  <1> QED BY <1>2 DEF OrderInv, Current

LEMMA FailOrder ==
  ASSUME Inv, OrderInv, NEW w \in Writers, AllocateFails(w) \/ ConstructFails(w)
  PROVE  OrderInv'
  <1>1. /\ Pending(w) /\ ~Pending(w)' /\ \A v \in Writers : v # w => Pending(v)' = Pending(v)
        /\ written' = written /\ accepted' = accepted
        /\ dropped' = dropped \cup {Current(w)}
    BY DEF Inv, Typed, AllocateFails, ConstructFails, Move, Pending
  <1>2. written[w] \in 1 .. NumWrites /\ \A l \in List : ~In(l, Current(w))
    BY <1>1, PendingMessage
  <1>3. \A l \in List : \A m : In(l, m)' = In(l, m)
    BY <1>1 DEF In
  <1>4. \A v \in Writers, n \in 1 .. NumWrites :
          <<v, n>> = Current(w) <=> v = w /\ n = written[w]
    BY DEF Current
  <1>5. \A v \in Writers, n \in 1 .. NumWrites :
          <<v, n>> \in dropped' <=> <<v, n>> \in dropped \/ (v = w /\ n = written[w])
    BY <1>1, <1>4
  <1>6. written[w] <= written[w]
    BY <1>2, Constants
  <1>7. ASSUME NEW v \in Writers, NEW n \in 1 .. NumWrites
        PROVE  /\ n <= written'[v] /\ ~(n = written'[v] /\ Pending(v)') <=>
                    <<v, n>> \in dropped' \/ \E l \in List : In(l, <<v, n>>)'
               /\ <<v, n>> \in dropped' => \A l \in List : ~In(l, <<v, n>>)'
               /\ ~(In("mLogs", <<v, n>>)' /\ In("mErrors", <<v, n>>)')
    <2>1. CASE v = w /\ n = written[w]
      <3>1. <<v, n>> = Current(w)
        BY <2>1 DEF Current
      <3>2. <<v, n>> \in dropped' /\ \A l \in List : ~In(l, <<v, n>>)'
        BY <1>1, <1>2, <1>3, <3>1
      <3>3. n <= written'[v] /\ ~(n = written'[v] /\ Pending(v)')
        BY <1>1, <1>6, <2>1
      <3> QED BY <3>2, <3>3 DEF List
    <2>2. CASE ~(v = w /\ n = written[w])
      <3>1. <<v, n>> \in dropped' <=> <<v, n>> \in dropped
        BY <1>5, <2>2
      <3>2. ~(n = written'[v] /\ Pending(v)') <=> ~(n = written[v] /\ Pending(v))
        BY <1>1, <2>2
      <3> QED BY <1>1, <1>3, <3>1, <3>2 DEF OrderInv, List
    <2> QED BY <2>1, <2>2
  <1> QED BY <1>1, <1>7 DEF OrderInv

LEMMA CountOrder ==
  ASSUME Inv, OrderInv, NEW w \in Writers, Count(w)
  PROVE  OrderInv'
  <1>1. /\ Pending(w) /\ ~Pending(w)' /\ \A v \in Writers : v # w => Pending(v)' = Pending(v)
        /\ written' = written /\ dropped' = dropped
    BY DEF Inv, Typed, Count, Move, Pending
  <1>2. written[w] \in 1 .. NumWrites /\ Current(w) \notin dropped
        /\ \A l \in List : ~In(l, Current(w))
    BY <1>1, PendingMessage
  <1>3. PICK a \in List : a = list[w]
    BY DEF Inv, Typed
  <1>4. /\ accepted'[a] = Append(accepted[a], Current(w))
        /\ \A l \in List : l # a => accepted'[l] = accepted[l]
    BY <1>3 DEF Inv, Typed, Count
  <1>5. /\ accepted[a] \in Seq(Message) /\ Len(accepted[a]) \in Nat /\ Current(w) \in Message
    BY <1>2 DEF Inv, Typed, Current, Message
  <1>6. /\ Len(accepted'[a]) = Len(accepted[a]) + 1
        /\ accepted'[a][Len(accepted[a]) + 1] = Current(w)
        /\ \A k \in 1 .. Len(accepted[a]) : accepted'[a][k] = accepted[a][k]
    BY <1>4, <1>5, AppendProperties
  <1>7. \A k \in 1 .. Len(accepted[a]) + 1 : k \in 1 .. Len(accepted[a]) \/ k = Len(accepted[a]) + 1
    BY <1>5
  <1>8. 1 .. Len(accepted[a]) \subseteq 1 .. Len(accepted[a]) + 1
        /\ Len(accepted[a]) + 1 \in 1 .. Len(accepted[a]) + 1
    BY <1>5
  <1>9. \A m : In(a, m)' <=> In(a, m) \/ m = Current(w)
    BY <1>6, <1>7, <1>8 DEF In
  <1>10. \A l \in List : l # a => \A m : In(l, m)' = In(l, m)
    BY <1>4 DEF In
  <1>11. ASSUME NEW v \in Writers, NEW n \in 1 .. NumWrites
         PROVE  /\ n <= written'[v] /\ ~(n = written'[v] /\ Pending(v)') <=>
                     <<v, n>> \in dropped' \/ \E l \in List : In(l, <<v, n>>)'
                /\ <<v, n>> \in dropped' => \A l \in List : ~In(l, <<v, n>>)'
                /\ ~(In("mLogs", <<v, n>>)' /\ In("mErrors", <<v, n>>)')
    <2>1. CASE v = w /\ n = written[w]
      <3>1. <<v, n>> = Current(w)
        BY <2>1 DEF Current
      <3>2. \A l \in List : In(l, <<v, n>>)' <=> l = a
        BY <1>2, <1>9, <1>10, <3>1
      <3>3. n <= written'[v] /\ ~(n = written'[v] /\ Pending(v)')
        BY <1>1, <1>2, <2>1, Constants
      <3> QED BY <1>1, <1>2, <3>1, <3>2, <3>3 DEF List
    <2>2. CASE ~(v = w /\ n = written[w])
      <3>1. <<v, n>> # Current(w)
        BY <2>2 DEF Current
      <3>2. ASSUME NEW l \in List PROVE In(l, <<v, n>>)' <=> In(l, <<v, n>>)
        <4>1. CASE l = a
          BY <1>9, <3>1, <4>1
        <4>2. CASE l # a
          BY <1>10, <4>2
        <4> QED BY <4>1, <4>2
      <3>3. ~(n = written'[v] /\ Pending(v)') <=> ~(n = written[v] /\ Pending(v))
        BY <1>1, <2>2
      <3> QED BY <1>1, <3>2, <3>3 DEF OrderInv, List
    <2> QED BY <2>1, <2>2
  <1>12. ASSUME NEW l \in List, NEW i \in 1 .. Len(accepted'[l]), NEW j \in 1 .. Len(accepted'[l]),
                i < j, accepted'[l][i][1] = accepted'[l][j][1]
         PROVE  accepted'[l][i][2] < accepted'[l][j][2]
    <2>1. CASE l # a
      BY <1>4, <1>12, <2>1 DEF OrderInv
    <2>2. CASE l = a /\ j \in 1 .. Len(accepted[a])
      <3>1. i \in 1 .. Len(accepted[a])
        BY <1>5, <1>6, <1>12, <2>2
      <3> QED BY <1>6, <1>12, <2>2, <3>1 DEF OrderInv
    <2>3. CASE l = a /\ j \notin 1 .. Len(accepted[a])
      <3>1. j = Len(accepted[a]) + 1 /\ i \in 1 .. Len(accepted[a])
        BY <1>5, <1>6, <1>7, <1>12, <2>3
      <3>2. accepted'[l][j] = Current(w) /\ accepted'[l][i] = accepted[a][i]
        BY <1>6, <2>3, <3>1
      <3>3. PICK v \in Writers, n \in 1 .. NumWrites : accepted[a][i] = <<v, n>>
        BY <1>5, <3>1 DEF Message
      <3>4. v = w
        BY <1>12, <3>2, <3>3 DEF Current
      <3>5. In(a, <<w, n>>)
        BY <3>1, <3>3, <3>4 DEF In
      <3>6. n <= written[w] /\ n # written[w]
        BY <1>1, <3>5 DEF OrderInv
      <3>7. n < written[w]
        BY <1>2, <3>6, Constants
      <3> QED BY <3>2, <3>3, <3>7 DEF Current
    <2> QED BY <2>1, <2>2, <2>3
  <1> QED BY <1>11, <1>12 DEF OrderInv

LEMMA NextOrder ==
  ASSUME Inv, OrderInv, [Next]_vars
  PROVE  OrderInv'
  <1>1. ASSUME NEW w \in Writers, AppendStep(w), ~AllocateFails(w), ~ConstructFails(w), ~Count(w)
        PROVE  OrderInv'
    <2>1. written' = written /\ accepted' = accepted /\ dropped' = dropped
      BY <1>1 DEF AppendStep, Lock, HasRoom, Allocate, Relocate, Release, AdoptArray,
                  AdoptCapacity, Construct, Unlock
    <2>2. PICK from, to \in Places : Move(w, from, to) /\ (from \in {"idle", "unlock"} <=> to \in {"idle", "unlock"})
      BY <1>1 DEF AppendStep, Lock, HasRoom, Allocate, Relocate, Release, AdoptArray,
                  AdoptCapacity, Construct, Unlock, Places
    <2>3. \A v \in Writers : Pending(v)' = Pending(v)
      BY <2>2 DEF Inv, Typed, Move, Pending
    <2> QED BY <2>1, <2>3, SameOrder
  <1>2. ASSUME NEW r \in Readers, Read(r)
        PROVE  OrderInv'
    <2>1. ReaderStep
      BY <1>2 DEF Read, ReadEmpty, ReadIndex, ReadArray, ReadCopy
    <2> QED BY <2>1, SameOrder DEF ReaderStep, writerVars, Pending
  <1>3. CASE UNCHANGED vars
    BY <1>3, SameOrder DEF vars, writerVars, Pending
  <1> QED BY <1>1, <1>2, <1>3, WriteOrder, FailOrder, CountOrder DEF Next

LEMMA AlwaysOrder == Spec => [](Inv /\ OrderInv)
  BY InitInv, NextInv, InitOrderInv, NextOrder, PTL DEF Spec

\* A writer's messages stand in the order it gave them, in one list each, and all of
\* them are there except those an allocation failed for (Logger.h:23-37).
THEOREM WritersInOrder == Spec => []WriterOrder
  <1>1. Inv /\ OrderInv => WriterOrder
    <2> SUFFICES ASSUME Inv, OrderInv, mMutex = NoThread, NEW w \in Writers
                 PROVE  /\ \A l \in List : \A i, j \in Mine(l, w) :
                             i < j => Contents(l)[i][2] < Contents(l)[j][2]
                        /\ Numbers("mLogs", w) \cap Numbers("mErrors", w) = {}
                        /\ Numbers("mLogs", w) \cup Numbers("mErrors", w)
                             = {n \in 1 .. written[w] : <<w, n>> \notin dropped}
                               \ IF pc[w] = "lock" THEN {written[w]} ELSE {}
      BY DEF WriterOrder
    <2>1. ASSUME NEW l \in List
          PROVE  /\ Contents(l) = accepted[l] /\ mSize[l] = Len(accepted[l])
                 /\ accepted[l] \in Seq(Message)
      BY ContentsAccepted, <2>1 DEF Inv, Typed, SizeInv
    <2>2. ASSUME NEW l \in List
          PROVE  Mine(l, w) = {k \in 1 .. Len(accepted[l]) : accepted[l][k][1] = w}
      BY <2>1 DEF Mine
    <2>3. ASSUME NEW l \in List, NEW n
          PROVE  n \in Numbers(l, w) <=> n \in 1 .. NumWrites /\ In(l, <<w, n>>)
      <3>1. Numbers(l, w) = {accepted[l][k][2] : k \in Mine(l, w)}
        BY <2>1 DEF Numbers
      <3>2. ASSUME NEW k \in Mine(l, w)
            PROVE  accepted[l][k] = <<w, accepted[l][k][2]>> /\ accepted[l][k][2] \in 1 .. NumWrites
        <4>1. k \in 1 .. Len(accepted[l]) /\ accepted[l][k][1] = w
          BY <2>2, <3>2
        <4>2. accepted[l][k] \in Message
          BY <2>1, <4>1
        <4> QED BY <4>1, <4>2 DEF Message
      <3>3. ASSUME n \in Numbers(l, w) PROVE n \in 1 .. NumWrites /\ In(l, <<w, n>>)
        <4>1. PICK k \in Mine(l, w) : n = accepted[l][k][2]
          BY <3>1, <3>3
        <4> QED BY <2>2, <3>2, <4>1 DEF In
      <3>4. ASSUME In(l, <<w, n>>) PROVE n \in Numbers(l, w)
        <4>1. PICK k \in 1 .. Len(accepted[l]) : accepted[l][k] = <<w, n>>
          BY <3>4 DEF In
        <4>2. k \in Mine(l, w) /\ accepted[l][k][2] = n
          BY <2>2, <4>1
        <4> QED BY <3>1, <4>2
      <3> QED BY <3>3, <3>4
    <2>4. \A l \in List : \A i, j \in Mine(l, w) :
            i < j => Contents(l)[i][2] < Contents(l)[j][2]
      BY <2>1, <2>2 DEF OrderInv
    <2>5. Numbers("mLogs", w) \cap Numbers("mErrors", w) = {}
      BY <2>3 DEF OrderInv, List
    <2>6. written[w] \in 0 .. NumWrites /\ pc[w] \in {"idle", "lock"}
      BY Constants DEF Inv, Typed, MutualExclusion, InSection
    <2>7. \A n : n \in 1 .. written[w] <=> n \in 1 .. NumWrites /\ n <= written[w]
      BY <2>6, Constants
    <2>8. ASSUME NEW n
          PROVE  n \in Numbers("mLogs", w) \/ n \in Numbers("mErrors", w) <=>
                   /\ n \in 1 .. written[w] /\ <<w, n>> \notin dropped
                   /\ ~(pc[w] = "lock" /\ n = written[w])
      <3>1. CASE n \notin 1 .. NumWrites
        BY <2>3, <2>7, <3>1 DEF List
      <3>2. CASE n \in 1 .. NumWrites
        <4>1. n \in Numbers("mLogs", w) \/ n \in Numbers("mErrors", w)
                <=> \E l \in List : In(l, <<w, n>>)
          BY <2>3, <3>2 DEF List
        <4>2. Pending(w) <=> pc[w] = "lock"
          BY <2>6 DEF Pending
        <4> QED BY <2>7, <3>2, <4>1, <4>2 DEF OrderInv
      <3> QED BY <3>1, <3>2
    <2> QED BY <2>4, <2>5, <2>8
  <1> QED BY <1>1, AlwaysOrder, PTL

\* A read that no append overlaps returns the last message of its list, or empty
\* if there is none (Logger.h:49-59).
THEOREM QuietReadsAreRight == Spec => QuietReadIsLast
  <1>1. ASSUME Inv, [Next]_vars, NEW r \in Readers, Finishes(r), quiet'[r]
        PROVE  got'[r] = LastOf(rlist'[r])
    <2>1. CASE ReadCopy(r)
      <3>1. rpc[r] = "copy" /\ quiet[r] /\ rlist' = rlist
            /\ got' = [got EXCEPT ![r] = CopyOf(rarray[r], rindex[r])]
        BY <1>1, <2>1 DEF ReadCopy
      <3>2. got'[r] = CopyOf(rarray[r], rindex[r])
        BY <1>1, <3>1 DEF Inv, Typed
      <3> QED BY <1>1, <3>1, <3>2, QuietCopy
    <2>2. CASE ReadEmpty(r) /\ rpc'[r] = "idle"
      <3>1. PICK l \in List :
              /\ rlist' = [rlist EXCEPT ![r] = l]
              /\ \/ mSize[l] = 0 /\ got' = [got EXCEPT ![r] = Empty]
                 \/ rpc' = [rpc EXCEPT ![r] = "index"]
        BY <2>2 DEF ReadEmpty
      <3>2. rlist'[r] = l /\ mSize[l] = 0 /\ got'[r] = Empty
        BY <1>1, <2>2, <3>1 DEF Inv, Typed
      <3>3. accepted[l] \in Seq(Message) /\ Len(accepted[l]) = 0
        BY <1>1, <3>2 DEF Inv, Typed, SizeInv
      <3> QED BY <3>2, <3>3 DEF LastOf
    <2> QED BY <1>1, <2>1, <2>2 DEF Finishes
  <1>2. Inv /\ [Next]_vars =>
          [\A r \in Readers : Finishes(r) /\ quiet'[r] => got'[r] = LastOf(rlist'[r])]_vars
    BY <1>1
  <1> QED BY <1>2, AlwaysInv, PTL DEF Spec, QuietReadIsLast

=============================================================================
