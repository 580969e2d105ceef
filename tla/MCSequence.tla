----------------------------- MODULE MCSequence -----------------------------
(***************************************************************************)
(* SequenceStore for TLC: objects and values are interchangeable, and the  *)
(* steps a member function has left are counted, so that each of its loops *)
(* is seen to end without a liveness check, which symmetry would not allow.*)
(***************************************************************************)
EXTENDS SequenceStore, SequencesExt

Symmetry == Permutations(Objects) \cup Permutations(Values)

\* (bound) While a Sequence grows by more than the default, each has one element at most.
ShortIfMoreAdditive ==
  (\A o \in Owner : mAdditive[o] = 1) \/ (\A o \in Owner : mSize[o] <= 1)

\* reConstructAllocate for count objects, and emplace_back with a reallocation.
ReconstructWork(count) == count + 3
EmplaceWork == 1 + ReconstructWork(MaxSize) + 1

\* At most this many steps are left of s, which is a step of the program.
StepWork(s) ==
  CASE s.do = "construct" -> s.count - built + 1
    [] s.do = "grow"      -> 1 + ReconstructWork(MaxSize)
    [] s.do = "append"    -> 1 + Len(s.args) * (EmplaceWork + 1)
    [] s.do = "shift"     -> mSize[s.o] - s.from + 1
    [] s.do = "refill"    -> s.left + 1
    [] OTHER              -> 1

Work == FoldSeq(LAMBDA s, sum : StepWork(s) + sum, 0, todo)

-----------------------------------------------------------------------------
\* Every member function returns, whatever it is called with and wherever an
\* allocation fails: each of its steps leaves fewer to take, and none is stuck
\* (there is no deadlock).
EveryStepGetsCloser ==
  [][call # NoCall /\ call' # NoCall => Work' < Work /\ Work' \in Nat]_vars

=============================================================================
