----------------------------- MODULE CharBuffer -----------------------------
(***************************************************************************)
(* badSQL::CharBuffer (CharBuffer.cpp): the password prompt.  The          *)
(* constructor reads keys until Enter and keeps the printable ones in a    *)
(* Sequence<char> whose memory it has reserved; the destructor zeroes it.  *)
(*                                                                         *)
(* _getch is external.  Each call gives one code: a printable character,   *)
(* Enter, Backspace, or another.  (A key that gives two codes, as arrows   *)
(* do, is two calls: nothing in the code tells the second from a letter.)  *)
(***************************************************************************)
EXTENDS Sequences, SequenceMath, FiniteSets

CONSTANTS MaxBufferSize,   \* MAX_BUFFER_SIZE
          Printable        \* characters 32 to 126

Zero == "\\0"
Additive == 1              \* a Sequence's mAdditive

VARIABLES
  pc,          \* "start", "typing", "ready", "destroyed" or "threw"
  buffer,      \* the elements of the Sequence
  capacity,    \* and its mCapacity
  stars        \* the asterisks behind the prompt; negative if it is eaten into

bufferVars == <<pc, buffer, capacity, stars>>

Init == pc = "start" /\ buffer = <<>> /\ capacity = 0 /\ stars = 0

\* set_capacity(MAX_BUFFER_SIZE), and the prompt.
Reserve ==
  /\ pc = "start"
  /\ \/ pc' = "typing" /\ capacity' = MaxBufferSize
     \/ pc' = "threw" /\ UNCHANGED capacity
  /\ UNCHANGED <<buffer, stars>>

\* buffer.size() < MAX_BUFFER_SIZE
HasRoom == Len(buffer) < MaxBufferSize

\* buffer.emplace_back(c), which asks for memory when the buffer is full.
EmplaceBack(c) ==
  /\ buffer' = Append(buffer, c)
  /\ capacity' = IF Len(buffer) = capacity THEN growthFactor(capacity, Additive)
                 ELSE capacity

\* A printable character is kept and shown as '*', unless there is no room.
TypeCharacter(c) ==
  /\ pc = "typing"
  /\ IF HasRoom THEN EmplaceBack(c) /\ stars' = stars + 1
     ELSE UNCHANGED <<buffer, capacity, stars>>
  /\ UNCHANGED pc

\* The last character is taken back, on the screen too, if there is one.
Backspace ==
  /\ pc = "typing" /\ buffer # <<>>
  /\ buffer' = SubSeq(buffer, 1, Len(buffer) - 1) /\ stars' = stars - 1
  /\ UNCHANGED <<pc, capacity>>

\* (mutant) the terminator is one more character that needs room.
EnterIfRoom ==
  /\ pc = "typing" /\ pc' = "ready"
  /\ IF HasRoom THEN EmplaceBack(Zero) ELSE UNCHANGED <<buffer, capacity>>
  /\ UNCHANGED stars

\* The loop ends and the terminator is appended; for a full buffer that is a
\* reallocation, which may fail.
Enter ==
  /\ pc = "typing"
  /\ \/ pc' = "ready" /\ EmplaceBack(Zero)
     \/ pc' = "threw" /\ Len(buffer) = capacity /\ UNCHANGED <<buffer, capacity>>
  /\ UNCHANGED stars

\* ~CharBuffer: fill with zeros, then wipe.
Destroy ==
  /\ pc = "ready" /\ pc' = "destroyed"
  /\ buffer' = <<>> /\ capacity' = 0
  /\ UNCHANGED stars

Next ==
  \/ Reserve \/ Backspace \/ Enter \/ Destroy
  \/ \E c \in Printable : TypeCharacter(c)

Spec == Init /\ [][Next]_bufferVars

-----------------------------------------------------------------------------
\* The user sees one asterisk for each character that is kept, whatever is typed,
\* erased, typed over the limit or erased beyond the beginning.
ScreenShowsBuffer ==
  pc \in {"typing", "ready"} =>
    stars = Cardinality({i \in DOMAIN buffer : buffer[i] # Zero})

\* What data() hands to Connector/C++ is a C string of at most MAX_BUFFER_SIZE
\* characters: one terminator, at the end, also behind a full buffer.
IsCString ==
  pc = "ready" =>
    /\ Len(buffer) \in 1 .. MaxBufferSize + 1
    /\ \A i \in DOMAIN buffer : buffer[i] = Zero <=> i = Len(buffer)

=============================================================================
