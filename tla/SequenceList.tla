---------------------------- MODULE SequenceList ----------------------------
(***************************************************************************)
(* What the users of badSQL::Sequence rely on: each object is a list of    *)
(* values, a member function changes the lists as its name says, exactly   *)
(* once and at its return, and one that throws leaves them as they were -  *)
(* but for insert_back, which keeps the elements it had already appended.  *)
(* There is no memory, no capacity and no temporary here.                  *)
(***************************************************************************)
EXTENDS Naturals, Sequences, FiniteSets

CONSTANTS Objects,           \* the objects of the user
          NoCall             \* no member function is running

VARIABLES content,           \* the list each object holds for its user
          call,              \* the member function running, and its arguments
          threw              \* it has thrown std::bad_alloc

listVars == <<content, call, threw>>

Occurrences(s, v) == Cardinality({k \in DOMAIN s : s[k] = v})

Init ==
  /\ content = [o \in Objects |-> <<>>]
  /\ call = NoCall
  /\ threw = FALSE

Begin ==
  /\ call = NoCall /\ call' # NoCall
  /\ UNCHANGED <<content, threw>>

\* The member functions declared noexcept never throw.
Fail ==
  /\ call # NoCall /\ ~threw
  /\ call.op \notin {"pop_back", "erase", "swap_with_last_erase", "clear",
                     "wipe", "swap", "move_assign"}
  /\ threw' = TRUE
  /\ UNCHANGED <<content, call>>

\* The new list of the object a call is made on, given its old list s.
Yields(s, r) ==
  LET n == Len(s) IN
  CASE call.op = "push_back"     -> r = Append(s, call.arg.val)
    [] call.op = "insert_back"   -> r = s \o call.list
    [] call.op = "pop_back"      -> r = SubSeq(s, 1, n - 1)
    [] call.op = "erase"         -> r = SubSeq(s, 1, call.first)
                                        \o SubSeq(s, call.last + 1, n)
    [] call.op = "swap_with_last_erase" ->
         \* the elements outside the range, those before it in place
         LET kept == SubSeq(s, 1, call.first) \o SubSeq(s, call.last + 1, n)
         IN /\ Len(r) = Len(kept)
            /\ \A k \in 1 .. call.first : r[k] = s[k]
            /\ \A k \in DOMAIN s : Occurrences(r, s[k]) = Occurrences(kept, s[k])
    [] call.op = "set_capacity"  ->
         r = SubSeq(s, 1, IF call.n < n THEN call.n ELSE n)
    [] call.op = "shrink_to_fit" -> r = s
    [] call.op = "resize"        ->
         /\ Len(r) = call.n
         /\ \A k \in 1 .. call.n : r[k] = IF k <= n THEN s[k] ELSE call.arg.val
    [] call.op \in {"clear", "wipe"} -> r = <<>>
    [] call.op = "assign_list"   -> r = call.list
    [] OTHER                     -> r = content[call.from]

\* What becomes of the object assigned or swapped from.
FromYields(r) ==
  CASE call.op = "swap"        -> r = content[call.o]
    [] call.op = "move_assign" -> r = <<>>
    [] OTHER                   -> r = content[call.from]

\* The objects a call is made on or given.
Named == {call.o} \cup IF "from" \in DOMAIN call THEN {call.from} ELSE {}

Succeeds ==
  /\ Yields(content[call.o], content'[call.o])
  /\ \A p \in Named \ {call.o} : FromYields(content'[p])
  /\ \A p \in Objects \ Named : content'[p] = content[p]

Throws ==
  /\ \A p \in Objects \ {call.o} : content'[p] = content[p]
  /\ LET s == content[call.o]
     IN IF call.op = "insert_back"
        THEN \E k \in 0 .. Len(call.list) :
               content'[call.o] = s \o SubSeq(call.list, 1, k)
        ELSE content'[call.o] = s

Return ==
  /\ call # NoCall
  /\ DOMAIN content' = Objects
  /\ IF threw THEN Throws ELSE Succeeds
  /\ call' = NoCall /\ threw' = FALSE

Next == Begin \/ Fail \/ Return

Spec == Init /\ [][Next]_listVars

=============================================================================
