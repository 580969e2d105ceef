------------------------- MODULE SequenceStore_proofs -------------------------
(***************************************************************************)
(* Theorems about SequenceStore for any Sequences, values, sizes and       *)
(* blocks: every block that is allocated has exactly one owner, and        *)
(* between calls that owner is a Sequence of the user.                     *)
(***************************************************************************)
EXTENDS SequenceStore, SequenceTheorems, TLAPS

-----------------------------------------------------------------------------
(* The invariant.  What protects a block from being lost is the program     *)
(* that is still to run: it says who will free or adopt what.               *)

\* A sequence, whatever its elements.
IsSequence(p) == \E S : p \in Seq(S)

\* A record that names what it does.
IsRecord(s) == s = [f \in DOMAIN s |-> s[f]] /\ "do" \in DOMAIN s

\* A step of a program that works on the Sequences of the user only.
OwnStep(s) ==
  /\ s.do \in {"allocate", "construct", "adopt", "grow", "place", "append",
               "shift", "refill", "truncate", "swap", "destroy"}
  /\ s.do \in {"adopt", "grow", "append", "swap", "destroy"} => s.o \in Objects
  /\ s.do = "swap" => s.p \in Objects
  /\ s.do \in {"shift", "refill"} => IsRecord(s)

\* What follows an allocation constructs in the block, and then adopts it.
Adopted(p, k) == k + 2 \in 1 .. Len(p) /\ p[k + 1].do = "construct" /\ p[k + 2].do = "adopt"

\* A program, or what is left of one, without a temporary.
OwnProgram(p) ==
  /\ IsSequence(p)
  /\ \A k \in 1 .. Len(p) : OwnStep(p[k]) /\ (p[k].do = "allocate" => Adopted(p, k))

\* A program that builds the temporary "t", swaps it with an object, and destroys
\* it, or what is left of one.
TempProgram(p) ==
  /\ IsSequence(p) /\ Len(p) \in 1 .. 5
  /\ p[Len(p)].do = "destroy" /\ p[Len(p)].o = "t"
  /\ Len(p) > 1 => LET s == p[Len(p) - 1] IN s.do = "swap" /\ s.o \in Objects /\ s.p = "t"
  /\ Len(p) > 2 => LET s == p[Len(p) - 2]
                   IN /\ s.o = "t" /\ s.do \in {"adopt", "take"}
                      /\ s.do = "take" => s.p \in Objects /\ Len(p) = 3
  /\ Len(p) > 3 => p[Len(p) - 3].do = "construct"
  /\ Len(p) > 4 => p[Len(p) - 4].do = "allocate"

\* The types that ownership needs.
Typed ==
  /\ mArray \in [Owner -> Blocks \cup {nullptr}]
  /\ live \subseteq Blocks /\ destination \in Blocks \cup {nullptr}

\* The steps left will adopt the block that is being filled.
WillAdopt(p) ==
  \/ Len(p) > 0 /\ p[1].do = "adopt"
  \/ Len(p) > 1 /\ p[1].do = "construct" /\ p[2].do = "adopt"

ProgramInv ==
  /\ OwnProgram(todo) \/ TempProgram(todo)
  /\ call = NoCall => todo = <<>>
  /\ mArray["t"] # nullptr => TempProgram(todo) /\ Len(todo) <= 2
  /\ destination # nullptr => WillAdopt(todo)

Inv == Typed /\ OneOwnerEach /\ ProgramInv

-----------------------------------------------------------------------------
(* Programs.                                                                *)

LEMMA Constants ==
  nullptr \notin Blocks /\ "t" \notin Objects /\ "t" \in Owner /\ Objects \subseteq Owner
  BY BlockAssumption, TempAssumption DEF nullptr, Owner

\* Concatenations of short sequences.
LEMMA OneAndOne ==
  ASSUME NEW a, NEW b
  PROVE  <<a>> \o <<b>> = <<a, b>>
  <1> DEFINE S == {a, b}
  <1> DEFINE p == <<a>> \o <<b>>
  <1>1. <<a>> \in Seq(S) /\ <<b>> \in Seq(S) /\ <<a, b>> \in Seq(S)
    OBVIOUS
  <1>2. Len(p) = 2 /\ p[1] = a /\ p[2] = b
    BY <1>1, ConcatProperties
  <1>3. p \in Seq(S)
    BY <1>1, ConcatProperties
  <1>4. \A i \in 1 .. 2 : p[i] = <<a, b>>[i]
    BY <1>2
  <1> QED BY <1>1, <1>2, <1>3, <1>4, SeqEqual

LEMMA OneAndTwo ==
  ASSUME NEW a, NEW b, NEW c
  PROVE  <<a>> \o <<b, c>> = <<a, b, c>>
  <1> DEFINE S == {a, b, c}
  <1> DEFINE p == <<a>> \o <<b, c>>
  <1>1. <<a>> \in Seq(S) /\ <<b, c>> \in Seq(S) /\ <<a, b, c>> \in Seq(S)
    OBVIOUS
  <1>2. Len(p) = 3 /\ p[1] = a /\ p[2] = b /\ p[3] = c
    BY <1>1, ConcatProperties
  <1>3. p \in Seq(S)
    BY <1>1, ConcatProperties
  <1>4. \A i \in 1 .. 3 : p[i] = <<a, b, c>>[i]
    BY <1>2
  <1> QED BY <1>1, <1>2, <1>3, <1>4, SeqEqual

LEMMA ThreeAndTwo ==
  ASSUME NEW a, NEW b, NEW c, NEW d, NEW e
  PROVE  <<a, b, c>> \o <<d, e>> = <<a, b, c, d, e>>
  <1> DEFINE S == {a, b, c, d, e}
  <1> DEFINE p == <<a, b, c>> \o <<d, e>>
  <1>1. <<a, b, c>> \in Seq(S) /\ <<d, e>> \in Seq(S) /\ <<a, b, c, d, e>> \in Seq(S)
    OBVIOUS
  <1>2. Len(p) = 5 /\ p[1] = a /\ p[2] = b /\ p[3] = c /\ p[4] = d /\ p[5] = e
    BY <1>1, ConcatProperties
  <1>3. p \in Seq(S)
    BY <1>1, ConcatProperties
  <1>4. \A i \in 1 .. 5 : p[i] = <<a, b, c, d, e>>[i]
    BY <1>2
  <1> QED BY <1>1, <1>2, <1>3, <1>4, SeqEqual

\* A loop's step stays what it is when its bounds move.
LEMMA SameRecord ==
  ASSUME NEW s, IsRecord(s)
  PROVE  /\ LET m == [s EXCEPT !.to = @ + 1, !.from = @ + 1] IN IsRecord(m) /\ m.do = s.do
         /\ LET m == [s EXCEPT !.to = @ + 1, !.from = @ - 1, !.left = @ - 1]
            IN IsRecord(m) /\ m.do = s.do
  BY DEF IsRecord

LEMMA EmptyProgram == OwnProgram(<<>>)
  <1>1. <<>> \in Seq({}) /\ Len(<<>>) = 0
    OBVIOUS
  <1> QED BY <1>1 DEF OwnProgram, IsSequence

LEMMA OneStepProgram ==
  ASSUME NEW s, OwnStep(s), s.do # "allocate"
  PROVE  OwnProgram(<<s>>)
  <1>1. <<s>> \in Seq({s}) /\ Len(<<s>>) = 1 /\ <<s>>[1] = s
    OBVIOUS
  <1>2. IsSequence(<<s>>)
    BY <1>1 DEF IsSequence
  <1>3. \A k \in 1 .. Len(<<s>>) : k = 1
    BY <1>1
  <1> QED BY <1>1, <1>2, <1>3 DEF OwnProgram

LEMMA ConcatIsProgram ==
  ASSUME NEW p, NEW q, OwnProgram(p), OwnProgram(q)
  PROVE  OwnProgram(p \o q)
  <1>1. PICK S : p \in Seq(S)
    BY DEF OwnProgram, IsSequence
  <1>2. PICK T : q \in Seq(T)
    BY DEF OwnProgram, IsSequence
  <1>3. p \in Seq(S \cup T) /\ q \in Seq(S \cup T)
    BY <1>1, <1>2, SeqDef
  <1>4. /\ p \o q \in Seq(S \cup T) /\ Len(p \o q) = Len(p) + Len(q)
        /\ Len(p) \in Nat /\ Len(q) \in Nat
        /\ \A k \in 1 .. Len(p) : (p \o q)[k] = p[k]
        /\ \A k \in 1 .. Len(q) : (p \o q)[Len(p) + k] = q[k]
    BY <1>3
  <1>5. ASSUME NEW k \in 1 .. Len(p)
        PROVE  /\ OwnStep((p \o q)[k])
               /\ (p \o q)[k].do = "allocate" => Adopted(p \o q, k)
    BY <1>4, <1>5 DEF OwnProgram, Adopted
  <1>6. ASSUME NEW j \in 1 .. Len(q)
        PROVE  /\ OwnStep((p \o q)[Len(p) + j])
               /\ (p \o q)[Len(p) + j].do = "allocate" => Adopted(p \o q, Len(p) + j)
    <2>1. (p \o q)[Len(p) + j] = q[j] /\ OwnStep(q[j])
      BY <1>4, <1>6 DEF OwnProgram
    <2>2. ASSUME q[j].do = "allocate" PROVE Adopted(p \o q, Len(p) + j)
      <3>1. j + 2 \in 1 .. Len(q) /\ j + 1 \in 1 .. Len(q)
            /\ q[j + 1].do = "construct" /\ q[j + 2].do = "adopt"
        BY <1>4, <1>6, <2>2 DEF OwnProgram, Adopted
      <3>2. (p \o q)[Len(p) + (j + 1)] = q[j + 1] /\ (p \o q)[Len(p) + (j + 2)] = q[j + 2]
        BY <1>4, <3>1
      <3>3. Len(p) + (j + 1) = (Len(p) + j) + 1 /\ Len(p) + (j + 2) = (Len(p) + j) + 2
            /\ (Len(p) + j) + 2 \in 1 .. Len(p \o q)
        BY <1>4, <3>1
      <3> QED BY <3>1, <3>2, <3>3 DEF Adopted
    <2> QED BY <2>1, <2>2
  <1>7. ASSUME NEW k \in 1 .. Len(p \o q)
        PROVE  k \in 1 .. Len(p) \/ \E j \in 1 .. Len(q) : k = Len(p) + j
    <2>1. CASE k <= Len(p)
      BY <1>4, <2>1
    <2>2. CASE k > Len(p)
      <3>1. k - Len(p) \in 1 .. Len(q) /\ k = Len(p) + (k - Len(p))
        BY <1>4, <2>2
      <3> QED BY <3>1
    <2> QED BY <1>4, <2>1, <2>2
  <1> QED BY <1>4, <1>5, <1>6, <1>7 DEF OwnProgram, IsSequence

\* What is left of a sequence behind its first element.
LEMMA TailIs ==
  ASSUME NEW p, IsSequence(p), p # <<>>
  PROVE  /\ IsSequence(Tail(p)) /\ Len(p) \in Nat \ {0} /\ Len(Tail(p)) = Len(p) - 1
         /\ \A k \in 1 .. Len(Tail(p)) : Tail(p)[k] = p[k + 1]
         /\ Head(p) = p[1] /\ <<>> \o Tail(p) = Tail(p)
  <1>1. PICK S : p \in Seq(S)
    BY DEF IsSequence
  <1>2. Tail(p) \in Seq(S) /\ Len(p) \in Nat \ {0} /\ Len(Tail(p)) = Len(p) - 1
        /\ Head(p) = p[1]
    BY <1>1, HeadTailProperties
  <1>3. \A k \in 1 .. Len(Tail(p)) : Tail(p)[k] = p[k + 1]
    BY <1>1, <1>2
  <1>4. <<>> \o Tail(p) = Tail(p)
    BY <1>2
  <1> QED BY <1>2, <1>3, <1>4 DEF IsSequence

LEMMA TailIsProgram ==
  ASSUME NEW p, OwnProgram(p), p # <<>>
  PROVE  OwnProgram(Tail(p))
  <1>1. /\ IsSequence(Tail(p)) /\ Len(p) \in Nat \ {0} /\ Len(Tail(p)) = Len(p) - 1
        /\ \A k \in 1 .. Len(Tail(p)) : Tail(p)[k] = p[k + 1]
    BY TailIs DEF OwnProgram
  <1>2. ASSUME NEW k \in 1 .. Len(Tail(p))
        PROVE  OwnStep(Tail(p)[k]) /\ (Tail(p)[k].do = "allocate" => Adopted(Tail(p), k))
    <2>1. k + 1 \in 1 .. Len(p) /\ Tail(p)[k] = p[k + 1]
      BY <1>1, <1>2
    <2>2. OwnStep(p[k + 1]) /\ (p[k + 1].do = "allocate" => Adopted(p, k + 1))
      BY <2>1 DEF OwnProgram
    <2>3. ASSUME p[k + 1].do = "allocate" PROVE Adopted(Tail(p), k)
      <3>1. /\ (k + 1) + 2 \in 1 .. Len(p)
            /\ p[(k + 1) + 1].do = "construct" /\ p[(k + 1) + 2].do = "adopt"
        BY <2>2, <2>3 DEF Adopted
      <3>2. k + 1 \in 1 .. Len(Tail(p)) /\ k + 2 \in 1 .. Len(Tail(p))
        BY <1>1, <3>1
      <3>3. Tail(p)[k + 1] = p[(k + 1) + 1] /\ Tail(p)[k + 2] = p[(k + 2) + 1]
            /\ (k + 2) + 1 = (k + 1) + 2
        BY <1>1, <3>2
      <3> QED BY <3>1, <3>2, <3>3 DEF Adopted
    <2> QED BY <2>1, <2>2, <2>3
  <1> QED BY <1>1, <1>2 DEF OwnProgram

\* The place of a temporary's program is told by its length.
LEMMA TempProgramSteps ==
  ASSUME NEW p, TempProgram(p)
  PROVE  /\ p # <<>> /\ Len(p) \in 1 .. 5
         /\ Len(p) = 1 => Head(p).do = "destroy" /\ Head(p).o = "t"
         /\ Len(p) = 2 => Head(p).do = "swap" /\ Head(p).o \in Objects /\ Head(p).p = "t"
         /\ Len(p) = 3 => /\ Head(p).o = "t" /\ Head(p).do \in {"adopt", "take"}
                          /\ Head(p).do = "take" => Head(p).p \in Objects
         /\ Len(p) = 4 => Head(p).do = "construct" /\ p[2].do = "adopt"
         /\ Len(p) = 5 => Head(p).do = "allocate" /\ p[2].do = "construct" /\ p[3].do = "adopt"
  <1>1. IsSequence(p) /\ Len(p) \in 1 .. 5 /\ p # <<>>
    BY DEF TempProgram
  <1>2. Head(p) = p[1]
    BY <1>1, TailIs
  <1>3. CASE Len(p) = 1
    BY <1>1, <1>2, <1>3 DEF TempProgram
  <1>4. CASE Len(p) = 2
    BY <1>1, <1>2, <1>4 DEF TempProgram
  <1>5. CASE Len(p) = 3
    BY <1>1, <1>2, <1>5 DEF TempProgram
  <1>6. CASE Len(p) = 4
    BY <1>1, <1>2, <1>6 DEF TempProgram
  <1>7. CASE Len(p) = 5
    BY <1>1, <1>2, <1>7 DEF TempProgram
  <1> QED BY <1>1, <1>3, <1>4, <1>5, <1>6, <1>7

LEMMA TailOfTempProgram ==
  ASSUME NEW p, TempProgram(p)
  PROVE  /\ Len(p) = 1 => Tail(p) = <<>>
         /\ Len(p) > 1 => TempProgram(Tail(p)) /\ Len(Tail(p)) = Len(p) - 1
  <1>1. p # <<>> /\ IsSequence(p) /\ Len(p) \in 1 .. 5
    BY DEF TempProgram
  <1>2. /\ IsSequence(Tail(p)) /\ Len(Tail(p)) = Len(p) - 1
        /\ \A k \in 1 .. Len(Tail(p)) : Tail(p)[k] = p[k + 1]
    BY <1>1, TailIs
  <1>3. CASE Len(p) = 1
    <2>1. PICK S : Tail(p) \in Seq(S)
      BY <1>2 DEF IsSequence
    <2>2. Len(Tail(p)) = 0
      BY <1>2, <1>3
    <2>3. Tail(p) = <<>>
      BY <2>1, <2>2, EmptySeq
    <2> QED BY <1>1, <1>3, <2>3
  <1>4. CASE Len(p) > 1
    <2>1. DEFINE q == Tail(p)
    <2>2. Len(q) \in 1 .. 4 /\ q[Len(q)] = p[Len(p)]
      BY <1>1, <1>2, <1>4
    <2>3. Len(q) > 1 => Len(p) > 2 /\ q[Len(q) - 1] = p[Len(p) - 1]
      BY <1>1, <1>2, <1>4
    <2>4. Len(q) > 2 => Len(p) > 3 /\ q[Len(q) - 2] = p[Len(p) - 2]
      BY <1>1, <1>2, <1>4
    <2>5. Len(q) > 3 => Len(p) > 4 /\ q[Len(q) - 3] = p[Len(p) - 3]
      BY <1>1, <1>2, <1>4
    <2> QED BY <1>2, <1>4, <2>2, <2>3, <2>4, <2>5 DEF TempProgram
  <1> QED BY <1>1, <1>3, <1>4

\* The two kinds of programs have no place in common.
LEMMA KindsDiffer ==
  ASSUME NEW p, OwnProgram(p)
  PROVE  ~TempProgram(p)
  <1> SUFFICES ASSUME TempProgram(p) PROVE FALSE
    OBVIOUS
  <1>1. Len(p) \in 1 .. 5 /\ p[Len(p)].do = "destroy" /\ p[Len(p)].o = "t"
    BY DEF TempProgram
  <1>2. Len(p) \in 1 .. Len(p)
    <2>1. \A n \in 1 .. 5 : n \in 1 .. n
      OBVIOUS
    <2> QED BY <1>1, <2>1
  <1>3. OwnStep(p[Len(p)])
    BY <1>2 DEF OwnProgram
  <1> QED BY <1>1, <1>3, Constants DEF OwnStep

-----------------------------------------------------------------------------
(* The programs that the calls start.                                       *)

LEMMA ReallocationIsProgram ==
  ASSUME NEW o \in Objects, NEW n, NEW src, NEW count
  PROVE  OwnProgram(reConstructAllocate(o, n, src, count))
  <1>1. DEFINE a == [do |-> "allocate", n |-> n]
  <1>2. DEFINE c == [do |-> "construct", o |-> o, src |-> src, count |-> count]
  <1>3. DEFINE d == [do |-> "adopt", o |-> o, n |-> n, count |-> count]
  <1>4. DEFINE p == <<a, c, d>>
  <1>5. reConstructAllocate(o, n, src, count) = p
    BY DEF reConstructAllocate
  <1>6. OwnStep(a) /\ OwnStep(c) /\ OwnStep(d) /\ c.do = "construct" /\ d.do = "adopt"
    BY DEF OwnStep
  <1> HIDE DEF a, c, d
  <1>7. p \in Seq({a, c, d}) /\ Len(p) = 3 /\ p[1] = a /\ p[2] = c /\ p[3] = d
    OBVIOUS
  <1>8. Adopted(p, 1)
    BY <1>6, <1>7 DEF Adopted
  <1>9. \A k \in 1 .. Len(p) : k = 1 \/ k = 2 \/ k = 3
    BY <1>7
  <1>10. IsSequence(p)
    BY <1>7 DEF IsSequence
  <1>11. \A k \in 1 .. Len(p) : OwnStep(p[k]) /\ (p[k].do = "allocate" => Adopted(p, k))
    BY <1>6, <1>7, <1>8, <1>9
  <1> QED BY <1>5, <1>10, <1>11 DEF OwnProgram

LEMMA CapacityProgram ==
  ASSUME NEW o \in Objects, NEW n
  PROVE  OwnProgram(setCapacity(o, n))
  BY ReallocationIsProgram DEF setCapacity

LEMMA AppendPrograms ==
  ASSUME NEW o \in Objects, NEW arg
  PROVE  OwnProgram(emplaceBack(o, arg)) /\ OwnProgram(emplaceAll(o, arg))
  <1>1. DEFINE g == [do |-> "grow", o |-> o]
  <1>2. DEFINE p == [do |-> "place", o |-> o, arg |-> arg]
  <1>3. OwnProgram(<<g>>) /\ OwnProgram(<<p>>)
    BY OneStepProgram DEF OwnStep
  <1>4. <<g>> \o <<p>> = <<g, p>>
    BY OneAndOne
  <1>5. OwnProgram(<<g, p>>)
    BY <1>3, <1>4, ConcatIsProgram
  <1>6. OwnProgram(emplaceAll(o, arg))
    BY OneStepProgram DEF OwnStep, emplaceAll
  <1> QED BY <1>5, <1>6 DEF emplaceBack

LEMMA ErasePrograms ==
  ASSUME NEW o \in Objects, NEW i, NEW j
  PROVE  /\ OwnProgram(truncate(o, i)) /\ OwnProgram(eraseRange(o, i, j))
         /\ OwnProgram(swapErase(o, i, j))
  <1>1. ASSUME NEW n PROVE OwnProgram(truncate(o, n))
    BY OneStepProgram DEF OwnStep, truncate
  <1>2. OwnProgram(<< [do |-> "shift", o |-> o, to |-> i, from |-> j] >>)
    <2>1. IsRecord([do |-> "shift", o |-> o, to |-> i, from |-> j])
      BY DEF IsRecord
    <2> QED BY <2>1, OneStepProgram DEF OwnStep
  <1>3. OwnProgram(<< [do |-> "refill", o |-> o, to |-> i, from |-> mSize[o] - 1, left |-> j - i] >>)
    <2>1. IsRecord([do |-> "refill", o |-> o, to |-> i, from |-> mSize[o] - 1, left |-> j - i])
      BY DEF IsRecord
    <2> QED BY <2>1, OneStepProgram DEF OwnStep
  <1> QED BY <1>1, <1>2, <1>3, EmptyProgram, ConcatIsProgram DEF eraseRange, swapErase

\* The program of an assignment: what builds "t", a swap, and the end of "t".
LEMMA TemporaryIsProgram ==
  ASSUME NEW o \in Objects, NEW src, NEW n
  PROVE  TempProgram(viaTemporary(o, constructTemporary(src, n)))
  <1>1. DEFINE a == [do |-> "allocate", n |-> n]
  <1>2. DEFINE c == [do |-> "construct", o |-> "t", src |-> src, count |-> n]
  <1>3. DEFINE d == [do |-> "adopt", o |-> "t", n |-> n, count |-> n]
  <1>4. DEFINE s == [do |-> "swap", o |-> o, p |-> "t"]
  <1>5. DEFINE e == [do |-> "destroy", o |-> "t"]
  <1>6. /\ a.do = "allocate" /\ c.do = "construct" /\ d.do = "adopt" /\ d.o = "t"
        /\ s.do = "swap" /\ s.o = o /\ s.p = "t" /\ e.do = "destroy" /\ e.o = "t"
    OBVIOUS
  <1>7. viaTemporary(o, constructTemporary(src, n))
          = (IF n = 0 THEN <<>> ELSE <<a, c, d>>) \o <<s, e>>
    BY DEF viaTemporary, constructTemporary, reConstructAllocate
  <1> HIDE DEF a, c, d, s, e
  <1>10. <<>> \o <<s, e>> = <<s, e>> /\ <<a, c, d>> \o <<s, e>> = <<a, c, d, s, e>>
    BY ThreeAndTwo
  <1>8. TempProgram(<<s, e>>)
    <2>1. <<s, e>> \in Seq({s, e}) /\ Len(<<s, e>>) = 2 /\ <<s, e>>[1] = s /\ <<s, e>>[2] = e
      OBVIOUS
    <2>2. IsSequence(<<s, e>>)
      BY <2>1 DEF IsSequence
    <2> QED BY <1>6, <2>1, <2>2 DEF TempProgram
  <1>9. TempProgram(<<a, c, d, s, e>>)
    <2>1. DEFINE p == <<a, c, d, s, e>>
    <2>2. /\ p \in Seq({a, c, d, s, e}) /\ Len(p) = 5
          /\ p[1] = a /\ p[2] = c /\ p[3] = d /\ p[4] = s /\ p[5] = e
      OBVIOUS
    <2>3. IsSequence(p)
      BY <2>2 DEF IsSequence
    <2> QED BY <1>6, <2>2, <2>3 DEF TempProgram
  <1> QED BY <1>7, <1>8, <1>9, <1>10

LEMMA TakeIsProgram ==
  ASSUME NEW o \in Objects, NEW q \in Objects
  PROVE  TempProgram(viaTemporary(o, << [do |-> "take", o |-> "t", p |-> q] >>))
  <1>1. DEFINE d == [do |-> "take", o |-> "t", p |-> q]
  <1>2. DEFINE s == [do |-> "swap", o |-> o, p |-> "t"]
  <1>3. DEFINE e == [do |-> "destroy", o |-> "t"]
  <1>4. DEFINE p == <<d, s, e>>
  <1>5. /\ d.do = "take" /\ d.o = "t" /\ d.p = q
        /\ s.do = "swap" /\ s.o = o /\ s.p = "t" /\ e.do = "destroy" /\ e.o = "t"
    OBVIOUS
  <1>6. viaTemporary(o, <<d>>) = p
    BY OneAndTwo DEF viaTemporary
  <1> HIDE DEF d, s, e
  <1>7. p \in Seq({d, s, e}) /\ Len(p) = 3 /\ p[1] = d /\ p[2] = s /\ p[3] = e
    OBVIOUS
  <1>8. IsSequence(p)
    BY <1>7 DEF IsSequence
  <1>9. TempProgram(p)
    BY <1>5, <1>7, <1>8 DEF TempProgram
  <1> QED BY <1>6, <1>9 DEF d

-----------------------------------------------------------------------------
(* The calls.                                                               *)

\* Nothing of a Sequence or of the heap is touched.
LEMMA OwnersStay ==
  ASSUME Typed, OneOwnerEach, mArray' = mArray, live' = live, destination' = destination
  PROVE  Typed' /\ OneOwnerEach'
  BY DEF Typed, OneOwnerEach

LEMMA BeginStep ==
  ASSUME Inv, NEW c, NEW p, Begin(c, p), OwnProgram(p) \/ TempProgram(p), c # NoCall
  PROVE  Inv'
  <1>1. /\ call = NoCall /\ todo' = p /\ call' = c
        /\ mArray' = mArray /\ live' = live /\ destination' = destination
    BY DEF Begin, objVars, heapVars, ctorVars
  <1>2. todo = <<>> /\ Len(todo) = 0
    BY <1>1 DEF Inv, ProgramInv
  <1>3. destination = nullptr
    BY <1>2 DEF Inv, ProgramInv, WillAdopt
  <1>4. mArray["t"] = nullptr
    BY <1>2 DEF Inv, ProgramInv, TempProgram
  <1>5. ProgramInv'
    BY <1>1, <1>3, <1>4 DEF ProgramInv
  <1> QED BY <1>1, <1>5, OwnersStay DEF Inv

LEMMA SetAdditiveStep ==
  ASSUME Inv, NEW o, set_additive(o)
  PROVE  Inv'
  <1>1. /\ mArray' = mArray /\ live' = live /\ destination' = destination
        /\ todo' = todo /\ call' = call
    BY DEF set_additive, objVars, heapVars, ctorVars
  <1>2. ProgramInv'
    BY <1>1 DEF Inv, ProgramInv
  <1> QED BY <1>1, <1>2, OwnersStay DEF Inv

-----------------------------------------------------------------------------
(* The steps of a program.                                                  *)

\* A step that owns nothing: what is left is the program of a user's object.
LEMMA QuietStep ==
  ASSUME Inv, todo # <<>>, NEW more, OwnProgram(more), GoOn(more),
         step.do \in {"grow", "place", "append", "shift", "refill", "truncate"},
         mArray' = mArray, live' = live, destination' = destination, call' = call
  PROVE  Inv'
  <1>1. OwnProgram(todo) /\ Len(todo) \in Nat /\ Head(todo) = todo[1]
    <2>1. ~TempProgram(todo)
      BY TempProgramSteps DEF step
    <2> QED BY <2>1, TailIs DEF Inv, ProgramInv, OwnProgram
  <1>2. OwnProgram(todo')
    BY <1>1, TailIsProgram, ConcatIsProgram DEF GoOn
  <1>3. mArray["t"] = nullptr
    BY <1>1, KindsDiffer DEF Inv, ProgramInv
  <1>4. destination = nullptr
    BY <1>1 DEF Inv, ProgramInv, WillAdopt, step
  <1>5. ProgramInv'
    BY <1>2, <1>3, <1>4 DEF Inv, ProgramInv
  <1> QED BY <1>5, OwnersStay DEF Inv

\* The object that the step at hand names.
LEMMA StepObject ==
  ASSUME Inv, todo # <<>>
  PROVE  /\ step = todo[1] /\ Len(todo) \in Nat \ {0} /\ call # NoCall
         /\ OwnProgram(todo) => OwnStep(step)
  <1>1. IsSequence(todo) /\ call # NoCall
    BY DEF Inv, ProgramInv, OwnProgram, TempProgram
  <1>2. step = todo[1] /\ Len(todo) \in Nat \ {0}
    BY <1>1, TailIs DEF step
  <1>3. 1 \in 1 .. Len(todo)
    BY <1>2
  <1> QED BY <1>1, <1>2, <1>3 DEF OwnProgram

\* A step is done, and nothing takes its place.
LEMMA Advance ==
  ASSUME Inv, todo # <<>>, GoOn(<<>>)
  PROVE  /\ todo' = Tail(todo)
         /\ OwnProgram(todo) => OwnProgram(todo')
         /\ TempProgram(todo) =>
              /\ Len(todo) = 1 => todo' = <<>>
              /\ Len(todo) > 1 => TempProgram(todo') /\ Len(todo') = Len(todo) - 1
         /\ Len(todo') = Len(todo) - 1
         /\ \A k \in 1 .. Len(todo') : todo'[k] = todo[k + 1]
  <1>1. IsSequence(todo)
    BY DEF Inv, ProgramInv, OwnProgram, TempProgram
  <1>2. todo' = Tail(todo)
    BY <1>1, TailIs DEF GoOn
  <1> QED BY <1>1, <1>2, TailIs, TailIsProgram, TailOfTempProgram

LEMMA AdvanceTemporary ==
  ASSUME Inv, todo # <<>>, GoOn(<<>>), TempProgram(todo),
         NEW n \in 1 .. 4, Len(todo) = n + 1
  PROVE  TempProgram(todo') /\ Len(todo') = n
  <1>1. n + 1 > 1 /\ (n + 1) - 1 = n
    OBVIOUS
  <1>2. todo' = Tail(todo)
    BY Advance
  <1>3. Len(todo) > 1 => TempProgram(Tail(todo)) /\ Len(Tail(todo)) = Len(todo) - 1
    BY TailOfTempProgram
  <1> QED BY <1>1, <1>2, <1>3

\* Before the swap the temporary has nothing.
LEMMA NotYetBuilt ==
  ASSUME Inv, NEW n \in 3 .. 5, TempProgram(todo) => Len(todo) = n
  PROVE  mArray["t"] = nullptr
  <1> SUFFICES ASSUME mArray["t"] # nullptr PROVE FALSE
    OBVIOUS
  <1>1. TempProgram(todo) /\ Len(todo) <= 2
    BY DEF Inv, ProgramInv
  <1>2. Len(todo) = n
    BY <1>1
  <1>3. ~(n <= 2)
    OBVIOUS
  <1> QED BY <1>1, <1>2, <1>3

\* Only a step that builds or adopts has a block that is being filled.
LEMMA NothingBuilding ==
  ASSUME Inv, todo # <<>>, step.do \notin {"construct", "adopt"}
  PROVE  destination = nullptr
  <1>1. step = todo[1]
    BY StepObject
  <1> QED BY <1>1 DEF Inv, ProgramInv, WillAdopt

LEMMA OwnStepObject ==
  ASSUME Inv, todo # <<>>, OwnProgram(todo)
  PROVE  /\ step.do \in {"adopt", "grow", "append", "swap", "destroy"} => step.o \in Objects
         /\ step.do = "swap" => step.p \in Objects
         /\ step.do # "take"
  <1>1. OwnStep(step)
    BY StepObject
  <1> QED BY <1>1 DEF OwnStep

\* The call goes on when a step of it is done.
LEMMA GoesOn ==
  ASSUME Inv, todo # <<>>, call' = call, destination' # nullptr => WillAdopt(todo'),
         \/ OwnProgram(todo') /\ mArray'["t"] = nullptr
         \/ TempProgram(todo') /\ (mArray'["t"] # nullptr => Len(todo') <= 2)
  PROVE  ProgramInv'
  <1>1. call # NoCall
    BY StepObject
  <1> QED BY <1>1 DEF ProgramInv

LEMMA AllocateStep == ASSUME Inv, allocate PROVE Inv'
  <1>1. /\ todo # <<>> /\ step.do = "allocate" /\ mArray' = mArray /\ call' = call
    BY DEF allocate, Doing, objVars
  <1>2. step = todo[1] /\ Len(todo) \in Nat \ {0} /\ call # NoCall
    BY <1>1, StepObject
  <1>3. destination = nullptr
    BY <1>1, <1>2 DEF Inv, ProgramInv, WillAdopt
  <1>4. TempProgram(todo) => Len(todo) = 5
    BY <1>1, TempProgramSteps DEF step
  <1>5. mArray["t"] = nullptr
    BY <1>4, NotYetBuilt
  <1>6. CASE todo' = <<>> /\ UNCHANGED <<heapVars, ctorVars>>
    <2>1. destination' = destination /\ live' = live
      BY <1>6 DEF heapVars, ctorVars
    <2>2. ProgramInv'
      BY <1>1, <1>2, <1>3, <1>5, <1>6, <2>1, EmptyProgram DEF ProgramInv
    <2> QED BY <1>1, <2>1, <2>2, OwnersStay DEF Inv
  <1>7. CASE \E b \in Blocks \ live : live' = live \cup {b} /\ destination' = b /\ GoOn(<<>>)
    <2>1. PICK b \in Blocks \ live : live' = live \cup {b} /\ destination' = b /\ GoOn(<<>>)
      BY <1>7
    <2>2. Typed'
      BY <1>1, <2>1 DEF Inv, Typed
    <2>3. OneOwnerEach'
      <3>1. \A o \in Owner : mArray[o] \in live \cup {nullptr}
        BY DEF Inv, OneOwnerEach
      <3>2. b # nullptr /\ \A o \in Owner : mArray[o] # b
        BY <3>1, Constants
      <3> QED BY <1>1, <1>3, <2>1, <3>2 DEF Inv, OneOwnerEach
    <2>4. Len(todo') > 1 /\ todo'[1].do = "construct" /\ todo'[2].do = "adopt"
      <3>1. Len(todo) > 2 /\ todo[2].do = "construct" /\ todo[3].do = "adopt"
        <4>1. CASE OwnProgram(todo)
          <5>1. 1 \in 1 .. Len(todo)
            BY <1>2
          <5>2. Adopted(todo, 1)
            BY <1>1, <1>2, <4>1, <5>1 DEF OwnProgram
          <5> QED BY <1>2, <5>2 DEF Adopted
        <4>2. CASE TempProgram(todo)
          BY <1>4, <4>2, TempProgramSteps
        <4> QED BY <4>1, <4>2 DEF Inv, ProgramInv
      <3>2. Len(todo') = Len(todo) - 1 /\ \A k \in 1 .. Len(todo') : todo'[k] = todo[k + 1]
        BY <1>1, <2>1, Advance
      <3>3. 1 \in 1 .. Len(todo') /\ 2 \in 1 .. Len(todo') /\ 1 + 1 = 2 /\ 2 + 1 = 3
        BY <1>2, <3>1, <3>2
      <3>4. todo'[1] = todo[2] /\ todo'[2] = todo[3]
        BY <3>2, <3>3
      <3> QED BY <1>2, <3>1, <3>2, <3>4
    <2>5. OwnProgram(todo') \/ TempProgram(todo')
      BY <1>1, <1>4, <2>1, Advance, AdvanceTemporary DEF Inv, ProgramInv
    <2>6. ProgramInv'
      BY <1>1, <1>2, <1>5, <2>4, <2>5 DEF ProgramInv, WillAdopt
    <2> QED BY <2>2, <2>3, <2>6 DEF Inv
  <1> QED BY <1>6, <1>7 DEF allocate

LEMMA ConstructStep == ASSUME Inv, construct PROVE Inv'
  <1>1. /\ todo # <<>> /\ step.do = "construct" /\ mArray' = mArray /\ call' = call
        /\ live' = live /\ destination' = destination
        /\ GoOn(<<>>) \/ todo' = todo
    BY DEF construct, Doing, objVars, heapVars, ctorVars
  <1>2. step = todo[1] /\ Len(todo) \in Nat \ {0} /\ call # NoCall
    BY <1>1, StepObject
  <1>3. CASE todo' = todo
    <2>1. ProgramInv'
      BY <1>1, <1>3 DEF Inv, ProgramInv, WillAdopt
    <2> QED BY <1>1, <2>1, OwnersStay DEF Inv
  <1>4. CASE GoOn(<<>>)
    <2>1. TempProgram(todo) => Len(todo) = 4
      BY <1>1, TempProgramSteps DEF step
    <2>2. mArray["t"] = nullptr
      BY <2>1, NotYetBuilt
    <2>3. OwnProgram(todo') \/ TempProgram(todo')
      BY <1>1, <1>4, <2>1, Advance, AdvanceTemporary DEF Inv, ProgramInv
    <2>4. destination # nullptr => WillAdopt(todo')
      <3> SUFFICES ASSUME destination # nullptr PROVE WillAdopt(todo')
        OBVIOUS
      <3>1. Len(todo) > 1 /\ todo[2].do = "adopt"
        BY <1>1, <1>2 DEF Inv, ProgramInv, WillAdopt
      <3>2. Len(todo') = Len(todo) - 1 /\ \A k \in 1 .. Len(todo') : todo'[k] = todo[k + 1]
        BY <1>1, <1>4, Advance
      <3>3. 1 \in 1 .. Len(todo') /\ 1 + 1 = 2
        BY <1>2, <3>1, <3>2
      <3>4. todo'[1] = todo[2]
        BY <3>2, <3>3
      <3> QED BY <1>2, <3>1, <3>2, <3>4 DEF WillAdopt
    <2>5. ProgramInv'
      BY <1>1, <1>2, <2>2, <2>3, <2>4 DEF ProgramInv
    <2> QED BY <1>1, <2>5, OwnersStay DEF Inv
  <1> QED BY <1>1, <1>3, <1>4

LEMMA AdoptStep == ASSUME Inv, adopt PROVE Inv'
  <1>0. todo # <<>> /\ step.do = "adopt"
    BY DEF adopt, Doing
  <1>1. /\ call' = call
        /\ mArray' = [mArray EXCEPT ![step.o] = destination]
        /\ destination' = nullptr /\ GoOn(<<>>)
        /\ \/ live' = live \ {mArray[step.o]}
           \/ mArray[step.o] = nullptr /\ live' = live
    BY DEF adopt, Doing, heapVars, freeMemory
  <1>3. TempProgram(todo) => Len(todo) = 3 /\ step.o = "t"
    BY <1>0, TempProgramSteps DEF step
  <1>4. mArray["t"] = nullptr
    BY <1>3 DEF Inv, ProgramInv
  <1>5. OwnProgram(todo) => step.o \in Objects
    BY <1>0, OwnStepObject
  <1>6. step.o \in Owner
    BY <1>3, <1>5, Constants DEF Inv, ProgramInv
  <1>7. live \subseteq Blocks /\ nullptr \notin live
    BY Constants DEF Inv, Typed
  <1>8. Typed'
    BY <1>1, <1>6 DEF Inv, Typed
  <1>9. OneOwnerEach'
    <2>1. mArray'[step.o] = destination /\ \A o \in Owner : o # step.o => mArray'[o] = mArray[o]
      BY <1>1, <1>6 DEF Inv, Typed
    <2>2. live' = ({mArray'[o] : o \in Owner} \cup {destination'}) \ {nullptr}
      BY <1>1, <1>6, <1>7, <2>1 DEF Inv, OneOwnerEach
    <2>3. \A o, p \in Owner : mArray'[o] = mArray'[p] /\ o # p => mArray'[o] = nullptr
      BY <1>6, <2>1 DEF Inv, OneOwnerEach
    <2> QED BY <1>1, <2>2, <2>3 DEF OneOwnerEach
  <1>10. ProgramInv'
    <2>1. CASE OwnProgram(todo)
      <3>1. OwnProgram(todo')
        BY <1>0, <1>1, <2>1, Advance
      <3>2. mArray'["t"] = nullptr
        BY <1>1, <1>4, <1>5, <2>1, Constants DEF Inv, Typed
      <3> QED BY <1>0, <1>1, <3>1, <3>2, GoesOn
    <2>2. CASE TempProgram(todo)
      <3>1. TempProgram(todo') /\ Len(todo') = 2
        BY <1>0, <1>1, <1>3, <2>2, AdvanceTemporary
      <3> QED BY <1>0, <1>1, <3>1, GoesOn
    <2> QED BY <2>1, <2>2 DEF Inv, ProgramInv
  <1> QED BY <1>8, <1>9, <1>10 DEF Inv

LEMMA SwapStep == ASSUME Inv, swapStep PROVE Inv'
  <1>0. todo # <<>> /\ step.do = "swap"
    BY DEF swapStep, Doing
  <1>1. /\ call' = call
        /\ mArray' = [mArray EXCEPT ![step.o] = mArray[step.p], ![step.p] = mArray[step.o]]
        /\ destination' = destination /\ live' = live /\ GoOn(<<>>)
    BY DEF swapStep, Doing, heapVars, ctorVars
  <1>3. TempProgram(todo) => Len(todo) = 2 /\ step.o \in Objects /\ step.p = "t"
    BY <1>0, TempProgramSteps DEF step
  <1>4. OwnProgram(todo) => step.o \in Objects /\ step.p \in Objects
    BY <1>0, OwnStepObject
  <1>5. step.o \in Owner /\ step.p \in Owner
    BY <1>3, <1>4, Constants DEF Inv, ProgramInv
  <1>6. /\ mArray'[step.o] = mArray[step.p] /\ mArray'[step.p] = mArray[step.o]
        /\ \A o \in Owner : o # step.o /\ o # step.p => mArray'[o] = mArray[o]
    BY <1>1, <1>5 DEF Inv, Typed
  <1>7. destination = nullptr
    BY <1>0, NothingBuilding
  <1>8. Typed'
    BY <1>1, <1>5 DEF Inv, Typed
  <1>9. OneOwnerEach'
    <2>1. {mArray'[o] : o \in Owner} = {mArray[o] : o \in Owner}
      <3>1. \A o \in Owner : \E p \in Owner : mArray'[o] = mArray[p]
        BY <1>5, <1>6
      <3>2. \A o \in Owner : \E p \in Owner : mArray[o] = mArray'[p]
        BY <1>5, <1>6
      <3> QED BY <3>1, <3>2
    <2>2. \A o, p \in Owner : mArray'[o] = mArray'[p] /\ o # p => mArray'[o] = nullptr
      BY <1>5, <1>6 DEF Inv, OneOwnerEach
    <2> QED BY <1>1, <1>7, <2>1, <2>2 DEF Inv, OneOwnerEach
  <1>10. ProgramInv'
    <2>1. CASE OwnProgram(todo)
      <3>1. OwnProgram(todo')
        BY <1>0, <1>1, <2>1, Advance
      <3>2. mArray'["t"] = nullptr
        BY <1>4, <1>6, <2>1, Constants, KindsDiffer DEF Inv, ProgramInv
      <3> QED BY <1>0, <1>1, <1>7, <3>1, <3>2, GoesOn
    <2>2. CASE TempProgram(todo)
      <3>1. TempProgram(todo') /\ Len(todo') = 1
        BY <1>0, <1>1, <1>3, <2>2, AdvanceTemporary
      <3> QED BY <1>0, <1>1, <1>7, <3>1, GoesOn
    <2> QED BY <2>1, <2>2 DEF Inv, ProgramInv
  <1> QED BY <1>8, <1>9, <1>10 DEF Inv

LEMMA TakeStep == ASSUME Inv, take PROVE Inv'
  <1>0. todo # <<>> /\ step.do = "take"
    BY DEF take, Doing
  <1>1. /\ call' = call
        /\ mArray' = [mArray EXCEPT ![step.o] = mArray[step.p], ![step.p] = nullptr]
        /\ destination' = destination /\ live' = live /\ GoOn(<<>>)
    BY DEF take, Doing, heapVars, ctorVars
  <1>3. TempProgram(todo)
    BY <1>0, OwnStepObject DEF Inv, ProgramInv
  <1>4. Len(todo) = 3 /\ step.o = "t" /\ step.p \in Objects
    BY <1>0, <1>3, TempProgramSteps DEF step
  <1>5. mArray["t"] = nullptr
    BY <1>4, NotYetBuilt
  <1>6. destination = nullptr
    BY <1>0, NothingBuilding
  <1>7. /\ mArray'["t"] = mArray[step.p] /\ mArray'[step.p] = nullptr
        /\ \A o \in Owner : o # "t" /\ o # step.p => mArray'[o] = mArray[o]
    BY <1>1, <1>4, Constants DEF Inv, Typed
  <1>8. Typed'
    BY <1>1, <1>4, Constants DEF Inv, Typed
  <1>9. OneOwnerEach'
    <2>1. {mArray'[o] : o \in Owner} = {mArray[o] : o \in Owner}
      <3>1. \A o \in Owner : \E p \in Owner : mArray'[o] = mArray[p]
        BY <1>4, <1>5, <1>7, Constants
      <3>2. \A o \in Owner : \E p \in Owner : mArray[o] = mArray'[p]
        BY <1>4, <1>5, <1>7, Constants
      <3> QED BY <3>1, <3>2
    <2>2. \A o, p \in Owner : mArray'[o] = mArray'[p] /\ o # p => mArray'[o] = nullptr
      BY <1>4, <1>5, <1>7, Constants DEF Inv, OneOwnerEach
    <2> QED BY <1>1, <1>6, <2>1, <2>2 DEF Inv, OneOwnerEach
  <1>10. TempProgram(todo') /\ Len(todo') = 2
    BY <1>0, <1>1, <1>3, <1>4, AdvanceTemporary
  <1>11. ProgramInv'
    BY <1>0, <1>1, <1>6, <1>10, GoesOn
  <1> QED BY <1>8, <1>9, <1>11 DEF Inv

LEMMA DestroyStep == ASSUME Inv, destroy PROVE Inv'
  <1>0. todo # <<>> /\ step.do = "destroy"
    BY DEF destroy, Doing
  <1>1. /\ call' = call
        /\ destination' = destination /\ GoOn(<<>>)
        /\ \/ mArray[step.o] = nullptr /\ mArray' = mArray /\ live' = live
           \/ /\ mArray' = [mArray EXCEPT ![step.o] = nullptr]
              /\ live' = live \ {mArray[step.o]}
    BY DEF destroy, Doing, objVars, heapVars, ctorVars, freeMemory
  <1>3. TempProgram(todo) => Len(todo) = 1 /\ step.o = "t"
    BY <1>0, TempProgramSteps DEF step
  <1>4. OwnProgram(todo) => step.o \in Objects
    BY <1>0, OwnStepObject
  <1>5. step.o \in Owner
    BY <1>3, <1>4, Constants DEF Inv, ProgramInv
  <1>6. destination = nullptr
    BY <1>0, NothingBuilding
  <1>7. mArray'[step.o] = nullptr /\ \A o \in Owner : o # step.o => mArray'[o] = mArray[o]
    BY <1>1, <1>5 DEF Inv, Typed
  <1>8. Typed'
    BY <1>1, <1>5 DEF Inv, Typed
  <1>9. OneOwnerEach'
    <2>1. nullptr \notin live
      BY Constants DEF Inv, Typed
    <2>2. live' = ({mArray'[o] : o \in Owner} \cup {destination'}) \ {nullptr}
      BY <1>1, <1>5, <1>6, <1>7, <2>1 DEF Inv, OneOwnerEach
    <2>3. \A o, p \in Owner : mArray'[o] = mArray'[p] /\ o # p => mArray'[o] = nullptr
      BY <1>5, <1>7 DEF Inv, OneOwnerEach
    <2> QED BY <1>1, <1>6, <2>2, <2>3 DEF OneOwnerEach
  <1>10. ProgramInv'
    <2>1. CASE OwnProgram(todo)
      <3>1. OwnProgram(todo')
        BY <1>0, <1>1, <2>1, Advance
      <3>2. mArray'["t"] = nullptr
        BY <1>4, <1>7, <2>1, Constants, KindsDiffer DEF Inv, ProgramInv
      <3> QED BY <1>0, <1>1, <1>6, <3>1, <3>2, GoesOn
    <2>2. CASE TempProgram(todo)
      <3>1. todo' = <<>> /\ mArray'["t"] = nullptr
        BY <1>0, <1>1, <1>3, <1>7, <2>2, Advance
      <3> QED BY <1>0, <1>1, <1>6, <3>1, EmptyProgram, GoesOn
    <2> QED BY <2>1, <2>2 DEF Inv, ProgramInv
  <1> QED BY <1>8, <1>9, <1>10 DEF Inv

LEMMA QuietSteps ==
  ASSUME Inv, grow \/ place \/ append \/ shift \/ refill \/ truncateStep
  PROVE  Inv'
  <1>1. ASSUME grow PROVE Inv'
    <2>1. todo # <<>> /\ step.do = "grow"
      BY <1>1 DEF grow, Doing
    <2>2. step.o \in Objects
      <3>1. ~TempProgram(todo)
        BY <2>1, TempProgramSteps DEF step
      <3> QED BY <2>1, <3>1, OwnStepObject DEF Inv, ProgramInv
    <2>3. PICK more : OwnProgram(more) /\ GoOn(more)
      BY <1>1, <2>2, CapacityProgram, EmptyProgram DEF grow
    <2> QED BY <1>1, <2>1, <2>3, QuietStep DEF grow, objVars, heapVars, ctorVars
  <1>2. ASSUME place PROVE Inv'
    BY <1>2, EmptyProgram, QuietStep DEF place, Doing, ctorVars
  <1>3. ASSUME append PROVE Inv'
    <2>1. todo # <<>> /\ step.do = "append"
      BY <1>3 DEF append, Doing
    <2>2. step.o \in Objects
      <3>1. ~TempProgram(todo)
        BY <2>1, TempProgramSteps DEF step
      <3> QED BY <2>1, <3>1, OwnStepObject DEF Inv, ProgramInv
    <2>3. OwnProgram(emplaceBack(step.o, Head(step.args)) \o emplaceAll(step.o, Tail(step.args)))
      BY <2>2, AppendPrograms, ConcatIsProgram
    <2>4. PICK more : OwnProgram(more) /\ GoOn(more)
      BY <1>3, <2>3, EmptyProgram DEF append
    <2> QED BY <1>3, <2>1, <2>4, QuietStep DEF append, objVars, heapVars, ctorVars
  <1>4. ASSUME shift PROVE Inv'
    <2>1. todo # <<>> /\ step.do = "shift"
      BY <1>4 DEF shift, Doing
    <2>2. ~TempProgram(todo)
      BY <2>1, TempProgramSteps DEF step
    <2>3. IsRecord(step)
      BY <2>1, <2>2, StepObject DEF Inv, ProgramInv, OwnStep
    <2>4. IsRecord(nextShift(step)) /\ nextShift(step).do = "shift"
      BY <2>1, <2>3, SameRecord DEF nextShift
    <2>5. OwnProgram(<< nextShift(step) >>)
      BY <2>4, OneStepProgram DEF OwnStep
    <2>6. PICK more : OwnProgram(more) /\ GoOn(more)
      BY <1>4, <2>5, EmptyProgram DEF shift
    <2> QED BY <1>4, <2>1, <2>6, QuietStep DEF shift, objVars, ctorVars
  <1>5. ASSUME refill PROVE Inv'
    <2>1. todo # <<>> /\ step.do = "refill"
      BY <1>5 DEF refill, Doing
    <2>2. ~TempProgram(todo)
      BY <2>1, TempProgramSteps DEF step
    <2>3. IsRecord(step)
      BY <2>1, <2>2, StepObject DEF Inv, ProgramInv, OwnStep
    <2>4. OwnProgram(<< [step EXCEPT !.to = @ + 1, !.from = @ - 1, !.left = @ - 1] >>)
      <3>1. DEFINE m == [step EXCEPT !.to = @ + 1, !.from = @ - 1, !.left = @ - 1]
      <3>2. IsRecord(m) /\ m.do = "refill"
        BY <2>1, <2>3, SameRecord
      <3> HIDE DEF m
      <3>3. OwnProgram(<<m>>)
        BY <3>2, OneStepProgram DEF OwnStep
      <3> QED BY <3>3 DEF m
    <2>6. PICK more : OwnProgram(more) /\ GoOn(more)
      BY <1>5, <2>4, EmptyProgram DEF refill
    <2> QED BY <1>5, <2>1, <2>6, QuietStep DEF refill, objVars, ctorVars
  <1>6. ASSUME truncateStep PROVE Inv'
    BY <1>6, EmptyProgram, QuietStep DEF truncateStep, Doing, ctorVars
  <1> QED BY <1>1, <1>2, <1>3, <1>4, <1>5, <1>6

LEMMA ReturnStep == ASSUME Inv, Return PROVE Inv'
  <1>1. /\ todo = <<>> /\ todo' = todo
        /\ mArray' = mArray /\ live' = live /\ destination' = destination
    BY DEF Return, objVars, heapVars, ctorVars
  <1>2. ProgramInv'
    BY <1>1 DEF Inv, ProgramInv, WillAdopt
  <1> QED BY <1>1, <1>2, OwnersStay DEF Inv

-----------------------------------------------------------------------------
(* Every step, and the theorems.                                            *)

LEMMA CallStep == ASSUME Inv, NEW o \in Objects, Call(o) PROVE Inv'
  <1>1. ASSUME NEW c, NEW p, Begin(c, p), OwnProgram(p) \/ TempProgram(p), c # NoCall
        PROVE  Inv'
    BY <1>1, BeginStep
  <1>2. ASSUME push_back(o) PROVE Inv'
    BY <1>2, <1>1, AppendPrograms DEF push_back, NoCall
  <1>3. ASSUME insert_back(o) PROVE Inv'
    BY <1>3, <1>1, AppendPrograms DEF insert_back, NoCall
  <1>4. ASSUME pop_back(o) PROVE Inv'
    BY <1>4, <1>1, ErasePrograms DEF pop_back, NoCall
  <1>5. ASSUME erase(o) PROVE Inv'
    BY <1>5, <1>1, ErasePrograms DEF erase, NoCall
  <1>6. ASSUME swap_with_last_erase(o) PROVE Inv'
    BY <1>6, <1>1, ErasePrograms DEF swap_with_last_erase, NoCall
  <1>7. ASSUME set_capacity(o) \/ shrink_to_fit(o) PROVE Inv'
    BY <1>7, <1>1, CapacityProgram DEF set_capacity, shrink_to_fit, NoCall
  <1>8. ASSUME resize(o) PROVE Inv'
    <2>1. PICK n, a : Begin([op |-> "resize", o |-> o, n |-> n, arg |-> a],
                            IF n < mSize[o] THEN eraseRange(o, n, mSize[o])
                            ELSE (IF n > mCapacity[o] THEN setCapacity(o, n) ELSE <<>>)
                                 \o emplaceAll(o, [k \in 1 .. n - mSize[o] |-> a]))
      BY <1>8 DEF resize
    <2>2. OwnProgram(eraseRange(o, n, mSize[o]))
      BY ErasePrograms
    <2>3. OwnProgram((IF n > mCapacity[o] THEN setCapacity(o, n) ELSE <<>>)
                     \o emplaceAll(o, [k \in 1 .. n - mSize[o] |-> a]))
      BY AppendPrograms, CapacityProgram, EmptyProgram, ConcatIsProgram
    <2>4. [op |-> "resize", o |-> o, n |-> n, arg |-> a] # NoCall
      BY DEF NoCall
    <2> QED BY <1>1, <2>1, <2>2, <2>3, <2>4
  <1>9. ASSUME clear(o) PROVE Inv'
    BY <1>9, <1>1, ErasePrograms DEF clear, NoCall
  <1>10. ASSUME wipe(o) PROVE Inv'
    <2>1. OwnProgram(<< [do |-> "destroy", o |-> o] >>)
      BY OneStepProgram DEF OwnStep
    <2> QED BY <1>10, <1>1, <2>1, EmptyProgram DEF wipe, NoCall
  <1>11. ASSUME assign_list(o) PROVE Inv'
    BY <1>11, <1>1, TemporaryIsProgram DEF assign_list, NoCall
  <1>12. ASSUME set_additive(o) PROVE Inv'
    BY <1>12, SetAdditiveStep
  <1>13. ASSUME NEW q \in Objects, swap(o, q) PROVE Inv'
    <2>1. OwnProgram(<< [do |-> "swap", o |-> o, p |-> q] >>)
      BY OneStepProgram DEF OwnStep
    <2> QED BY <1>13, <1>1, <2>1 DEF swap, NoCall
  <1>14. ASSUME NEW q \in Objects, copy_assign(o, q) PROVE Inv'
    BY <1>14, <1>1, TemporaryIsProgram DEF copy_assign, NoCall
  <1>15. ASSUME NEW q \in Objects, move_assign(o, q) PROVE Inv'
    BY <1>15, <1>1, TakeIsProgram DEF move_assign, NoCall
  <1> QED BY <1>2, <1>3, <1>4, <1>5, <1>6, <1>7, <1>8, <1>9, <1>10, <1>11, <1>12, <1>13,
             <1>14, <1>15 DEF Call

LEMMA InitInv == Init => Inv
  <1> SUFFICES ASSUME Init PROVE Inv
    OBVIOUS
  <1>1. /\ mArray = [o \in Owner |-> nullptr] /\ live = {} /\ destination = nullptr
        /\ todo = <<>> /\ mArray["t"] = nullptr
    BY Constants DEF Init
  <1>2. Typed
    BY <1>1 DEF Typed
  <1>3. OneOwnerEach
    BY <1>1 DEF OneOwnerEach
  <1>4. ProgramInv
    BY <1>1, EmptyProgram DEF ProgramInv
  <1> QED BY <1>2, <1>3, <1>4 DEF Inv

LEMMA NextInv == Inv /\ [Next]_vars => Inv'
  <1> SUFFICES ASSUME Inv, [Next]_vars PROVE Inv'
    OBVIOUS
  <1>1. ASSUME Step PROVE Inv'
    BY <1>1, AllocateStep, ConstructStep, AdoptStep, QuietSteps, SwapStep, TakeStep, DestroyStep,
       ReturnStep DEF Step
  <1>2. ASSUME UNCHANGED vars PROVE Inv'
    <2>1. /\ mArray' = mArray /\ live' = live /\ destination' = destination
          /\ todo' = todo /\ call' = call
      BY <1>2 DEF vars, objVars, heapVars, ctorVars
    <2>2. ProgramInv'
      BY <2>1 DEF Inv, ProgramInv
    <2> QED BY <2>1, <2>2, OwnersStay DEF Inv
  <1> QED BY <1>1, <1>2, CallStep DEF Next

LEMMA AlwaysInv == Spec => []Inv
  BY InitInv, NextInv, PTL DEF Spec

\* Every block that is allocated has exactly one owner, in the midst of every
\* member function and after every allocation that failed (Sequence.h:62-90,
\* 159-170, 449-460): no block leaks, and none is freed twice.
THEOREM BlocksHaveOneOwner == Spec => []OneOwnerEach
  <1>1. Inv => OneOwnerEach
    BY DEF Inv
  <1> QED BY <1>1, AlwaysInv, PTL

\* Between calls the blocks are those of the user's Sequences: a call that
\* returned or threw has left nothing to a temporary or half built.
NothingLeaks ==
  call = NoCall => live = {mArray[o] : o \in Objects} \ {nullptr}

\* The assignment operators and reConstructAllocate give back what they allocate,
\* also when an exception ends them (Sequence.h:62-90, 159-170).
THEOREM CallsLeakNothing == Spec => []NothingLeaks
  <1>1. Inv => NothingLeaks
    <2> SUFFICES ASSUME Inv, call = NoCall
                 PROVE  live = {mArray[o] : o \in Objects} \ {nullptr}
      BY DEF NothingLeaks
    <2>1. todo = <<>> /\ Len(todo) = 0
      BY DEF Inv, ProgramInv
    <2>2. destination = nullptr /\ mArray["t"] = nullptr
      BY <2>1 DEF Inv, ProgramInv, WillAdopt, TempProgram
    <2> QED BY <2>2 DEF Inv, OneOwnerEach, Owner
  <1> QED BY <1>1, AlwaysInv, PTL

=============================================================================
