---------------------------- MODULE Extract_proofs ----------------------------
(***************************************************************************)
(* Theorems about Extract for any number of calls and any length of the    *)
(* lists in a document: a refused document leaves no trace, and the        *)
(* elements of a list are whole and in order however many calls were cut   *)
(* short.                                                                  *)
(***************************************************************************)
EXTENDS Extract, SequenceTheorems, FiniteSetTheorems, TLAPS

-----------------------------------------------------------------------------
(* The invariant.                                                           *)

\* An element of a list, made of one entry.
Item == {e \in [call : Nat, at : Nat, keyed : BOOLEAN, rest : SUBSET Nat] : e.rest \subseteq {e.at}}

\* Element e was appended before element f.
Before(e, f) == e.call < f.call \/ (e.call = f.call /\ e.at < f.at)

Ordered(list) == \A i, j \in DOMAIN list : i < j => Before(list[i], list[j])

\* What a call appends: elements of that call, in order.
Batch(pushes, c) ==
  /\ pushes \in Seq(Item) /\ Ordered(pushes)
  /\ \A i \in DOMAIN pushes : pushes[i].call = c

\* A sheet that calls up to the c-th have written.
SheetInv(sheet, c) ==
  /\ sheet.list \in Seq(Item) /\ Ordered(sheet.list)
  /\ \A i \in DOMAIN sheet.list : sheet.list[i].call <= c

Inv ==
  /\ calls \in Nat
  /\ DOMAIN sheets = Functions
  /\ \A fn \in Functions : SheetInv(sheets[fn], calls)

-----------------------------------------------------------------------------
(* What a call appends.                                                     *)

LEMMA NothingIsBatch == ASSUME NEW c PROVE Batch(<<>>, c)
  BY DEF Batch, Ordered

LEMMA PrefixIsBatch ==
  ASSUME NEW s, NEW c, Batch(s, c), NEW k \in 0 .. Len(s)
  PROVE  Batch(SubSeq(s, 1, k), c)
  <1>1. s \in Seq(Item) /\ Len(s) \in Nat /\ k \in Nat /\ k <= Len(s)
    BY DEF Batch
  <1>2. PICK t : t = SubSeq(s, 1, k)
    OBVIOUS
  <1>3. t \in Seq(Item) /\ Len(t) = k /\ DOMAIN t = 1 .. k /\ \A i \in 1 .. k : t[i] = s[i]
    BY <1>1, <1>2
  <1>4. \A i \in 1 .. k : i \in DOMAIN s
    BY <1>1
  <1>5. Ordered(t) /\ \A i \in DOMAIN t : t[i].call = c
    BY <1>3, <1>4 DEF Batch, Ordered
  <1> QED BY <1>2, <1>3, <1>5 DEF Batch

\* Appended to what earlier calls have left, a batch keeps the order.
LEMMA AppendBatch ==
  ASSUME NEW c \in Nat, NEW list \in Seq(Item), Ordered(list),
         \A i \in DOMAIN list : list[i].call <= c,
         NEW batch, Batch(batch, c + 1)
  PROVE  /\ list \o batch \in Seq(Item) /\ Ordered(list \o batch)
         /\ \A i \in DOMAIN (list \o batch) : (list \o batch)[i].call <= c + 1
  <1>1. batch \in Seq(Item) /\ Len(list) \in Nat /\ Len(batch) \in Nat
    BY DEF Batch
  <1>2. PICK both : both = list \o batch
    OBVIOUS
  <1>3. /\ both \in Seq(Item) /\ DOMAIN both = 1 .. Len(list) + Len(batch)
        /\ \A i \in 1 .. Len(list) : both[i] = list[i]
        /\ \A i \in 1 .. Len(batch) : both[Len(list) + i] = batch[i]
    BY <1>1, <1>2, ConcatProperties
  <1>4. ASSUME NEW i \in DOMAIN both
        PROVE  \/ i \in 1 .. Len(list) /\ both[i] = list[i] /\ list[i] \in Item /\ list[i].call <= c
               \/ /\ i - Len(list) \in 1 .. Len(batch) /\ both[i] = batch[i - Len(list)]
                  /\ both[i].call = c + 1
    <2>1. CASE i \in 1 .. Len(list)
      BY <1>3, <2>1
    <2>2. CASE i \notin 1 .. Len(list)
      <3>1. i - Len(list) \in 1 .. Len(batch) /\ Len(list) + (i - Len(list)) = i
        BY <1>1, <1>3, <2>2
      <3>2. both[Len(list) + (i - Len(list))] = batch[i - Len(list)]
        BY <1>3, <3>1
      <3>3. batch[i - Len(list)].call = c + 1
        BY <1>1, <3>1 DEF Batch
      <3> QED BY <3>1, <3>2, <3>3
    <2> QED BY <2>1, <2>2
  <1>5. \A i \in DOMAIN both : both[i].call \in Nat /\ both[i].call <= c + 1
    <2>1. \A e \in Item : e.call \in Nat
      BY DEF Item
    <2> QED BY <1>4, <2>1
  <1>6. ASSUME NEW i \in DOMAIN both, NEW j \in DOMAIN both, i < j
        PROVE  Before(both[i], both[j])
    <2>1. CASE j \in 1 .. Len(list)
      <3>1. i \in 1 .. Len(list)
        BY <1>1, <1>3, <1>6, <2>1
      <3> QED BY <1>3, <1>6, <2>1, <3>1 DEF Ordered
    <2>2. CASE i \in 1 .. Len(list) /\ j \notin 1 .. Len(list)
      <3>1. both[i].call <= c /\ both[j].call = c + 1 /\ both[i].call \in Nat
        BY <1>4, <1>5, <2>2
      <3> QED BY <3>1 DEF Before
    <2>3. CASE i \notin 1 .. Len(list) /\ j \notin 1 .. Len(list)
      <3>1. /\ i - Len(list) \in DOMAIN batch /\ both[i] = batch[i - Len(list)]
            /\ j - Len(list) \in DOMAIN batch /\ both[j] = batch[j - Len(list)]
        BY <1>1, <1>4, <2>3
      <3>2. i - Len(list) < j - Len(list)
        BY <1>1, <1>3, <1>6
      <3> QED BY <3>1, <3>2 DEF Batch, Ordered
    <2> QED BY <1>6, <2>1, <2>2, <2>3, <1>1, <1>3
  <1>7. Ordered(both)
    BY <1>6 DEF Ordered
  <1> QED BY <1>2, <1>3, <1>5, <1>7

-----------------------------------------------------------------------------
(* The entries of a document.                                               *)

\* A list of entries as a document may have it.
Document(entries) ==
  \E n \in Nat : entries \in [1 .. n -> [keyed : BOOLEAN, rest : BOOLEAN]]

LEMMA EntriesAreDocuments == \A entries \in Entries : Document(entries)
  <1>1. MaxEntries \in Nat
    BY ExtractAssumption
  <1> QED BY <1>1 DEF Entries, SeqOf, Document

LEMMA FinitePart ==
  ASSUME NEW n \in Nat, NEW K \in SUBSET (1 .. n)
  PROVE  IsFiniteSet(K)
  <1>1. 1 \in Int /\ n \in Int
    OBVIOUS
  <1>2. IsFiniteSet(1 .. n)
    BY <1>1, FS_Interval
  <1> QED BY <1>2, FS_Subset

\* A finite set of naturals can be listed in increasing order: element i stands at
\* the place that counts the elements up to i.
LEMMA Enumeration ==
  ASSUME NEW n \in Nat, NEW K \in SUBSET (1 .. n)
  PROVE  \E s \in [1 .. Cardinality(K) -> K] :
           \A p, q \in DOMAIN s : p < q => s[p] < s[q]
  <1>1. /\ IsFiniteSet(K) /\ Cardinality(K) \in Nat
        /\ \A T \in SUBSET K : IsFiniteSet(T) /\ Cardinality(T) \in Nat
    <2>1. IsFiniteSet(K)
      BY FinitePart
    <2>2. \A T \in SUBSET K : IsFiniteSet(T)
      BY <2>1, FS_Subset
    <2> QED BY <2>1, <2>2, FS_CardinalityType, FinitePart
  <1>0. \A i \in K : i \in Nat
    OBVIOUS
  <1> DEFINE UpTo(i) == {j \in K : j <= i}
             rank == [i \in K |-> Cardinality(UpTo(i))]
             places == 1 .. Cardinality(K)
  <1>2. ASSUME NEW i \in K PROVE Cardinality(UpTo(i)) \in places
    <2>1. UpTo(i) \in SUBSET K /\ i \in UpTo(i)
      OBVIOUS
    <2>2. Cardinality(UpTo(i)) <= Cardinality(K) /\ Cardinality(UpTo(i)) # 0
      BY <1>1, <2>1, FS_Subset, FS_EmptySet
    <2> QED BY <1>1, <2>1, <2>2
  <1>3. ASSUME NEW i \in K, NEW j \in K, i < j
        PROVE  Cardinality(UpTo(i)) < Cardinality(UpTo(j))
    <2>1. UpTo(i) \in SUBSET UpTo(j) /\ j \in UpTo(j) /\ j \notin UpTo(i)
      <3>1. i \in Nat /\ j \in Nat /\ \A k \in K : k \in Nat
        BY <1>0
      <3>2. j <= j /\ ~(j <= i) /\ \A k \in K : k <= i => k <= j
        BY <1>3, <3>1
      <3> QED BY <3>2
    <2>2. IsFiniteSet(UpTo(j)) /\ UpTo(i) # UpTo(j)
      BY <1>1, <2>1
    <2>3. /\ Cardinality(UpTo(i)) <= Cardinality(UpTo(j))
          /\ Cardinality(UpTo(i)) # Cardinality(UpTo(j))
      <3> HIDE DEF UpTo
      <3> QED BY <2>1, <2>2, FS_Subset
    <2>4. Cardinality(UpTo(i)) \in Nat /\ Cardinality(UpTo(j)) \in Nat
      BY <1>1
    <2> QED BY <2>3, <2>4
  <1> HIDE DEF UpTo
  <1>4. rank \in Injection(K, places)
    <2>1. rank \in [K -> places]
      BY <1>2
    <2>2. ASSUME NEW i \in K, NEW j \in K, rank[i] = rank[j] PROVE i = j
      <3>1. i \in Nat /\ j \in Nat
        OBVIOUS
      <3>2. Cardinality(UpTo(i)) = Cardinality(UpTo(j))
        BY <2>2
      <3>3. Cardinality(UpTo(i)) \in Nat
        BY <1>2, <1>1
      <3> QED BY <1>3, <3>1, <3>2, <3>3
    <2> HIDE DEF rank, places
    <2> QED BY <2>1, <2>2 DEF Injection, IsInjective
  <1>5. rank \in Surjection(K, places)
    <2>1. IsFiniteSet(places) /\ Cardinality(places) = Cardinality(K)
      BY <1>1, FS_Interval
    <2> HIDE DEF rank, places
    <2> QED BY <1>4, <2>1, FS_Injection
  <1>6. \A p \in places : \E i \in K : rank[i] = p
    BY <1>5 DEF Surjection
  <1> DEFINE s == [p \in places |-> CHOOSE i \in K : rank[i] = p]
  <1>7. s \in [places -> K] /\ \A p \in places : s[p] \in K /\ Cardinality(UpTo(s[p])) = p
    BY <1>6
  <1>8. ASSUME NEW p \in places, NEW q \in places, p < q PROVE s[p] < s[q]
    <2> HIDE DEF s
    <2>1. s[p] \in Nat /\ s[q] \in Nat /\ p \in Nat /\ q \in Nat
      <3>1. Cardinality(K) \in Nat
        BY <1>1
      <3>2. p \in Nat /\ q \in Nat
        BY <3>1
      <3> QED BY <1>0, <1>7, <3>2
    <2>2. s[p] # s[q]
      BY <1>7, <1>8, <2>1
    <2>3. ~(s[q] < s[p])
      BY <1>3, <1>7, <1>8, <2>1
    <2> QED BY <2>1, <2>2, <2>3
  <1> HIDE DEF s
  <1> QED BY <1>7, <1>8

\* The entries with a key, each once, in the order of the document.
LEMMA KeyedInOrder ==
  ASSUME NEW entries, Document(entries)
  PROVE  \E m \in Nat :
           /\ Keyed(entries) \in [1 .. m -> DOMAIN entries]
           /\ \A p, q \in 1 .. m : p < q => Keyed(entries)[p] < Keyed(entries)[q]
  <1>1. PICK n \in Nat : DOMAIN entries = 1 .. n
    BY DEF Document
  <1>2. PICK K : K = {i \in DOMAIN entries : entries[i].keyed}
    OBVIOUS
  <1>3. K \in SUBSET (1 .. n)
    BY <1>1, <1>2
  <1>4. Keyed(entries) = CHOOSE s \in [1 .. Cardinality(K) -> K] :
                           \A p, q \in DOMAIN s : p < q => s[p] < s[q]
    BY <1>2 DEF Keyed
  <1>5. /\ Keyed(entries) \in [1 .. Cardinality(K) -> K]
        /\ \A p, q \in DOMAIN Keyed(entries) : p < q => Keyed(entries)[p] < Keyed(entries)[q]
    BY <1>3, <1>4, Enumeration
  <1>6. Cardinality(K) \in Nat
    BY <1>3, FinitePart, FS_CardinalityType
  <1> QED BY <1>1, <1>3, <1>5, <1>6

\* The elements made of some entries of a document in order are a batch.
LEMMA ElementsAreBatch ==
  ASSUME calls \in Nat, calls' = calls + 1, NEW entries, Document(entries),
         NEW m \in Nat, NEW order \in [1 .. m -> DOMAIN entries],
         \A p, q \in 1 .. m : p < q => order[p] < order[q]
  PROVE  Batch([n \in 1 .. m |-> Entry(entries, order[n])], calls + 1)
  <1>1. \A i \in DOMAIN entries : i \in Nat /\ entries[i] \in [keyed : BOOLEAN, rest : BOOLEAN]
    BY DEF Document
  <1>2. ASSUME NEW i \in DOMAIN entries
        PROVE  /\ Entry(entries, i) \in Item
               /\ Entry(entries, i).call = calls + 1 /\ Entry(entries, i).at = i
    <2>1. PICK e : e = Entry(entries, i)
      OBVIOUS
    <2>2. PICK r : r = IF entries[i].rest THEN {i} ELSE {}
      OBVIOUS
    <2>3. e = [call |-> calls + 1, at |-> i, keyed |-> entries[i].keyed, rest |-> r]
      BY <2>1, <2>2 DEF Entry
    <2>4. r \in SUBSET Nat /\ r \subseteq {i} /\ calls + 1 \in Nat
          /\ i \in Nat /\ entries[i].keyed \in BOOLEAN
      BY <1>1, <2>2
    <2>5. e.call = calls + 1 /\ e.at = i /\ e.rest = r
      BY <2>3
    <2>6. e \in [call : Nat, at : Nat, keyed : BOOLEAN, rest : SUBSET Nat]
      BY <2>3, <2>4
    <2> QED BY <2>1, <2>4, <2>5, <2>6 DEF Item
  <1>3. PICK b : b = [n \in 1 .. m |-> Entry(entries, order[n])]
    OBVIOUS
  <1>4. DOMAIN b = 1 .. m /\ \A n \in 1 .. m : b[n] = Entry(entries, order[n]) /\ order[n] \in DOMAIN entries
    BY <1>3
  <1>5. b \in [1 .. m -> Item]
    BY <1>2, <1>3, <1>4
  <1>6. b \in Seq(Item)
    BY <1>5, SeqDef
  <1>7. \A n \in DOMAIN b : b[n].call = calls + 1 /\ b[n].at = order[n]
    BY <1>2, <1>4
  <1>8. Ordered(b)
    BY <1>4, <1>7 DEF Ordered, Before
  <1> QED BY <1>3, <1>6, <1>7, <1>8 DEF Batch

LEMMA GamesAreBatch ==
  ASSUME calls \in Nat, calls' = calls + 1, NEW entries, Document(entries)
  PROVE  Batch([n \in DOMAIN Keyed(entries) |-> Entry(entries, Keyed(entries)[n])], calls + 1)
  <1>1. PICK m, order : /\ m \in Nat /\ order = Keyed(entries) /\ order \in [1 .. m -> DOMAIN entries]
                        /\ \A p, q \in 1 .. m : p < q => order[p] < order[q]
    BY KeyedInOrder
  <1>2. DOMAIN order = 1 .. m
    BY <1>1
  <1> QED BY <1>1, <1>2, ElementsAreBatch

LEMMA AchievementsAreBatch ==
  ASSUME calls \in Nat, calls' = calls + 1, NEW entries, Document(entries)
  PROVE  Batch([i \in DOMAIN entries |-> Entry(entries, i)], calls + 1)
  <1>1. PICK m \in Nat : DOMAIN entries = 1 .. m
    BY DEF Document
  <1>2. PICK order : order = [i \in 1 .. m |-> i]
    OBVIOUS
  <1>3. order \in [1 .. m -> DOMAIN entries] /\ \A i \in 1 .. m : order[i] = i
    BY <1>1, <1>2
  <1>4. Batch([n \in 1 .. m |-> Entry(entries, order[n])], calls + 1)
    BY <1>3, ElementsAreBatch
  <1>5. [n \in 1 .. m |-> Entry(entries, order[n])] = [i \in DOMAIN entries |-> Entry(entries, i)]
    BY <1>1, <1>3
  <1> QED BY <1>4, <1>5

-----------------------------------------------------------------------------
(* The steps.                                                               *)

\* What was right of a sheet stays right in the next call that leaves it alone.
LEMMA SheetKept ==
  ASSUME NEW c \in Nat, NEW sheet, SheetInv(sheet, c)
  PROVE  SheetInv(sheet, c + 1)
  <1>1. \A i \in DOMAIN sheet.list : sheet.list[i].call \in Nat
    <2>1. \A i \in DOMAIN sheet.list : sheet.list[i] \in Item
      BY DEF SheetInv
    <2> QED BY <2>1 DEF Item
  <1> QED BY <1>1 DEF SheetInv

LEMMA LeftAlone ==
  ASSUME Inv, calls' = calls + 1, sheets' = sheets
  PROVE  Inv'
  BY SheetKept DEF Inv

LEMMA WrittenStep ==
  ASSUME Inv, calls' = calls + 1, NEW fn \in Functions, NEW steamid,
         NEW fields, NEW pushes, Batch(pushes, calls + 1),
         sheets' = Written(fn, steamid, fields, pushes)
  PROVE  Inv'
  <1>1. PICK written : written =
          (sheets[fn].fields \ {f \in sheets[fn].fields : f.name \in Range(fields)})
            \cup [name : Range(fields), call : {calls'}]
    OBVIOUS
  <1>2. PICK sheet : sheet = [steamid |-> steamid, fields |-> written, list |-> sheets[fn].list \o pushes]
    OBVIOUS
  <1>3. sheets' = [sheets EXCEPT ![fn] = sheet]
    BY <1>1, <1>2 DEF Written
  <1>4. /\ DOMAIN sheets' = Functions /\ sheets'[fn] = sheet
        /\ \A g \in Functions : g # fn => sheets'[g] = sheets[g]
    BY <1>3 DEF Inv
  <1>5. calls \in Nat /\ SheetInv(sheets[fn], calls)
    BY DEF Inv
  <1>6. SheetInv(sheet, calls + 1)
    <2>1. sheet.list = sheets[fn].list \o pushes
      BY <1>2
    <2> QED BY <1>5, <2>1, AppendBatch DEF SheetInv
  <1>7. \A g \in Functions : g # fn => SheetInv(sheets[g], calls + 1)
    BY <1>5, SheetKept DEF Inv
  <1> QED BY <1>4, <1>5, <1>6, <1>7 DEF Inv

LEMMA FillStep ==
  ASSUME Inv, calls' = calls + 1, NEW fn \in Functions, NEW message, NEW steamid,
         NEW fields, NEW pushes, Batch(pushes, calls + 1),
         Fill(fn, message, steamid, fields, pushes)
  PROVE  Inv'
  <1>1. CASE sheets' = sheets
    BY <1>1, LeftAlone
  <1>2. CASE sheets' = Written(fn, steamid, fields, pushes)
    BY <1>2, WrittenStep
  <1>3. CASE \E some : sheets' = Written(fn, steamid, some, <<>>)
    BY <1>3, NothingIsBatch, WrittenStep
  <1>4. CASE \E k \in 0 .. Len(pushes) : sheets' = Written(fn, steamid, fields, SubSeq(pushes, 1, k))
    BY <1>4, PrefixIsBatch, WrittenStep
  <1> QED BY <1>1, <1>2, <1>3, <1>4 DEF Fill

LEMMA RefuseStep ==
  ASSUME Inv, calls' = calls + 1, NEW fn, NEW message, Refuse(fn, message)
  PROVE  Inv'
  BY LeftAlone DEF Refuse

LEMMA NextInv == Inv /\ [Next]_extractVars => Inv'
  <1> SUFFICES ASSUME Inv, [Next]_extractVars PROVE Inv'
    OBVIOUS
  <1>1. ASSUME NEW there, NEW text, NEW good, extractjson_player_summary(there, text, good)
        PROVE  Inv'
    <2>1. calls' = calls + 1
      BY <1>1 DEF extractjson_player_summary, Call
    <2>2. CASE \E message : Refuse("player_summary", message)
      BY <2>1, <2>2, RefuseStep
    <2>3. CASE Fill("player_summary", "extracted", Parsed(text), Fields(SummaryFields, good), <<>>)
      BY <2>1, <2>3, NothingIsBatch, FillStep DEF Functions
    <2> QED BY <1>1, <2>2, <2>3 DEF extractjson_player_summary
  <1>2. ASSUME NEW there, extractjson_player_level(there)
        PROVE  Inv'
    <2>1. calls' = calls + 1
      BY <1>2 DEF extractjson_player_level, Call
    <2>2. CASE \E message : Refuse("player_level", message)
      BY <2>1, <2>2, RefuseStep
    <2>3. CASE Fill("player_level", "extracted", Unset, << "player_level" >>, <<>>)
      BY <2>1, <2>3, NothingIsBatch, FillStep DEF Functions
    <2> QED BY <1>2, <2>2, <2>3 DEF extractjson_player_level
  <1>3. ASSUME NEW there, NEW good, NEW entries \in Entries,
               extractjson_player_owned_games(there, good, entries)
        PROVE  Inv'
    <2>1. calls' = calls + 1 /\ calls \in Nat /\ Document(entries)
      BY <1>3, EntriesAreDocuments DEF extractjson_player_owned_games, Call, Inv
    <2>2. CASE \E message : Refuse("player_owned_games", message)
      BY <2>1, <2>2, RefuseStep
    <2>3. CASE \E pushes : /\ Batch(pushes, calls + 1)
                           /\ Fill("player_owned_games", "extracted", Unset,
                                   Fields(<< "game_count" >>, good), pushes)
      BY <2>1, <2>3, FillStep DEF Functions
    <2>4. Batch([n \in DOMAIN Keyed(entries) |-> Entry(entries, Keyed(entries)[n])], calls + 1)
      BY <2>1, GamesAreBatch
    <2> QED BY <1>3, <2>2, <2>3, <2>4 DEF extractjson_player_owned_games
  <1>4. ASSUME NEW there, NEW text, NEW good, NEW entries \in Entries,
               extractjson_player_achievements(there, text, good, entries)
        PROVE  Inv'
    <2>1. calls' = calls + 1 /\ calls \in Nat /\ Document(entries)
      BY <1>4, EntriesAreDocuments DEF extractjson_player_achievements, Call, Inv
    <2>2. CASE \E message : Refuse("player_achievements", message)
      BY <2>1, <2>2, RefuseStep
    <2>3. PICK steamid : steamid = IF text = "missing" THEN sheets["player_achievements"].steamid
                                   ELSE Parsed(text)
      OBVIOUS
    <2>4. CASE \E pushes : /\ Batch(pushes, calls + 1)
                           /\ Fill("player_achievements", "extracted", steamid,
                                   Fields(<< "gameName" >>, good), pushes)
      BY <2>1, <2>4, FillStep DEF Functions
    <2>5. Batch([i \in DOMAIN entries |-> Entry(entries, i)], calls + 1)
      BY <2>1, AchievementsAreBatch
    <2> QED BY <1>4, <2>2, <2>3, <2>4, <2>5 DEF extractjson_player_achievements
  <1>5. CASE UNCHANGED extractVars
    BY <1>5 DEF extractVars, Inv
  <1> QED BY <1>1, <1>2, <1>3, <1>4, <1>5 DEF Next

LEMMA InitInv == Init => Inv
  <1> SUFFICES ASSUME Init PROVE Inv
    OBVIOUS
  <1>1. PICK sheet : sheet = [steamid |-> Unset, fields |-> {}, list |-> <<>>]
    OBVIOUS
  <1>2. sheets = [fn \in Functions |-> sheet] /\ calls = 0
    BY <1>1 DEF Init
  <1>3. sheet.list = <<>>
    BY <1>1
  <1>4. SheetInv(sheet, 0)
    BY <1>3 DEF SheetInv, Ordered
  <1> QED BY <1>2, <1>4 DEF Inv

LEMMA AlwaysInv == Spec => []Inv
  BY InitInv, NextInv, PTL DEF Spec

-----------------------------------------------------------------------------
(* The properties.                                                          *)

\* Every element of a list is made of one entry, and the elements stand in the order
\* of the calls and of the entries, wherever an exception has cut a call short
\* (extract_and_bind.h:170-198 and 252-273).
THEOREM ListsInOrder == Spec => []EntriesDoNotMix
  <1>1. Inv => EntriesDoNotMix
    <2> SUFFICES ASSUME Inv, NEW fn \in Functions
                 PROVE  /\ \A i \in DOMAIN sheets[fn].list :
                             sheets[fn].list[i].rest \subseteq {sheets[fn].list[i].at}
                        /\ Ordered(sheets[fn].list)
      BY DEF EntriesDoNotMix, Ordered, Before
    <2>1. sheets[fn].list \in Seq(Item) /\ Ordered(sheets[fn].list)
      BY DEF Inv, SheetInv
    <2>2. \A i \in DOMAIN sheets[fn].list : sheets[fn].list[i] \in Item
      BY <2>1
    <2> QED BY <2>1, <2>2 DEF Item
  <1> QED BY <1>1, AlwaysInv, PTL

\* A call that answers "not valid" has not touched the sheets (extract_and_bind.h:
\* 45-79, 112-122, 147-160 and 210-245).
THEOREM RefusalsLeaveNoTrace == Spec => RefusedLeavesSheets
  <1>1. ASSUME NEW fn, NEW message, NEW steamid, NEW fields, NEW pushes,
               Fill(fn, message, steamid, fields, pushes)
        PROVE  result'.valid \/ result'.threw
    <2>1. Return(fn, TRUE, message) \/ Throw(fn)
      BY <1>1 DEF Fill
    <2>2. Return(fn, TRUE, message) => result'.valid
      BY DEF Return
    <2>3. Throw(fn) => result'.threw
      BY DEF Throw
    <2> QED BY <2>1, <2>2, <2>3
  <1>2. ASSUME NEW fn, NEW message, Refuse(fn, message)
        PROVE  UNCHANGED sheets
    BY <1>2 DEF Refuse
  <1>3. Next => (~result'.valid /\ ~result'.threw => UNCHANGED sheets)
    BY <1>1, <1>2 DEF Next, extractjson_player_summary, extractjson_player_level,
                      extractjson_player_owned_games, extractjson_player_achievements
  <1>4. [Next]_extractVars => [~result'.valid /\ ~result'.threw => UNCHANGED sheets]_extractVars
    BY <1>3
  <1> QED BY <1>4, PTL DEF Spec, RefusedLeavesSheets

=============================================================================
