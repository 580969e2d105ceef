------------------------------- MODULE Extract -------------------------------
(***************************************************************************)
(* The four extractjson functions (extract_and_bind.h): each reads one     *)
(* kind of answer of the Steam API into a data sheet of the caller's,      *)
(* which may hold what earlier calls have left there.                      *)
(*                                                                         *)
(* A document says of each key the code asks for whether it is there with  *)
(* the type asked for ("good") or not.  A value is told from others by the *)
(* call whose document it came from.  An allocation that fails ends a call *)
(* with an exception, between any two writes to the sheet (also before a   *)
(* number, where nothing is allocated).                                    *)
(***************************************************************************)
EXTENDS Naturals, SequencesExt

CONSTANTS MaxCalls,      \* bound: calls made
          MaxEntries     \* bound: entries of one list in a document

ASSUME ExtractAssumption == MaxCalls \in Nat /\ MaxEntries \in Nat \ {0}

VARIABLES
  calls,      \* calls made so far
  sheets,     \* the caller's POD structures, one of each kind
  result,     \* the extract_result of the last call
  id          \* history: the steamid text of its document

extractVars == <<calls, sheets, result, id>>

Functions == {"player_summary", "player_level", "player_owned_games", "player_achievements"}
NoResult == [fn |-> "none", valid |-> FALSE, message |-> "none", threw |-> FALSE]

\* A steamid that no call has written; in the code it has no initial value.
Unset == [call |-> 0, value |-> 0]

Init ==
  /\ calls = 0 /\ result = NoResult /\ id = "missing"
  /\ sheets = [fn \in Functions |->
       [steamid |-> Unset, fields |-> {}, list |-> <<>>]]

\* Texts by what from_chars makes of them; "large" is a number that no long long
\* can hold, and "more" is something behind a number.
IdTexts == {"number", "number, more", "word", "empty", "large", "large, more"}

\* std::from_chars: the value, whether ec is good, and whether ptr is the end.
from_chars(text) ==
  LET read == text \in {"number", "number, more"}
  IN [value |-> IF read THEN 12 ELSE 0, ok |-> read,
      atEnd |-> text \in {"number", "large", "empty"}]

\* What is answered with a message about the steamid, as the test is written.
Malformed(text) == from_chars(text).ok \/ from_chars(text).atEnd

\* (mutant) an entry is built in a variable declared before the loop.
EntryShared(entries, i) ==
  [call |-> calls', at |-> i, keyed |-> entries[i].keyed,
   rest |-> {j \in 1 .. i : entries[j].rest}]

\* One POD_gameinfo or POD_achievement, made anew in each turn of the loop: which
\* entry it is, whether that has the key (appid, apiname), and from which entry the
\* fields are that may be missing.  A number or bool that is missing has no value.
Entry(entries, i) ==
  [call |-> calls', at |-> i, keyed |-> entries[i].keyed,
   rest |-> IF entries[i].rest THEN {i} ELSE {}]

\* The optional fields that are good in the document, in the order of the code.
Fields(order, good) == SelectSeq(order, LAMBDA f : f \in good)

\* The sheet of fn with a steamid, some fields and some more entries.
Written(fn, steamid, fields, pushes) ==
  LET stale == {f \in sheets[fn].fields : f.name \in Range(fields)}
  IN [sheets EXCEPT ![fn] =
       [steamid |-> steamid,
        fields |-> (@.fields \ stale) \cup [name : Range(fields), call : {calls'}],
        list |-> @.list \o pushes]]

Return(fn, valid, message) ==
  result' = [fn |-> fn, valid |-> valid, message |-> message, threw |-> FALSE]
Throw(fn) ==
  result' = [fn |-> fn, valid |-> FALSE, message |-> "none", threw |-> TRUE]

\* (mutant) from_chars reads into the data sheet itself.
RefuseAfterWriting(fn, message) ==
  /\ Return(fn, FALSE, message)
  /\ sheets' = [sheets EXCEPT ![fn].steamid = [call |-> calls', value |-> from_chars(id').value]]

\* The document lacks what the function needs.
Refuse(fn, message) ==
  /\ Return(fn, FALSE, message) \/ Throw(fn)
  /\ UNCHANGED sheets

\* The sheet is filled, field by field and then entry by entry, all of it or up to
\* an exception.
Fill(fn, message, steamid, fields, pushes) ==
  \/ Return(fn, TRUE, message) /\ sheets' = Written(fn, steamid, fields, pushes)
  \/ /\ Throw(fn)
     /\ \/ UNCHANGED sheets
        \/ \E k \in 0 .. Len(fields) :
             sheets' = Written(fn, steamid, SubSeq(fields, 1, k), <<>>)
        \/ \E k \in 0 .. Len(pushes) :
             sheets' = Written(fn, steamid, fields, SubSeq(pushes, 1, k))

Call == calls < MaxCalls /\ calls' = calls + 1

Parsed(text) == [call |-> calls', value |-> from_chars(text).value]

SummaryFields == << "personaname", "loccountrycode", "profileurl", "timecreated" >>

\* Optional fields that are not good in the document are left as they were.
extractjson_player_summary(players, text, good) ==
  /\ Call /\ id' = text
  /\ IF ~players THEN Refuse("player_summary", "Missing player dataset")
     ELSE IF text = "missing" THEN Refuse("player_summary", "Missing steamid")
     ELSE IF Malformed(text) THEN Refuse("player_summary", "Malformed steamid")
     ELSE Fill("player_summary", "extracted", Parsed(text),
            Fields(SummaryFields, good), <<>>)

extractjson_player_level(level) ==
  /\ Call /\ UNCHANGED id
  /\ IF ~level THEN Refuse("player_level", "Missing or invalid player_level")
     ELSE Fill("player_level", "extracted", Unset, << "player_level" >>, <<>>)

\* The entries that the loop does not skip, in order.
Keyed(entries) ==
  LET keyed == {i \in DOMAIN entries : entries[i].keyed}
  IN CHOOSE s \in [1 .. Cardinality(keyed) -> keyed] :
       \A m, n \in DOMAIN s : m < n => s[m] < s[n]

extractjson_player_owned_games(games, good, entries) ==
  /\ Call /\ UNCHANGED id
  /\ IF ~games THEN Refuse("player_owned_games", "Missing or no 'games'")
     ELSE Fill("player_owned_games", "extracted", Unset,
            Fields(<< "game_count" >>, good),
            [n \in DOMAIN Keyed(entries) |-> Entry(entries, Keyed(entries)[n])])

\* A steamid that is not there is not asked for: the sheet keeps what it had.
extractjson_player_achievements(achievements, text, good, entries) ==
  /\ Call /\ id' = text
  /\ IF ~achievements THEN Refuse("player_achievements", "Missing or no 'achievements'")
     ELSE IF text # "missing" /\ Malformed(text)
       THEN Refuse("player_achievements", "Missing, malformed or doesn't own the app")
     ELSE Fill("player_achievements", "extracted",
            IF text = "missing" THEN sheets["player_achievements"].steamid ELSE Parsed(text),
            Fields(<< "gameName" >>, good), [i \in DOMAIN entries |-> Entry(entries, i)])

Entries == SeqOf([keyed : BOOLEAN, rest : BOOLEAN], MaxEntries) \ {<<>>}

Next ==
  \E there \in BOOLEAN, text \in IdTexts \cup {"missing"} :
    \/ \E good \in SUBSET Range(SummaryFields) : extractjson_player_summary(there, text, good)
    \/ extractjson_player_level(there)
    \/ \E good \in SUBSET {"game_count"}, entries \in Entries :
         extractjson_player_owned_games(there, good, entries)
    \/ \E good \in SUBSET {"gameName"}, entries \in Entries :
         extractjson_player_achievements(there, text, good, entries)

Spec == Init /\ [][Next]_extractVars

-----------------------------------------------------------------------------
\* A call that answers "not valid" has not touched the sheet: what was extracted
\* into it before, by a call for another document, is still there and still whole.
RefusedLeavesSheets == [][~result'.valid /\ ~result'.threw => UNCHANGED sheets]_extractVars

\* Every element of a list is made of one entry of one document, and the elements
\* stand in the order of the calls and of the entries, also when an exception has
\* cut one call short and the caller has tried again with the same sheet.
EntriesDoNotMix ==
  \A fn \in Functions :
    LET list == sheets[fn].list
    IN /\ \A i \in DOMAIN list : list[i].rest \subseteq {list[i].at}
       /\ \A i, j \in DOMAIN list : i < j =>
            \/ list[i].call < list[j].call
            \/ list[i].call = list[j].call /\ list[i].at < list[j].at

\* What the comments and the messages say of the test of the steamid: a text is called
\* malformed only if it is not a whole number, and data is extracted under a text only
\* if it is one.
SteamidIsChecked ==
  LET whole == from_chars(id).ok /\ from_chars(id).atEnd
  IN id # "missing" =>
       /\ result.message \in {"Malformed steamid", "Missing, malformed or doesn't own the app"}
            => ~whole
       /\ result.valid /\ result.fn \in {"player_summary", "player_achievements"} => whole

=============================================================================
