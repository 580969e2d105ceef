--------------------------- MODULE InsertStatement ---------------------------
(***************************************************************************)
(* build_sql_insert_query (Insert_statement.cpp): the text of an INSERT    *)
(* for a number of rows, whose last character is replaced each time a      *)
(* comma too many has been written.  The text is a sequence of tokens; the *)
(* names in it are not told apart.                                         *)
(***************************************************************************)
EXTENDS Naturals, SequencesExt

\* sql.back() = c
SetBack(sql, c) == [sql EXCEPT ![Len(sql)] = c]

\* What a loop that appends s in each of n turns appends.
Repeat(s, n) == [k \in 1 .. n * Len(s) |-> s[((k - 1) % Len(s)) + 1]]

\* (mutant) the comma after the last field is left in place.
FieldListComma(fields) ==
  << "INSERT", "name", "(" >> \o Repeat(<< "name", "comma" >>, fields) \o << ")" >>

\* "INSERT INTO schema.table (" and the fields; the last comma becomes ")".
FieldList(fields) ==
  SetBack(<< "INSERT", "name", "(" >> \o Repeat(<< "name", "comma" >>, fields), ")")

\* The placeholders of one row, and a comma for the next.
Row(fields) == SetBack(<< "(" >> \o Repeat(<< "?", "comma" >>, fields), ")") \o << "comma" >>

\* build_sql_insert_query: the blank after VALUES is its last character.
build_sql_insert_query(fields, insert_count) ==
  SetBack(FieldList(fields) \o << "VALUES", "blank" >>
          \o Repeat(Row(fields), insert_count), "semicolon")

-----------------------------------------------------------------------------
(* What the server accepts, said without the construction.                  *)

\* The tokens that may come after each token.
MayFollow ==
  { << "INSERT", "name" >>, << "name", "(" >>, << "(", "name" >>,
    << "name", "comma" >>, << "comma", "name" >>, << "name", ")" >>,
    << ")", "VALUES" >>, << "VALUES", "blank" >>, << "blank", "(" >>, << "(", "?" >>,
    << "?", "comma" >>, << "comma", "?" >>, << "?", ")" >>, << ")", "comma" >>,
    << "comma", "(" >>, << ")", "semicolon" >> }

Count(sql, t) == Cardinality({i \in DOMAIN sql : sql[i] = t})
Placeholders(sql) == Count(sql, "?")

\* An INSERT the server can prepare: legal neighbours from its first word to
\* its semicolon, one VALUES, and as many placeholders as names in every row.
IsInsert(sql) ==
  /\ Head(sql) = "INSERT" /\ Last(sql) = "semicolon"
  /\ \A i \in 1 .. Len(sql) - 1 : << sql[i], sql[i + 1] >> \in MayFollow
  /\ Count(sql, "VALUES") = 1 /\ Count(sql, "semicolon") = 1
  /\ LET columns == Count(sql, "name") - 1
         rows == Count(sql, "(") - 1
     IN /\ Placeholders(sql) = rows * columns
        /\ \A i \in DOMAIN sql : sql[i] = "(" /\ i > 3 =>
             \A j \in 1 .. columns : sql[i + 2 * j - 1] = "?"

=============================================================================
