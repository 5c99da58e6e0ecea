------------------------------ MODULE TableText ------------------------------
(***************************************************************************)
(* What becomes of the values of a data frame on their way into a table:   *)
(* as a file of text for LOAD DATA LOCAL, in a statement that quotes the   *)
(* names and the path, or bound to an INSERT.                               *)
(*                                                                          *)
(* Texts are sequences of characters.  A number is the text of its literal, *)
(* so that a number and its text in a VARCHAR are the same.                 *)
(***************************************************************************)
EXTENDS Integers, Sequences, SequencesExt

CONSTANTS
    Chars,       \* the characters; a value that is no text is one, too
    Calls,       \* calls: records of frame, name (an Id), path, load_data_local_infile
    MaxVarchar,  \* longest VARCHAR(n) that get_char_type() asks for (255)
    TextSize,    \* what the server's TEXT holds (65535 bytes)
    NULL         \* R's NA, and SQL's NULL

BS == "\\"
TAB == "\t"
CR == "\r"
LF == "\n"
TICK == "backtick"
QUOTE == "single"
QUOTES == "double"
SPACE == "space"

Bytes == {BS, LF, "N"}
Values == {"Inf", "TRUE", "FALSE"}
Plain == Chars \ (Values \cup {BS, TAB, CR, LF})

(* What a column of a class may hold, besides NULL. *)
Classes == {"character", "integer", "numeric", "logical", "list"}
Cells(class) ==
    CASE class = "character" -> Seq(Chars \ Values)
      [] class = "integer" -> Seq(Plain) \ {<<>>}
      [] class = "numeric" -> (Seq(Plain) \ {<<>>}) \cup {<<"Inf">>}
      [] class = "logical" -> {<<"TRUE">>, <<"FALSE">>}
      [] class = "list" -> Seq(Bytes)

Columns == [name : Seq(Chars), class : Classes, cells : Seq(Seq(Chars) \cup {NULL})]

ASSUME SizeAssumption == MaxVarchar \in Nat \ {0} /\ TextSize \in Nat /\ MaxVarchar < TextSize

ASSUME CharsAssumption ==
    /\ {BS, TAB, CR, LF, TICK, QUOTE, QUOTES, ".", "n", "t", "r", "N", "@", "X"} \subseteq Chars
    /\ Values \cup {"0", "1", "4", "5", "a", "c", "e"} \subseteq Chars
    /\ NULL \notin Seq(Chars)

(* A data frame has columns of one length and different names. *)
ASSUME CallsAssumption ==
    \A c \in Calls :
      /\ c.frame \in Seq(Columns) \ {<<>>}
      /\ \A j \in DOMAIN c.frame :
           /\ DOMAIN c.frame[j].cells = DOMAIN c.frame[1].cells
           /\ \A r \in DOMAIN c.frame[j].cells :
                c.frame[j].cells[r] \in Cells(c.frame[j].class) \cup {NULL}
           /\ \A k \in DOMAIN c.frame : c.frame[j].name = c.frame[k].name => j = k
      /\ c.name \in Seq(Seq(Chars) \ {<<>>}) \ {<<>>}
      /\ c.path \in Seq(Chars)

VARIABLES
    call,        \* the call under way
    stage,       \* how far it is: "called", "created", "written", "done", "refused"
    types,       \* the SQL types of the columns
    file,        \* the text in the temporary file
    rows         \* the rows of the table: functions from names to values

vars == <<call, stage, types, file, rows>>

frame == call.frame
Cols == DOMAIN frame
RowsOf == DOMAIN frame[1].cells

-----------------------------------------------------------------------------
(* Texts *)

(* gsub(from, to, s, fixed = TRUE) of one character. *)
Gsub(s, from, to) ==
    FlattenSeq([k \in DOMAIN s |-> IF s[k] = from THEN to ELSE <<s[k]>>])

(* Mutant: Backslashes last, those of the other escapes included. *)
EscapesBackslashLast == <<<<TAB, "t">>, <<CR, "r">>, <<LF, "n">>, <<BS, BS>>>>

(* Mutant: The end of a line is left as it is. *)
EscapesWithoutLF == <<<<BS, BS>>, <<TAB, "t">>, <<CR, "r">>>>

(* What csv_quote_char() replaces, in this order, and by what. *)
Escapes == <<<<BS, BS>>, <<TAB, "t">>, <<CR, "r">>, <<LF, "n">>>>

EscapeStep(t, e) == Gsub(t, e[1], <<BS, e[2]>>)

csv_quote_char(s) == FoldLeft(EscapeStep, s, Escapes)

(* format() of raw bytes: two digits for each. *)
Hex(s) ==
    FlattenSeq([k \in DOMAIN s |-> CASE s[k] = BS -> <<"5", "c">> [] s[k] = LF -> <<"0", "a">>
                                     [] s[k] = "N" -> <<"4", "e">>])

(* Mutant: A zero is written as it is. *)
IntegerAsIs(x) == x

(* "Failure to load BIT(1) columns with a verbatim 0 (???)" *)
Integer(x) == IF x = <<"0">> THEN <<>> ELSE x

(* One value of a column, as text; NA stays NA. *)
csv_quote_one(class, x) ==
    CASE x = NULL -> NULL
      [] x # NULL /\ class = "character" -> csv_quote_char(x)
      [] x # NULL /\ class = "integer" -> Integer(x)
      [] x # NULL /\ class = "numeric" -> IF x = <<"Inf">> THEN NULL ELSE x
      [] x # NULL /\ class = "logical" -> IF x = <<"TRUE">> THEN <<"1">> ELSE <<"0">>
      [] x # NULL /\ class = "list" -> Hex(x)

(* readr::write_delim(delim = "\t", na = "\\N", quote = "none"). *)
Line(r) ==
    FlattenSeq([j \in Cols |->
        LET x == csv_quote_one(frame[j].class, frame[j].cells[r])
        IN  (IF j = 1 THEN <<>> ELSE <<TAB>>) \o (IF x = NULL THEN <<BS, "N">> ELSE x)]) \o <<LF>>

-----------------------------------------------------------------------------
(* Identifiers and strings *)

(* Mutant: Backticks are not doubled. *)
dbQuoteIdentifierAsIs(s) == <<TICK>> \o s \o <<TICK>>

dbQuoteIdentifier(s) == <<TICK>> \o Gsub(s, TICK, <<TICK, TICK>>) \o <<TICK>>

(* dbQuoteIdentifier() of an Id; the catalog "def" is dropped. *)
Parts(id) == IF Len(id) = 3 /\ id[1] = <<"d", "e", "f">> THEN Tail(id) ELSE id

dbQuoteId(id) ==
    FlattenSeq([k \in DOMAIN Parts(id) |->
        (IF k = 1 THEN <<>> ELSE <<".">>) \o dbQuoteIdentifier(Parts(id)[k])])

(* gsub("``", TICK), which also finds backticks that are not in pairs. *)
UndoubleStep(st, c) ==
    IF c = TICK /\ st.odd THEN [st EXCEPT !.odd = FALSE]
    ELSE [text |-> Append(st.text, c), odd |-> c = TICK, paired |-> st.paired /\ ~st.odd]

Undoubled(s) == FoldLeft(UndoubleStep, [text |-> <<>>, odd |-> FALSE, paired |-> TRUE], s)

(* `((?:[^`]|``)+)`|([^`. ]+), what the groups hold, or NULL. *)
IdRx(s) ==
    LET body == Undoubled(SubSeq(s, 2, Len(s) - 1))
    IN  IF Len(s) > 2 /\ s[1] = TICK /\ s[Len(s)] = TICK /\ body.paired /\ ~body.odd THEN body.text
        ELSE IF s # <<>> /\ ToSet(s) \cap {TICK, ".", SPACE} = {} THEN s ELSE NULL

(* ^(?:|id[.])(?:|id)$: all ways to read a text as schema and table. *)
Readings(s) ==
    {p \in {<<<<>>, s>>} \cup {<<SubSeq(s, 1, k - 1), SubSeq(s, k + 1, Len(s))>> :
                                 k \in {n \in DOMAIN s : s[n] = "." /\ n > 1}} :
       \A x \in {p[1], p[2]} : x # <<>> => IdRx(x) # NULL}

(* dbUnquoteIdentifier(), with as_table() that leaves out what is empty. *)
dbUnquoteIdentifier(s) ==
    IF Readings(s) = {} THEN NULL
    ELSE LET p == CHOOSE q \in Readings(s) : TRUE
         IN  FlattenSeq([k \in 1..2 |-> IF p[k] = <<>> THEN <<>> ELSE <<IdRx(p[k])>>])

(* The server reads names in backticks, separated by dots (external). *)
NameStep(st, c) ==
    IF c = TICK
    THEN [st EXCEPT !.in = ~st.in, !.fresh = FALSE,
                    !.text = IF st.in \/ st.fresh THEN @ ELSE Append(@, c)]
    ELSE IF c = "." /\ ~st.in
    THEN [parts |-> Append(st.parts, st.text), text |-> <<>>, in |-> FALSE, fresh |-> TRUE]
    ELSE [st EXCEPT !.text = Append(@, c)]

ReadName(s) ==
    LET end == FoldLeft(NameStep, [parts |-> <<>>, text |-> <<>>, in |-> FALSE, fresh |-> TRUE], s)
    IN  Append(end.parts, end.text)

(* mysql_real_escape_string() (external): what it writes behind the quote,  *)
(* a zero byte at the end.                                                  *)
Escaped(s) == FlattenSeq([k \in DOMAIN s |-> CASE s[k] = LF -> <<BS, "n">> [] s[k] = CR -> <<BS, "r">>
                                               [] s[k] \in {BS, QUOTE, QUOTES} -> <<BS, s[k]>>
                                               [] OTHER -> <<s[k]>>])

(* Mutant: No room for the zero byte. *)
BufferWithoutZero(s) == 2 * Len(s) + 1

Buffer(s) == 2 * Len(s) + 3

quote_string(s) == <<QUOTE>> \o Escaped(s) \o <<QUOTE>>

(* A backslash and a character, for LOAD DATA and for literals (external). *)
Unescaped(c) == CASE c = "n" -> LF [] c = "t" -> TAB [] c = "r" -> CR [] OTHER -> c

LiteralStep(st, c) ==
    IF st.esc THEN [text |-> Append(st.text, Unescaped(c)), esc |-> FALSE]
    ELSE IF c = BS THEN [st EXCEPT !.esc = TRUE]
    ELSE [st EXCEPT !.text = Append(@, c)]

ReadLiteral(s) ==
    FoldLeft(LiteralStep, [text |-> <<>>, esc |-> FALSE], SubSeq(s, 2, Len(s) - 1)).text

-----------------------------------------------------------------------------
(* Columns *)

Longest(j) ==
    Max({1} \cup {Len(s) : s \in {frame[j].cells[r] : r \in RowsOf} \ {NULL}})

(* dbDataType(), with get_char_type(): the type and how much it holds. *)
dbDataType(j) ==
    CASE frame[j].class = "character" ->
           IF Longest(j) > MaxVarchar THEN <<"TEXT", TextSize>> ELSE <<"VARCHAR", Longest(j)>>
      [] frame[j].class = "list" -> <<"BLOB", TextSize>>
      [] OTHER -> <<"NUMBER", 0>>

Cut(s, n) == SubSeq(s, 1, IF n < Len(s) THEN n ELSE Len(s))

(* field.types may ask for a bit. *)
FieldTypes(j) == {dbDataType(j)} \cup (IF frame[j].class = "integer" THEN {<<"BIT", 1>>} ELSE {})

(* The server stores a text, or a number, in a column (external).  The bits *)
(* of a text are those of its characters; only what is empty has none.      *)
Stored(type, x) ==
    CASE x = NULL -> NULL
      [] x # NULL /\ type[1] \in {"VARCHAR", "TEXT", "BLOB"} -> Cut(x, type[2])
      [] x # NULL /\ type[1] = "NUMBER" -> IF x = <<>> THEN <<"0">> ELSE x
      [] x # NULL /\ type[1] = "BIT" -> IF x = <<>> THEN <<"0">> ELSE <<"1">>

Unhex(x) ==
    IF x = NULL THEN NULL
    ELSE [k \in 1..Len(x) \div 2 |-> CHOOSE c \in Bytes : Hex(<<c>>) = SubSeq(x, 2 * k - 1, 2 * k)]

(* sql_data() and MariaBinding: the value that is bound. *)
Bound(x) ==
    CASE x = NULL \/ x = <<"Inf">> -> NULL
      [] x = <<"TRUE">> -> <<"1">>
      [] x = <<"FALSE">> -> <<"0">>
      [] OTHER -> x

(* A bound zero is a number, not a text, for a column of one bit.           *)
Inserted(j, r) ==
    LET x == Bound(frame[j].cells[r])
    IN  IF types[j][1] = "BIT" /\ x # NULL THEN IF x = <<"0">> THEN x ELSE <<"1">>
        ELSE Stored(types[j], x)

-----------------------------------------------------------------------------
(* LOAD DATA *)

(* The names in the statement, or a variable for a column of raw bytes.     *)
IsList(j) == frame[j].class = "list"
Variable(j) == <<"@", "X", j>>
Targets == [j \in Cols |-> IF IsList(j) THEN Variable(j) ELSE dbQuoteIdentifier(frame[j].name)]
SetClause == {<<dbQuoteIdentifier(frame[j].name), Variable(j)>> : j \in {k \in Cols : IsList(k)}}

(* The fields of the file, row by row (external). *)
Field(st) == IF st.raw = <<BS, "N">> THEN NULL ELSE st.text

FileStep(st, c) ==
    IF st.esc
    THEN [st EXCEPT !.text = Append(@, Unescaped(c)), !.raw = Append(@, c), !.esc = FALSE]
    ELSE IF c \in {TAB, LF}
    THEN LET fields == Append(st.fields, Field(st))
         IN  [rows |-> IF c = LF THEN Append(st.rows, fields) ELSE st.rows,
              fields |-> IF c = LF THEN <<>> ELSE fields,
              text |-> <<>>, raw |-> <<>>, esc |-> FALSE]
    ELSE [st EXCEPT !.text = IF c = BS THEN @ ELSE Append(@, c),
                    !.raw = Append(@, c), !.esc = c = BS]

ReadFile(text) ==
    FoldLeft(FileStep, [rows |-> <<>>, fields |-> <<>>, text |-> <<>>, raw |-> <<>>, esc |-> FALSE],
             text).rows

(* A row of the table, from the fields of a line; IGNORE takes what there is. *)
Loaded(fields) ==
    [n \in {frame[j].name : j \in Cols} |->
       LET j == CHOOSE k \in Cols : frame[k].name = n
           at == {k \in Cols \cap DOMAIN fields :
                    \/ ~IsList(k) /\ ReadName(Targets[k]) = <<n>>
                    \/ \E s \in SetClause : ReadName(s[1]) = <<n>> /\ s[2] = Targets[k]}
       IN  IF at = {} THEN NULL
           ELSE LET k == CHOOSE k \in at : TRUE
                IN  Stored(types[j], IF IsList(k) THEN Unhex(fields[k]) ELSE fields[k])]

-----------------------------------------------------------------------------
(* The call *)

CreateTable ==
    /\ stage = "called"
    /\ types' \in {t \in [Cols -> UNION {FieldTypes(j) : j \in Cols}] :
                     \A j \in Cols : t[j] \in FieldTypes(j)}
    /\ stage' = "created"
    /\ UNCHANGED <<call, file, rows>>

WriteFile ==
    /\ stage = "created" /\ call.load_data_local_infile
    /\ file' = FlattenSeq([r \in RowsOf |-> Line(r)])
    /\ stage' = "written"
    /\ UNCHANGED <<call, types, rows>>

LoadData ==
    /\ stage = "written"
    /\ rows' = LET read == ReadFile(file) IN [r \in DOMAIN read |-> Loaded(read[r])]
    /\ stage' = "done"
    /\ UNCHANGED <<call, types, file>>

(* A value too long for its column is refused when it is bound. *)
TooLong(j, r) == frame[j].cells[r] # NULL /\ types[j][1] \in {"TEXT", "BLOB"} /\ Len(frame[j].cells[r]) > types[j][2]

InsertRows ==
    /\ stage = "created" /\ ~call.load_data_local_infile
    /\ IF \E j \in Cols, r \in RowsOf : TooLong(j, r)
       THEN stage' = "refused" /\ UNCHANGED rows
       ELSE /\ stage' = "done"
            /\ rows' = [r \in RowsOf |->
                          [n \in {frame[j].name : j \in Cols} |->
                             Inserted(CHOOSE j \in Cols : frame[j].name = n, r)]]
    /\ UNCHANGED <<call, types, file>>

Init ==
    /\ call \in Calls
    /\ stage = "called" /\ types = <<>> /\ file = <<>> /\ rows = <<>>

Next == CreateTable \/ WriteFile \/ LoadData \/ InsertRows

Spec == Init /\ [][Next]_vars

-----------------------------------------------------------------------------
(* Properties *)

(* The table gets one row for each row of the data frame, of its columns.   *)
TypeOK ==
    /\ stage \in {"called", "created", "written", "done", "refused"}
    /\ stage = "done" =>
         /\ DOMAIN rows = RowsOf
         /\ \A r \in RowsOf : DOMAIN rows[r] = {frame[j].name : j \in Cols}

(* What is in a column that dbWriteTable() has chosen the type of is what    *)
(* the data frame had, up to numbers that are not finite; LOAD DATA cuts     *)
(* what is longer than any TEXT or BLOB, and nothing else.                  *)
StoredIsGiven ==
    stage = "done" =>
      \A j \in Cols, r \in RowsOf : types[j] = dbDataType(j) =>
        LET x == frame[j].cells[r]
            y == rows[r][frame[j].name]
        IN  CASE x = NULL \/ x = <<"Inf">> -> y = NULL
              [] x = <<"TRUE">> -> y = <<"1">>
              [] x = <<"FALSE">> -> y = <<"0">>
              [] OTHER -> y = x \/ (types[j][1] \in {"TEXT", "BLOB"} /\ y = Cut(x, TextSize))

(* "Failure to load BIT(1) columns with a verbatim 0": with the empty text   *)
(* in its place, a file and an INSERT have the same effect.                 *)
SameEitherWay ==
    stage = "done" /\ call.load_data_local_infile =>
      \A j \in Cols, r \in RowsOf : rows[r][frame[j].name] = Inserted(j, r)

(* The server takes a quoted name for the name that was meant, and R reads   *)
(* it back, in one way only.                                                *)
NameKept ==
    /\ ReadName(dbQuoteId(call.name)) = Parts(call.name)
    /\ Len(Parts(call.name)) <= 2 =>
         /\ dbUnquoteIdentifier(dbQuoteId(call.name)) = Parts(call.name)
         /\ \A p, q \in Readings(dbQuoteId(call.name)) : p = q

(* A quoted string is read as what it was, and fits into the buffer that     *)
(* was made for it: behind the first quote, with its zero byte.             *)
LiteralKept ==
    /\ ReadLiteral(quote_string(call.path)) = call.path
    /\ 1 + Len(Escaped(call.path)) + 1 <= Buffer(call.path)

=============================================================================
