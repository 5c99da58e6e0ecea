----------------------------- MODULE MCTableText -----------------------------
(* Small instances of TableText for TLC.                                    *)
EXTENDS TableText

MCChars == {BS, TAB, CR, LF, TICK, QUOTE, QUOTES, ".", "n", "t", "r", "N", "@", "X", "d", "f", "p",
            "0", "1", "1.5", "4", "5", "a", "c", "e"} \cup Values

(* Every character the file gives a meaning, in every place. *)
Texts == BoundedSeq({BS, TAB, LF, "N", "n"}, 2) \cup {<<BS, x, y>> : x, y \in {BS, CR, "N", "t"}}
Column(n, class, cells) == [name |-> n, class |-> class, cells |-> cells]

CellsOf(class) ==
    {NULL} \cup
    CASE class = "character" -> Texts
      [] class = "integer" -> {<<"0">>, <<"1">>}
      [] class = "numeric" -> {<<"0">>, <<"1.5">>, <<"Inf">>}
      [] class = "logical" -> {<<"TRUE">>, <<"FALSE">>}
      [] class = "list" -> BoundedSeq({BS, LF, "N"}, 2) \cup {<<BS, LF, "N">>}

(* Columns of two rows, and rows of two or three columns, with names that   *)
(* need quoting.                                                            *)
MCFrames ==
    {<<Column(<<"a">>, "character", <<x, y>>)>> : x, y \in CellsOf("character")} \cup
    UNION {{<<Column(<<TICK, "a">>, class, <<x>>), Column(<<"a">>, "character", <<y>>),
              Column(<<TICK>>, "list", <<z>>)>> :
              x \in CellsOf(class), y \in {NULL, <<BS>>, <<TAB, "N">>}, z \in {NULL, <<>>, <<LF, BS>>}} :
           class \in Classes}

Call(value, id, path, load) ==
    [frame |-> value, name |-> id, path |-> path, load_data_local_infile |-> load]

SomeFrame == <<Column(<<"a">>, "integer", <<<<"0">>>>)>>
NamePart == BoundedSeq({TICK, ".", "a"}, 3) \ {<<>>}
ShortPart == BoundedSeq({TICK, ".", "a"}, 2) \ {<<>>}
MCNames == {<<t>> : t \in NamePart} \cup {<<s, t>> : s, t \in NamePart}
             \cup {<<s, t, <<"a">>>> : s \in {<<"d", "e", "f">>, <<"a">>}, t \in ShortPart}
MCPaths == BoundedSeq({BS, QUOTE, "n", LF}, 3)

MCCalls ==
    {Call(f, <<<<"a">>>>, <<"p">>, load) : f \in MCFrames, load \in BOOLEAN} \cup
    {Call(SomeFrame, n, <<"p">>, TRUE) : n \in MCNames} \cup
    {Call(SomeFrame, <<<<"a">>>>, p, TRUE) : p \in MCPaths}

=============================================================================
