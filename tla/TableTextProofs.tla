--------------------------- MODULE TableTextProofs ---------------------------
(***************************************************************************)
(* That values survive their way into a table: what the server and          *)
(* dbUnquoteIdentifier() read is what was quoted, what LOAD DATA reads is    *)
(* what was written, and what is stored is what the data frame had, for all *)
(* texts, names and data frames.                                            *)
(*                                                                          *)
(* Quoting replaces characters (Spread), reading is a run of an automaton   *)
(* (Run).  Each automaton is folded with an operator, and one lemma for     *)
(* each says that this is the run of the function of the same values.       *)
(***************************************************************************)
EXTENDS TableText, SequenceLemmas

Texts == Seq(Chars)

(* The characters that matter are different. *)
LEMMA Characters ==
  /\ BS \in Chars /\ TAB \in Chars /\ CR \in Chars /\ LF \in Chars /\ TICK \in Chars
  /\ QUOTE \in Chars /\ QUOTES \in Chars /\ "." \in Chars /\ "n" \in Chars /\ "t" \in Chars
  /\ "r" \in Chars /\ "N" \in Chars
  /\ "0" \in Chars /\ "1" \in Chars /\ "4" \in Chars /\ "5" \in Chars
  /\ "a" \in Chars /\ "c" \in Chars /\ "e" \in Chars
  /\ "Inf" \in Chars /\ "TRUE" \in Chars /\ "FALSE" \in Chars
BY CharsAssumption DEF Values

LEMMA Different ==
  /\ BS \notin {TAB, CR, LF, TICK, QUOTE, QUOTES, ".", "n", "t", "r", "N"}
  /\ TAB \notin {CR, LF, TICK, QUOTE, QUOTES, ".", "n", "t", "r", "N"}
  /\ CR \notin {LF, TICK, QUOTE, QUOTES, ".", "n", "t", "r", "N"}
  /\ LF \notin {TICK, QUOTE, QUOTES, ".", "n", "t", "r", "N"}
  /\ TICK \notin {QUOTE, QUOTES, ".", "n", "t", "r", "N", "@"}
  /\ QUOTE \notin {QUOTES, ".", "n", "t", "r", "N"}
  /\ QUOTES \notin {".", "n", "t", "r", "N"}
BY DEF BS, TAB, CR, LF, TICK, QUOTE, QUOTES

LEMMA OneOrTwo ==
  ASSUME NEW S, NEW c \in S, NEW d \in S
  PROVE  /\ <<c>> \in Seq(S) /\ Len(<<c>>) = 1
         /\ <<c, d>> \in Seq(S) /\ Len(<<c, d>>) = 2
OBVIOUS

(* A text between two characters is what is read between them. *)
LEMMA Enclosed ==
  ASSUME NEW S, NEW c \in S, NEW d \in S, NEW s \in Seq(S)
  PROVE  /\ <<c>> \o s \o <<d>> \in Seq(S)
         /\ Len(<<c>> \o s \o <<d>>) = Len(s) + 2
         /\ (<<c>> \o s \o <<d>>)[1] = c
         /\ (<<c>> \o s \o <<d>>)[Len(s) + 2] = d
         /\ \A i \in 1..Len(s) : (<<c>> \o s \o <<d>>)[i + 1] = s[i]
         /\ SubSeq(<<c>> \o s \o <<d>>, 2, Len(<<c>> \o s \o <<d>>) - 1) = s
<1> DEFINE u == <<c>> \o s
           t == u \o <<d>>
<1>0. Len(s) \in Nat /\ <<c>> \in Seq(S) /\ Len(<<c>>) = 1 /\ <<c>>[1] = c
  OBVIOUS
<1>1. u \in Seq(S) /\ Len(u) = Len(s) + 1 /\ u[1] = c /\ \A i \in 1..Len(s) : u[i + 1] = s[i]
  BY <1>0, ConcatProperties
<1> HIDE DEF u
<1>2. /\ t \in Seq(S) /\ Len(t) = Len(s) + 2 /\ t[1] = c /\ t[Len(s) + 2] = d
      /\ \A i \in 1..Len(s) : t[i + 1] = s[i]
  <2>1. /\ t \in Seq(S) /\ Len(t) = Len(u) + 1 /\ t[Len(u) + 1] = d
        /\ \A i \in 1..Len(u) : t[i] = u[i]
    BY <1>1, GrowProperties
  <2> HIDE DEF t
  <2>2. QED BY <1>0, <1>1, <2>1
<1> HIDE DEF t
<1>3. SubSeq(t, 2, Len(t) - 1) = s
  <2>1. /\ SubSeq(t, 2, Len(t) - 1) \in Seq(S) /\ Len(SubSeq(t, 2, Len(t) - 1)) = Len(s)
        /\ \A i \in 1..Len(s) : SubSeq(t, 2, Len(t) - 1)[i] = s[i]
    BY <1>0, <1>2
  <2>2. QED BY <2>1, SeqEqual
<1>4. QED BY <1>2, <1>3 DEF t, u

-----------------------------------------------------------------------------
(* Strings *)

LiteralStates == [text : Texts, esc : BOOLEAN]
LiteralNext == [p \in LiteralStates \X Chars |-> LiteralStep(p[1], p[2])]

LEMMA UnescapedTyped ==
  ASSUME NEW c \in Chars
  PROVE  Unescaped(c) \in Chars
BY CharsAssumption DEF Unescaped

LEMMA LiteralStepTyped ==
  ASSUME NEW st \in LiteralStates, NEW c \in Chars
  PROVE  LiteralStep(st, c) \in LiteralStates
<1>1. Append(st.text, c) \in Texts /\ Append(st.text, Unescaped(c)) \in Texts
  BY UnescapedTyped DEF LiteralStates, Texts
<1>2. QED BY <1>1 DEF LiteralStates, LiteralStep

LEMMA LiteralNextTyped ==
  /\ LiteralNext \in [LiteralStates \X Chars -> LiteralStates]
  /\ \A st \in LiteralStates, c \in Chars : LiteralNext[<<st, c>>] = LiteralStep(st, c)
<1>1. \A p \in LiteralStates \X Chars : LiteralStep(p[1], p[2]) \in LiteralStates
  BY LiteralStepTyped
<1>2. QED BY <1>1 DEF LiteralNext

LEMMA LiteralRun ==
  ASSUME NEW base \in LiteralStates, NEW s \in Seq(Chars)
  PROVE  FoldLeft(LiteralStep, base, s) = Run(LiteralNext, base, s)
<1> DEFINE Fold(h) == h = [t \in SUBSET DOMAIN s |->
                             IF t = {} THEN base ELSE LiteralStep(h[t \ {Max(t)}], s[Max(t)])]
           g == CHOOSE h : Fold(h)
<1>1. \E h : Fold(h)
  <2>1. PICK h : Solves(h, LiteralNext, base, s, LiteralStates, Chars)
    BY LiteralNextTyped, FoldExists
  <2>2. ASSUME NEW t \in SUBSET DOMAIN s
        PROVE  h[t] = IF t = {} THEN base ELSE LiteralStep(h[t \ {Max(t)}], s[Max(t)])
    BY <2>1, LiteralNextTyped, Zenon DEF Solves
  <2>3. [t \in SUBSET DOMAIN s |-> h[t]]
          = [t \in SUBSET DOMAIN s |->
               IF t = {} THEN base ELSE LiteralStep(h[t \ {Max(t)}], s[Max(t)])]
    BY <2>2, Zenon
  <2>4. QED BY <2>1, <2>3, Zenon DEF Solves
<1>2. Fold(g)
  BY <1>1, Zenon
<1>3. FoldLeft(LiteralStep, base, s) = g[DOMAIN s]
  BY Zenon DEF FoldLeft, MapThenFoldSet
<1> HIDE DEF g
<1>4. \A t \in SUBSET DOMAIN s :
        g[t] = IF t = {} THEN base ELSE LiteralStep(g[t \ {Max(t)}], s[Max(t)])
  BY <1>2, Zenon
<1>5. Takes(g, LiteralNext, base, s, LiteralStates, Chars)
  <2>1. {} \in SUBSET DOMAIN s
    OBVIOUS
  <2>2. QED BY <2>1, <1>4, LiteralNextTyped, Zenon DEF Takes
<1>6. g[DOMAIN s] = Run(LiteralNext, base, s)
  BY <1>5, FoldEnds
<1>7. QED BY <1>3, <1>6

(* What mysql_real_escape_string() writes for a character. *)
Escape == [c \in Chars |-> CASE c = LF -> <<BS, "n">> [] c = CR -> <<BS, "r">>
                             [] c \in {BS, QUOTE, QUOTES} -> <<BS, c>>
                             [] OTHER -> <<c>>]

LEMMA EscapeTyped ==
  /\ Escape \in [Chars -> Seq(Chars)]
  /\ \A c \in Chars : Len(Escape[c]) <= 2
<1>1. ASSUME NEW c \in Chars
      PROVE  Escape[c] \in {<<BS, "n">>, <<BS, "r">>, <<BS, c>>, <<c>>}
  BY Zenon DEF Escape
<1>2. ASSUME NEW c \in Chars
      PROVE  Escape[c] \in Seq(Chars) /\ Len(Escape[c]) <= 2
  <2>1. \A d \in Chars : /\ <<c>> \in Seq(Chars) /\ Len(<<c>>) = 1
                        /\ <<c, d>> \in Seq(Chars) /\ Len(<<c, d>>) = 2
                        /\ <<d, c>> \in Seq(Chars) /\ Len(<<d, c>>) = 2
    BY OneOrTwo
  <2>2. /\ <<BS, "n">> \in Seq(Chars) /\ Len(<<BS, "n">>) = 2
        /\ <<BS, "r">> \in Seq(Chars) /\ Len(<<BS, "r">>) = 2
    <3>1. BS \in Chars /\ "n" \in Chars /\ "r" \in Chars
      BY Characters
    <3>2. QED BY <3>1, OneOrTwo
  <2>3. BS \in Chars
    BY Characters
  <2>4. CASE Escape[c] = <<BS, "n">>
    BY <2>2, <2>4
  <2>5. CASE Escape[c] = <<BS, "r">>
    BY <2>2, <2>5
  <2>6. CASE Escape[c] = <<BS, c>>
    BY <2>1, <2>3, <2>6
  <2>7. CASE Escape[c] = <<c>>
    BY <2>1, <2>3, <2>7
  <2>8. QED BY <1>1, <2>4, <2>5, <2>6, <2>7, Zenon
<1>3. Escape = [c \in Chars |-> Escape[c]]
  BY DEF Escape
<1>4. QED BY <1>2, <1>3

LEMMA EscapedIsSpread ==
  ASSUME NEW s \in Texts
  PROVE  Escaped(s) = Spread(Escape, s)
<1>1. \A k \in DOMAIN s : s[k] \in Chars
  BY DEF Texts
<1>2. \A k \in DOMAIN s :
        Escape[s[k]] = CASE s[k] = LF -> <<BS, "n">> [] s[k] = CR -> <<BS, "r">>
                         [] s[k] \in {BS, QUOTE, QUOTES} -> <<BS, s[k]>>
                         [] OTHER -> <<s[k]>>
  BY <1>1, Zenon DEF Escape
<1>3. [k \in DOMAIN s |-> Escape[s[k]]]
        = [k \in DOMAIN s |-> CASE s[k] = LF -> <<BS, "n">> [] s[k] = CR -> <<BS, "r">>
                                 [] s[k] \in {BS, QUOTE, QUOTES} -> <<BS, s[k]>>
                                 [] OTHER -> <<s[k]>>]
  BY <1>2, Zenon
<1>4. QED BY <1>3, Zenon DEF Escaped, Spread

(* One escaped character is read as that character. *)
LEMMA ReadEscape ==
  ASSUME NEW c \in Chars, NEW t \in Texts
  PROVE  Run(LiteralNext, [text |-> t, esc |-> FALSE], Escape[c])
           = [text |-> t \o <<c>>, esc |-> FALSE]
<1> DEFINE st == [text |-> t, esc |-> FALSE]
           in == [text |-> t, esc |-> TRUE]
<1>1. st \in LiteralStates /\ in \in LiteralStates
  BY DEF LiteralStates
<1>2. t \o <<c>> = Append(t, c)
  BY AppendIsConcat DEF Texts
<1>3. ASSUME NEW d \in Chars, Unescaped(d) = c, Escape[c] = <<BS, d>>
      PROVE  Run(LiteralNext, st, Escape[c]) = [text |-> t \o <<c>>, esc |-> FALSE]
  <2>1. LiteralStep(st, BS) = in
    BY DEF LiteralStep
  <2>2. LiteralStep(in, d) = [text |-> t \o <<c>>, esc |-> FALSE]
    BY <1>2, <1>3 DEF LiteralStep
  <2> HIDE DEF st, in
  <2>3. Run(LiteralNext, st, <<BS, d>>) = LiteralNext[<<LiteralNext[<<st, BS>>], d>>]
    <3>1. BS \in Chars /\ d \in Chars
      BY Characters
    <3>2. QED BY <3>1, RunTwo
  <2>4. LiteralNext[<<LiteralNext[<<st, BS>>], d>>] = [text |-> t \o <<c>>, esc |-> FALSE]
    BY <1>1, <2>1, <2>2, Characters, LiteralNextTyped
  <2>5. QED BY <1>3, <2>3, <2>4, Zenon
<1>4. CASE c = LF
  BY <1>3, <1>4, Characters, Different DEF Escape, Unescaped
<1>5. CASE c = CR
  BY <1>3, <1>5, Characters, Different DEF Escape, Unescaped
<1>6. CASE c \in {BS, QUOTE, QUOTES}
  BY <1>3, <1>6, Characters, Different DEF Escape, Unescaped
<1>7. CASE c \notin {LF, CR, BS, QUOTE, QUOTES}
  <2>1. Escape[c] = <<c>>
    BY <1>7 DEF Escape
  <2>2. LiteralStep(st, c) = [text |-> t \o <<c>>, esc |-> FALSE]
    BY <1>2, <1>7 DEF LiteralStep
  <2> HIDE DEF st
  <2>3. Run(LiteralNext, st, <<c>>) = LiteralNext[<<st, c>>]
    BY RunOne
  <2>4. LiteralNext[<<st, c>>] = LiteralStep(st, c)
    BY <1>1, LiteralNextTyped
  <2>5. Run(LiteralNext, st, Escape[c]) = [text |-> t \o <<c>>, esc |-> FALSE]
    BY <2>1, <2>2, <2>3, <2>4, Zenon
  <2>6. QED BY <2>5 DEF st
<1>8. QED BY <1>4, <1>5, <1>6, <1>7

LEMMA ReadEscaped ==
  ASSUME NEW s \in Texts
  PROVE  /\ Run(LiteralNext, [text |-> <<>>, esc |-> FALSE], Escaped(s)) = [text |-> s, esc |-> FALSE]
         /\ Escaped(s) \in Texts
         /\ Len(Escaped(s)) <= 2 * Len(s)
<1> DEFINE start == [text |-> <<>>, esc |-> FALSE]
           T == {u \in Texts : /\ Run(LiteralNext, start, Spread(Escape, u)) = [text |-> u, esc |-> FALSE]
                               /\ Len(Spread(Escape, u)) <= 2 * Len(u)}
<1>1. <<>> \in T
  <2>1. <<>> \in Texts /\ Len(<<>>) = 0
    BY EmptySeq DEF Texts
  <2>2. QED BY <2>1, SpreadEmpty, RunEmpty
<1>2. ASSUME NEW u \in Seq(Chars), NEW c \in Chars, u \in T
      PROVE  u \o <<c>> \in T
  <2>1. Spread(Escape, u \o <<c>>) = Spread(Escape, u) \o Escape[c]
    BY EscapeTyped, SpreadGrow
  <2>2. Spread(Escape, u) \in Seq(Chars) /\ Escape[c] \in Seq(Chars) /\ Len(Escape[c]) <= 2
    BY EscapeTyped, SpreadTyped
  <2>3. Run(LiteralNext, start, Spread(Escape, u) \o Escape[c])
          = Run(LiteralNext, Run(LiteralNext, start, Spread(Escape, u)), Escape[c])
    BY <2>2, RunConcat
  <2>4. Run(LiteralNext, start, Spread(Escape, u)) = [text |-> u, esc |-> FALSE]
    BY <1>2
  <2>5. Run(LiteralNext, [text |-> u, esc |-> FALSE], Escape[c]) = [text |-> u \o <<c>>, esc |-> FALSE]
    BY ReadEscape DEF Texts
  <2>6. Run(LiteralNext, start, Spread(Escape, u \o <<c>>)) = [text |-> u \o <<c>>, esc |-> FALSE]
    BY <2>1, <2>3, <2>4, <2>5, Zenon
  <2>7. Len(Spread(Escape, u \o <<c>>)) <= 2 * Len(u \o <<c>>)
    <3>1. Len(Spread(Escape, u \o <<c>>)) = Len(Spread(Escape, u)) + Len(Escape[c])
      BY <2>1, <2>2, ConcatProperties
    <3>2. Len(u \o <<c>>) = Len(u) + 1 /\ Len(u) \in Nat
      BY GrowProperties
    <3>3. Len(Spread(Escape, u)) \in Nat /\ Len(Escape[c]) \in Nat
      BY <2>2
    <3>4. Len(Spread(Escape, u)) <= 2 * Len(u)
      BY <1>2
    <3>5. QED BY <2>2, <3>1, <3>2, <3>3, <3>4
  <2>8. u \o <<c>> \in Texts
    BY GrowProperties DEF Texts
  <2>9. QED BY <2>6, <2>7, <2>8
<1>3. \A u \in Seq(Chars) : u \in T
  <2> HIDE DEF T
  <2>1. QED BY <1>1, <1>2, GrowInduction
<1>4. s \in T
  BY <1>3 DEF Texts
<1>5. Spread(Escape, s) \in Texts
  BY EscapeTyped, SpreadTyped DEF Texts
<1>6. QED BY <1>4, <1>5, EscapedIsSpread

(* Whatever path is quoted, the server reads that path, and what is written  *)
(* stays in the buffer.                                                     *)
LEMMA LiteralRead ==
  ASSUME NEW s \in Texts
  PROVE  /\ ReadLiteral(quote_string(s)) = s
         /\ 1 + Len(Escaped(s)) + 1 <= Buffer(s)
<1> DEFINE q == quote_string(s)
           start == [text |-> <<>>, esc |-> FALSE]
<1>1. Escaped(s) \in Seq(Chars) /\ Len(Escaped(s)) <= 2 * Len(s)
  BY ReadEscaped DEF Texts
<1>2. SubSeq(q, 2, Len(q) - 1) = Escaped(s)
  BY <1>1, Characters, Enclosed DEF quote_string
<1>3. FoldLeft(LiteralStep, start, Escaped(s)) = Run(LiteralNext, start, Escaped(s))
  <2>1. start \in LiteralStates
    BY EmptySeq DEF LiteralStates, Texts
  <2> HIDE DEF start
  <2>2. QED BY <1>1, <2>1, LiteralRun
<1>4. FoldLeft(LiteralStep, start, Escaped(s)) = [text |-> s, esc |-> FALSE]
  BY <1>3, ReadEscaped
<1>5. ReadLiteral(q) = FoldLeft(LiteralStep, start, SubSeq(q, 2, Len(q) - 1)).text
  BY Zenon DEF ReadLiteral
<1>6. ReadLiteral(q) = s
  <2>1. ReadLiteral(q) = [text |-> s, esc |-> FALSE].text
    <3> HIDE DEF q, start
    <3>1. QED BY <1>2, <1>4, <1>5, Zenon
  <2>2. QED BY <2>1
<1>7. 1 + Len(Escaped(s)) + 1 <= Buffer(s)
  <2>1. Len(s) \in Nat /\ Len(Escaped(s)) \in Nat
    BY <1>1 DEF Texts
  <2>2. QED BY <1>1, <2>1 DEF Buffer
<1>8. QED BY <1>6, <1>7

-----------------------------------------------------------------------------
(* Names *)

(* Runs over texts: a second text, or a first character.  Named, so that the  *)
(* provers take the equations as a whole.                                   *)
GoesOn(n, b, x, y) == Run(n, b, x \o y) = Run(n, Run(n, b, x), y)
Begins(n, b, x, y) == Run(n, b, <<x>> \o y) = Run(n, n[<<b, x>>], y)

LEMMA TextConcat ==
  ASSUME NEW n, NEW b, NEW x, NEW y, x \in Seq(Chars), y \in Seq(Chars)
  PROVE  GoesOn(n, b, x, y)
BY RunConcat DEF GoesOn

LEMMA TextOne ==
  ASSUME NEW n, NEW b, NEW x, x \in Chars
  PROVE  Run(n, b, <<x>>) = n[<<b, x>>]
BY RunOne

LEMMA TextTwo ==
  ASSUME NEW n, NEW b, NEW x, NEW y, x \in Chars, y \in Chars
  PROVE  Run(n, b, <<x, y>>) = n[<<n[<<b, x>>], y>>]
<1>1. x \in Chars /\ y \in Chars
  OBVIOUS
<1>2. QED BY <1>1, RunTwo

LEMMA TextFirst ==
  ASSUME NEW n, NEW b, NEW x, NEW y, x \in Chars, y \in Seq(Chars)
  PROVE  Begins(n, b, x, y)
<1>1. <<x>> \in Seq(Chars)
  OBVIOUS
<1>2. Run(n, b, <<x>>) = n[<<b, x>>]
  BY TextOne
<1>3. GoesOn(n, b, <<x>>, y)
  BY <1>1, TextConcat
<1>4. QED BY <1>2, <1>3, Zenon DEF GoesOn, Begins

(* gsub() of one character. *)
Replacing(from, to) == [c \in Chars |-> IF c = from THEN to ELSE <<c>>]

LEMMA ReplacingTyped ==
  ASSUME NEW from, NEW to \in Seq(Chars)
  PROVE  /\ Replacing(from, to) \in [Chars -> Seq(Chars)]
         /\ \A c \in Chars : Replacing(from, to)[c] = IF c = from THEN to ELSE <<c>>
<1>1. \A c \in Chars : (IF c = from THEN to ELSE <<c>>) \in Seq(Chars)
  OBVIOUS
<1>2. QED BY <1>1 DEF Replacing

LEMMA GsubIsSpread ==
  ASSUME NEW s \in Texts, NEW from, NEW to
  PROVE  Gsub(s, from, to) = Spread(Replacing(from, to), s)
<1>1. \A k \in DOMAIN s : s[k] \in Chars
  BY DEF Texts
<1>2. \A k \in DOMAIN s : Replacing(from, to)[s[k]] = IF s[k] = from THEN to ELSE <<s[k]>>
  BY <1>1, Zenon DEF Replacing
<1>3. [k \in DOMAIN s |-> Replacing(from, to)[s[k]]]
        = [k \in DOMAIN s |-> IF s[k] = from THEN to ELSE <<s[k]>>]
  BY <1>2, Zenon
<1>4. QED BY <1>3, Zenon DEF Gsub, Spread

Doubling == Replacing(TICK, <<TICK, TICK>>)

LEMMA DoublingTyped ==
  /\ Doubling \in [Chars -> Seq(Chars)]
  /\ Doubling[TICK] = <<TICK, TICK>>
  /\ \A c \in Chars : c # TICK => Doubling[c] = <<c>>
<1>1. TICK \in Chars
  BY Characters
<1>2. <<TICK, TICK>> \in Seq(Chars)
  BY <1>1, OneOrTwo
<1>3. QED BY <1>1, <1>2, ReplacingTyped DEF Doubling

LEMMA Quoted ==
  ASSUME NEW s \in Texts
  PROVE  /\ dbQuoteIdentifier(s) = <<TICK>> \o Spread(Doubling, s) \o <<TICK>>
         /\ Spread(Doubling, s) \in Seq(Chars)
         /\ dbQuoteIdentifier(s) \in Seq(Chars)
<1>1. dbQuoteIdentifier(s) = <<TICK>> \o Spread(Doubling, s) \o <<TICK>>
  BY GsubIsSpread, Zenon DEF dbQuoteIdentifier, Doubling
<1>2. Spread(Doubling, s) \in Seq(Chars)
  BY DoublingTyped, SpreadTyped DEF Texts
<1>3. QED BY <1>1, <1>2, Characters, Enclosed

NameStates == [parts : Seq(Texts), text : Texts, in : BOOLEAN, fresh : BOOLEAN]
NameNext == [p \in NameStates \X Chars |-> NameStep(p[1], p[2])]

(* Within backticks, behind them, and where a part of the name begins. *)
Inside(p, t) == [parts |-> p, text |-> t, in |-> TRUE, fresh |-> FALSE]
Behind(p, t) == [parts |-> p, text |-> t, in |-> FALSE, fresh |-> FALSE]
Before(p) == [parts |-> p, text |-> <<>>, in |-> FALSE, fresh |-> TRUE]

LEMMA NameStepTyped ==
  ASSUME NEW st \in NameStates, NEW c \in Chars
  PROVE  NameStep(st, c) \in NameStates
<1>1. /\ Append(st.text, c) \in Texts /\ Append(st.parts, st.text) \in Seq(Texts)
      /\ <<>> \in Texts
  BY DEF NameStates, Texts
<1>2. QED BY <1>1 DEF NameStates, NameStep

LEMMA NameNextTyped ==
  /\ NameNext \in [NameStates \X Chars -> NameStates]
  /\ \A st \in NameStates, c \in Chars : NameNext[<<st, c>>] = NameStep(st, c)
<1>1. \A p \in NameStates \X Chars : NameStep(p[1], p[2]) \in NameStates
  BY NameStepTyped
<1>2. QED BY <1>1 DEF NameNext

LEMMA NameRun ==
  ASSUME NEW base \in NameStates, NEW s \in Seq(Chars)
  PROVE  FoldLeft(NameStep, base, s) = Run(NameNext, base, s)
<1> DEFINE Fold(h) == h = [t \in SUBSET DOMAIN s |->
                             IF t = {} THEN base ELSE NameStep(h[t \ {Max(t)}], s[Max(t)])]
           g == CHOOSE h : Fold(h)
<1>1. \E h : Fold(h)
  <2>1. PICK h : Solves(h, NameNext, base, s, NameStates, Chars)
    BY NameNextTyped, FoldExists
  <2>2. ASSUME NEW t \in SUBSET DOMAIN s
        PROVE  h[t] = IF t = {} THEN base ELSE NameStep(h[t \ {Max(t)}], s[Max(t)])
    BY <2>1, NameNextTyped, Zenon DEF Solves
  <2>3. [t \in SUBSET DOMAIN s |-> h[t]]
          = [t \in SUBSET DOMAIN s |->
               IF t = {} THEN base ELSE NameStep(h[t \ {Max(t)}], s[Max(t)])]
    BY <2>2, Zenon
  <2>4. QED BY <2>1, <2>3, Zenon DEF Solves
<1>2. Fold(g)
  BY <1>1, Zenon
<1>3. FoldLeft(NameStep, base, s) = g[DOMAIN s]
  BY Zenon DEF FoldLeft, MapThenFoldSet
<1> HIDE DEF g
<1>4. \A t \in SUBSET DOMAIN s :
        g[t] = IF t = {} THEN base ELSE NameStep(g[t \ {Max(t)}], s[Max(t)])
  BY <1>2, Zenon
<1>5. Takes(g, NameNext, base, s, NameStates, Chars)
  <2>1. {} \in SUBSET DOMAIN s
    OBVIOUS
  <2>2. QED BY <2>1, <1>4, NameNextTyped, Zenon DEF Takes
<1>6. g[DOMAIN s] = Run(NameNext, base, s)
  BY <1>5, FoldEnds
<1>7. QED BY <1>3, <1>6

LEMMA NamePlaces ==
  ASSUME NEW p \in Seq(Texts), NEW t \in Texts
  PROVE  Inside(p, t) \in NameStates /\ Behind(p, t) \in NameStates /\ Before(p) \in NameStates
<1>1. <<>> \in Texts
  BY EmptySeq DEF Texts
<1>2. QED BY <1>1 DEF NameStates, Inside, Behind, Before

LEMMA NameSteps ==
  ASSUME NEW p \in Seq(Texts), NEW t \in Texts
  PROVE  /\ \A c \in Chars : c # TICK => NameStep(Inside(p, t), c) = Inside(p, t \o <<c>>)
         /\ NameStep(Inside(p, t), TICK) = Behind(p, t)
         /\ NameStep(Behind(p, t), TICK) = Inside(p, t \o <<TICK>>)
         /\ NameStep(Behind(p, t), ".") = Before(Append(p, t))
         /\ NameStep(Before(p), TICK) = Inside(p, <<>>)
<1>0. \A c \in Chars : t \o <<c>> = Append(t, c)
  BY AppendIsConcat DEF Texts
<1>1. ASSUME NEW c \in Chars, c # TICK
      PROVE  NameStep(Inside(p, t), c) = Inside(p, t \o <<c>>)
  BY <1>0, <1>1 DEF NameStep, Inside
<1>2. NameStep(Inside(p, t), TICK) = Behind(p, t)
  BY DEF NameStep, Inside, Behind
<1>3. NameStep(Behind(p, t), TICK) = Inside(p, t \o <<TICK>>)
  BY <1>0, Characters DEF NameStep, Inside, Behind
<1>4. NameStep(Behind(p, t), ".") = Before(Append(p, t))
  BY Different DEF NameStep, Behind, Before
<1>5. NameStep(Before(p), TICK) = Inside(p, <<>>)
  BY DEF NameStep, Inside, Before
<1>6. QED BY <1>1, <1>2, <1>3, <1>4, <1>5

(* A character, doubled or not, is read as itself. *)
LEMMA ReadDoubled ==
  ASSUME NEW p \in Seq(Texts), NEW t \in Texts, NEW c \in Chars
  PROVE  Run(NameNext, Inside(p, t), Doubling[c]) = Inside(p, t \o <<c>>)
<1>0. Inside(p, t) \in NameStates /\ Behind(p, t) \in NameStates /\ TICK \in Chars
  BY NamePlaces, Characters
<1>1. CASE c = TICK
  <2>1. Run(NameNext, Inside(p, t), <<TICK, TICK>>) = NameNext[<<NameNext[<<Inside(p, t), TICK>>], TICK>>]
    BY <1>0, TextTwo
  <2>2. NameNext[<<Inside(p, t), TICK>>] = Behind(p, t)
    BY <1>0, NameNextTyped, NameSteps
  <2>3. NameNext[<<Behind(p, t), TICK>>] = Inside(p, t \o <<TICK>>)
    BY <1>0, NameNextTyped, NameSteps
  <2>4. QED BY <1>1, <2>1, <2>2, <2>3, DoublingTyped, Zenon
<1>2. CASE c # TICK
  <2>1. Run(NameNext, Inside(p, t), <<c>>) = NameNext[<<Inside(p, t), c>>]
    BY TextOne
  <2>2. NameNext[<<Inside(p, t), c>>] = Inside(p, t \o <<c>>)
    BY <1>0, <1>2, NameNextTyped, NameSteps
  <2>3. Doubling[c] = <<c>>
    BY <1>2, DoublingTyped
  <2>4. QED BY <2>1, <2>2, <2>3, Zenon
<1>3. QED BY <1>1, <1>2

LEMMA ReadInside ==
  ASSUME NEW p \in Seq(Texts), NEW s \in Texts
  PROVE  Run(NameNext, Inside(p, <<>>), Spread(Doubling, s)) = Inside(p, s)
<1> DEFINE start == Inside(p, <<>>)
           T == {u \in Texts : Run(NameNext, start, Spread(Doubling, u)) = Inside(p, u)}
<1>1. <<>> \in T
  BY SpreadEmpty, RunEmpty, EmptySeq DEF Texts
<1>2. ASSUME NEW u \in Seq(Chars), NEW c \in Chars, u \in T
      PROVE  u \o <<c>> \in T
  <2>1. Spread(Doubling, u \o <<c>>) = Spread(Doubling, u) \o Doubling[c]
    BY DoublingTyped, SpreadGrow
  <2>2. Spread(Doubling, u) \in Seq(Chars) /\ Doubling[c] \in Seq(Chars)
    BY DoublingTyped, SpreadTyped
  <2>3. Run(NameNext, start, Spread(Doubling, u) \o Doubling[c])
          = Run(NameNext, Run(NameNext, start, Spread(Doubling, u)), Doubling[c])
    BY <2>2, TextConcat DEF GoesOn
  <2>4. Run(NameNext, start, Spread(Doubling, u)) = Inside(p, u)
    BY <1>2
  <2>5. Run(NameNext, Inside(p, u), Doubling[c]) = Inside(p, u \o <<c>>)
    BY ReadDoubled DEF Texts
  <2>6. Run(NameNext, start, Spread(Doubling, u \o <<c>>)) = Inside(p, u \o <<c>>)
    BY <2>1, <2>3, <2>4, <2>5, Zenon
  <2>7. u \o <<c>> \in Texts
    BY GrowProperties DEF Texts
  <2>8. QED BY <2>6, <2>7
<1>3. \A u \in Seq(Chars) : u \in T
  <2> HIDE DEF T
  <2>1. QED BY <1>1, <1>2, GrowInduction
<1>4. QED BY <1>3 DEF Texts

(* A quoted name is read as one part. *)
LEMMA ReadQuoted ==
  ASSUME NEW p \in Seq(Texts), NEW s \in Texts
  PROVE  Run(NameNext, Before(p), dbQuoteIdentifier(s)) = Behind(p, s)
<1> DEFINE a == Spread(Doubling, s)
<1>0. /\ dbQuoteIdentifier(s) = <<TICK>> \o a \o <<TICK>> /\ a \in Seq(Chars) /\ TICK \in Chars
      /\ <<>> \in Texts
  BY Quoted, Characters, EmptySeq DEF Texts
<1>1. Run(NameNext, Inside(p, <<>>), a) = Inside(p, s)
  BY ReadInside
<1> HIDE DEF a
<1>2. <<TICK>> \in Seq(Chars) /\ <<TICK>> \o a \in Seq(Chars)
  <2>1. <<TICK>> \in Seq(Chars)
    BY <1>0, OneOrTwo
  <2>2. QED BY <1>0, <2>1, ConcatProperties
<1>3. NameNext[<<Before(p), TICK>>] = Inside(p, <<>>)
  <2>1. Before(p) \in NameStates
    BY <1>0, NamePlaces
  <2>2. NameNext[<<Before(p), TICK>>] = NameStep(Before(p), TICK)
    BY <1>0, <2>1, NameNextTyped
  <2>3. QED BY <1>0, <2>2, NameSteps
<1>4. Run(NameNext, Before(p), <<TICK>> \o a) = Inside(p, s)
  <2>1. Run(NameNext, Before(p), <<TICK>> \o a) = Run(NameNext, NameNext[<<Before(p), TICK>>], a)
    <3>1. Begins(NameNext, Before(p), TICK, a)
      BY <1>0, TextFirst
    <3>2. QED BY <3>1, Zenon DEF Begins
  <2>2. QED BY <1>1, <1>3, <2>1, Zenon
<1>5. Run(NameNext, Before(p), (<<TICK>> \o a) \o <<TICK>>) = NameNext[<<Inside(p, s), TICK>>]
  <2>1. Run(NameNext, Before(p), (<<TICK>> \o a) \o <<TICK>>)
          = NameNext[<<Run(NameNext, Before(p), <<TICK>> \o a), TICK>>]
    BY <1>0, <1>2, RunGrow
  <2>2. QED BY <1>4, <2>1, Zenon
<1>6. NameNext[<<Inside(p, s), TICK>>] = Behind(p, s)
  BY <1>0, NamePlaces, NameNextTyped, NameSteps
<1>7. QED BY <1>0, <1>5, <1>6, Zenon

(* One sequence more at the end. *)
LEMMA FlattenLast ==
  ASSUME NEW S, NEW u \in Seq(Seq(S)), NEW v \in Seq(Seq(S)), Len(v) = Len(u) + 1,
         \A i \in 1..Len(u) : v[i] = u[i]
  PROVE  FlattenSeq(v) = FlattenSeq(u) \o v[Len(v)]
<1> DEFINE e == v[Len(v)]
           w == u \o <<e>>
<1>1. Len(u) \in Nat /\ e \in Seq(S)
  OBVIOUS
<1> HIDE DEF e
<1>2. /\ w \in Seq(Seq(S)) /\ Len(w) = Len(u) + 1
      /\ \A i \in 1..Len(u) : w[i] = u[i]
      /\ w[Len(u) + 1] = e
  BY <1>1, GrowProperties
<1> HIDE DEF w
<1>3. ASSUME NEW i \in 1..Len(v) PROVE v[i] = w[i]
  <2>1. i \in 1..Len(u) \/ i = Len(u) + 1
    BY <1>1
  <2>2. QED BY <1>1, <1>2, <2>1 DEF e
<1>4. v = w
  BY <1>2, <1>3, SeqEqual
<1>5. FlattenSeq(u \o <<e>>) = FlattenSeq(u) \o e
  BY <1>1, FlattenGrow
<1>6. QED BY <1>4, <1>5, Zenon DEF w, e

(* The parts of a name, quoted, with a dot before each but the first. *)
DottedPart(k, s) == (IF k = 1 THEN <<>> ELSE <<".">>) \o dbQuoteIdentifier(s)
Dotted(s) == [k \in DOMAIN s |-> DottedPart(k, s[k])]

LEMMA DottedTyped ==
  ASSUME NEW s \in Seq(Texts)
  PROVE  /\ Dotted(s) \in Seq(Seq(Chars)) /\ Len(Dotted(s)) = Len(s)
         /\ \A k \in 1..Len(s) : Dotted(s)[k] = DottedPart(k, s[k])
<1>0. DOMAIN s = 1..Len(s) /\ Len(s) \in Nat
  OBVIOUS
<1>1. ASSUME NEW k \in DOMAIN s PROVE DottedPart(k, s[k]) \in Seq(Chars)
  <2>1. s[k] \in Texts
    OBVIOUS
  <2>2. <<".">> \in Seq(Chars) /\ <<>> \in Seq(Chars)
    BY Characters, OneOrTwo, EmptySeq
  <2>3. dbQuoteIdentifier(s[k]) \in Seq(Chars)
    BY <2>1, Quoted
  <2>4. QED BY <2>2, <2>3, ConcatProperties DEF DottedPart
<1>2. QED BY <1>0, <1>1 DEF Dotted

LEMMA ReadDotted ==
  ASSUME NEW s \in Seq(Texts), s # <<>>
  PROVE  \E p \in Seq(Texts), t \in Texts :
           s = Append(p, t) /\ Run(NameNext, Before(<<>>), FlattenSeq(Dotted(s))) = Behind(p, t)
<1> DEFINE start == Before(<<>>)
           Ends(u) == \E p \in Seq(Texts), t \in Texts :
                        u = Append(p, t) /\ Run(NameNext, start, FlattenSeq(Dotted(u))) = Behind(p, t)
           T == {u \in Seq(Texts) : u # <<>> => Ends(u)}
<1>1. <<>> \in T
  BY EmptySeq
<1>2. ASSUME NEW u \in Seq(Texts), NEW c \in Texts, u \in T
      PROVE  u \o <<c>> \in T
  <2> DEFINE v == u \o <<c>>
  <2>1. /\ v \in Seq(Texts) /\ Len(v) = Len(u) + 1 /\ Len(u) \in Nat
        /\ \A i \in 1..Len(u) : v[i] = u[i]
        /\ v[Len(u) + 1] = c
    BY GrowProperties
  <2>2. v = Append(u, c)
    BY AppendIsConcat
  <2> HIDE DEF v
  <2>3. FlattenSeq(Dotted(v)) = FlattenSeq(Dotted(u)) \o DottedPart(Len(u) + 1, c)
    <3>1. /\ Dotted(v) \in Seq(Seq(Chars)) /\ Len(Dotted(v)) = Len(u) + 1
          /\ \A k \in 1..(Len(u) + 1) : Dotted(v)[k] = DottedPart(k, v[k])
      BY <2>1, DottedTyped
    <3>2. /\ Dotted(u) \in Seq(Seq(Chars)) /\ Len(Dotted(u)) = Len(u)
          /\ \A k \in 1..Len(u) : Dotted(u)[k] = DottedPart(k, u[k])
      BY DottedTyped
    <3>3. \A i \in 1..Len(u) : Dotted(v)[i] = Dotted(u)[i]
      <4>1. \A i \in 1..Len(u) : i \in 1..(Len(u) + 1)
        BY <2>1
      <4>2. QED BY <2>1, <3>1, <3>2, <4>1, Zenon
    <3>4. Dotted(v)[Len(Dotted(v))] = DottedPart(Len(u) + 1, c)
      <4>1. Len(u) + 1 \in 1..(Len(u) + 1)
        BY <2>1
      <4>2. QED BY <2>1, <3>1, <4>1, Zenon
    <3>5. FlattenSeq(Dotted(v)) = FlattenSeq(Dotted(u)) \o Dotted(v)[Len(Dotted(v))]
      BY <3>1, <3>2, <3>3, FlattenLast
    <3>6. QED BY <3>4, <3>5, Zenon
  <2>4. dbQuoteIdentifier(c) \in Seq(Chars)
    BY Quoted
  <2>5. CASE u = <<>>
    <3>1. FlattenSeq(Dotted(u)) = <<>> /\ Len(u) = 0 /\ Len(u) + 1 = 1
      <4>1. Len(u) = 0
        BY <2>5
      <4>2. Dotted(u) = <<>>
        BY <4>1, DottedTyped, EmptySeq
      <4>3. Len(<<>>) = 0
        OBVIOUS
      <4>4. FlattenSeq(<<>>) = <<>>
        BY <4>3, FlattenEmpty
      <4>5. QED BY <4>1, <4>2, <4>4
    <3>2. FlattenSeq(Dotted(v)) = <<>> \o (<<>> \o dbQuoteIdentifier(c))
      BY <2>3, <3>1, Zenon DEF DottedPart
    <3>3. <<>> \o (<<>> \o dbQuoteIdentifier(c)) = dbQuoteIdentifier(c)
      BY <2>4, ConcatEmptySeq
    <3>4. Run(NameNext, Before(u), dbQuoteIdentifier(c)) = Behind(u, c)
      BY ReadQuoted
    <3>5. Run(NameNext, start, FlattenSeq(Dotted(v))) = Behind(u, c)
      BY <2>5, <3>2, <3>3, <3>4, Zenon
    <3>6. QED BY <2>1, <2>2, <3>5 DEF v
  <2>6. CASE u # <<>>
    <3>1. PICK p \in Seq(Texts), t \in Texts :
            u = Append(p, t) /\ Run(NameNext, start, FlattenSeq(Dotted(u))) = Behind(p, t)
      BY <1>2, <2>6
    <3>2. Len(u) + 1 # 1
      BY <2>1, <2>6, EmptySeq
    <3>3. DottedPart(Len(u) + 1, c) = <<".">> \o dbQuoteIdentifier(c)
      BY <3>2, Zenon DEF DottedPart
    <3>4. FlattenSeq(Dotted(u)) \in Seq(Chars) /\ "." \in Chars /\ <<".">> \in Seq(Chars)
      <4>1. Dotted(u) \in Seq(Seq(Chars))
        BY DottedTyped
      <4>2. QED BY <4>1, FlattenTyped, Characters, OneOrTwo
    <3>5. Run(NameNext, start, FlattenSeq(Dotted(v)))
            = Run(NameNext, Run(NameNext, start, FlattenSeq(Dotted(u))), DottedPart(Len(u) + 1, c))
      <4>1. DottedPart(Len(u) + 1, c) \in Seq(Chars)
        BY <2>4, <3>3, <3>4, ConcatProperties
      <4>2. GoesOn(NameNext, start, FlattenSeq(Dotted(u)), DottedPart(Len(u) + 1, c))
        BY <3>4, <4>1, TextConcat
      <4>3. QED BY <2>3, <4>2, Zenon DEF GoesOn
    <3>6. Run(NameNext, Behind(p, t), <<".">> \o dbQuoteIdentifier(c))
            = Run(NameNext, NameNext[<<Behind(p, t), ".">>], dbQuoteIdentifier(c))
      <4>1. Begins(NameNext, Behind(p, t), ".", dbQuoteIdentifier(c))
        BY <2>4, <3>4, TextFirst
      <4>2. QED BY <4>1, Zenon DEF Begins
    <3>7. NameNext[<<Behind(p, t), ".">>] = Before(u)
      <4>1. Behind(p, t) \in NameStates
        BY NamePlaces
      <4>2. NameNext[<<Behind(p, t), ".">>] = NameStep(Behind(p, t), ".")
        BY <3>4, <4>1, NameNextTyped
      <4>3. NameStep(Behind(p, t), ".") = Before(Append(p, t))
        BY NameSteps
      <4>4. QED BY <3>1, <4>2, <4>3, Zenon
    <3>8. Run(NameNext, Before(u), dbQuoteIdentifier(c)) = Behind(u, c)
      BY ReadQuoted
    <3>9. Run(NameNext, start, FlattenSeq(Dotted(v))) = Behind(u, c)
      BY <3>1, <3>3, <3>5, <3>6, <3>7, <3>8, Zenon
    <3>10. QED BY <2>1, <2>2, <3>9 DEF v
  <2>7. QED BY <2>5, <2>6
<1>3. \A u \in Seq(Texts) : u \in T
  <2> HIDE DEF T
  <2>1. QED BY <1>1, <1>2, GrowInduction
<1>4. QED BY <1>3

LEMMA PartsTyped ==
  ASSUME NEW id \in Seq(Texts \ {<<>>}), id # <<>>
  PROVE  Parts(id) \in Seq(Texts \ {<<>>}) /\ Parts(id) # <<>> /\ Parts(id) \in Seq(Texts)
<1>1. \A s \in Seq(Texts \ {<<>>}) : s \in Seq(Texts)
  OBVIOUS
<1>2. CASE Parts(id) = id
  BY <1>1, <1>2
<1>3. CASE Parts(id) # id
  <2>1. Len(id) = 3 /\ Parts(id) = Tail(id)
    BY <1>3 DEF Parts
  <2>2. Tail(id) \in Seq(Texts \ {<<>>}) /\ Len(Tail(id)) = 2
    BY <2>1
  <2>3. Tail(id) # <<>>
    <3>1. Len(<<>>) = 0
      OBVIOUS
    <3>2. SUFFICES ASSUME Tail(id) = <<>> PROVE FALSE
      OBVIOUS
    <3>3. Len(Tail(id)) = Len(<<>>)
      BY <3>2, Zenon
    <3>4. QED BY <2>2, <3>1, <3>3
  <2>4. QED BY <1>1, <2>1, <2>2, <2>3
<1>4. QED BY <1>2, <1>3

(* The server takes a quoted name for the name that was meant. *)
LEMMA NameRead ==
  ASSUME NEW id \in Seq(Texts \ {<<>>}), id # <<>>
  PROVE  ReadName(dbQuoteId(id)) = Parts(id)
<1> DEFINE q == dbQuoteId(id)
           start == Before(<<>>)
<1>1. Parts(id) \in Seq(Texts) /\ Parts(id) # <<>>
  BY PartsTyped
<1>2. q = FlattenSeq(Dotted(Parts(id)))
  BY Zenon DEF dbQuoteId, Dotted, DottedPart
<1>3. PICK p \in Seq(Texts), t \in Texts :
        Parts(id) = Append(p, t) /\ Run(NameNext, start, FlattenSeq(Dotted(Parts(id)))) = Behind(p, t)
  BY <1>1, ReadDotted
<1>4. q \in Seq(Chars)
  <2>1. Dotted(Parts(id)) \in Seq(Seq(Chars))
    BY <1>1, DottedTyped
  <2>2. QED BY <1>2, <2>1, FlattenTyped
<1>5. FoldLeft(NameStep, start, q) = Run(NameNext, start, q)
  <2>1. start \in NameStates
    BY NamePlaces, EmptySeq DEF Texts
  <2> HIDE DEF start, q
  <2>2. QED BY <1>4, <2>1, NameRun
<1>6. FoldLeft(NameStep, start, q) = Behind(p, t)
  BY <1>2, <1>3, <1>5, Zenon
<1>7. ReadName(q) = LET end == FoldLeft(NameStep, start, q) IN Append(end.parts, end.text)
  BY Zenon DEF ReadName, Before
<1>8. ReadName(q) = Append(Behind(p, t).parts, Behind(p, t).text)
  <2> HIDE DEF q, start
  <2>1. QED BY <1>6, <1>7, Zenon
<1>9. Behind(p, t).parts = p /\ Behind(p, t).text = t
  BY DEF Behind
<1>10. QED BY <1>3, <1>8, <1>9, Zenon

-----------------------------------------------------------------------------
(* Names read back *)

UndoubleStates == [text : Texts, odd : BOOLEAN, paired : BOOLEAN]
UndoubleNext == [p \in UndoubleStates \X Chars |-> UndoubleStep(p[1], p[2])]

Kept(t) == [text |-> t, odd |-> FALSE, paired |-> TRUE]
Half(t) == [text |-> t, odd |-> TRUE, paired |-> TRUE]

LEMMA UndoubleStepTyped ==
  ASSUME NEW st \in UndoubleStates, NEW c \in Chars
  PROVE  UndoubleStep(st, c) \in UndoubleStates
<1>1. Append(st.text, c) \in Texts
  BY DEF UndoubleStates, Texts
<1>2. (c = TICK) \in BOOLEAN /\ (st.paired /\ ~st.odd) \in BOOLEAN
  OBVIOUS
<1>3. QED BY <1>1, <1>2 DEF UndoubleStates, UndoubleStep

LEMMA UndoubleNextTyped ==
  /\ UndoubleNext \in [UndoubleStates \X Chars -> UndoubleStates]
  /\ \A st \in UndoubleStates, c \in Chars : UndoubleNext[<<st, c>>] = UndoubleStep(st, c)
<1>1. \A p \in UndoubleStates \X Chars : UndoubleStep(p[1], p[2]) \in UndoubleStates
  BY UndoubleStepTyped
<1>2. QED BY <1>1 DEF UndoubleNext

LEMMA UndoubleRun ==
  ASSUME NEW base \in UndoubleStates, NEW s \in Seq(Chars)
  PROVE  FoldLeft(UndoubleStep, base, s) = Run(UndoubleNext, base, s)
<1> DEFINE Fold(h) == h = [t \in SUBSET DOMAIN s |->
                             IF t = {} THEN base ELSE UndoubleStep(h[t \ {Max(t)}], s[Max(t)])]
           g == CHOOSE h : Fold(h)
<1>1. \E h : Fold(h)
  <2>1. PICK h : Solves(h, UndoubleNext, base, s, UndoubleStates, Chars)
    BY UndoubleNextTyped, FoldExists
  <2>2. ASSUME NEW t \in SUBSET DOMAIN s
        PROVE  h[t] = IF t = {} THEN base ELSE UndoubleStep(h[t \ {Max(t)}], s[Max(t)])
    BY <2>1, UndoubleNextTyped, Zenon DEF Solves
  <2>3. [t \in SUBSET DOMAIN s |-> h[t]]
          = [t \in SUBSET DOMAIN s |->
               IF t = {} THEN base ELSE UndoubleStep(h[t \ {Max(t)}], s[Max(t)])]
    BY <2>2, Zenon
  <2>4. QED BY <2>1, <2>3, Zenon DEF Solves
<1>2. Fold(g)
  BY <1>1, Zenon
<1>3. FoldLeft(UndoubleStep, base, s) = g[DOMAIN s]
  BY Zenon DEF FoldLeft, MapThenFoldSet
<1> HIDE DEF g
<1>4. \A t \in SUBSET DOMAIN s :
        g[t] = IF t = {} THEN base ELSE UndoubleStep(g[t \ {Max(t)}], s[Max(t)])
  BY <1>2, Zenon
<1>5. Takes(g, UndoubleNext, base, s, UndoubleStates, Chars)
  <2>1. {} \in SUBSET DOMAIN s
    OBVIOUS
  <2>2. QED BY <2>1, <1>4, UndoubleNextTyped, Zenon DEF Takes
<1>6. g[DOMAIN s] = Run(UndoubleNext, base, s)
  BY <1>5, FoldEnds
<1>7. QED BY <1>3, <1>6

LEMMA UndoubleSteps ==
  ASSUME NEW t \in Texts
  PROVE  /\ Kept(t) \in UndoubleStates /\ Half(t) \in UndoubleStates
         /\ \A c \in Chars : c # TICK => UndoubleStep(Kept(t), c) = Kept(t \o <<c>>)
         /\ UndoubleStep(Kept(t), TICK) = Half(t \o <<TICK>>)
         /\ UndoubleStep(Half(t), TICK) = Kept(t)
<1>0. \A c \in Chars : t \o <<c>> = Append(t, c)
  BY AppendIsConcat DEF Texts
<1>1. Kept(t) \in UndoubleStates /\ Half(t) \in UndoubleStates
  BY DEF UndoubleStates, Kept, Half
<1>2. ASSUME NEW c \in Chars, c # TICK
      PROVE  UndoubleStep(Kept(t), c) = Kept(t \o <<c>>)
  BY <1>0, <1>2 DEF UndoubleStep, Kept
<1>3. UndoubleStep(Kept(t), TICK) = Half(t \o <<TICK>>)
  BY <1>0, Characters DEF UndoubleStep, Kept, Half
<1>4. UndoubleStep(Half(t), TICK) = Kept(t)
  BY DEF UndoubleStep, Kept, Half
<1>5. QED BY <1>1, <1>2, <1>3, <1>4

(* A backtick that has no second makes the text one that is not quoted, and  *)
(* that stays so.                                                           *)
LEMMA UndoubleBreaks ==
  ASSUME NEW st \in UndoubleStates
  PROVE  /\ ~st.odd => UndoubleStep(st, TICK).odd
         /\ \A c \in Chars : c # TICK /\ st.odd => ~UndoubleStep(st, c).paired
         /\ \A c \in Chars : ~st.paired => ~UndoubleStep(st, c).paired
<1>1. ~st.odd => UndoubleStep(st, TICK).odd
  BY DEF UndoubleStep
<1>2. ASSUME NEW c \in Chars, c # TICK, st.odd
      PROVE  ~UndoubleStep(st, c).paired
  BY <1>2 DEF UndoubleStep
<1>3. ASSUME NEW c \in Chars, ~st.paired
      PROVE  ~UndoubleStep(st, c).paired
  BY <1>3 DEF UndoubleStep, UndoubleStates
<1>4. QED BY <1>1, <1>2, <1>3

LEMMA UndoubledIsRun ==
  ASSUME NEW s \in Texts
  PROVE  /\ Undoubled(s) = Run(UndoubleNext, Kept(<<>>), s)
         /\ Undoubled(s) \in UndoubleStates
<1> DEFINE start == Kept(<<>>)
<1>1. start \in UndoubleStates
  BY UndoubleSteps, EmptySeq DEF Texts
<1>2. Undoubled(s) = FoldLeft(UndoubleStep, start, s)
  BY Zenon DEF Undoubled, Kept
<1> HIDE DEF start
<1>3. FoldLeft(UndoubleStep, start, s) = Run(UndoubleNext, start, s)
  BY <1>1, UndoubleRun DEF Texts
<1>4. Run(UndoubleNext, start, s) \in UndoubleStates
  BY <1>1, UndoubleNextTyped, RunTyped DEF Texts
<1>5. QED BY <1>2, <1>3, <1>4 DEF start

LEMMA UndoubleDoubled ==
  ASSUME NEW t \in Texts, NEW c \in Chars
  PROVE  Run(UndoubleNext, Kept(t), Doubling[c]) = Kept(t \o <<c>>)
<1>0. Kept(t) \in UndoubleStates /\ TICK \in Chars /\ t \o <<c>> \in Texts
  BY UndoubleSteps, Characters, GrowProperties DEF Texts
<1>1. CASE c = TICK
  <2>1. Run(UndoubleNext, Kept(t), <<TICK, TICK>>) = UndoubleNext[<<UndoubleNext[<<Kept(t), TICK>>], TICK>>]
    BY <1>0, TextTwo
  <2>2. UndoubleNext[<<Kept(t), TICK>>] = Half(t \o <<TICK>>)
    BY <1>0, UndoubleNextTyped, UndoubleSteps
  <2>3. Half(t \o <<TICK>>) \in UndoubleStates /\ UndoubleStep(Half(t \o <<TICK>>), TICK) = Kept(t \o <<TICK>>)
    BY <1>0, <1>1, UndoubleSteps
  <2>4. UndoubleNext[<<Half(t \o <<TICK>>), TICK>>] = Kept(t \o <<TICK>>)
    BY <1>0, <2>3, UndoubleNextTyped
  <2>5. QED BY <1>1, <2>1, <2>2, <2>4, DoublingTyped, Zenon
<1>2. CASE c # TICK
  <2>1. Run(UndoubleNext, Kept(t), <<c>>) = UndoubleNext[<<Kept(t), c>>]
    BY TextOne
  <2>2. UndoubleNext[<<Kept(t), c>>] = Kept(t \o <<c>>)
    BY <1>0, <1>2, UndoubleNextTyped, UndoubleSteps
  <2>3. Doubling[c] = <<c>>
    BY <1>2, DoublingTyped
  <2>4. QED BY <2>1, <2>2, <2>3, Zenon
<1>3. QED BY <1>1, <1>2

LEMMA UndoubleSpread ==
  ASSUME NEW s \in Texts
  PROVE  Run(UndoubleNext, Kept(<<>>), Spread(Doubling, s)) = Kept(s)
<1> DEFINE start == Kept(<<>>)
           T == {u \in Texts : Run(UndoubleNext, start, Spread(Doubling, u)) = Kept(u)}
<1>1. <<>> \in T
  BY SpreadEmpty, RunEmpty, EmptySeq DEF Texts
<1>2. ASSUME NEW u \in Seq(Chars), NEW c \in Chars, u \in T
      PROVE  u \o <<c>> \in T
  <2>1. Spread(Doubling, u \o <<c>>) = Spread(Doubling, u) \o Doubling[c]
    BY DoublingTyped, SpreadGrow
  <2>2. Spread(Doubling, u) \in Seq(Chars) /\ Doubling[c] \in Seq(Chars)
    BY DoublingTyped, SpreadTyped
  <2>3. GoesOn(UndoubleNext, start, Spread(Doubling, u), Doubling[c])
    BY <2>2, TextConcat
  <2>4. Run(UndoubleNext, start, Spread(Doubling, u)) = Kept(u)
    BY <1>2
  <2>5. Run(UndoubleNext, Kept(u), Doubling[c]) = Kept(u \o <<c>>)
    BY UndoubleDoubled DEF Texts
  <2>6. Run(UndoubleNext, start, Spread(Doubling, u \o <<c>>)) = Kept(u \o <<c>>)
    BY <2>1, <2>3, <2>4, <2>5, Zenon DEF GoesOn
  <2>7. u \o <<c>> \in Texts
    BY GrowProperties DEF Texts
  <2>8. QED BY <2>6, <2>7
<1>3. \A u \in Seq(Chars) : u \in T
  <2> HIDE DEF T
  <2>1. QED BY <1>1, <1>2, GrowInduction
<1>4. QED BY <1>3 DEF Texts

LEMMA UndoubledQuoted ==
  ASSUME NEW s \in Texts
  PROVE  /\ Undoubled(Spread(Doubling, s)) = Kept(s)
         /\ s # <<>> => Spread(Doubling, s) # <<>>
<1>1. Spread(Doubling, s) \in Texts
  BY Quoted DEF Texts
<1>2. Undoubled(Spread(Doubling, s)) = Run(UndoubleNext, Kept(<<>>), Spread(Doubling, s))
  BY <1>1, UndoubledIsRun
<1>3. Run(UndoubleNext, Kept(<<>>), Spread(Doubling, s)) = Kept(s)
  BY UndoubleSpread
<1>4. ASSUME Spread(Doubling, s) = <<>> PROVE s = <<>>
  <2>1. Run(UndoubleNext, Kept(<<>>), <<>>) = Kept(<<>>)
    BY RunEmpty
  <2>2. Kept(s) = Kept(<<>>)
    BY <1>3, <1>4, <2>1, Zenon
  <2>3. Kept(s).text = s /\ Kept(<<>>).text = <<>>
    BY DEF Kept
  <2>4. QED BY <2>2, <2>3, Zenon
<1>5. QED BY <1>2, <1>3, <1>4, Zenon

LEMMA StaysBroken ==
  ASSUME NEW st \in UndoubleStates, ~st.paired, NEW s \in Texts
  PROVE  ~Run(UndoubleNext, st, s).paired
<1> DEFINE T == {u \in Texts : ~Run(UndoubleNext, st, u).paired}
<1>1. <<>> \in T
  BY RunEmpty, EmptySeq DEF Texts
<1>2. ASSUME NEW u \in Seq(Chars), NEW c \in Chars, u \in T
      PROVE  u \o <<c>> \in T
  <2> DEFINE mid == Run(UndoubleNext, st, u)
  <2>1. Run(UndoubleNext, st, u \o <<c>>) = UndoubleNext[<<mid, c>>]
    BY RunGrow
  <2>2. mid \in UndoubleStates
    BY UndoubleNextTyped, RunTyped
  <2>3. ~mid.paired
    BY <1>2
  <2>4. u \o <<c>> \in Texts
    BY GrowProperties DEF Texts
  <2> HIDE DEF mid
  <2>5. UndoubleNext[<<mid, c>>] = UndoubleStep(mid, c) /\ ~UndoubleStep(mid, c).paired
    BY <2>2, <2>3, UndoubleNextTyped, UndoubleBreaks
  <2>6. ~Run(UndoubleNext, st, u \o <<c>>).paired
    BY <2>1, <2>5, Zenon
  <2>7. QED BY <2>4, <2>6
<1>3. \A u \in Seq(Chars) : u \in T
  <2> HIDE DEF T
  <2>1. QED BY <1>1, <1>2, GrowInduction
<1>4. QED BY <1>3 DEF Texts

(* A backtick before a dot, behind backticks in pairs, is none in a pair.    *)
LEMMA Broken ==
  ASSUME NEW u \in Texts, NEW v \in Texts, ~Undoubled(u).odd
  PROVE  ~Undoubled(u \o (<<TICK>> \o (<<".">> \o v))).paired
<1> DEFINE w == <<".">> \o v
           z == <<TICK>> \o w
           start == Kept(<<>>)
           one == UndoubleNext[<<Undoubled(u), TICK>>]
           two == UndoubleNext[<<one, ".">>]
<1>1. TICK \in Chars /\ "." \in Chars /\ "." # TICK
  BY Characters, Different
<1>2. w \in Seq(Chars) /\ z \in Seq(Chars) /\ u \in Seq(Chars) /\ v \in Seq(Chars)
  <2>1. <<TICK>> \in Seq(Chars) /\ <<".">> \in Seq(Chars) /\ v \in Seq(Chars) /\ u \in Seq(Chars)
    BY <1>1, OneOrTwo DEF Texts
  <2>2. w \in Seq(Chars)
    BY <2>1, ConcatProperties
  <2> HIDE DEF w
  <2>3. QED BY <2>1, <2>2, ConcatProperties
<1>3. u \o z \in Texts
  BY <1>2, ConcatProperties DEF Texts
<1>4. Undoubled(u) = Run(UndoubleNext, start, u) /\ Undoubled(u) \in UndoubleStates
  BY UndoubledIsRun
<1>5. Undoubled(u \o z) = Run(UndoubleNext, start, u \o z)
  <2> HIDE DEF z, start
  <2>1. QED BY <1>3, UndoubledIsRun DEF start
<1>6. GoesOn(UndoubleNext, start, u, z)
  BY <1>2, TextConcat
<1>7. Begins(UndoubleNext, Undoubled(u), TICK, w)
  BY <1>1, <1>2, TextFirst
<1>8. Begins(UndoubleNext, one, ".", v)
  BY <1>1, <1>2, TextFirst
<1>9. Undoubled(u \o z) = Run(UndoubleNext, two, v)
  BY <1>4, <1>5, <1>6, <1>7, <1>8, Zenon DEF GoesOn, Begins
<1>10. one \in UndoubleStates /\ one.odd
  BY <1>1, <1>4, UndoubleNextTyped, UndoubleStepTyped, UndoubleBreaks
<1>11. two \in UndoubleStates /\ ~two.paired
  <2> HIDE DEF one
  <2>1. QED BY <1>1, <1>10, UndoubleNextTyped, UndoubleStepTyped, UndoubleBreaks
<1>12. QED
  <2> HIDE DEF two
  <2>1. ~Run(UndoubleNext, two, v).paired
    BY <1>11, StaysBroken
  <2>2. QED BY <1>9, <2>1, Zenon

(* A text that begins with a backtick is a name only as one in backticks.    *)
LEMMA IdRxTicked ==
  ASSUME NEW s \in Texts, s # <<>>, s[1] = TICK, IdRx(s) # NULL
  PROVE  /\ Len(s) > 2 /\ s[Len(s)] = TICK
         /\ Undoubled(SubSeq(s, 2, Len(s) - 1)).paired
         /\ ~Undoubled(SubSeq(s, 2, Len(s) - 1)).odd
<1> DEFINE body == Undoubled(SubSeq(s, 2, Len(s) - 1))
           A == Len(s) > 2 /\ s[1] = TICK /\ s[Len(s)] = TICK /\ body.paired /\ ~body.odd
           B == s # <<>> /\ ToSet(s) \cap {TICK, ".", SPACE} = {}
<1>1. IdRx(s) = IF A THEN body.text ELSE IF B THEN s ELSE NULL
  BY Zenon DEF IdRx
<1>2. ~B
  <2>1. 1 \in DOMAIN s
    <3>1. Len(s) # 0 /\ Len(s) \in Nat /\ DOMAIN s = 1..Len(s)
      BY EmptySeq DEF Texts
    <3>2. QED BY <3>1
  <2>2. TICK \in ToSet(s)
    BY <2>1 DEF ToSet
  <2>3. QED BY <2>2
<1> HIDE DEF body, B
<1>3. A
  BY <1>1, <1>2, Zenon
<1>4. QED BY <1>3 DEF body

(* A quoted name is that name. *)
LEMMA IdRxQuoted ==
  ASSUME NEW a \in Texts, a # <<>>
  PROVE  IdRx(dbQuoteIdentifier(a)) = a
<1> DEFINE q == dbQuoteIdentifier(a)
           A == Spread(Doubling, a)
           body == Undoubled(SubSeq(q, 2, Len(q) - 1))
<1>1. A \in Seq(Chars) /\ q = <<TICK>> \o A \o <<TICK>> /\ TICK \in Chars
  BY Quoted, Characters
<1>2. A # <<>> /\ Undoubled(A) = Kept(a)
  BY UndoubledQuoted
<1> HIDE DEF A
<1>3. Len(A) \in Nat /\ Len(A) # 0
  BY <1>1, <1>2, EmptySeq
<1>4. /\ Len(q) = Len(A) + 2 /\ q[1] = TICK /\ q[Len(A) + 2] = TICK
      /\ SubSeq(q, 2, Len(q) - 1) = A
  <2> HIDE DEF q
  <2>1. QED BY <1>1, Enclosed
<1>5. body = Kept(a)
  BY <1>2, <1>4, Zenon
<1>6. body.paired /\ ~body.odd /\ body.text = a
  <2> HIDE DEF body
  <2>1. QED BY <1>5 DEF Kept
<1>7. IdRx(q) = IF Len(q) > 2 /\ q[1] = TICK /\ q[Len(q)] = TICK /\ body.paired /\ ~body.odd
                THEN body.text
                ELSE IF q # <<>> /\ ToSet(q) \cap {TICK, ".", SPACE} = {} THEN q ELSE NULL
  BY Zenon DEF IdRx
<1>8. Len(q) > 2 /\ q[Len(q)] = TICK
  <2> HIDE DEF q
  <2>1. QED BY <1>3, <1>4
<1>9. QED
  <2> HIDE DEF body, q
  <2>1. IdRx(q) = a
    BY <1>4, <1>6, <1>7, <1>8, Zenon
  <2>2. QED BY <2>1 DEF q

LEMMA Prefixed ==
  ASSUME NEW S, NEW c \in S, NEW s \in Seq(S)
  PROVE  /\ <<c>> \o s \in Seq(S) /\ Len(<<c>> \o s) = Len(s) + 1 /\ Len(s) \in Nat
         /\ (<<c>> \o s)[1] = c
         /\ \A k \in 1..Len(s) : (<<c>> \o s)[k + 1] = s[k]
<1>1. Len(s) \in Nat /\ <<c>> \in Seq(S) /\ Len(<<c>>) = 1 /\ <<c>>[1] = c
  OBVIOUS
<1>2. QED BY <1>1, ConcatProperties

(* A text around two of its characters. *)
LEMMA Cutting ==
  ASSUME NEW S, NEW s \in Seq(S), NEW i \in Nat, i >= 1, i + 1 <= Len(s)
  PROVE  /\ s = SubSeq(s, 1, i - 1) \o (<<s[i]>> \o (<<s[i + 1]>> \o SubSeq(s, i + 2, Len(s))))
         /\ SubSeq(s, 1, i - 1) \in Seq(S) /\ SubSeq(s, i + 2, Len(s)) \in Seq(S)
<1> DEFINE u == SubSeq(s, 1, i - 1)
           v == SubSeq(s, i + 2, Len(s))
           c == s[i]
           d == s[i + 1]
           w == <<d>> \o v
           z == <<c>> \o w
           t == u \o z
<1>0. Len(s) \in Nat /\ c \in S /\ d \in S
  OBVIOUS
<1>1. u \in Seq(S) /\ Len(u) = i - 1 /\ \A k \in 1..(i - 1) : u[k] = s[k]
  BY <1>0
<1>2. v \in Seq(S) /\ Len(v) = Len(s) - i - 1 /\ \A k \in 1..Len(v) : v[k] = s[k + i + 1]
  BY <1>0
<1> HIDE DEF c, d, u, v
<1>4. /\ w \in Seq(S) /\ Len(w) = Len(v) + 1 /\ w[1] = d
      /\ \A k \in 1..Len(v) : w[k + 1] = v[k]
  BY <1>0, <1>2, Prefixed
<1> HIDE DEF w
<1>5. /\ z \in Seq(S) /\ Len(z) = Len(w) + 1 /\ z[1] = c
      /\ \A k \in 1..Len(w) : z[k + 1] = w[k]
  BY <1>0, <1>4, Prefixed
<1> HIDE DEF z
<1>6. /\ t \in Seq(S) /\ Len(t) = Len(u) + Len(z)
      /\ \A k \in 1..Len(u) : t[k] = u[k]
      /\ \A k \in 1..Len(z) : t[Len(u) + k] = z[k]
  <2>1. u \in Seq(S) /\ z \in Seq(S) /\ Len(u) \in Nat /\ Len(z) \in Nat
    BY <1>1, <1>5
  <2>2. QED BY <2>1, ConcatProperties
<1> HIDE DEF t
<1>7. Len(t) = Len(s)
  BY <1>0, <1>1, <1>2, <1>4, <1>5, <1>6
<1>8. ASSUME NEW k \in 1..Len(s) PROVE s[k] = t[k]
  <2>1. CASE k < i
    BY <1>0, <1>1, <1>6, <2>1
  <2>2. CASE k = i
    <3>1. 1 \in 1..Len(z) /\ Len(u) + 1 = k
      <4>1. Len(w) \in Nat /\ Len(u) = k - 1 /\ Len(z) = Len(w) + 1 /\ k \in Nat
        BY <1>0, <1>1, <1>4, <1>5, <2>2
      <4>2. QED BY <4>1
    <3>2. t[k] = z[1]
      BY <1>6, <3>1
    <3>3. QED BY <1>5, <2>2, <3>2 DEF c
  <2>3. CASE k = i + 1
    <3>1. 2 \in 1..Len(z) /\ Len(u) + 2 = k /\ 1 \in 1..Len(w) /\ 1 + 1 = 2
      BY <1>0, <1>1, <1>2, <1>4, <1>5, <2>3
    <3>2. t[k] = z[2]
      BY <1>6, <3>1
    <3>3. z[2] = w[1]
      BY <1>5, <3>1
    <3>4. QED BY <1>4, <2>3, <3>2, <3>3 DEF d
  <2>4. CASE k > i + 1
    <3>1. /\ k - i - 1 \in 1..Len(v) /\ (k - i - 1) + 1 \in 1..Len(w)
          /\ ((k - i - 1) + 1) + 1 \in 1..Len(z)
          /\ Len(u) + (((k - i - 1) + 1) + 1) = k /\ (k - i - 1) + i + 1 = k
      BY <1>0, <1>1, <1>2, <1>4, <1>5, <2>4
    <3>2. t[k] = z[((k - i - 1) + 1) + 1]
      BY <1>6, <3>1
    <3>3. z[((k - i - 1) + 1) + 1] = w[(k - i - 1) + 1]
      BY <1>5, <3>1
    <3>4. w[(k - i - 1) + 1] = v[k - i - 1]
      BY <1>4, <3>1
    <3>5. v[k - i - 1] = s[k]
      BY <1>2, <3>1
    <3>6. QED BY <3>2, <3>3, <3>4, <3>5
  <2>5. QED BY <1>0, <2>1, <2>2, <2>3, <2>4
<1>9. s = t
  BY <1>6, <1>7, <1>8, SeqEqual
<1>10. QED BY <1>1, <1>2, <1>9 DEF t, z, w, u, v, c, d

(* What ends before a dot, or is all, is no name unless it is the first one. *)
LEMMA OtherPrefix ==
  ASSUME NEW a \in Texts, NEW r \in Texts, r = <<>> \/ r[1] = ".",
         NEW q \in Texts, q = dbQuoteIdentifier(a) \o r,
         NEW n \in 1..Len(q), n # Len(dbQuoteIdentifier(a)), n = Len(q) \/ q[n + 1] = "."
  PROVE  IdRx(SubSeq(q, 1, n)) = NULL
<1> DEFINE x == SubSeq(q, 1, n)
           A == Spread(Doubling, a)
           h == dbQuoteIdentifier(a)
           m == Len(h)
           body == SubSeq(x, 2, Len(x) - 1)
<1>1. A \in Seq(Chars) /\ h = <<TICK>> \o A \o <<TICK>> /\ TICK \in Chars /\ h \in Seq(Chars) /\ TICK # "."
  BY Quoted, Characters, Different
<1>2. Undoubled(A) = Kept(a)
  BY UndoubledQuoted
<1>3. ~Undoubled(A).odd /\ Undoubled(A).paired
  BY <1>2 DEF Kept
<1> HIDE DEF A
<1>4. /\ Len(A) \in Nat /\ m = Len(A) + 2 /\ m \in Nat /\ h[1] = TICK /\ h[m] = TICK
      /\ \A i \in 1..Len(A) : h[i + 1] = A[i]
  <2>0. Len(A) \in Nat
    BY <1>1
  <2>1. /\ Len(h) = Len(A) + 2 /\ h[1] = TICK /\ h[Len(A) + 2] = TICK
        /\ \A i \in 1..Len(A) : h[i + 1] = A[i]
    <3> HIDE DEF h
    <3>1. QED BY <1>1, Enclosed
  <2>2. QED BY <2>0, <2>1
<1>5. /\ Len(r) \in Nat /\ Len(q) = m + Len(r) /\ Len(q) \in Nat
      /\ \A i \in 1..m : q[i] = h[i]
      /\ \A i \in 1..Len(r) : q[m + i] = r[i]
  <2> HIDE DEF h
  <2>1. q = h \o r
    BY DEF h
  <2>2. r \in Seq(Chars) /\ Len(r) \in Nat
    BY DEF Texts
  <2>3. QED BY <1>1, <1>4, <2>1, <2>2, ConcatProperties
<1>6. /\ q[1] = TICK /\ q[m] = TICK
      /\ \A i \in 1..Len(A) : q[i + 1] = A[i]
  <2> HIDE DEF h
  <2>1. 1 \in 1..m /\ m \in 1..m /\ \A i \in 1..Len(A) : i + 1 \in 1..m
    BY <1>4
  <2>2. QED BY <1>4, <1>5, <2>1
<1> HIDE DEF h
<1>7. /\ x \in Texts /\ Len(x) = n /\ \A i \in 1..n : x[i] = q[i]
  BY <1>5 DEF Texts
<1> HIDE DEF x
<1>8. x # <<>> /\ x[1] = TICK /\ n \in Nat /\ n >= 1
  BY <1>5, <1>6, <1>7, EmptySeq
<1>9. SUFFICES ASSUME IdRx(x) # NULL PROVE FALSE
  BY DEF x
<1>10. Len(x) > 2 /\ x[Len(x)] = TICK /\ Undoubled(body).paired /\ ~Undoubled(body).odd
  BY <1>7, <1>8, <1>9, IdRxTicked
<1>11. n > 2 /\ q[n] = TICK
  BY <1>7, <1>8, <1>10
<1>12. /\ body \in Texts /\ Len(body) = n - 2
       /\ \A i \in 1..(n - 2) : body[i] = q[i + 1]
  BY <1>7, <1>8, <1>10 DEF Texts
<1> HIDE DEF body
<1>13. CASE n < m
  <2>1. q[n + 1] = "."
    BY <1>4, <1>5, <1>8, <1>13
  <2>2. n + 1 < m
    <3>1. n + 1 # m
      BY <1>1, <1>6, <2>1
    <3>2. m \in Int /\ n \in Int
      BY <1>4, <1>8
    <3> HIDE DEF m
    <3>3. QED BY <1>13, <3>1, <3>2
  <2>3. n - 1 \in Nat /\ n - 1 >= 1 /\ (n - 1) + 1 <= Len(A) /\ n - 1 \in 1..Len(A) /\ n \in 1..Len(A)
    BY <1>4, <1>8, <1>11, <2>2
  <2>4. A[n - 1] = TICK /\ A[(n - 1) + 1] = "."
    <3>1. q[(n - 1) + 1] = A[n - 1] /\ q[n + 1] = A[n]
      BY <1>6, <2>3
    <3>2. (n - 1) + 1 = n
      BY <1>8
    <3>3. QED BY <1>11, <2>1, <3>1, <3>2
  <2>5. /\ A = SubSeq(A, 1, (n - 1) - 1) \o (<<A[n - 1]>> \o (<<A[(n - 1) + 1]>> \o SubSeq(A, (n - 1) + 2, Len(A))))
        /\ SubSeq(A, 1, (n - 1) - 1) \in Seq(Chars) /\ SubSeq(A, (n - 1) + 2, Len(A)) \in Seq(Chars)
    BY <1>1, <2>3, Cutting
  <2>6. SubSeq(A, 1, (n - 1) - 1) = body
    <3>1. /\ SubSeq(A, 1, (n - 1) - 1) \in Seq(Chars) /\ Len(SubSeq(A, 1, (n - 1) - 1)) = n - 2
          /\ \A i \in 1..(n - 2) : SubSeq(A, 1, (n - 1) - 1)[i] = A[i]
      BY <1>1, <1>4, <2>3
    <3>2. \A i \in 1..(n - 2) : body[i] = A[i]
      <4>1. \A i \in 1..(n - 2) : i \in 1..Len(A)
        BY <1>4, <2>3
      <4>2. QED BY <1>6, <1>12, <4>1
    <3>3. QED BY <1>12, <3>1, <3>2, SeqEqual DEF Texts
  <2> DEFINE v == SubSeq(A, (n - 1) + 2, Len(A))
  <2>7. v \in Texts
    BY <2>5 DEF Texts
  <2>8. A = body \o (<<TICK>> \o (<<".">> \o v))
    BY <2>4, <2>5, <2>6, Zenon
  <2> HIDE DEF v
  <2>9. ~Undoubled(body \o (<<TICK>> \o (<<".">> \o v))).paired
    BY <1>10, <1>12, <2>7, Broken
  <2>10. QED BY <1>3, <2>8, <2>9, Zenon
<1>14. CASE n > m
  <2>1. r # <<>>
    <3>1. Len(r) # 0
      BY <1>5, <1>14
    <3>2. QED BY <3>1, EmptySeq
  <2>2. q[m + 1] = "."
    <3>1. 1 \in 1..Len(r)
      BY <1>4, <1>5, <1>14
    <3>2. QED BY <1>5, <2>1, <3>1
  <2>3. n > m + 1
    BY <1>1, <1>4, <1>8, <1>11, <1>14, <2>2
  <2>4. /\ m - 1 \in Nat /\ m - 1 >= 1 /\ (m - 1) + 1 <= Len(body)
        /\ m - 1 \in 1..(n - 2) /\ m \in 1..(n - 2) /\ (m - 1) + 1 = m
    BY <1>4, <1>8, <1>12, <2>3
  <2>5. body[m - 1] = TICK /\ body[(m - 1) + 1] = "."
    BY <1>6, <1>12, <2>2, <2>4
  <2>6. /\ body = SubSeq(body, 1, (m - 1) - 1)
                    \o (<<body[m - 1]>> \o (<<body[(m - 1) + 1]>> \o SubSeq(body, (m - 1) + 2, Len(body))))
        /\ SubSeq(body, 1, (m - 1) - 1) \in Seq(Chars) /\ SubSeq(body, (m - 1) + 2, Len(body)) \in Seq(Chars)
    BY <1>12, <2>4, Cutting DEF Texts
  <2>7. SubSeq(body, 1, (m - 1) - 1) = A
    <3>1. /\ SubSeq(body, 1, (m - 1) - 1) \in Seq(Chars) /\ Len(SubSeq(body, 1, (m - 1) - 1)) = Len(A)
          /\ \A i \in 1..Len(A) : SubSeq(body, 1, (m - 1) - 1)[i] = body[i]
      BY <1>4, <1>12, <2>4 DEF Texts
    <3>2. \A i \in 1..Len(A) : body[i] = A[i]
      <4>1. \A i \in 1..Len(A) : i \in 1..(n - 2)
        BY <1>4, <1>8, <1>14
      <4>2. QED BY <1>6, <1>12, <4>1
    <3>3. QED BY <1>1, <3>1, <3>2, SeqEqual
  <2> DEFINE v == SubSeq(body, (m - 1) + 2, Len(body))
  <2>8. v \in Texts /\ A \in Texts
    BY <1>1, <2>6 DEF Texts
  <2>9. body = A \o (<<TICK>> \o (<<".">> \o v))
    BY <2>5, <2>6, <2>7, Zenon
  <2> HIDE DEF v
  <2>10. ~Undoubled(A \o (<<TICK>> \o (<<".">> \o v))).paired
    BY <1>3, <2>8, Broken
  <2>11. QED BY <1>10, <2>9, <2>10, Zenon
<1>15. QED BY <1>4, <1>8, <1>13, <1>14 DEF h

(* A text split at one of its dots. *)
SplitAt(s, k) == <<SubSeq(s, 1, k - 1), SubSeq(s, k + 1, Len(s))>>
Dots(s) == {n \in DOMAIN s : s[n] = "." /\ n > 1}

LEMMA ReadingsAre ==
  ASSUME NEW s, NEW p
  PROVE  p \in Readings(s) <=>
           /\ p = <<<<>>, s>> \/ \E k \in Dots(s) : p = SplitAt(s, k)
           /\ p[1] # <<>> => IdRx(p[1]) # NULL
           /\ p[2] # <<>> => IdRx(p[2]) # NULL
<1>1. Readings(s) = {q \in {<<<<>>, s>>} \cup {SplitAt(s, k) : k \in Dots(s)} :
                       \A x \in {q[1], q[2]} : x # <<>> => IdRx(x) # NULL}
  BY Zenon DEF Readings, SplitAt, Dots
<1>2. p \in Readings(s) <=> /\ p \in {<<<<>>, s>>} \cup {SplitAt(s, k) : k \in Dots(s)}
                            /\ \A x \in {p[1], p[2]} : x # <<>> => IdRx(x) # NULL
  BY <1>1, Zenon
<1>3. (\A x \in {p[1], p[2]} : x # <<>> => IdRx(x) # NULL)
        <=> (p[1] # <<>> => IdRx(p[1]) # NULL) /\ (p[2] # <<>> => IdRx(p[2]) # NULL)
  OBVIOUS
<1>4. QED BY <1>2, <1>3, Zenon

(* What is split at a dot behind another place than the first name is read   *)
(* in no way.                                                               *)
LEMMA OtherDot ==
  ASSUME NEW a \in Texts, NEW r \in Texts, r = <<>> \/ r[1] = ".",
         NEW q \in Texts, q = dbQuoteIdentifier(a) \o r,
         NEW k \in Dots(q), k - 1 # Len(dbQuoteIdentifier(a))
  PROVE  SplitAt(q, k) \notin Readings(q)
<1> DEFINE x == SubSeq(q, 1, k - 1)
<1>1. /\ k \in 1..Len(q) /\ q[k] = "." /\ k > 1 /\ Len(q) \in Nat
  BY DEF Dots, Texts
<1>2. /\ k - 1 \in 1..Len(q) /\ (k - 1) + 1 = k
      /\ x \in Seq(Chars) /\ Len(x) = k - 1 /\ Len(x) # 0
  BY <1>1 DEF Texts
<1>3. IdRx(x) = NULL
  <2>1. q[(k - 1) + 1] = "."
    BY <1>1, <1>2
  <2> DEFINE n == k - 1
  <2>2. n \in 1..Len(q) /\ n # Len(dbQuoteIdentifier(a)) /\ q[n + 1] = "."
    BY <1>2, <2>1
  <2> HIDE DEF n
  <2>3. IdRx(SubSeq(q, 1, n)) = NULL
    BY <2>2, OtherPrefix
  <2>4. QED BY <2>3 DEF n
<1>4. x # <<>>
  BY <1>2, EmptySeq
<1>5. SplitAt(q, k)[1] = x
  BY DEF SplitAt
<1> HIDE DEF x
<1>6. QED BY <1>3, <1>4, <1>5, ReadingsAre, Zenon

LEMMA WholeText ==
  ASSUME NEW s \in Texts
  PROVE  SubSeq(s, 1, Len(s)) = s /\ Len(s) \in Nat
<1>1. Len(s) \in Nat /\ s \in Seq(Chars)
  BY DEF Texts
<1>2. /\ SubSeq(s, 1, Len(s)) \in Seq(Chars) /\ Len(SubSeq(s, 1, Len(s))) = Len(s)
      /\ \A i \in 1..Len(s) : SubSeq(s, 1, Len(s))[i] = s[i]
  BY <1>1
<1>3. QED BY <1>1, <1>2, SeqEqual

LEMMA IsName ==
  ASSUME NEW a \in Texts, a # <<>>
  PROVE  /\ dbQuoteIdentifier(a) \in Texts /\ dbQuoteIdentifier(a) # <<>>
         /\ IdRx(dbQuoteIdentifier(a)) = a /\ IdRx(dbQuoteIdentifier(a)) # NULL
<1>1. dbQuoteIdentifier(a) \in Texts
  BY Quoted DEF Texts
<1>2. dbQuoteIdentifier(a) # <<>>
  <2>1. Len(dbQuoteIdentifier(a)) = Len(Spread(Doubling, a)) + 2
    BY Quoted, Characters, Enclosed
  <2>2. Len(Spread(Doubling, a)) \in Nat
    BY Quoted
  <2>3. Len(dbQuoteIdentifier(a)) # 0
    BY <2>1, <2>2
  <2>4. QED BY <2>3, EmptySeq
<1>3. IdRx(dbQuoteIdentifier(a)) = a
  BY IdRxQuoted
<1>4. a # NULL
  BY CharsAssumption DEF Texts
<1>5. QED BY <1>1, <1>2, <1>3, <1>4

(* The name of a table is read in one way. *)
LEMMA ReadingsOfOne ==
  ASSUME NEW a \in Texts, a # <<>>
  PROVE  Readings(dbQuoteIdentifier(a)) = {<<<<>>, dbQuoteIdentifier(a)>>}
<1> DEFINE q == dbQuoteIdentifier(a)
           whole == <<<<>>, q>>
<1>1. q \in Texts /\ q # <<>> /\ IdRx(q) # NULL
  BY IsName
<1>2. whole \in Readings(q)
  <2>1. whole[1] = <<>> /\ whole[2] = q
    OBVIOUS
  <2> HIDE DEF q
  <2>2. QED BY <1>1, <2>1, ReadingsAre
<1>3. ASSUME NEW p \in Readings(q) PROVE p = whole
  <2>1. SUFFICES ASSUME NEW k \in Dots(q), p = SplitAt(q, k) PROVE FALSE
    BY ReadingsAre, Zenon
  <2>2. k - 1 # Len(q)
    BY <1>1 DEF Dots, Texts
  <2>3. q = q \o <<>> /\ <<>> \in Texts
    <3> HIDE DEF q
    <3>1. QED BY <1>1, ConcatEmptySeq, EmptySeq DEF Texts
  <2>4. SplitAt(q, k) \notin Readings(q)
    <3>1. \A r, s \in Texts : \A j \in Dots(s) :
            (r = <<>> \/ r[1] = ".") /\ s = q \o r /\ j - 1 # Len(q) => SplitAt(s, j) \notin Readings(s)
      BY OtherDot
    <3> HIDE DEF q
    <3>2. QED BY <1>1, <2>2, <2>3, <3>1, Zenon
  <2>5. QED BY <2>1, <2>4
<1>4. QED
  <2> HIDE DEF q, whole
  <2>1. Readings(q) = {whole}
    BY <1>2, <1>3
  <2>2. QED BY <2>1 DEF whole, q

(* The names of a schema and a table, too. *)
LEMMA ReadingsOfTwo ==
  ASSUME NEW a \in Texts, NEW b \in Texts, a # <<>>, b # <<>>,
         NEW q, q = dbQuoteIdentifier(a) \o (<<".">> \o dbQuoteIdentifier(b))
  PROVE  Readings(q) = {<<dbQuoteIdentifier(a), dbQuoteIdentifier(b)>>}
<1> DEFINE h == dbQuoteIdentifier(a)
           g == dbQuoteIdentifier(b)
           r == <<".">> \o g
           m == Len(h)
           whole == <<<<>>, q>>
           two == <<h, g>>
<1>1. /\ h \in Texts /\ h # <<>> /\ IdRx(h) # NULL
      /\ g \in Texts /\ g # <<>> /\ IdRx(g) # NULL
  BY IsName
<1>2. /\ r \in Seq(Chars) /\ Len(r) = Len(g) + 1 /\ Len(g) \in Nat /\ r[1] = "."
      /\ \A k \in 1..Len(g) : r[k + 1] = g[k]
  <2> HIDE DEF g
  <2>1. "." \in Chars /\ g \in Seq(Chars)
    BY <1>1, Characters DEF Texts
  <2>2. QED BY <2>1, Prefixed
<1> HIDE DEF r
<1>3. q = h \o r
  BY DEF r
<1>4. /\ q \in Seq(Chars) /\ Len(q) = m + Len(r) /\ m \in Nat /\ m # 0
      /\ \A i \in 1..m : q[i] = h[i]
      /\ \A i \in 1..Len(r) : q[m + i] = r[i]
  <2> HIDE DEF h
  <2>1. h \in Seq(Chars) /\ Len(h) \in Nat /\ Len(h) # 0
    BY <1>1, EmptySeq DEF Texts
  <2>2. r \in Seq(Chars) /\ Len(r) \in Nat
    BY <1>2
  <2>3. /\ h \o r \in Seq(Chars) /\ Len(h \o r) = Len(h) + Len(r)
        /\ \A i \in 1..Len(h) : (h \o r)[i] = h[i]
        /\ \A i \in 1..Len(r) : (h \o r)[Len(h) + i] = r[i]
    BY <2>1, <2>2, ConcatProperties
  <2>4. QED BY <1>3, <2>1, <2>3, Zenon
<1>5. /\ m + 1 \in Dots(q) /\ SplitAt(q, m + 1) = two
  <2> HIDE DEF h, g
  <2>1. 1 \in 1..Len(r) /\ m + 1 \in 1..Len(q) /\ m + 1 > 1 /\ DOMAIN q = 1..Len(q)
    BY <1>2, <1>4
  <2>2. q[m + 1] = "."
    BY <1>2, <1>4, <2>1
  <2>3. m + 1 \in Dots(q)
    BY <2>1, <2>2 DEF Dots
  <2>4. SubSeq(q, 1, m) = h /\ SubSeq(q, m + 1, Len(q)) = r
    <3>1. h \in Seq(Chars) /\ r \in Seq(Chars)
      BY <1>1, <1>2 DEF Texts
    <3>2. /\ SubSeq(h \o r, 1, Len(h)) = h
          /\ SubSeq(h \o r, Len(h) + 1, Len(h \o r)) = r
      BY <3>1, Sections
    <3>3. QED BY <1>3, <3>2, Zenon
  <2>5. SubSeq(q, (m + 1) + 1, Len(q)) = g
    <3>1. /\ SubSeq(q, (m + 1) + 1, Len(q)) \in Seq(Chars)
          /\ Len(SubSeq(q, (m + 1) + 1, Len(q))) = Len(g)
          /\ \A i \in 1..Len(g) : SubSeq(q, (m + 1) + 1, Len(q))[i] = q[m + (i + 1)]
      <4>1. q \in Seq(Chars) /\ Len(q) = (m + 1) + Len(g) /\ m \in Nat /\ Len(g) \in Nat
        BY <1>2, <1>4
      <4> HIDE DEF m
      <4>2. QED BY <4>1
    <3>2. ASSUME NEW i \in 1..Len(g) PROVE q[m + (i + 1)] = g[i]
      <4>1. i + 1 \in 1..Len(r)
        BY <1>2
      <4>2. QED BY <1>2, <1>4, <4>1
    <3>3. g \in Seq(Chars)
      BY <1>1 DEF Texts
    <3>4. QED BY <3>1, <3>2, <3>3, SeqEqual
  <2>6. (m + 1) - 1 = m
    BY <1>4
  <2>7. QED BY <2>3, <2>4, <2>5, <2>6, Zenon DEF SplitAt
<1>6. two \in Readings(q)
  <2>1. two[1] = h /\ two[2] = g
    OBVIOUS
  <2> HIDE DEF h, g, two
  <2>2. QED BY <1>1, <1>5, <2>1, ReadingsAre, Zenon
<1>7. whole \notin Readings(q)
  <2>1. whole[2] = q
    OBVIOUS
  <2>2. Len(q) \in Nat /\ Len(q) # 0 /\ Len(q) # m /\ Len(q) \in 1..Len(q)
    <3> HIDE DEF h, g
    <3>1. QED BY <1>2, <1>4
  <2>3. q # <<>>
    BY <2>2, EmptySeq
  <2>4. IdRx(SubSeq(q, 1, Len(q))) = NULL
    <3>1. r \in Texts /\ q \in Texts
      BY <1>2, <1>4 DEF Texts
    <3>2. \A n \in 1..Len(q) : n # Len(h) /\ n = Len(q) => IdRx(SubSeq(q, 1, n)) = NULL
      BY <1>2, <1>3, <3>1, OtherPrefix
    <3> HIDE DEF h
    <3>3. QED BY <2>2, <3>2
  <2>5. IdRx(q) = NULL
    <3>1. SubSeq(q, 1, Len(q)) = q
      BY <1>4, WholeText DEF Texts
    <3>2. QED BY <2>4, <3>1, Zenon
  <2> HIDE DEF whole
  <2>6. QED BY <2>1, <2>3, <2>5, ReadingsAre, Zenon
<1>8. ASSUME NEW p \in Readings(q) PROVE p = two
  <2>1. PICK k \in Dots(q) : p = SplitAt(q, k)
    BY <1>7, ReadingsAre, Zenon
  <2>2. CASE k - 1 = m
    <3>1. k = m + 1
      BY <1>4, <2>2 DEF Dots
    <3>2. QED BY <1>5, <2>1, <3>1, Zenon
  <2>3. CASE k - 1 # m
    <3>1. r \in Texts /\ q \in Texts
      BY <1>2, <1>4 DEF Texts
    <3>2. \A j \in Dots(q) : j - 1 # Len(h) => SplitAt(q, j) \notin Readings(q)
      BY <1>2, <1>3, <3>1, OtherDot
    <3> HIDE DEF h
    <3>3. QED BY <2>1, <2>3, <3>2
  <2>4. QED BY <2>2, <2>3
<1>9. QED
  <2> HIDE DEF h, g, two
  <2>1. Readings(q) = {two}
    BY <1>6, <1>8
  <2>2. QED BY <2>1 DEF two, h, g

LEMMA FlattenOne ==
  ASSUME NEW S, NEW f \in Seq(Seq(S)), Len(f) = 1
  PROVE  FlattenSeq(f) = f[1]
<1>1. <<>> \in Seq(Seq(S)) /\ Len(<<>>) = 0 /\ f[1] \in Seq(S)
  OBVIOUS
<1>2. Len(f) = Len(<<>>) + 1 /\ \A i \in 1..Len(<<>>) : f[i] = <<>>[i]
  BY <1>1
<1>3. FlattenSeq(f) = FlattenSeq(<<>>) \o f[Len(f)]
  <2> DEFINE e == <<>>
  <2>1. e \in Seq(Seq(S)) /\ Len(f) = Len(e) + 1 /\ \A i \in 1..Len(e) : f[i] = e[i]
    BY <1>1, <1>2
  <2> HIDE DEF e
  <2>2. FlattenSeq(f) = FlattenSeq(e) \o f[Len(f)]
    BY <2>1, FlattenLast
  <2>3. QED BY <2>2 DEF e
<1>4. FlattenSeq(<<>>) = <<>>
  BY <1>1, FlattenEmpty
<1>5. <<>> \o f[1] = f[1]
  BY <1>1, ConcatEmptySeq
<1>6. QED BY <1>3, <1>4, <1>5, Zenon

LEMMA FlattenPair ==
  ASSUME NEW S, NEW f \in Seq(Seq(S)), Len(f) = 2
  PROVE  FlattenSeq(f) = f[1] \o f[2]
<1> DEFINE u == <<f[1]>>
<1>1. f[1] \in Seq(S) /\ f[2] \in Seq(S)
  OBVIOUS
<1>2. u \in Seq(Seq(S)) /\ Len(u) = 1 /\ u[1] = f[1]
  BY <1>1
<1> HIDE DEF u
<1>3. FlattenSeq(u) = f[1]
  BY <1>2, FlattenOne
<1>4. Len(f) = Len(u) + 1 /\ \A i \in 1..Len(u) : f[i] = u[i]
  BY <1>2
<1>5. FlattenSeq(f) = FlattenSeq(u) \o f[Len(f)]
  BY <1>2, <1>4, FlattenLast
<1>6. QED BY <1>3, <1>5, Zenon

(* What dbUnquoteIdentifier() makes of a reading. *)
Unquoted(p) == [k \in 1..2 |-> IF p[k] = <<>> THEN <<>> ELSE <<IdRx(p[k])>>]

LEMMA UnquotedOnly ==
  ASSUME NEW s, NEW p, Readings(s) = {p}
  PROVE  dbUnquoteIdentifier(s) = FlattenSeq(Unquoted(p))
<1>1. Readings(s) # {} /\ (CHOOSE q \in Readings(s) : TRUE) = p
  OBVIOUS
<1>2. QED BY <1>1, Zenon DEF dbUnquoteIdentifier, Unquoted

LEMMA UnquotedOne ==
  ASSUME NEW id \in Seq(Texts \ {<<>>}), id # <<>>, Len(Parts(id)) = 1
  PROVE  /\ dbUnquoteIdentifier(dbQuoteId(id)) = Parts(id)
         /\ \A p, q \in Readings(dbQuoteId(id)) : p = q
<1> DEFINE s == Parts(id)
           a == s[1]
           h == dbQuoteIdentifier(a)
           whole == <<<<>>, h>>
           f == Unquoted(whole)
<1>1. s \in Seq(Texts) /\ Len(s) = 1 /\ a \in Texts /\ a # <<>>
  BY PartsTyped
<1>2. h \in Texts /\ h # <<>> /\ IdRx(h) = a
  BY <1>1, IsName
<1>3. dbQuoteId(id) = h
  <2>1. dbQuoteId(id) = FlattenSeq(Dotted(s))
    BY Zenon DEF dbQuoteId, Dotted, DottedPart
  <2>2. Dotted(s) \in Seq(Seq(Chars)) /\ Len(Dotted(s)) = 1 /\ Dotted(s)[1] = DottedPart(1, a)
    <3> HIDE DEF s
    <3>1. QED BY <1>1, DottedTyped
  <2>3. FlattenSeq(Dotted(s)) = Dotted(s)[1]
    <3> HIDE DEF s
    <3>1. QED BY <2>2, FlattenOne
  <2>4. DottedPart(1, a) = h
    <3> HIDE DEF a
    <3>1. h \in Seq(Chars)
      BY <1>2 DEF Texts
    <3>2. DottedPart(1, a) = <<>> \o h
      BY DEF DottedPart
    <3> HIDE DEF h
    <3>3. QED BY <3>1, <3>2, ConcatEmptySeq
  <2>5. QED BY <2>1, <2>2, <2>3, <2>4, Zenon
<1>4. Readings(h) = {whole}
  <2> HIDE DEF a
  <2>1. QED BY <1>1, ReadingsOfOne
<1>5. FlattenSeq(f) = s
  <2>1. whole[1] = <<>> /\ whole[2] = h
    OBVIOUS
  <2> HIDE DEF h, whole
  <2>2. f[1] = <<>> /\ f[2] = <<a>>
    BY <1>2, <2>1 DEF Unquoted
  <2>3. f = [k \in 1..2 |-> f[k]]
    BY DEF Unquoted
  <2> HIDE DEF a, f
  <2>4. <<a>> \in Seq(Texts) /\ <<>> \in Seq(Texts)
    BY <1>1
  <2>5. f \in Seq(Seq(Texts)) /\ Len(f) = 2
    <3>1. ASSUME NEW k \in 1..2 PROVE f[k] \in Seq(Texts)
      <4>1. k = 1 \/ k = 2
        OBVIOUS
      <4>2. QED BY <2>2, <2>4, <4>1
    <3>2. QED BY <2>3, <3>1
  <2>6. FlattenSeq(f) = <<>> \o <<a>>
    BY <2>2, <2>5, FlattenPair
  <2>7. <<>> \o <<a>> = <<a>>
    BY <2>4, ConcatEmptySeq
  <2>8. s = <<a>>
    <3> HIDE DEF s
    <3>1. QED BY <1>1 DEF a
  <2>9. QED BY <2>6, <2>7, <2>8, Zenon
<1>6. dbUnquoteIdentifier(h) = FlattenSeq(f)
  <2> HIDE DEF h, whole
  <2>1. QED BY <1>4, UnquotedOnly
<1>7. QED
  <2> HIDE DEF s, a, h, whole, f
  <2>1. dbUnquoteIdentifier(dbQuoteId(id)) = s
    BY <1>3, <1>5, <1>6, Zenon
  <2>2. \A p, q \in Readings(dbQuoteId(id)) : p = q
    BY <1>3, <1>4
  <2>3. QED BY <2>1, <2>2 DEF s

LEMMA UnquotedTwo ==
  ASSUME NEW id \in Seq(Texts \ {<<>>}), id # <<>>, Len(Parts(id)) = 2
  PROVE  /\ dbUnquoteIdentifier(dbQuoteId(id)) = Parts(id)
         /\ \A p, q \in Readings(dbQuoteId(id)) : p = q
<1> DEFINE s == Parts(id)
           a == s[1]
           b == s[2]
           h == dbQuoteIdentifier(a)
           g == dbQuoteIdentifier(b)
           two == <<h, g>>
           f == Unquoted(two)
           t == h \o (<<".">> \o g)
<1>1. s \in Seq(Texts) /\ Len(s) = 2 /\ a \in Texts /\ a # <<>> /\ b \in Texts /\ b # <<>>
  <2>1. s \in Seq(Texts \ {<<>>}) /\ s \in Seq(Texts) /\ Len(s) = 2
    BY PartsTyped
  <2> HIDE DEF s
  <2>2. 1 \in 1..Len(s) /\ 2 \in 1..Len(s)
    BY <2>1
  <2>3. \A i \in 1..Len(s) : s[i] \in Texts \ {<<>>}
    <3> DEFINE N == Texts \ {<<>>}
    <3>1. s \in Seq(N)
      BY <2>1
    <3> HIDE DEF N
    <3>2. \A i \in 1..Len(s) : s[i] \in N
      BY <3>1
    <3>3. QED BY <3>2 DEF N
  <2>4. QED BY <2>1, <2>2, <2>3
<1>2. h \in Texts /\ h # <<>> /\ IdRx(h) = a /\ g \in Texts /\ g # <<>> /\ IdRx(g) = b
  BY <1>1, IsName
<1>3. dbQuoteId(id) = t
  <2>1. dbQuoteId(id) = FlattenSeq(Dotted(s))
    BY Zenon DEF dbQuoteId, Dotted, DottedPart
  <2>2. /\ Dotted(s) \in Seq(Seq(Chars)) /\ Len(Dotted(s)) = 2
        /\ Dotted(s)[1] = DottedPart(1, a) /\ Dotted(s)[2] = DottedPart(2, b)
    <3> HIDE DEF s
    <3>1. QED BY <1>1, DottedTyped
  <2>3. FlattenSeq(Dotted(s)) = Dotted(s)[1] \o Dotted(s)[2]
    <3> HIDE DEF s
    <3>1. QED BY <2>2, FlattenPair
  <2>4. DottedPart(1, a) = h
    <3> HIDE DEF a
    <3>1. h \in Seq(Chars)
      BY <1>2 DEF Texts
    <3>2. DottedPart(1, a) = <<>> \o h
      BY DEF DottedPart
    <3> HIDE DEF h
    <3>3. QED BY <3>1, <3>2, ConcatEmptySeq
  <2>5. DottedPart(2, b) = <<".">> \o g
    BY DEF DottedPart
  <2>6. QED BY <2>1, <2>2, <2>3, <2>4, <2>5, Zenon
<1>4. Readings(t) = {two}
  <2> HIDE DEF a, b, t
  <2>1. QED BY <1>1, ReadingsOfTwo DEF t
<1>5. FlattenSeq(f) = s
  <2>1. two[1] = h /\ two[2] = g
    OBVIOUS
  <2> HIDE DEF h, g, two
  <2>2. f[1] = <<a>> /\ f[2] = <<b>>
    BY <1>2, <2>1 DEF Unquoted
  <2>3. f = [k \in 1..2 |-> f[k]]
    BY DEF Unquoted
  <2> HIDE DEF a, b, f
  <2>4. <<a>> \in Seq(Texts) /\ <<b>> \in Seq(Texts)
    BY <1>1
  <2>5. f \in Seq(Seq(Texts)) /\ Len(f) = 2
    <3>1. ASSUME NEW k \in 1..2 PROVE f[k] \in Seq(Texts)
      <4>1. k = 1 \/ k = 2
        OBVIOUS
      <4>2. QED BY <2>2, <2>4, <4>1
    <3>2. QED BY <2>3, <3>1
  <2>6. FlattenSeq(f) = <<a>> \o <<b>>
    BY <2>2, <2>5, FlattenPair
  <2>7. <<a>> \o <<b>> = s
    <3> DEFINE w == <<a>> \o <<b>>
    <3>1. /\ w \in Seq(Texts) /\ Len(w) = Len(<<a>>) + 1
          /\ \A i \in 1..Len(<<a>>) : w[i] = <<a>>[i]
          /\ w[Len(<<a>>) + 1] = b
      BY <1>1, <2>4, GrowProperties
    <3>2. Len(<<a>>) = 1 /\ <<a>>[1] = a
      OBVIOUS
    <3>3. Len(w) = 2 /\ w[1] = a /\ w[2] = b /\ w \in Seq(Texts)
      BY <3>1, <3>2
    <3> HIDE DEF w, s
    <3>4. w = s
      <4>1. ASSUME NEW i \in 1..2 PROVE w[i] = s[i]
        BY <3>3 DEF a, b
      <4>2. QED BY <1>1, <3>3, <4>1, SeqEqual
    <3>5. QED BY <3>4 DEF w
  <2>8. QED BY <2>6, <2>7, Zenon
<1>6. dbUnquoteIdentifier(t) = FlattenSeq(f)
  <2> HIDE DEF t, two
  <2>1. QED BY <1>4, UnquotedOnly
<1>7. QED
  <2> HIDE DEF s, a, b, h, g, two, f, t
  <2>1. dbUnquoteIdentifier(dbQuoteId(id)) = s
    BY <1>3, <1>5, <1>6, Zenon
  <2>2. \A p, q \in Readings(dbQuoteId(id)) : p = q
    BY <1>3, <1>4
  <2>3. QED BY <2>1, <2>2 DEF s

-----------------------------------------------------------------------------
(* What is quoted in every call *)

LEMMA CallStays == Spec => [](call \in Calls)
<1>1. Init => call \in Calls
  BY DEF Init
<1>2. call \in Calls /\ [Next]_vars => (call \in Calls)'
  BY DEF Next, CreateTable, WriteFile, LoadData, InsertRows, vars
<1>3. QED BY <1>1, <1>2, PTL DEF Spec

(* Whatever the parts of a name are, the server reads the quoted name as     *)
(* these parts, and dbUnquoteIdentifier() reads it in one way, as these.     *)
THEOREM NamesKept == Spec => []NameKept
<1>1. ASSUME call \in Calls PROVE NameKept
  <2>1. call.name \in Seq(Texts \ {<<>>}) /\ call.name # <<>>
    BY <1>1, CallsAssumption DEF Texts
  <2> DEFINE id == call.name
  <2> HIDE DEF id
  <2>2. id \in Seq(Texts \ {<<>>}) /\ id # <<>>
    BY <2>1 DEF id
  <2>3. ReadName(dbQuoteId(id)) = Parts(id)
    BY <2>2, NameRead
  <2>4. ASSUME Len(Parts(id)) <= 2
        PROVE  /\ dbUnquoteIdentifier(dbQuoteId(id)) = Parts(id)
               /\ \A p, q \in Readings(dbQuoteId(id)) : p = q
    <3>1. Parts(id) \in Seq(Texts) /\ Parts(id) # <<>>
      BY <2>2, PartsTyped
    <3>2. Len(Parts(id)) \in Nat /\ Len(Parts(id)) # 0
      BY <3>1, EmptySeq
    <3>3. Len(Parts(id)) = 1 \/ Len(Parts(id)) = 2
      <4> DEFINE n == Len(Parts(id))
      <4>1. n \in Nat /\ n # 0 /\ n <= 2
        BY <2>4, <3>2
      <4> HIDE DEF n
      <4>2. n = 1 \/ n = 2
        BY <4>1
      <4>3. QED BY <4>2 DEF n
    <3>4. QED BY <2>2, <3>3, UnquotedOne, UnquotedTwo
  <2>5. QED BY <2>3, <2>4, Zenon DEF NameKept, id
<1>2. QED BY <1>1, CallStays, PTL

(* Whatever the path is, the server reads the quoted path as that path, and  *)
(* what is written stays in the buffer.                                     *)
THEOREM LiteralsKept == Spec => []LiteralKept
<1>1. ASSUME call \in Calls PROVE LiteralKept
  <2>1. call.path \in Texts
    BY <1>1, CallsAssumption DEF Texts
  <2>2. QED BY <2>1, LiteralRead, Zenon DEF LiteralKept
<1>2. QED BY <1>1, CallStays, PTL

-----------------------------------------------------------------------------
(* Texts in the file *)

Escapings == Chars \X Chars
EscapeStates == Texts
EscapeNext == [p \in EscapeStates \X Escapings |-> EscapeStep(p[1], p[2])]

(* Replacing one character by a backslash and another. *)
Slashing(e) == Replacing(e[1], <<BS, e[2]>>)

LEMMA SlashingTyped ==
  ASSUME NEW e \in Escapings
  PROVE  /\ Slashing(e) \in [Chars -> Seq(Chars)]
         /\ Slashing(e)[e[1]] = <<BS, e[2]>>
         /\ \A c \in Chars : c # e[1] => Slashing(e)[c] = <<c>>
<1>1. BS \in Chars /\ e[1] \in Chars /\ e[2] \in Chars
  BY Characters DEF Escapings
<1>2. <<BS, e[2]>> \in Seq(Chars)
  BY <1>1, OneOrTwo
<1> DEFINE x == e[1]
           w == <<BS, e[2]>>
<1>3. x \in Chars /\ w \in Seq(Chars)
  BY <1>1, <1>2
<1> HIDE DEF x, w
<1>4. /\ Replacing(x, w) \in [Chars -> Seq(Chars)]
      /\ \A z \in Chars : Replacing(x, w)[z] = IF z = x THEN w ELSE <<z>>
  BY <1>3, ReplacingTyped
<1>5. /\ Replacing(x, w)[x] = w
      /\ \A z \in Chars : z # x => Replacing(x, w)[z] = <<z>>
  BY <1>3, <1>4, Zenon
<1>6. QED BY <1>4, <1>5 DEF Slashing, x, w

LEMMA EscapeStepIs ==
  ASSUME NEW st \in EscapeStates, NEW e \in Escapings
  PROVE  EscapeStep(st, e) = Spread(Slashing(e), st) /\ EscapeStep(st, e) \in EscapeStates
<1>1. EscapeStep(st, e) = Spread(Slashing(e), st)
  BY GsubIsSpread, Zenon DEF EscapeStep, Slashing, EscapeStates
<1>2. Spread(Slashing(e), st) \in Texts
  BY SlashingTyped, SpreadTyped DEF EscapeStates, Texts
<1>3. QED BY <1>1, <1>2 DEF EscapeStates

LEMMA EscapeStepTyped ==
  ASSUME NEW st \in EscapeStates, NEW c \in Escapings
  PROVE  EscapeStep(st, c) \in EscapeStates
BY EscapeStepIs

LEMMA EscapeNextTyped ==
  /\ EscapeNext \in [EscapeStates \X Escapings -> EscapeStates]
  /\ \A st \in EscapeStates, c \in Escapings : EscapeNext[<<st, c>>] = EscapeStep(st, c)
<1>1. \A p \in EscapeStates \X Escapings : EscapeStep(p[1], p[2]) \in EscapeStates
  BY EscapeStepTyped
<1>2. QED BY <1>1 DEF EscapeNext

LEMMA EscapeRun ==
  ASSUME NEW base \in EscapeStates, NEW s \in Seq(Escapings)
  PROVE  FoldLeft(EscapeStep, base, s) = Run(EscapeNext, base, s)
<1> DEFINE Fold(h) == h = [t \in SUBSET DOMAIN s |->
                             IF t = {} THEN base ELSE EscapeStep(h[t \ {Max(t)}], s[Max(t)])]
           g == CHOOSE h : Fold(h)
<1>1. \E h : Fold(h)
  <2>1. PICK h : Solves(h, EscapeNext, base, s, EscapeStates, Escapings)
    BY EscapeNextTyped, FoldExists
  <2>2. ASSUME NEW t \in SUBSET DOMAIN s
        PROVE  h[t] = IF t = {} THEN base ELSE EscapeStep(h[t \ {Max(t)}], s[Max(t)])
    BY <2>1, EscapeNextTyped, Zenon DEF Solves
  <2>3. [t \in SUBSET DOMAIN s |-> h[t]]
          = [t \in SUBSET DOMAIN s |->
               IF t = {} THEN base ELSE EscapeStep(h[t \ {Max(t)}], s[Max(t)])]
    BY <2>2, Zenon
  <2>4. QED BY <2>1, <2>3, Zenon DEF Solves
<1>2. Fold(g)
  BY <1>1, Zenon
<1>3. FoldLeft(EscapeStep, base, s) = g[DOMAIN s]
  BY Zenon DEF FoldLeft, MapThenFoldSet
<1> HIDE DEF g
<1>4. \A t \in SUBSET DOMAIN s :
        g[t] = IF t = {} THEN base ELSE EscapeStep(g[t \ {Max(t)}], s[Max(t)])
  BY <1>2, Zenon
<1>5. Takes(g, EscapeNext, base, s, EscapeStates, Escapings)
  <2>1. {} \in SUBSET DOMAIN s
    OBVIOUS
  <2>2. QED BY <2>1, <1>4, EscapeNextTyped, Zenon DEF Takes
<1>6. g[DOMAIN s] = Run(EscapeNext, base, s)
  BY <1>5, FoldEnds
<1>7. QED BY <1>3, <1>6

LEMMA SpreadOne ==
  ASSUME NEW S, NEW R, NEW m \in [S -> Seq(R)], NEW c \in S
  PROVE  Spread(m, <<c>>) = m[c]
<1>1. <<>> \in Seq(S) /\ <<c>> \in Seq(S) /\ m[c] \in Seq(R)
  OBVIOUS
<1>2. <<>> \o <<c>> = <<c>> /\ <<>> \o m[c] = m[c]
  BY <1>1, ConcatEmptySeq
<1>3. Spread(m, <<>> \o <<c>>) = Spread(m, <<>>) \o m[c]
  BY <1>1, SpreadGrow
<1>4. Spread(m, <<>>) = <<>>
  BY SpreadEmpty
<1>5. QED BY <1>2, <1>3, <1>4, Zenon

LEMMA TwoIsGrown ==
  ASSUME NEW S, NEW c \in S, NEW d \in S
  PROVE  <<c>> \o <<d>> = <<c, d>>
<1>1. /\ <<c>> \in Seq(S) /\ Len(<<c>>) = 1 /\ <<c>>[1] = c
      /\ <<c, d>> \in Seq(S) /\ Len(<<c, d>>) = 2 /\ <<c, d>>[1] = c /\ <<c, d>>[2] = d
  OBVIOUS
<1> DEFINE w == <<c>> \o <<d>>
<1>2. w \in Seq(S) /\ Len(w) = 2 /\ w[1] = c /\ w[2] = d
  BY <1>1, GrowProperties
<1> HIDE DEF w
<1>3. ASSUME NEW i \in 1..2 PROVE w[i] = <<c, d>>[i]
  BY <1>1, <1>2
<1>4. w = <<c, d>>
  BY <1>1, <1>2, <1>3, SeqEqual
<1>5. QED BY <1>4 DEF w

(* What is not replaced stays. *)
LEMMA SpreadSame ==
  ASSUME NEW S, NEW m \in [S -> Seq(S)], NEW c \in S, NEW d \in S, m[c] = <<c>>, m[d] = <<d>>
  PROVE  Spread(m, <<c>>) = <<c>> /\ Spread(m, <<c, d>>) = <<c, d>>
<1>1. Spread(m, <<c>>) = <<c>>
  BY SpreadOne
<1>2. <<c>> \in Seq(S)
  OBVIOUS
<1>3. Spread(m, <<c>> \o <<d>>) = Spread(m, <<c>>) \o m[d]
  BY <1>2, SpreadGrow
<1>4. <<c>> \o <<d>> = <<c, d>>
  BY TwoIsGrown
<1>5. QED BY <1>1, <1>3, <1>4, Zenon

LEMMA SpreadPlain ==
  ASSUME NEW S, NEW P, P \subseteq S, NEW m \in [S -> Seq(S)], \A c \in P : m[c] = <<c>>,
         NEW s \in Seq(P)
  PROVE  Spread(m, s) = s
<1> DEFINE T == {u \in Seq(P) : Spread(m, u) = u}
<1>1. <<>> \in T
  BY SpreadEmpty, EmptySeq
<1>2. ASSUME NEW u \in Seq(P), NEW c \in P, u \in T
      PROVE  u \o <<c>> \in T
  <2>1. u \in Seq(S) /\ c \in S
    OBVIOUS
  <2>2. Spread(m, u \o <<c>>) = Spread(m, u) \o m[c]
    BY <2>1, SpreadGrow
  <2>3. Spread(m, u) = u /\ m[c] = <<c>>
    BY <1>2
  <2>4. u \o <<c>> \in Seq(P)
    BY GrowProperties
  <2>5. Spread(m, u \o <<c>>) = u \o <<c>>
    BY <2>2, <2>3, Zenon
  <2>6. QED BY <2>4, <2>5
<1>3. \A u \in Seq(P) : u \in T
  <2> HIDE DEF T
  <2>1. QED BY <1>1, <1>2, GrowInduction
<1>4. QED BY <1>3

(* One after the other, the four are one replacement: a backslash that one   *)
(* of them has put there is not replaced again.                             *)
Quoting == [c \in Chars |-> Spread(Slashing(<<LF, "n">>), Spread(Slashing(<<CR, "r">>),
                              Spread(Slashing(<<TAB, "t">>), Slashing(<<BS, BS>>)[c])))]

LEMMA Slashings ==
  /\ <<BS, BS>> \in Escapings /\ <<TAB, "t">> \in Escapings
  /\ <<CR, "r">> \in Escapings /\ <<LF, "n">> \in Escapings
BY Characters DEF Escapings

(* A replacement of x, named, so that the provers take it as a whole. *)
Slashes(m, x, y) ==
    /\ m \in [Chars -> Seq(Chars)] /\ m[x] = <<BS, y>> /\ Spread(m, <<x>>) = <<BS, y>>
    /\ \A c \in Chars : c # x => m[c] = <<c>> /\ Spread(m, <<c>>) = <<c>>
    /\ \A c, d \in Chars : c # x /\ d # x => Spread(m, <<c, d>>) = <<c, d>>

LEMMA SlashingOf ==
  ASSUME NEW x \in Chars, NEW y \in Chars
  PROVE  Slashes(Slashing(<<x, y>>), x, y)
<1> DEFINE m == Slashing(<<x, y>>)
<1>1. <<x, y>> \in Escapings /\ <<x, y>>[1] = x /\ <<x, y>>[2] = y
  BY DEF Escapings
<1>2. m \in [Chars -> Seq(Chars)] /\ m[x] = <<BS, y>> /\ \A c \in Chars : c # x => m[c] = <<c>>
  <2> DEFINE e == <<x, y>>
  <2>1. e \in Escapings /\ e[1] = x /\ e[2] = y
    BY <1>1
  <2> HIDE DEF e
  <2>2. /\ Slashing(e) \in [Chars -> Seq(Chars)] /\ Slashing(e)[e[1]] = <<BS, e[2]>>
        /\ \A c \in Chars : c # e[1] => Slashing(e)[c] = <<c>>
    BY <2>1, SlashingTyped
  <2>3. /\ Slashing(e) \in [Chars -> Seq(Chars)] /\ Slashing(e)[x] = <<BS, y>>
        /\ \A c \in Chars : c # x => Slashing(e)[c] = <<c>>
    BY <2>1, <2>2, Zenon
  <2>4. QED BY <2>3 DEF e
<1> HIDE DEF m
<1>3. Spread(m, <<x>>) = <<BS, y>>
  BY <1>2, SpreadOne
<1>4. ASSUME NEW c \in Chars, NEW d \in Chars, c # x, d # x
      PROVE  Spread(m, <<c>>) = <<c>> /\ Spread(m, <<c, d>>) = <<c, d>>
  <2>1. m[c] = <<c>> /\ m[d] = <<d>>
    BY <1>2, <1>4
  <2>2. QED BY <1>2, <2>1, SpreadSame
<1>5. Slashes(m, x, y)
  BY <1>2, <1>3, <1>4 DEF Slashes
<1>6. QED BY <1>5 DEF m

LEMMA SlashesOne ==
  ASSUME NEW m, NEW x, NEW y, Slashes(m, x, y), NEW z \in Chars, z # x
  PROVE  m[z] = <<z>> /\ Spread(m, <<z>>) = <<z>>
BY DEF Slashes

LEMMA SlashesTwo ==
  ASSUME NEW m, NEW x, NEW y, Slashes(m, x, y), NEW z \in Chars, z # x, NEW w \in Chars, w # x
  PROVE  Spread(m, <<z, w>>) = <<z, w>>
BY DEF Slashes

LEMMA FourSlashes ==
  /\ Slashes(Slashing(<<BS, BS>>), BS, BS) /\ Slashes(Slashing(<<TAB, "t">>), TAB, "t")
  /\ Slashes(Slashing(<<CR, "r">>), CR, "r") /\ Slashes(Slashing(<<LF, "n">>), LF, "n")
<1>1. /\ BS \in Chars /\ TAB \in Chars /\ CR \in Chars /\ LF \in Chars
      /\ "n" \in Chars /\ "t" \in Chars /\ "r" \in Chars
  BY Characters
<1>2. QED BY <1>1, SlashingOf, Zenon

LEMMA QuotingIs ==
  /\ Quoting \in [Chars -> Seq(Chars)]
  /\ Quoting[BS] = <<BS, BS>> /\ Quoting[TAB] = <<BS, "t">>
  /\ Quoting[CR] = <<BS, "r">> /\ Quoting[LF] = <<BS, "n">>
  /\ \A c \in Chars : c \notin {BS, TAB, CR, LF} => Quoting[c] = <<c>>
<1> DEFINE m1 == Slashing(<<BS, BS>>)
           m2 == Slashing(<<TAB, "t">>)
           m3 == Slashing(<<CR, "r">>)
           m4 == Slashing(<<LF, "n">>)
<1>0. /\ BS \in Chars /\ TAB \in Chars /\ CR \in Chars /\ LF \in Chars
      /\ "n" \in Chars /\ "t" \in Chars /\ "r" \in Chars
  BY Characters
<1>1. /\ Slashes(m1, BS, BS) /\ Slashes(m2, TAB, "t")
      /\ Slashes(m3, CR, "r") /\ Slashes(m4, LF, "n")
  BY FourSlashes
<1>5. \A c \in Chars : Quoting[c] = Spread(m4, Spread(m3, Spread(m2, m1[c])))
  BY DEF Quoting
<1>6. Quoting = [c \in Chars |-> Quoting[c]]
  BY DEF Quoting
<1> HIDE DEF m1, m2, m3, m4
<1>7. Quoting[BS] = <<BS, BS>>
  <2>1. BS # TAB /\ BS # CR /\ BS # LF
    BY Different
  <2>2. m1[BS] = <<BS, BS>>
    BY <1>1, Zenon DEF Slashes
  <2>3. Spread(m2, <<BS, BS>>) = <<BS, BS>>
    BY <1>0, <1>1, <2>1, SlashesTwo
  <2>4. Spread(m3, <<BS, BS>>) = <<BS, BS>>
    BY <1>0, <1>1, <2>1, SlashesTwo
  <2>5. Spread(m4, <<BS, BS>>) = <<BS, BS>>
    BY <1>0, <1>1, <2>1, SlashesTwo
  <2>6. QED BY <1>0, <1>5, <2>2, <2>3, <2>4, <2>5, Zenon
<1>8. Quoting[TAB] = <<BS, "t">>
  <2>1. TAB # BS /\ BS # CR /\ "t" # CR /\ BS # LF /\ "t" # LF
    BY Different
  <2>2. m1[TAB] = <<TAB>>
    <3>1. TAB \in Chars /\ TAB # BS /\ Slashes(m1, BS, BS)
      BY <1>0, <1>1, <2>1
    <3>2. QED BY <3>1, Zenon DEF Slashes
  <2>3. Spread(m2, <<TAB>>) = <<BS, "t">>
    BY <1>1, Zenon DEF Slashes
  <2>4. Spread(m3, <<BS, "t">>) = <<BS, "t">>
    BY <1>0, <1>1, <2>1, SlashesTwo
  <2>5. Spread(m4, <<BS, "t">>) = <<BS, "t">>
    BY <1>0, <1>1, <2>1, SlashesTwo
  <2>6. QED BY <1>0, <1>5, <2>2, <2>3, <2>4, <2>5, Zenon
<1>9. Quoting[CR] = <<BS, "r">>
  <2>1. CR # BS /\ CR # TAB /\ BS # LF /\ "r" # LF
    BY Different
  <2>2. m1[CR] = <<CR>>
    BY <1>0, <1>1, <2>1, SlashesOne
  <2>3. Spread(m2, <<CR>>) = <<CR>>
    BY <1>0, <1>1, <2>1, SlashesOne
  <2>4. Spread(m3, <<CR>>) = <<BS, "r">>
    BY <1>1, Zenon DEF Slashes
  <2>5. Spread(m4, <<BS, "r">>) = <<BS, "r">>
    BY <1>0, <1>1, <2>1, SlashesTwo
  <2>6. QED BY <1>0, <1>5, <2>2, <2>3, <2>4, <2>5, Zenon
<1>10. Quoting[LF] = <<BS, "n">>
  <2>1. LF # BS /\ LF # TAB /\ LF # CR
    BY Different
  <2>2. m1[LF] = <<LF>>
    BY <1>0, <1>1, <2>1, SlashesOne
  <2>3. Spread(m2, <<LF>>) = <<LF>>
    BY <1>0, <1>1, <2>1, SlashesOne
  <2>4. Spread(m3, <<LF>>) = <<LF>>
    BY <1>0, <1>1, <2>1, SlashesOne
  <2>5. Spread(m4, <<LF>>) = <<BS, "n">>
    BY <1>1, Zenon DEF Slashes
  <2>6. QED BY <1>0, <1>5, <2>2, <2>3, <2>4, <2>5, Zenon
<1>11. ASSUME NEW c \in Chars, c \notin {BS, TAB, CR, LF}
       PROVE  Quoting[c] = <<c>>
  <2>1. c # BS /\ c # TAB /\ c # CR /\ c # LF /\ c \in Chars
    BY <1>11
  <2>2. m1[c] = <<c>>
    BY <1>1, <2>1, SlashesOne
  <2>3. Spread(m2, <<c>>) = <<c>>
    BY <1>1, <2>1, SlashesOne
  <2>4. Spread(m3, <<c>>) = <<c>>
    BY <1>1, <2>1, SlashesOne
  <2>5. Spread(m4, <<c>>) = <<c>>
    BY <1>1, <2>1, SlashesOne
  <2>6. QED BY <1>5, <2>1, <2>2, <2>3, <2>4, <2>5, Zenon
<1>12. \A c \in Chars : Quoting[c] \in Seq(Chars)
  <2> TAKE c \in Chars
  <2>0. /\ m1 \in [Chars -> Seq(Chars)] /\ m2 \in [Chars -> Seq(Chars)]
        /\ m3 \in [Chars -> Seq(Chars)] /\ m4 \in [Chars -> Seq(Chars)]
    BY <1>1, Zenon DEF Slashes
  <2> DEFINE a == m1[c]
             b == Spread(m2, a)
             f == Spread(m3, b)
  <2>1. a \in Seq(Chars)
    BY <2>0
  <2> HIDE DEF a
  <2>2. b \in Seq(Chars)
    BY <2>0, <2>1, SpreadTyped
  <2> HIDE DEF b
  <2>3. f \in Seq(Chars)
    BY <2>0, <2>2, SpreadTyped
  <2> HIDE DEF f
  <2>4. Spread(m4, f) \in Seq(Chars)
    BY <2>0, <2>3, SpreadTyped
  <2>5. QED BY <1>5, <2>4, Zenon DEF a, b, f
<1>13. Quoting \in [Chars -> Seq(Chars)]
  BY <1>6, <1>12
<1>14. QED BY <1>7, <1>8, <1>9, <1>10, <1>11, <1>13

(* Four steps of a run. *)
RunsFour(n, b, x1, x2, x3, x4) ==
    Run(n, b, <<x1, x2, x3, x4>>) = n[<<n[<<n[<<n[<<b, x1>>], x2>>], x3>>], x4>>]

LEMMA FourAreTwice ==
  ASSUME NEW S, NEW x1 \in S, NEW x2 \in S, NEW x3 \in S, NEW x4 \in S
  PROVE  <<x1, x2>> \o <<x3, x4>> = <<x1, x2, x3, x4>>
<1> DEFINE t == <<x1, x2>>
           u == <<x3, x4>>
           v == <<x1, x2, x3, x4>>
           w == t \o u
<1>1. /\ t \in Seq(S) /\ Len(t) = 2 /\ t[1] = x1 /\ t[2] = x2
      /\ u \in Seq(S) /\ Len(u) = 2 /\ u[1] = x3 /\ u[2] = x4
      /\ v \in Seq(S) /\ Len(v) = 4 /\ v[1] = x1 /\ v[2] = x2 /\ v[3] = x3 /\ v[4] = x4
  OBVIOUS
<1> HIDE DEF t, u, v
<1>2. /\ w \in Seq(S) /\ Len(w) = Len(t) + Len(u)
      /\ \A i \in 1..Len(t) : w[i] = t[i]
      /\ \A i \in 1..Len(u) : w[Len(t) + i] = u[i]
  <2>1. t \in Seq(S) /\ u \in Seq(S)
    BY <1>1
  <2>2. QED BY ONLY <2>1, ConcatProperties
<1> HIDE DEF w
<1>3. Len(w) = 4 /\ w[1] = x1 /\ w[2] = x2 /\ w[3] = x3 /\ w[4] = x4
  BY <1>1, <1>2
<1>4. ASSUME NEW i \in 1..4 PROVE w[i] = v[i]
  <2>1. i = 1 \/ i = 2 \/ i = 3 \/ i = 4
    OBVIOUS
  <2>2. QED BY <1>1, <1>3, <2>1
<1>5. w = v
  BY <1>1, <1>2, <1>3, <1>4, SeqEqual
<1>6. QED BY <1>5 DEF t, u, v, w

LEMMA RunFour ==
  ASSUME NEW S, NEW n, NEW b, NEW x1 \in S, NEW x2 \in S, NEW x3 \in S, NEW x4 \in S
  PROVE  RunsFour(n, b, x1, x2, x3, x4)
<1> DEFINE t == <<x1, x2>>
           u == <<x3, x4>>
<1>1. t \in Seq(S) /\ u \in Seq(S)
  OBVIOUS
<1>2. Run(n, b, t) = n[<<n[<<b, x1>>], x2>>]
  BY RunTwo
<1> DEFINE d == Run(n, b, t)
<1>3. Run(n, d, u) = n[<<n[<<d, x3>>], x4>>]
  <2> HIDE DEF d
  <2>1. QED BY RunTwo
<1>4. Run(n, b, t \o u) = Run(n, d, u)
  <2> HIDE DEF t, u
  <2>1. QED BY <1>1, RunConcat
<1>5. t \o u = <<x1, x2, x3, x4>>
  BY FourAreTwice
<1>6. QED BY <1>2, <1>3, <1>4, <1>5, Zenon DEF RunsFour

LEMMA CsvIsSpread ==
  ASSUME NEW s \in Texts
  PROVE  csv_quote_char(s) = Spread(Quoting, s)
<1> DEFINE m1 == Slashing(<<BS, BS>>)
           m2 == Slashing(<<TAB, "t">>)
           m3 == Slashing(<<CR, "r">>)
           m4 == Slashing(<<LF, "n">>)
           s1 == Spread(m1, s)
           s2 == Spread(m2, s1)
           s3 == Spread(m3, s2)
           s4 == Spread(m4, s3)
           d2 == [c \in Chars |-> Spread(m2, m1[c])]
           d3 == [c \in Chars |-> Spread(m3, d2[c])]
<1>0. /\ m1 \in [Chars -> Seq(Chars)] /\ m2 \in [Chars -> Seq(Chars)]
      /\ m3 \in [Chars -> Seq(Chars)] /\ m4 \in [Chars -> Seq(Chars)]
  BY Slashings, SlashingTyped
<1>1. csv_quote_char(s) = s4
  <2>1. csv_quote_char(s) = Run(EscapeNext, s, Escapes)
    <3>1. Escapes \in Seq(Escapings)
      BY Slashings DEF Escapes
    <3>2. s \in EscapeStates
      BY DEF EscapeStates
    <3>3. FoldLeft(EscapeStep, s, Escapes) = Run(EscapeNext, s, Escapes)
      BY <3>1, <3>2, EscapeRun
    <3>4. QED BY <3>3, Zenon DEF csv_quote_char
  <2> DEFINE e1 == <<BS, BS>>
             e2 == <<TAB, "t">>
             e3 == <<CR, "r">>
             e4 == <<LF, "n">>
  <2>2. e1 \in Escapings /\ e2 \in Escapings /\ e3 \in Escapings /\ e4 \in Escapings
    BY Slashings
  <2>3. Escapes = <<e1, e2, e3, e4>>
    BY DEF Escapes
  <2>4. /\ s1 = EscapeStep(s, e1) /\ s1 \in EscapeStates /\ s \in EscapeStates
        /\ s2 = EscapeStep(s1, e2) /\ s2 \in EscapeStates
        /\ s3 = EscapeStep(s2, e3) /\ s3 \in EscapeStates
        /\ s4 = EscapeStep(s3, e4) /\ s4 \in EscapeStates
    <3>0. s \in EscapeStates
      BY DEF EscapeStates
    <3>1. s1 = EscapeStep(s, e1) /\ s1 \in EscapeStates
      BY <2>2, <3>0, EscapeStepIs
    <3> HIDE DEF s1
    <3>2. s2 = EscapeStep(s1, e2) /\ s2 \in EscapeStates
      BY <2>2, <3>1, EscapeStepIs
    <3> HIDE DEF s2
    <3>3. s3 = EscapeStep(s2, e3) /\ s3 \in EscapeStates
      BY <2>2, <3>2, EscapeStepIs
    <3> HIDE DEF s3
    <3>4. s4 = EscapeStep(s3, e4) /\ s4 \in EscapeStates
      BY <2>2, <3>3, EscapeStepIs
    <3>5. QED BY <3>0, <3>1, <3>2, <3>3, <3>4
  <2> HIDE DEF e1, e2, e3, e4, s1, s2, s3, s4
  <2>6. Run(EscapeNext, s, <<e1, e2, e3, e4>>)
          = EscapeNext[<<EscapeNext[<<EscapeNext[<<EscapeNext[<<s, e1>>], e2>>], e3>>], e4>>]
    <3>1. s \in EscapeStates /\ EscapeNext \in [EscapeStates \X Escapings -> EscapeStates]
      BY <2>4, EscapeNextTyped
    <3>2. RunsFour(EscapeNext, s, e1, e2, e3, e4)
      BY <2>2, <3>1, RunFour
    <3>3. QED BY <3>2, Zenon DEF RunsFour
  <2>7. /\ EscapeNext[<<s, e1>>] = s1 /\ EscapeNext[<<s1, e2>>] = s2
        /\ EscapeNext[<<s2, e3>>] = s3 /\ EscapeNext[<<s3, e4>>] = s4
    BY <2>2, <2>4, EscapeNextTyped
  <2>8. QED BY <2>1, <2>3, <2>6, <2>7, Zenon
<1> HIDE DEF m1, m2, m3, m4
<1>2. d2 \in [Chars -> Seq(Chars)] /\ \A c \in Chars : d2[c] = Spread(m2, m1[c])
  <2>1. ASSUME NEW c \in Chars PROVE Spread(m2, m1[c]) \in Seq(Chars)
    <3>1. m1[c] \in Seq(Chars)
      BY <1>0
    <3>2. QED BY <1>0, <3>1, SpreadTyped
  <2>2. QED BY <2>1
<1> HIDE DEF d2
<1>3. d3 \in [Chars -> Seq(Chars)] /\ \A c \in Chars : d3[c] = Spread(m3, d2[c])
  <2>1. ASSUME NEW c \in Chars PROVE Spread(m3, d2[c]) \in Seq(Chars)
    <3>1. d2[c] \in Seq(Chars)
      BY <1>2
    <3>2. QED BY <1>0, <3>1, SpreadTyped
  <2>2. QED BY <2>1
<1> HIDE DEF d3
<1>4. s \in Seq(Chars)
  BY DEF Texts
<1>5. s2 = Spread(d2, s)
  <2>1. Composes(Chars, d2, m2, m1)
    BY <1>2, Zenon DEF Composes
  <2>2. TwiceIsOnce(d2, m2, m1, s)
    BY <1>0, <1>2, <1>4, <2>1, SpreadTwice
  <2>3. QED BY <2>2, Zenon DEF TwiceIsOnce
<1>6. Spread(m3, Spread(d2, s)) = Spread(d3, s)
  <2>1. Composes(Chars, d3, m3, d2)
    BY <1>3, Zenon DEF Composes
  <2>2. TwiceIsOnce(d3, m3, d2, s)
    BY <1>0, <1>2, <1>3, <1>4, <2>1, SpreadTwice
  <2>3. QED BY <2>2, Zenon DEF TwiceIsOnce
<1>7. \A c \in Chars : Quoting[c] = Spread(m4, d3[c])
  <2>1. \A c \in Chars : Quoting[c] = Spread(m4, Spread(m3, Spread(m2, m1[c])))
    BY DEF Quoting, m1, m2, m3, m4
  <2>2. QED BY <1>2, <1>3, <2>1, Zenon
<1>8. Spread(m4, Spread(d3, s)) = Spread(Quoting, s)
  <2>1. Quoting \in [Chars -> Seq(Chars)]
    BY QuotingIs
  <2>2. Composes(Chars, Quoting, m4, d3)
    BY <1>7, <2>1, Zenon DEF Composes
  <2>3. TwiceIsOnce(Quoting, m4, d3, s)
    BY <1>0, <1>3, <1>4, <2>1, <2>2, SpreadTwice
  <2>4. QED BY <2>3, Zenon DEF TwiceIsOnce
<1>9. QED BY <1>1, <1>5, <1>6, <1>8, Zenon

-----------------------------------------------------------------------------
(* The fields of the file *)

FieldValues == Texts \cup {NULL}
FileStates == [rows : Seq(Seq(FieldValues)), fields : Seq(FieldValues), text : Texts, raw : Texts,
               esc : BOOLEAN]
FileNext == [p \in FileStates \X Chars |-> FileStep(p[1], p[2])]

(* Within a field; what the field is; and behind a backslash in it. *)
Reading(R, F, t, w) == [rows |-> R, fields |-> F, text |-> t, raw |-> w, esc |-> FALSE]
FieldOf(t, w) == IF w = <<BS, "N">> THEN NULL ELSE t
Escaping(R, F, t, w) == [rows |-> R, fields |-> F, text |-> t, raw |-> w, esc |-> TRUE]

LEMMA FileStepTyped ==
  ASSUME NEW st \in FileStates, NEW c \in Chars
  PROVE  FileStep(st, c) \in FileStates
<1>1. /\ st.rows \in Seq(Seq(FieldValues)) /\ st.fields \in Seq(FieldValues)
      /\ st.text \in Texts /\ st.raw \in Texts /\ st.esc \in BOOLEAN
      /\ st = [rows |-> st.rows, fields |-> st.fields, text |-> st.text, raw |-> st.raw, esc |-> st.esc]
  BY DEF FileStates
<1>2. /\ Append(st.text, Unescaped(c)) \in Texts /\ Append(st.text, c) \in Texts
      /\ Append(st.raw, c) \in Texts /\ <<>> \in Texts
  BY <1>1, UnescapedTyped DEF Texts
<1>3. Field(st) \in FieldValues
  BY <1>1 DEF Field, FieldValues
<1>4. /\ Append(st.fields, Field(st)) \in Seq(FieldValues) /\ <<>> \in Seq(FieldValues)
      /\ Append(st.rows, Append(st.fields, Field(st))) \in Seq(Seq(FieldValues))
  BY <1>1, <1>3
<1>5. CASE st.esc
  BY <1>1, <1>2, <1>5 DEF FileStep, FileStates
<1>6. CASE ~st.esc /\ c \in {TAB, LF}
  <2> DEFINE e == Append(st.fields, Field(st))
             rows1 == IF c = LF THEN Append(st.rows, e) ELSE st.rows
             fields1 == IF c = LF THEN <<>> ELSE e
  <2>1. FileStep(st, c) = [rows |-> rows1, fields |-> fields1, text |-> <<>>, raw |-> <<>>, esc |-> FALSE]
    BY <1>6, Zenon DEF FileStep
  <2>2. rows1 \in Seq(Seq(FieldValues)) /\ fields1 \in Seq(FieldValues)
    BY <1>1, <1>4
  <2> HIDE DEF rows1, fields1
  <2>3. QED BY <1>2, <2>1, <2>2 DEF FileStates
<1>7. CASE ~st.esc /\ c \notin {TAB, LF}
  BY <1>1, <1>2, <1>7 DEF FileStep, FileStates
<1>8. QED BY <1>5, <1>6, <1>7

LEMMA FileNextTyped ==
  /\ FileNext \in [FileStates \X Chars -> FileStates]
  /\ \A st \in FileStates, c \in Chars : FileNext[<<st, c>>] = FileStep(st, c)
<1>1. \A p \in FileStates \X Chars : FileStep(p[1], p[2]) \in FileStates
  BY FileStepTyped
<1>2. QED BY <1>1 DEF FileNext

LEMMA FileRun ==
  ASSUME NEW base \in FileStates, NEW s \in Seq(Chars)
  PROVE  FoldLeft(FileStep, base, s) = Run(FileNext, base, s)
<1> DEFINE Fold(h) == h = [t \in SUBSET DOMAIN s |->
                             IF t = {} THEN base ELSE FileStep(h[t \ {Max(t)}], s[Max(t)])]
           g == CHOOSE h : Fold(h)
<1>1. \E h : Fold(h)
  <2>1. PICK h : Solves(h, FileNext, base, s, FileStates, Chars)
    BY FileNextTyped, FoldExists
  <2>2. ASSUME NEW t \in SUBSET DOMAIN s
        PROVE  h[t] = IF t = {} THEN base ELSE FileStep(h[t \ {Max(t)}], s[Max(t)])
    BY <2>1, FileNextTyped, Zenon DEF Solves
  <2>3. [t \in SUBSET DOMAIN s |-> h[t]]
          = [t \in SUBSET DOMAIN s |->
               IF t = {} THEN base ELSE FileStep(h[t \ {Max(t)}], s[Max(t)])]
    BY <2>2, Zenon
  <2>4. QED BY <2>1, <2>3, Zenon DEF Solves
<1>2. Fold(g)
  BY <1>1, Zenon
<1>3. FoldLeft(FileStep, base, s) = g[DOMAIN s]
  BY Zenon DEF FoldLeft, MapThenFoldSet
<1> HIDE DEF g
<1>4. \A t \in SUBSET DOMAIN s :
        g[t] = IF t = {} THEN base ELSE FileStep(g[t \ {Max(t)}], s[Max(t)])
  BY <1>2, Zenon
<1>5. Takes(g, FileNext, base, s, FileStates, Chars)
  <2>1. {} \in SUBSET DOMAIN s
    OBVIOUS
  <2>2. QED BY <2>1, <1>4, FileNextTyped, Zenon DEF Takes
<1>6. g[DOMAIN s] = Run(FileNext, base, s)
  BY <1>5, FoldEnds
<1>7. QED BY <1>3, <1>6

LEMMA ReadingTyped ==
  ASSUME NEW R \in Seq(Seq(FieldValues)), NEW F \in Seq(FieldValues), NEW t \in Texts, NEW w \in Texts
  PROVE  /\ Reading(R, F, t, w) \in FileStates /\ Escaping(R, F, t, w) \in FileStates
         /\ FieldOf(t, w) \in FieldValues /\ <<>> \in Texts
BY EmptySeq DEF FileStates, Reading, Escaping, FieldOf, FieldValues, Texts

LEMMA FileSteps ==
  ASSUME NEW R \in Seq(Seq(FieldValues)), NEW F \in Seq(FieldValues), NEW t \in Texts, NEW w \in Texts
  PROVE  /\ \A x \in Chars : x \notin {BS, TAB, LF} =>
              FileNext[<<Reading(R, F, t, w), x>>] = Reading(R, F, Append(t, x), Append(w, x))
         /\ FileNext[<<Reading(R, F, t, w), BS>>] = Escaping(R, F, t, Append(w, BS))
         /\ \A x \in Chars :
              FileNext[<<Escaping(R, F, t, w), x>>] = Reading(R, F, Append(t, Unescaped(x)), Append(w, x))
         /\ FileNext[<<Reading(R, F, t, w), TAB>>] = Reading(R, Append(F, FieldOf(t, w)), <<>>, <<>>)
         /\ FileNext[<<Reading(R, F, t, w), LF>>]
              = Reading(Append(R, Append(F, FieldOf(t, w))), <<>>, <<>>, <<>>)
<1> DEFINE a == Reading(R, F, t, w)
           b == Escaping(R, F, t, w)
<1>0. a \in FileStates /\ b \in FileStates /\ BS \in Chars /\ TAB \in Chars /\ LF \in Chars
  BY ReadingTyped, Characters
<1>1. \A x \in Chars : FileNext[<<a, x>>] = FileStep(a, x) /\ FileNext[<<b, x>>] = FileStep(b, x)
  <2> HIDE DEF a, b
  <2>1. QED BY <1>0, FileNextTyped
<1>2. Field(a) = FieldOf(t, w)
  BY DEF Field, FieldOf, Reading
<1>3. ASSUME NEW x \in Chars, x \notin {BS, TAB, LF}
      PROVE  FileStep(a, x) = Reading(R, F, Append(t, x), Append(w, x))
  BY <1>3 DEF FileStep, Reading
<1>4. FileStep(a, BS) = Escaping(R, F, t, Append(w, BS))
  BY Different DEF FileStep, Reading, Escaping
<1>5. ASSUME NEW x \in Chars
      PROVE  FileStep(b, x) = Reading(R, F, Append(t, Unescaped(x)), Append(w, x))
  BY DEF FileStep, Reading, Escaping
<1>6. FileStep(a, TAB) = Reading(R, Append(F, FieldOf(t, w)), <<>>, <<>>)
  BY <1>2, Different DEF FileStep, Reading
<1>7. FileStep(a, LF) = Reading(Append(R, Append(F, FieldOf(t, w))), <<>>, <<>>, <<>>)
  BY <1>2, Different DEF FileStep, Reading
<1>8. QED BY <1>0, <1>1, <1>3, <1>4, <1>5, <1>6, <1>7, Zenon

(* One quoted character is read as that character, and nothing else happens. *)
LEMMA ReadQuoting ==
  ASSUME NEW R \in Seq(Seq(FieldValues)), NEW F \in Seq(FieldValues), NEW t \in Texts, NEW w \in Texts,
         NEW x \in Chars
  PROVE  Run(FileNext, Reading(R, F, t, w), Quoting[x]) = Reading(R, F, t \o <<x>>, w \o Quoting[x])
<1> DEFINE st == Reading(R, F, t, w)
<1>0. /\ t \o <<x>> = Append(t, x) /\ w \o <<x>> = Append(w, x)
      /\ t \in Seq(Chars) /\ w \in Seq(Chars) /\ BS \in Chars
  BY AppendIsConcat, Characters DEF Texts
<1>1. ASSUME NEW y \in Chars, Unescaped(y) = x, Quoting[x] = <<BS, y>>
      PROVE  Run(FileNext, st, Quoting[x]) = Reading(R, F, t \o <<x>>, w \o Quoting[x])
  <2>1. Append(w, BS) \in Texts
    BY <1>0 DEF Texts
  <2>2. Run(FileNext, st, <<BS, y>>) = FileNext[<<FileNext[<<st, BS>>], y>>]
    <3> HIDE DEF st
    <3>1. QED BY <1>0, TextTwo
  <2>3. FileNext[<<st, BS>>] = Escaping(R, F, t, Append(w, BS))
    BY FileSteps
  <2>4. FileNext[<<Escaping(R, F, t, Append(w, BS)), y>>]
          = Reading(R, F, Append(t, Unescaped(y)), Append(Append(w, BS), y))
    BY <2>1, FileSteps
  <2>5. Append(Append(w, BS), y) = w \o <<BS, y>>
    BY <1>0
  <2>6. QED BY <1>0, <1>1, <2>2, <2>3, <2>4, <2>5, Zenon
<1>2. CASE x = BS
  BY <1>1, <1>2, Characters, Different, QuotingIs DEF Unescaped
<1>3. CASE x = TAB
  BY <1>1, <1>3, Characters, Different, QuotingIs DEF Unescaped
<1>4. CASE x = CR
  BY <1>1, <1>4, Characters, Different, QuotingIs DEF Unescaped
<1>5. CASE x = LF
  BY <1>1, <1>5, Characters, Different, QuotingIs DEF Unescaped
<1>6. CASE x \notin {BS, TAB, CR, LF}
  <2>1. Quoting[x] = <<x>>
    BY <1>6, QuotingIs
  <2>2. Run(FileNext, st, <<x>>) = FileNext[<<st, x>>]
    <3> HIDE DEF st
    <3>1. QED BY TextOne
  <2>3. FileNext[<<st, x>>] = Reading(R, F, Append(t, x), Append(w, x))
    BY <1>6, FileSteps
  <2>4. QED BY <1>0, <2>1, <2>2, <2>3, Zenon
<1>7. QED BY <1>2, <1>3, <1>4, <1>5, <1>6

LEMMA ReadQuotedText ==
  ASSUME NEW R \in Seq(Seq(FieldValues)), NEW F \in Seq(FieldValues), NEW s \in Texts
  PROVE  Run(FileNext, Reading(R, F, <<>>, <<>>), Spread(Quoting, s)) = Reading(R, F, s, Spread(Quoting, s))
<1> DEFINE start == Reading(R, F, <<>>, <<>>)
           T == {u \in Texts : Run(FileNext, start, Spread(Quoting, u)) = Reading(R, F, u, Spread(Quoting, u))}
<1>0. Quoting \in [Chars -> Seq(Chars)]
  BY QuotingIs
<1>1. <<>> \in T
  BY SpreadEmpty, RunEmpty, EmptySeq DEF Texts
<1>2. ASSUME NEW u \in Seq(Chars), NEW x \in Chars, u \in T
      PROVE  u \o <<x>> \in T
  <2>1. Spread(Quoting, u \o <<x>>) = Spread(Quoting, u) \o Quoting[x]
    BY <1>0, SpreadGrow
  <2>2. Spread(Quoting, u) \in Seq(Chars) /\ Quoting[x] \in Seq(Chars)
    BY <1>0, SpreadTyped
  <2>3. Run(FileNext, start, Spread(Quoting, u) \o Quoting[x])
          = Run(FileNext, Run(FileNext, start, Spread(Quoting, u)), Quoting[x])
    <3>1. GoesOn(FileNext, start, Spread(Quoting, u), Quoting[x])
      BY <2>2, TextConcat
    <3>2. QED BY <3>1, Zenon DEF GoesOn
  <2>4. Run(FileNext, start, Spread(Quoting, u)) = Reading(R, F, u, Spread(Quoting, u))
    BY <1>2
  <2>5. Run(FileNext, Reading(R, F, u, Spread(Quoting, u)), Quoting[x])
          = Reading(R, F, u \o <<x>>, Spread(Quoting, u) \o Quoting[x])
    BY <2>2, ReadQuoting DEF Texts
  <2>6. Run(FileNext, start, Spread(Quoting, u \o <<x>>))
          = Reading(R, F, u \o <<x>>, Spread(Quoting, u \o <<x>>))
    BY <2>1, <2>3, <2>4, <2>5, Zenon
  <2>7. u \o <<x>> \in Texts
    BY GrowProperties DEF Texts
  <2>8. QED BY <2>6, <2>7
<1>3. \A u \in Seq(Chars) : u \in T
  <2> HIDE DEF T
  <2>1. QED BY <1>1, <1>2, GrowInduction
<1>4. QED BY <1>3 DEF Texts

LEMMA OneAndTwo ==
  ASSUME NEW S, NEW x \in S, NEW y \in S
  PROVE  Append(<<>>, x) = <<x>> /\ Append(<<x>>, y) = <<x, y>>
<1>1. <<>> \in Seq(S) /\ <<x>> \in Seq(S)
  OBVIOUS
<1>2. Append(<<>>, x) = <<>> \o <<x>> /\ Append(<<x>>, y) = <<x>> \o <<y>>
  BY <1>1, AppendIsConcat
<1>3. <<>> \o <<x>> = <<x>>
  BY <1>1, ConcatEmptySeq
<1>4. <<x>> \o <<y>> = <<x, y>>
  BY TwoIsGrown
<1>5. QED BY <1>2, <1>3, <1>4, Zenon

(* The mark of a missing value, which no quoted text is like. *)
LEMMA ReadMark ==
  ASSUME NEW R \in Seq(Seq(FieldValues)), NEW F \in Seq(FieldValues)
  PROVE  Run(FileNext, Reading(R, F, <<>>, <<>>), <<BS, "N">>) = Reading(R, F, <<"N">>, <<BS, "N">>)
<1> DEFINE st == Reading(R, F, <<>>, <<>>)
<1>0. <<>> \in Texts /\ <<BS>> \in Texts /\ BS \in Chars /\ "N" \in Chars
  BY Characters, EmptySeq DEF Texts
<1>1. Run(FileNext, st, <<BS, "N">>) = FileNext[<<FileNext[<<st, BS>>], "N">>]
  <2> HIDE DEF st
  <2>1. QED BY <1>0, TextTwo
<1>2. FileNext[<<st, BS>>] = Escaping(R, F, <<>>, Append(<<>>, BS))
  BY <1>0, FileSteps
<1>3. Append(<<>>, BS) = <<BS>> /\ Append(<<>>, "N") = <<"N">> /\ Append(<<BS>>, "N") = <<BS, "N">>
  BY <1>0, OneAndTwo
<1>4. FileNext[<<Escaping(R, F, <<>>, <<BS>>), "N">>]
        = Reading(R, F, Append(<<>>, Unescaped("N")), Append(<<BS>>, "N"))
  BY <1>0, FileSteps
<1>5. Unescaped("N") = "N"
  BY DEF Unescaped
<1>6. QED BY <1>1, <1>2, <1>3, <1>4, <1>5, Zenon

LEMMA MarkIsNoText ==
  ASSUME NEW s \in Texts
  PROVE  Spread(Quoting, s) # <<BS, "N">>
<1>1. SUFFICES ASSUME Spread(Quoting, s) = <<BS, "N">> PROVE FALSE
  OBVIOUS
<1>2. <<>> \in Seq(Seq(FieldValues)) /\ <<>> \in Seq(FieldValues)
  BY EmptySeq
<1>3. Reading(<<>>, <<>>, s, Spread(Quoting, s)) = Reading(<<>>, <<>>, <<"N">>, <<BS, "N">>)
  <2>1. Run(FileNext, Reading(<<>>, <<>>, <<>>, <<>>), Spread(Quoting, s))
          = Reading(<<>>, <<>>, s, Spread(Quoting, s))
    BY <1>2, ReadQuotedText
  <2>2. Run(FileNext, Reading(<<>>, <<>>, <<>>, <<>>), <<BS, "N">>)
          = Reading(<<>>, <<>>, <<"N">>, <<BS, "N">>)
    BY <1>2, ReadMark
  <2>3. QED BY <1>1, <2>1, <2>2, Zenon
<1>4. s = <<"N">>
  <2>1. Reading(<<>>, <<>>, s, Spread(Quoting, s)).text = s
    BY DEF Reading
  <2>2. Reading(<<>>, <<>>, <<"N">>, <<BS, "N">>).text = <<"N">>
    BY DEF Reading
  <2>3. QED BY <1>3, <2>1, <2>2, Zenon
<1>5. Spread(Quoting, <<"N">>) = <<"N">>
  <2>1. "N" \in Chars /\ "N" \notin {BS, TAB, CR, LF} /\ Quoting \in [Chars -> Seq(Chars)]
    BY Characters, Different, QuotingIs
  <2>2. Quoting["N"] = <<"N">>
    BY <2>1, QuotingIs
  <2>3. Spread(Quoting, <<"N">>) = Quoting["N"]
    BY <2>1, SpreadOne
  <2>4. QED BY <2>2, <2>3, Zenon
<1>6. <<"N">> # <<BS, "N">>
  OBVIOUS
<1>7. QED BY <1>1, <1>4, <1>5, <1>6, Zenon

-----------------------------------------------------------------------------
(* Bytes in hexadecimal digits *)

HexOf == [c \in Bytes |-> CASE c = BS -> <<"5", "c">> [] c = LF -> <<"0", "a">>
                            [] c = "N" -> <<"4", "e">>]

LEMMA HexTyped ==
  /\ HexOf \in [Bytes -> Seq(Plain)]
  /\ HexOf[BS] = <<"5", "c">> /\ HexOf[LF] = <<"0", "a">> /\ HexOf["N"] = <<"4", "e">>
  /\ \A x \in Bytes : Len(HexOf[x]) = 2
  /\ \A x, y \in Bytes : HexOf[x] = HexOf[y] => x = y
<1>1. BS # LF /\ BS # "N" /\ LF # "N"
  BY Different
<1>2. HexOf[BS] = <<"5", "c">> /\ HexOf[LF] = <<"0", "a">> /\ HexOf["N"] = <<"4", "e">>
  BY <1>1 DEF HexOf, Bytes
<1>3. {"5", "c", "0", "a", "4", "e"} \subseteq Plain
  BY Characters DEF Plain, Values, BS, TAB, CR, LF
<1>4. <<"5", "c">> \in Seq(Plain) /\ <<"0", "a">> \in Seq(Plain) /\ <<"4", "e">> \in Seq(Plain)
  BY <1>3
<1>5. ASSUME NEW x \in Bytes
      PROVE  HexOf[x] \in Seq(Plain) /\ Len(HexOf[x]) = 2
  <2>1. x = BS \/ x = LF \/ x = "N"
    BY DEF Bytes
  <2>2. CASE x = BS
    BY <1>2, <1>4, <2>2
  <2>3. CASE x = LF
    BY <1>2, <1>4, <2>3
  <2>4. CASE x = "N"
    BY <1>2, <1>4, <2>4
  <2>5. QED BY <2>1, <2>2, <2>3, <2>4
<1>6. \A x, y \in Bytes : HexOf[x] = HexOf[y] => x = y
  BY <1>2 DEF Bytes
<1>7. HexOf \in [Bytes -> Seq(Plain)]
  BY <1>5 DEF HexOf
<1>8. QED BY <1>2, <1>5, <1>6, <1>7

LEMMA HexIsSpread ==
  ASSUME NEW s \in Seq(Bytes)
  PROVE  Hex(s) = Spread(HexOf, s) /\ Hex(s) \in Seq(Plain)
<1>1. \A k \in DOMAIN s : s[k] \in Bytes
  OBVIOUS
<1>2. \A k \in DOMAIN s :
        HexOf[s[k]] = CASE s[k] = BS -> <<"5", "c">> [] s[k] = LF -> <<"0", "a">>
                        [] s[k] = "N" -> <<"4", "e">>
  BY <1>1, Zenon DEF HexOf
<1>3. [k \in DOMAIN s |-> HexOf[s[k]]]
        = [k \in DOMAIN s |-> CASE s[k] = BS -> <<"5", "c">> [] s[k] = LF -> <<"0", "a">>
                                [] s[k] = "N" -> <<"4", "e">>]
  BY <1>2, Zenon
<1>4. Hex(s) = Spread(HexOf, s)
  BY <1>3, Zenon DEF Hex, Spread
<1>5. Spread(HexOf, s) \in Seq(Plain)
  BY HexTyped, SpreadTyped
<1>6. QED BY <1>4, <1>5

(* Two digits for each byte, in its place. *)
Digits(s, t) ==
    Len(t) = 2 * Len(s) /\ \A k \in 1..Len(s) : t[2 * k - 1] = HexOf[s[k]][1] /\ t[2 * k] = HexOf[s[k]][2]

LEMMA HexDigits ==
  ASSUME NEW s \in Seq(Bytes)
  PROVE  Digits(s, Spread(HexOf, s))
<1> DEFINE T == {u \in Seq(Bytes) : Digits(u, Spread(HexOf, u))}
<1>1. <<>> \in T
  <2>1. Len(<<>>) = 0 /\ <<>> \in Seq(Bytes)
    BY EmptySeq
  <2>2. Digits(<<>>, <<>>)
    BY <2>1 DEF Digits
  <2>3. QED BY <2>1, <2>2, SpreadEmpty
<1>2. ASSUME NEW u \in Seq(Bytes), NEW x \in Bytes, u \in T
      PROVE  u \o <<x>> \in T
  <2> DEFINE v == u \o <<x>>
             a == Spread(HexOf, u)
             b == HexOf[x]
             d == a \o b
             n == Len(u)
  <2>1. /\ v \in Seq(Bytes) /\ Len(v) = n + 1 /\ n \in Nat
        /\ \A i \in 1..n : v[i] = u[i]
        /\ v[n + 1] = x
    BY GrowProperties
  <2>2. Spread(HexOf, v) = d
    <3>1. HexOf \in [Bytes -> Seq(Plain)]
      BY HexTyped
    <3>2. QED BY ONLY u \in Seq(Bytes), x \in Bytes, <3>1, SpreadGrow
  <2>3. a \in Seq(Plain) /\ b \in Seq(Plain) /\ Len(b) = 2
    BY HexTyped, SpreadTyped
  <2>4. /\ Len(a) = 2 * n
        /\ \A k \in 1..n : a[2 * k - 1] = HexOf[u[k]][1] /\ a[2 * k] = HexOf[u[k]][2]
    BY <1>2 DEF Digits
  <2> HIDE DEF v, a, b
  <2>5. /\ d \in Seq(Plain) /\ Len(d) = Len(a) + Len(b)
        /\ \A i \in 1..Len(a) : d[i] = a[i]
        /\ \A i \in 1..Len(b) : d[Len(a) + i] = b[i]
    <3>1. a \in Seq(Plain) /\ b \in Seq(Plain)
      BY <2>3
    <3>2. QED BY ONLY <3>1, ConcatProperties
  <2> HIDE DEF d, n
  <2>6. Len(d) = 2 * (n + 1) /\ d[2 * n + 1] = b[1] /\ d[2 * n + 2] = b[2]
    BY <2>1, <2>3, <2>4, <2>5
  <2>7. ASSUME NEW k \in 1..(n + 1)
        PROVE  d[2 * k - 1] = HexOf[v[k]][1] /\ d[2 * k] = HexOf[v[k]][2]
    <3>1. CASE k = n + 1
      <4>1. 2 * k - 1 = 2 * n + 1 /\ 2 * k = 2 * n + 2 /\ v[k] = x
        BY <2>1, <3>1
      <4>2. QED BY <2>6, <4>1 DEF b
    <3>2. CASE k \in 1..n
      <4>1. 2 * k - 1 \in 1..(2 * n) /\ 2 * k \in 1..(2 * n) /\ v[k] = u[k]
        BY <2>1, <3>2
      <4>2. d[2 * k - 1] = a[2 * k - 1] /\ d[2 * k] = a[2 * k]
        BY <2>4, <2>5, <4>1
      <4>3. a[2 * k - 1] = HexOf[u[k]][1] /\ a[2 * k] = HexOf[u[k]][2]
        BY <2>4, <3>2
      <4>4. QED BY <4>1, <4>2, <4>3, Zenon
    <3>3. k = n + 1 \/ k \in 1..n
      BY <2>1
    <3>4. QED BY <3>1, <3>2, <3>3
  <2>8. Digits(v, d)
    BY <2>1, <2>6, <2>7 DEF Digits
  <2>9. v \in T
    BY <2>1, <2>2, <2>8
  <2>10. QED BY <2>9 DEF v
<1>3. \A u \in Seq(Bytes) : u \in T
  <2> HIDE DEF T
  <2>1. QED BY <1>1, <1>2, GrowInduction
<1>4. QED BY <1>3

(* UNHEX() gives back the bytes. *)
LEMMA HexRead ==
  ASSUME NEW s \in Seq(Bytes)
  PROVE  Unhex(Hex(s)) = s
<1> DEFINE x == Hex(s)
           n == Len(s)
           m == Len(x) \div 2
           At(k) == CHOOSE c \in Bytes : Hex(<<c>>) = SubSeq(x, 2 * k - 1, 2 * k)
           u == [k \in 1..m |-> At(k)]
<1>1. /\ x \in Seq(Plain) /\ n \in Nat /\ Len(x) = 2 * n
      /\ \A k \in 1..n : x[2 * k - 1] = HexOf[s[k]][1] /\ x[2 * k] = HexOf[s[k]][2]
  <2>1. x \in Seq(Plain) /\ x = Spread(HexOf, s) /\ n \in Nat
    BY HexIsSpread
  <2>2. Digits(s, Spread(HexOf, s))
    BY HexDigits
  <2> HIDE DEF x
  <2>3. Digits(s, x)
    BY <2>1, <2>2, Zenon
  <2>4. QED BY <2>1, <2>3 DEF Digits
<1>2. x # NULL
  BY <1>1, CharsAssumption DEF Plain
<1>3. Unhex(x) = u
  BY <1>2, Zenon DEF Unhex
<1>4. \A c \in Bytes : Hex(<<c>>) = HexOf[c]
  <2> TAKE c \in Bytes
  <2>1. <<c>> \in Seq(Bytes)
    OBVIOUS
  <2>2. Hex(<<c>>) = Spread(HexOf, <<c>>)
    BY <2>1, HexIsSpread
  <2>3. Spread(HexOf, <<c>>) = HexOf[c]
    BY HexTyped, SpreadOne
  <2>4. QED BY <2>2, <2>3, Zenon
<1> HIDE DEF x
<1>5. m = n
  BY <1>1
<1>6. ASSUME NEW k \in 1..n PROVE At(k) = s[k]
  <2>1. s[k] \in Bytes /\ 2 * k - 1 \in 1..Len(x) /\ 2 * k \in 1..Len(x)
    BY <1>1
  <2>2. SubSeq(x, 2 * k - 1, 2 * k) = HexOf[s[k]]
    <3> DEFINE v == SubSeq(x, 2 * k - 1, 2 * k)
               h == HexOf[s[k]]
    <3>1. /\ v \in Seq(Plain) /\ Len(v) = 2 /\ v[1] = x[2 * k - 1] /\ v[2] = x[2 * k]
      BY <1>1, <2>1
    <3>2. h \in Seq(Plain) /\ Len(h) = 2 /\ v[1] = h[1] /\ v[2] = h[2]
      BY <1>1, <2>1, <3>1, HexTyped
    <3> HIDE DEF v, h
    <3>3. \A i \in 1..2 : v[i] = h[i]
      <4> TAKE i \in 1..2
      <4>1. i = 1 \/ i = 2
        OBVIOUS
      <4>2. QED BY <3>2, <4>1
    <3>4. v = h
      BY <3>1, <3>2, <3>3, SeqEqual
    <3>5. QED BY <3>4 DEF v, h
  <2>3. \A c \in Bytes : Hex(<<c>>) = SubSeq(x, 2 * k - 1, 2 * k) <=> c = s[k]
    <3>1. \A c \in Bytes : HexOf[c] = HexOf[s[k]] <=> c = s[k]
      BY <2>1, HexTyped
    <3>2. QED BY <1>4, <2>2, <3>1, Zenon
  <2>4. QED BY <2>1, <2>3
<1>7. u = s
  <2>1. s = [k \in 1..n |-> s[k]]
    OBVIOUS
  <2>2. u = [k \in 1..n |-> At(k)]
    BY <1>5
  <2> HIDE DEF At, u
  <2>3. QED BY <1>6, <2>1, <2>2, Zenon
<1>8. QED BY <1>3, <1>7, Zenon DEF x

-----------------------------------------------------------------------------
(* What is written for a value, and what is read of it *)

Meant(class, x) ==
    IF x = NULL THEN NULL ELSE IF class = "character" THEN x ELSE csv_quote_one(class, x)

(* q is written for NULL, or is the text y with its escapes. *)
Stands(q, y) == IF y = NULL THEN q = NULL ELSE q = Spread(Quoting, y) /\ q # NULL

LEMMA PlainTexts ==
  /\ Plain \subseteq Chars
  /\ \A s \in Seq(Plain) : s \in Texts /\ s # NULL /\ Spread(Quoting, s) = s
<1>1. Plain \subseteq Chars
  BY DEF Plain
<1>2. ASSUME NEW s \in Seq(Plain)
      PROVE  s \in Texts /\ s # NULL /\ Spread(Quoting, s) = s
  <2>1. s \in Texts /\ s # NULL
    BY <1>1, CharsAssumption DEF Texts
  <2>2. Quoting \in [Chars -> Seq(Chars)] /\ \A x \in Plain : Quoting[x] = <<x>>
    BY <1>1, QuotingIs DEF Plain
  <2>3. Spread(Quoting, s) = s
    BY <1>1, <2>2, SpreadPlain
  <2>4. QED BY <2>1, <2>3
<1>3. QED BY <1>1, <1>2

(* What a cell may hold is a text, of these characters. *)
LEMMA CellsTyped ==
  ASSUME NEW class \in Classes, NEW x \in Cells(class)
  PROVE  /\ x \in Texts /\ x # NULL
         /\ class = "character" => x \in Seq(Chars \ Values)
         /\ class = "integer" => x \in Seq(Plain) /\ x # <<>>
         /\ class = "numeric" => x = <<"Inf">> \/ (x \in Seq(Plain) /\ x # <<>>)
         /\ class = "logical" => x = <<"TRUE">> \/ x = <<"FALSE">>
         /\ class = "list" => x \in Seq(Bytes)
<1>1. /\ class = "character" => x \in Seq(Chars \ Values)
      /\ class = "integer" => x \in Seq(Plain) /\ x # <<>>
      /\ class = "numeric" => x = <<"Inf">> \/ (x \in Seq(Plain) /\ x # <<>>)
      /\ class = "logical" => x = <<"TRUE">> \/ x = <<"FALSE">>
      /\ class = "list" => x \in Seq(Bytes)
  BY Zenon DEF Cells
<1>2. x \in Texts
  <2>1. <<"Inf">> \in Texts /\ <<"TRUE">> \in Texts /\ <<"FALSE">> \in Texts
    BY Characters DEF Texts
  <2>2. Bytes \subseteq Chars /\ Chars \ Values \subseteq Chars /\ Plain \subseteq Chars
    BY Characters DEF Bytes, Plain
  <2>3. Seq(Bytes) \subseteq Texts /\ Seq(Chars \ Values) \subseteq Texts /\ Seq(Plain) \subseteq Texts
    BY <2>2 DEF Texts
  <2>4. class \in {"character", "integer", "numeric", "logical", "list"}
    BY DEF Classes
  <2>5. QED BY <1>1, <2>1, <2>3, <2>4
<1>3. x # NULL
  BY <1>2, CharsAssumption DEF Texts
<1>4. QED BY <1>1, <1>2, <1>3

LEMMA WrittenIsMeant ==
  ASSUME NEW class \in Classes, NEW x \in Cells(class) \cup {NULL}
  PROVE  Meant(class, x) \in FieldValues /\ Stands(csv_quote_one(class, x), Meant(class, x))
<1> DEFINE q == csv_quote_one(class, x)
           y == Meant(class, x)
<1>1. CASE x = NULL
  <2>1. q = NULL /\ y = NULL
    BY <1>1, Zenon DEF csv_quote_one, Meant
  <2>2. QED BY <2>1 DEF FieldValues, Stands
<1>2. CASE x # NULL
  <2>0. x \in Cells(class)
    BY <1>2
  <2>1. x \in Texts
    BY <2>0, CellsTyped
  <2>2. CASE class = "character"
    <3>1. q = csv_quote_char(x) /\ y = x
      BY <1>2, <2>2, Zenon DEF csv_quote_one, Meant
    <3>2. csv_quote_char(x) = Spread(Quoting, x) /\ Spread(Quoting, x) \in Seq(Chars)
      BY <2>1, CsvIsSpread, QuotingIs, SpreadTyped DEF Texts
    <3>3. Spread(Quoting, x) # NULL
      BY <3>2, CharsAssumption
    <3>4. QED BY <1>2, <2>1, <3>1, <3>2, <3>3, Zenon DEF FieldValues, Stands
  <2>3. ASSUME class # "character", q = NULL \/ q \in Seq(Plain)
        PROVE  y \in FieldValues /\ Stands(q, y)
    <3>1. y = q
      BY <1>2, <2>3, Zenon DEF Meant
    <3>2. CASE q = NULL
      BY <3>1, <3>2, Zenon DEF FieldValues, Stands
    <3>3. CASE q \in Seq(Plain)
      <4>1. q \in Texts /\ q # NULL /\ Spread(Quoting, q) = q
        BY <3>3, PlainTexts
      <4>2. QED BY <3>1, <4>1, Zenon DEF FieldValues, Stands
    <3>4. QED BY <2>3, <3>2, <3>3
  <2>4. <<"0">> \in Seq(Plain) /\ <<"1">> \in Seq(Plain) /\ <<>> \in Seq(Plain)
    <3>1. "0" \in Plain /\ "1" \in Plain
      BY Characters DEF Plain, Values, BS, TAB, CR, LF
    <3>2. QED BY <3>1
  <2>5. CASE class = "integer"
    <3>1. q = Integer(x)
      BY <1>2, <2>5, Zenon DEF csv_quote_one
    <3>2. x \in Seq(Plain)
      BY <2>0, <2>5, CellsTyped
    <3>3. q \in Seq(Plain)
      BY <2>4, <3>1, <3>2 DEF Integer
    <3>4. QED BY <2>3, <2>5, <3>3
  <2>6. CASE class = "numeric"
    <3>1. q = IF x = <<"Inf">> THEN NULL ELSE x
      BY <1>2, <2>6, Zenon DEF csv_quote_one
    <3>2. x = <<"Inf">> \/ x \in Seq(Plain)
      BY <2>0, <2>6, CellsTyped
    <3>3. QED BY <2>3, <2>6, <3>1, <3>2
  <2>7. CASE class = "logical"
    <3>1. q = IF x = <<"TRUE">> THEN <<"1">> ELSE <<"0">>
      BY <1>2, <2>7, Zenon DEF csv_quote_one
    <3>2. QED BY <2>3, <2>4, <2>7, <3>1
  <2>8. CASE class = "list"
    <3>1. q = Hex(x)
      BY <1>2, <2>8, Zenon DEF csv_quote_one
    <3>2. x \in Seq(Bytes)
      BY <2>0, <2>8, CellsTyped
    <3>3. Hex(x) \in Seq(Plain)
      BY <3>2, HexIsSpread
    <3>4. QED BY <2>3, <2>8, <3>1, <3>3
  <2>9. class \in {"character", "integer", "numeric", "logical", "list"}
    BY DEF Classes
  <2>10. QED BY <2>2, <2>5, <2>6, <2>7, <2>8, <2>9
<1>3. QED BY <1>1, <1>2

-----------------------------------------------------------------------------
(* Lines *)

(* What a row has in a column. *)
CellPairs == {p \in Classes \X (Texts \cup {NULL}) : p[2] \in Cells(p[1]) \cup {NULL}}
Given == Seq(CellPairs) \ {<<>>}

(* The file, piece by piece, and what it means. *)
Mark(q) == IF q = NULL THEN <<BS, "N">> ELSE q
Piece(k, p) == (IF k = 1 THEN <<>> ELSE <<TAB>>) \o Mark(csv_quote_one(p[1], p[2]))
Pieces(s) == [k \in DOMAIN s |-> Piece(k, s[k])]

Mapped(m, s) == [k \in DOMAIN s |-> m[s[k]]]
Meaning == [p \in CellPairs |-> Meant(p[1], p[2])]

(* One element more. *)
Grows(m, s, x) == Mapped(m, s \o <<x>>) = Append(Mapped(m, s), m[x])

LEMMA MappedGrow ==
  ASSUME NEW S, NEW Y, NEW m, m \in [S -> Y], NEW s, s \in Seq(S), NEW x, x \in S
  PROVE  Mapped(m, s) \in Seq(Y) /\ Grows(m, s, x)
<1> DEFINE v == s \o <<x>>
           a == Mapped(m, s)
           b == Mapped(m, v)
           y == m[x]
           e == Append(a, y)
           n == Len(s)
<1>1. /\ v \in Seq(S) /\ Len(v) = n + 1 /\ n \in Nat
      /\ \A i \in 1..n : v[i] = s[i]
      /\ v[n + 1] = x
  BY GrowProperties
<1>2. a \in Seq(Y) /\ Len(a) = n /\ \A i \in 1..n : a[i] = m[s[i]]
  BY DEF Mapped
<1> HIDE DEF v
<1>3. b \in Seq(Y) /\ Len(b) = n + 1 /\ \A i \in 1..(n + 1) : b[i] = m[v[i]]
  BY <1>1 DEF Mapped
<1>4. y \in Y
  OBVIOUS
<1> HIDE DEF a, b, y
<1>5. e \in Seq(Y) /\ Len(e) = n + 1 /\ (\A i \in 1..n : e[i] = a[i]) /\ e[n + 1] = y
  BY <1>1, <1>2, <1>4
<1> HIDE DEF e, n
<1>6. ASSUME NEW i \in 1..(n + 1) PROVE b[i] = e[i]
  <2>1. CASE i = n + 1
    BY <1>1, <1>3, <1>5, <2>1 DEF y
  <2>2. CASE i \in 1..n
    BY <1>1, <1>2, <1>3, <1>5, <2>2
  <2>3. i = n + 1 \/ i \in 1..n
    BY <1>1
  <2>4. QED BY <2>1, <2>2, <2>3
<1>7. b = e
  BY <1>3, <1>5, <1>6, SeqEqual
<1>8. QED BY <1>2, <1>7 DEF a, b, e, v, y, Grows

LEMMA MeaningTyped ==
  /\ Meaning \in [CellPairs -> FieldValues]
  /\ \A p \in CellPairs : /\ Meaning[p] = Meant(p[1], p[2])
                          /\ Stands(csv_quote_one(p[1], p[2]), Meant(p[1], p[2]))
<1>1. ASSUME NEW p \in CellPairs
      PROVE  /\ Meant(p[1], p[2]) \in FieldValues
             /\ Stands(csv_quote_one(p[1], p[2]), Meant(p[1], p[2]))
  <2> DEFINE class == p[1]
             x == p[2]
  <2>1. class \in Classes /\ x \in Cells(class) \cup {NULL}
    BY DEF CellPairs
  <2> HIDE DEF class, x
  <2>2. Meant(class, x) \in FieldValues /\ Stands(csv_quote_one(class, x), Meant(class, x))
    BY <2>1, WrittenIsMeant
  <2>3. QED BY <2>2 DEF class, x
<1>2. QED BY <1>1 DEF Meaning

(* A text with escapes, or the mark, is read as what it stands for. *)
LEMMA ReadStands ==
  ASSUME NEW R \in Seq(Seq(FieldValues)), NEW F \in Seq(FieldValues), NEW y \in FieldValues, NEW q,
         Stands(q, y)
  PROVE  /\ Mark(q) \in Texts
         /\ \E t \in Texts, w \in Texts :
              FieldOf(t, w) = y /\ Run(FileNext, Reading(R, F, <<>>, <<>>), Mark(q)) = Reading(R, F, t, w)
<1>1. CASE y = NULL
  <2>1. Mark(q) = <<BS, "N">>
    BY <1>1, Zenon DEF Stands, Mark
  <2>2. <<"N">> \in Texts /\ <<BS, "N">> \in Texts
    BY Characters DEF Texts
  <2>3. FieldOf(<<"N">>, <<BS, "N">>) = y
    BY <1>1, Zenon DEF FieldOf
  <2>4. Run(FileNext, Reading(R, F, <<>>, <<>>), <<BS, "N">>) = Reading(R, F, <<"N">>, <<BS, "N">>)
    BY ReadMark
  <2>5. QED BY <2>1, <2>2, <2>3, <2>4
<1>2. CASE y # NULL
  <2>1. y \in Texts
    BY <1>2 DEF FieldValues
  <2>2. Mark(q) = Spread(Quoting, y)
    BY <1>2, Zenon DEF Stands, Mark
  <2>3. Spread(Quoting, y) \in Texts
    BY <2>1, QuotingIs, SpreadTyped DEF Texts
  <2>4. FieldOf(y, Spread(Quoting, y)) = y
    BY <2>1, MarkIsNoText, Zenon DEF FieldOf
  <2>5. Run(FileNext, Reading(R, F, <<>>, <<>>), Spread(Quoting, y)) = Reading(R, F, y, Spread(Quoting, y))
    BY <2>1, ReadQuotedText
  <2>6. QED BY <2>1, <2>2, <2>3, <2>4, <2>5
<1>3. QED BY <1>1, <1>2

LEMMA PiecesTyped ==
  ASSUME NEW s \in Seq(CellPairs)
  PROVE  /\ Pieces(s) \in Seq(Seq(Chars)) /\ Len(Pieces(s)) = Len(s)
         /\ \A k \in 1..Len(s) : Pieces(s)[k] = Piece(k, s[k]) /\ Mark(csv_quote_one(s[k][1], s[k][2])) \in Seq(Chars)
<1>0. DOMAIN s = 1..Len(s) /\ Len(s) \in Nat
  OBVIOUS
<1>1. ASSUME NEW k \in DOMAIN s
      PROVE  Mark(csv_quote_one(s[k][1], s[k][2])) \in Seq(Chars) /\ Piece(k, s[k]) \in Seq(Chars)
  <2> DEFINE p == s[k]
             y == Meant(p[1], p[2])
             q == csv_quote_one(p[1], p[2])
  <2>1. p \in CellPairs
    OBVIOUS
  <2> HIDE DEF p
  <2>2. y \in FieldValues /\ Stands(q, y)
    BY <2>1, MeaningTyped
  <2>3. <<>> \in Seq(Seq(FieldValues)) /\ <<>> \in Seq(FieldValues)
    BY EmptySeq
  <2> HIDE DEF y, q
  <2>4. Mark(q) \in Seq(Chars)
    BY <2>2, <2>3, ReadStands DEF Texts
  <2>5. <<TAB>> \in Seq(Chars) /\ <<>> \in Seq(Chars)
    BY Characters, OneOrTwo, EmptySeq
  <2>6. (IF k = 1 THEN <<>> ELSE <<TAB>>) \o Mark(q) \in Seq(Chars)
    BY <2>4, <2>5, ConcatProperties
  <2>7. QED BY <2>4, <2>6 DEF Piece, p, q
<1>2. \A k \in DOMAIN s : Piece(k, s[k]) \in Seq(Chars)
  BY <1>1, Zenon
<1>3. /\ Pieces(s) \in Seq(Seq(Chars)) /\ Len(Pieces(s)) = Len(s)
      /\ \A k \in 1..Len(s) : Pieces(s)[k] = Piece(k, s[k])
  BY <1>0, <1>2 DEF Pieces
<1>4. QED BY <1>0, <1>1, <1>3, Zenon

LEMMA PiecesGrow ==
  ASSUME NEW u \in Seq(CellPairs), NEW c \in CellPairs
  PROVE  FlattenSeq(Pieces(u \o <<c>>)) = FlattenSeq(Pieces(u)) \o Piece(Len(u) + 1, c)
<1> DEFINE v == u \o <<c>>
<1>1. /\ v \in Seq(CellPairs) /\ Len(v) = Len(u) + 1 /\ Len(u) \in Nat
      /\ \A i \in 1..Len(u) : v[i] = u[i]
      /\ v[Len(u) + 1] = c
  BY GrowProperties
<1> HIDE DEF v
<1>2. /\ Pieces(v) \in Seq(Seq(Chars)) /\ Len(Pieces(v)) = Len(u) + 1
      /\ \A k \in 1..(Len(u) + 1) : Pieces(v)[k] = Piece(k, v[k])
  BY <1>1, PiecesTyped
<1>3. /\ Pieces(u) \in Seq(Seq(Chars)) /\ Len(Pieces(u)) = Len(u)
      /\ \A k \in 1..Len(u) : Pieces(u)[k] = Piece(k, u[k])
  BY PiecesTyped
<1>4. \A i \in 1..Len(u) : Pieces(v)[i] = Pieces(u)[i]
  <2>1. \A i \in 1..Len(u) : i \in 1..(Len(u) + 1)
    BY <1>1
  <2>2. QED BY <1>1, <1>2, <1>3, <2>1, Zenon
<1>5. Pieces(v)[Len(Pieces(v))] = Piece(Len(u) + 1, c)
  <2>1. Len(u) + 1 \in 1..(Len(u) + 1)
    BY <1>1
  <2>2. QED BY <1>1, <1>2, <2>1, Zenon
<1>6. FlattenSeq(Pieces(v)) = FlattenSeq(Pieces(u)) \o Pieces(v)[Len(Pieces(v))]
  BY <1>2, <1>3, <1>4, FlattenLast
<1>7. QED BY <1>5, <1>6, Zenon DEF v

(* The first columns of a line are read, the last of them not to its end. *)
Upto(R, s, F, t, w) ==
    /\ Mapped(Meaning, s) = Append(F, FieldOf(t, w))
    /\ Run(FileNext, Reading(R, <<>>, <<>>, <<>>), FlattenSeq(Pieces(s))) = Reading(R, F, t, w)

LEMMA ReadFirst ==
  ASSUME NEW R \in Seq(Seq(FieldValues)), NEW c \in CellPairs
  PROVE  \E F \in Seq(FieldValues), t \in Texts, w \in Texts : Upto(R, <<>> \o <<c>>, F, t, w)
<1> DEFINE q == csv_quote_one(c[1], c[2])
           y == Meant(c[1], c[2])
           a == Mark(q)
           s == <<>> \o <<c>>
           start == Reading(R, <<>>, <<>>, <<>>)
<1>1. /\ y \in FieldValues /\ Stands(q, y) /\ Meaning[c] = y
      /\ <<>> \in Seq(FieldValues) /\ <<>> \in Seq(CellPairs)
  BY MeaningTyped, EmptySeq
<1> HIDE DEF q, y
<1>2. PICK t \in Texts, w \in Texts : FieldOf(t, w) = y /\ Run(FileNext, start, a) = Reading(R, <<>>, t, w)
  <2> DEFINE F == <<>>
  <2>1. F \in Seq(FieldValues)
    BY <1>1
  <2> HIDE DEF F
  <2>2. \E t \in Texts, w \in Texts :
          FieldOf(t, w) = y /\ Run(FileNext, Reading(R, F, <<>>, <<>>), Mark(q)) = Reading(R, F, t, w)
    BY <1>1, <2>1, ReadStands
  <2>3. QED BY <2>2, Zenon DEF F
<1>3. a \in Seq(Chars)
  BY <1>1, ReadStands DEF Texts
<1>4. FlattenSeq(Pieces(s)) = a
  <2>1. FlattenSeq(Pieces(s)) = FlattenSeq(Pieces(<<>>)) \o Piece(Len(<<>>) + 1, c)
    BY <1>1, PiecesGrow
  <2>2. Len(<<>>) + 1 = 1 /\ Len(<<>>) = 0
    OBVIOUS
  <2>3. FlattenSeq(Pieces(<<>>)) = <<>>
    <3>1. Pieces(<<>>) = <<>>
      BY <1>1, <2>2, PiecesTyped, EmptySeq
    <3>2. FlattenSeq(<<>>) = <<>>
      BY <2>2, FlattenEmpty
    <3>3. QED BY <3>1, <3>2, Zenon
  <2>4. Piece(1, c) = <<>> \o a
    BY Zenon DEF Piece, q
  <2>5. <<>> \o (<<>> \o a) = a
    <3> HIDE DEF a
    <3>1. QED BY <1>3, ConcatEmptySeq
  <2>6. QED BY <2>1, <2>2, <2>3, <2>4, <2>5, Zenon
<1>5. Mapped(Meaning, s) = Append(<<>>, y)
  <2>1. Mapped(Meaning, <<>> \o <<c>>) = Append(Mapped(Meaning, <<>>), Meaning[c])
    <3>1. <<>> \in Seq(CellPairs) /\ Meaning \in [CellPairs -> FieldValues]
      BY <1>1, MeaningTyped
    <3>2. Grows(Meaning, <<>>, c)
      BY <3>1, MappedGrow
    <3>3. QED BY <3>2, Zenon DEF Grows
  <2>2. Mapped(Meaning, <<>>) = <<>>
    BY DEF Mapped
  <2>3. QED BY <1>1, <2>1, <2>2, Zenon
<1> HIDE DEF s, a, start
<1>6. Upto(R, s, <<>>, t, w)
  BY <1>2, <1>4, <1>5, Zenon DEF Upto, start
<1>7. QED BY <1>1, <1>6 DEF s

LEMMA ReadNext ==
  ASSUME NEW R \in Seq(Seq(FieldValues)), NEW u \in Seq(CellPairs), NEW c \in CellPairs, u # <<>>,
         NEW F \in Seq(FieldValues), NEW t \in Texts, NEW w \in Texts, Upto(R, u, F, t, w)
  PROVE  \E G \in Seq(FieldValues), x \in Texts, z \in Texts : Upto(R, u \o <<c>>, G, x, z)
<1> DEFINE q == csv_quote_one(c[1], c[2])
           y == Meant(c[1], c[2])
           a == Mark(q)
           f == FlattenSeq(Pieces(u))
           start == Reading(R, <<>>, <<>>, <<>>)
           G == Append(F, FieldOf(t, w))
           s == u \o <<c>>
<1>1. /\ y \in FieldValues /\ Stands(q, y) /\ Meaning[c] = y
      /\ G \in Seq(FieldValues)
  BY MeaningTyped, ReadingTyped
<1> HIDE DEF q, y, G
<1>2. PICK x \in Texts, z \in Texts : FieldOf(x, z) = y /\ Run(FileNext, Reading(R, G, <<>>, <<>>), a) = Reading(R, G, x, z)
  BY <1>1, ReadStands
<1>3. a \in Seq(Chars) /\ <<TAB>> \in Seq(Chars) /\ TAB \in Chars
  BY <1>1, ReadStands, Characters, OneOrTwo DEF Texts
<1>4. f \in Seq(Chars)
  <2>1. Pieces(u) \in Seq(Seq(Chars))
    BY PiecesTyped
  <2>2. QED BY <2>1, FlattenTyped
<1>5. FlattenSeq(Pieces(s)) = f \o (<<TAB>> \o a)
  <2>1. FlattenSeq(Pieces(s)) = f \o Piece(Len(u) + 1, c)
    BY PiecesGrow
  <2>2. Len(u) + 1 # 1
    BY EmptySeq
  <2>3. Piece(Len(u) + 1, c) = <<TAB>> \o a
    BY <2>2, Zenon DEF Piece, q
  <2>4. QED BY <2>1, <2>3, Zenon
<1>6. Run(FileNext, start, f) = Reading(R, F, t, w) /\ Mapped(Meaning, u) = G
  BY Zenon DEF Upto, G
<1> HIDE DEF a, f, start, s
<1>7. Run(FileNext, start, f \o (<<TAB>> \o a)) = Run(FileNext, Reading(R, F, t, w), <<TAB>> \o a)
  <2>1. <<TAB>> \o a \in Seq(Chars)
    BY <1>3, ConcatProperties
  <2>2. GoesOn(FileNext, start, f, <<TAB>> \o a)
    BY <1>4, <2>1, TextConcat
  <2>3. QED BY <1>6, <2>2, Zenon DEF GoesOn
<1>8. Run(FileNext, Reading(R, F, t, w), <<TAB>> \o a) = Run(FileNext, Reading(R, G, <<>>, <<>>), a)
  <2>1. Begins(FileNext, Reading(R, F, t, w), TAB, a)
    BY <1>3, TextFirst
  <2>2. FileNext[<<Reading(R, F, t, w), TAB>>] = Reading(R, G, <<>>, <<>>)
    BY FileSteps DEF G
  <2>3. QED BY <2>1, <2>2, Zenon DEF Begins
<1>9. Mapped(Meaning, s) = Append(G, y)
  <2>1. Mapped(Meaning, u \o <<c>>) = Append(Mapped(Meaning, u), Meaning[c])
    <3>1. Meaning \in [CellPairs -> FieldValues]
      BY MeaningTyped
    <3>2. Grows(Meaning, u, c)
      BY <3>1, MappedGrow
    <3>3. QED BY <3>2, Zenon DEF Grows
  <2>2. QED BY <1>1, <1>6, <2>1, Zenon DEF s
<1>10. Upto(R, s, G, x, z)
  BY <1>2, <1>5, <1>7, <1>8, <1>9, Zenon DEF Upto, start
<1>11. QED BY <1>1, <1>10 DEF s

LEMMA ReadPieces ==
  ASSUME NEW R \in Seq(Seq(FieldValues)), NEW s \in Given
  PROVE  \E F \in Seq(FieldValues), t \in Texts, w \in Texts : Upto(R, s, F, t, w)
<1> DEFINE Ends(u) == \E F \in Seq(FieldValues), t \in Texts, w \in Texts : Upto(R, u, F, t, w)
           T == {u \in Seq(CellPairs) : u # <<>> => Ends(u)}
<1>1. <<>> \in T
  BY EmptySeq
<1>2. ASSUME NEW u \in Seq(CellPairs), NEW c \in CellPairs, u \in T
      PROVE  u \o <<c>> \in T
  <2>1. u \o <<c>> \in Seq(CellPairs)
    BY GrowProperties
  <2>2. CASE u = <<>>
    <3>1. Ends(<<>> \o <<c>>)
      BY ReadFirst
    <3>2. Ends(u \o <<c>>)
      <4> HIDE DEF Ends
      <4>1. QED BY <2>2, <3>1, Zenon
    <3>3. QED BY <2>1, <3>2
  <2>3. CASE u # <<>>
    <3>1. PICK F \in Seq(FieldValues), t \in Texts, w \in Texts : Upto(R, u, F, t, w)
      BY <1>2, <2>3
    <3>2. Ends(u \o <<c>>)
      BY <2>3, <3>1, ReadNext
    <3>3. QED BY <2>1, <3>2
  <2>4. QED BY <2>2, <2>3
<1>3. \A u \in Seq(CellPairs) : u \in T
  <2> HIDE DEF T
  <2>1. QED BY <1>1, <1>2, GrowInduction
<1>4. QED BY <1>3 DEF Given

-----------------------------------------------------------------------------
(* The file *)

LineMap == [s \in Given |-> FlattenSeq(Pieces(s)) \o <<LF>>]
RowMap == [s \in Given |-> Mapped(Meaning, s)]

LEMMA LinesTyped ==
  /\ LineMap \in [Given -> Seq(Chars)] /\ RowMap \in [Given -> Seq(FieldValues)]
  /\ \A s \in Given : /\ LineMap[s] = FlattenSeq(Pieces(s)) \o <<LF>> /\ RowMap[s] = Mapped(Meaning, s)
                      /\ FlattenSeq(Pieces(s)) \in Seq(Chars)
<1>1. ASSUME NEW s \in Given
      PROVE  /\ FlattenSeq(Pieces(s)) \in Seq(Chars)
             /\ FlattenSeq(Pieces(s)) \o <<LF>> \in Seq(Chars)
             /\ Mapped(Meaning, s) \in Seq(FieldValues)
  <2>1. s \in Seq(CellPairs) /\ LF \in Chars
    BY Characters DEF Given
  <2>2. Pieces(s) \in Seq(Seq(Chars))
    BY <2>1, PiecesTyped
  <2>3. FlattenSeq(Pieces(s)) \in Seq(Chars)
    BY <2>2, FlattenTyped
  <2>4. FlattenSeq(Pieces(s)) \o <<LF>> \in Seq(Chars)
    BY <2>1, <2>3, GrowProperties
  <2>5. Mapped(Meaning, s) \in Seq(FieldValues)
    BY <2>1, MeaningTyped, MappedTyped DEF Mapped
  <2>6. QED BY <2>3, <2>4, <2>5
<1>2. QED BY <1>1 DEF LineMap, RowMap

LEMMA ReadLine ==
  ASSUME NEW R \in Seq(Seq(FieldValues)), NEW s \in Given
  PROVE  Run(FileNext, Reading(R, <<>>, <<>>, <<>>), LineMap[s])
           = Reading(Append(R, RowMap[s]), <<>>, <<>>, <<>>)
<1> DEFINE f == FlattenSeq(Pieces(s))
           start == Reading(R, <<>>, <<>>, <<>>)
<1>1. PICK F \in Seq(FieldValues), t \in Texts, w \in Texts : Upto(R, s, F, t, w)
  BY ReadPieces
<1>2. f \in Seq(Chars) /\ LineMap[s] = f \o <<LF>> /\ RowMap[s] = Mapped(Meaning, s) /\ LF \in Chars
  BY LinesTyped, Characters
<1>3. Run(FileNext, start, f) = Reading(R, F, t, w) /\ Mapped(Meaning, s) = Append(F, FieldOf(t, w))
  BY <1>1, Zenon DEF Upto
<1> HIDE DEF f, start
<1>4. Run(FileNext, start, f \o <<LF>>) = FileNext[<<Run(FileNext, start, f), LF>>]
  BY <1>2, RunGrow
<1>5. FileNext[<<Reading(R, F, t, w), LF>>]
        = Reading(Append(R, Append(F, FieldOf(t, w))), <<>>, <<>>, <<>>)
  BY FileSteps
<1>6. QED BY <1>2, <1>3, <1>4, <1>5, Zenon DEF start

(* LOAD DATA reads the file that write_delim() writes of csv_quote()'s        *)
(* columns as the rows that were given, value by value what each means:     *)
(* no tab, end of line, backslash or \\N of a text moves a field or a row.   *)
THEOREM FileRead ==
  ASSUME NEW s \in Seq(Given)
  PROVE  ReadFile(Spread(LineMap, s)) = Mapped(RowMap, s)
<1> DEFINE start == Reading(<<>>, <<>>, <<>>, <<>>)
           T == {u \in Seq(Given) : Run(FileNext, start, Spread(LineMap, u))
                                      = Reading(Mapped(RowMap, u), <<>>, <<>>, <<>>)}
<1>0. LineMap \in [Given -> Seq(Chars)] /\ RowMap \in [Given -> Seq(FieldValues)]
  BY LinesTyped
<1>1. <<>> \in T
  <2>1. Mapped(RowMap, <<>>) = <<>> /\ Spread(LineMap, <<>>) = <<>> /\ <<>> \in Seq(Given)
    BY SpreadEmpty, EmptySeq DEF Mapped
  <2>2. Run(FileNext, start, <<>>) = start
    BY RunEmpty
  <2>3. Run(FileNext, start, Spread(LineMap, <<>>)) = Reading(Mapped(RowMap, <<>>), <<>>, <<>>, <<>>)
    BY <2>1, <2>2, Zenon
  <2>4. QED BY <2>1, <2>3
<1>2. ASSUME NEW u \in Seq(Given), NEW c \in Given, u \in T
      PROVE  u \o <<c>> \in T
  <2> DEFINE R == Mapped(RowMap, u)
  <2>1. Spread(LineMap, u \o <<c>>) = Spread(LineMap, u) \o LineMap[c]
    BY <1>0, SpreadGrow
  <2>2. Spread(LineMap, u) \in Seq(Chars) /\ LineMap[c] \in Seq(Chars)
    BY <1>0, SpreadTyped
  <2>3. Mapped(RowMap, u \o <<c>>) = Append(R, RowMap[c]) /\ R \in Seq(Seq(FieldValues))
    <3>1. Grows(RowMap, u, c) /\ R \in Seq(Seq(FieldValues))
      BY <1>0, MappedGrow
    <3>2. QED BY <3>1, Zenon DEF Grows
  <2>4. Run(FileNext, start, Spread(LineMap, u)) = Reading(R, <<>>, <<>>, <<>>)
    BY <1>2
  <2> HIDE DEF R
  <2>5. Run(FileNext, start, Spread(LineMap, u) \o LineMap[c])
          = Run(FileNext, Run(FileNext, start, Spread(LineMap, u)), LineMap[c])
    <3>1. GoesOn(FileNext, start, Spread(LineMap, u), LineMap[c])
      BY <2>2, TextConcat
    <3>2. QED BY <3>1, Zenon DEF GoesOn
  <2>6. Run(FileNext, Reading(R, <<>>, <<>>, <<>>), LineMap[c])
          = Reading(Append(R, RowMap[c]), <<>>, <<>>, <<>>)
    BY <2>3, ReadLine
  <2>7. Run(FileNext, start, Spread(LineMap, u \o <<c>>))
          = Reading(Mapped(RowMap, u \o <<c>>), <<>>, <<>>, <<>>)
    BY <2>1, <2>3, <2>4, <2>5, <2>6, Zenon
  <2>8. QED BY <2>7, GrowProperties
<1>3. \A u \in Seq(Given) : u \in T
  <2> HIDE DEF T
  <2>1. QED BY <1>1, <1>2, GrowInduction
<1> DEFINE f == Spread(LineMap, s)
<1>4. Run(FileNext, start, f) = Reading(Mapped(RowMap, s), <<>>, <<>>, <<>>)
  BY <1>3
<1>5. FoldLeft(FileStep, start, f) = Run(FileNext, start, f)
  <2>1. f \in Seq(Chars)
    BY <1>0, SpreadTyped
  <2>2. start \in FileStates
    BY ReadingTyped, EmptySeq DEF Texts
  <2> HIDE DEF start, f
  <2>3. QED BY <2>1, <2>2, FileRun
<1>6. ReadFile(f) = FoldLeft(FileStep, start, f).rows
  BY Zenon DEF ReadFile, Reading
<1> HIDE DEF f
<1>7. ReadFile(f) = Reading(Mapped(RowMap, s), <<>>, <<>>, <<>>).rows
  BY <1>4, <1>5, <1>6, Zenon
<1>8. QED BY <1>7 DEF Reading, f

-----------------------------------------------------------------------------
(* What is stored of a value, in a file and in an INSERT *)

LEMMA NoSpecial ==
  /\ \A s \in Seq(Chars \ Values) : s # <<"Inf">> /\ s # <<"TRUE">> /\ s # <<"FALSE">>
  /\ Seq(Bytes) \subseteq Seq(Chars \ Values) /\ Seq(Plain) \subseteq Seq(Chars \ Values)
<1>1. ASSUME NEW s \in Seq(Chars \ Values)
      PROVE  s # <<"Inf">> /\ s # <<"TRUE">> /\ s # <<"FALSE">>
  <2> DEFINE N == Chars \ Values
  <2>1. "Inf" \notin N /\ "TRUE" \notin N /\ "FALSE" \notin N
    BY DEF Values
  <2>2. s \in Seq(N)
    OBVIOUS
  <2> HIDE DEF N
  <2>3. Len(s) = 1 => s[1] \in N
    BY <2>2
  <2>4. /\ Len(<<"Inf">>) = 1 /\ Len(<<"TRUE">>) = 1 /\ Len(<<"FALSE">>) = 1
        /\ <<"Inf">>[1] = "Inf" /\ <<"TRUE">>[1] = "TRUE" /\ <<"FALSE">>[1] = "FALSE"
    OBVIOUS
  <2>5. QED BY <2>1, <2>3, <2>4
<1>2. Bytes \subseteq Chars \ Values /\ Plain \subseteq Chars \ Values
  BY Characters DEF Bytes, Plain, Values, BS, LF
<1>3. Seq(Bytes) \subseteq Seq(Chars \ Values) /\ Seq(Plain) \subseteq Seq(Chars \ Values)
  <2> DEFINE N == Chars \ Values
  <2>1. Bytes \subseteq N /\ Plain \subseteq N
    BY <1>2
  <2> HIDE DEF N
  <2>2. Seq(Bytes) \subseteq Seq(N) /\ Seq(Plain) \subseteq Seq(N)
    BY <2>1
  <2>3. QED BY <2>2 DEF N
<1>4. QED BY <1>1, <1>3

(* What is bound, class by class. *)
LEMMA SpecialTexts ==
  /\ <<"TRUE">> # <<"FALSE">> /\ <<"Inf">> # <<"TRUE">> /\ <<"Inf">> # <<"FALSE">>
  /\ <<"Inf">> # NULL /\ <<"TRUE">> # NULL /\ <<"FALSE">> # NULL
<1>1. <<"TRUE">> # <<"FALSE">> /\ <<"Inf">> # <<"TRUE">> /\ <<"Inf">> # <<"FALSE">>
  <2>1. <<"TRUE">>[1] = "TRUE" /\ <<"FALSE">>[1] = "FALSE" /\ <<"Inf">>[1] = "Inf"
    OBVIOUS
  <2>2. QED BY <2>1
<1>2. <<"Inf">> # NULL /\ <<"TRUE">> # NULL /\ <<"FALSE">> # NULL
  <2>1. <<"Inf">> \in Seq(Chars) /\ <<"TRUE">> \in Seq(Chars) /\ <<"FALSE">> \in Seq(Chars)
    BY Characters
  <2>2. QED BY <2>1, CharsAssumption
<1>3. QED BY <1>1, <1>2

LEMMA BoundIs ==
  ASSUME NEW class \in Classes, NEW x \in Cells(class) \cup {NULL}
  PROVE  /\ x = NULL \/ x = <<"Inf">> => Bound(x) = NULL
         /\ x = <<"TRUE">> => Bound(x) = <<"1">>
         /\ x = <<"FALSE">> => Bound(x) = <<"0">>
         /\ x \notin {NULL, <<"Inf">>, <<"TRUE">>, <<"FALSE">>} => Bound(x) = x
         /\ x # NULL /\ class \in {"character", "integer", "list"} => Bound(x) = x
         /\ x # NULL /\ x # <<"Inf">> /\ class = "numeric" => Bound(x) = x
<1>2. x = NULL \/ x = <<"Inf">> => Bound(x) = NULL
  <2>1. CASE x = NULL
    BY <2>1, SpecialTexts, Zenon DEF Bound
  <2>2. CASE x = <<"Inf">>
    BY <2>2, SpecialTexts, Zenon DEF Bound
  <2>3. QED BY <2>1, <2>2
<1>3. x = <<"TRUE">> => Bound(x) = <<"1">>
  BY SpecialTexts, Zenon DEF Bound
<1>4. x = <<"FALSE">> => Bound(x) = <<"0">>
  BY SpecialTexts, Zenon DEF Bound
<1>5. x \notin {NULL, <<"Inf">>, <<"TRUE">>, <<"FALSE">>} => Bound(x) = x
  <2>1. SUFFICES ASSUME x # NULL, x # <<"Inf">>, x # <<"TRUE">>, x # <<"FALSE">>
                 PROVE  Bound(x) = x
    OBVIOUS
  <2>2. QED BY <2>1, Zenon DEF Bound
<1>6. ASSUME x # NULL, class \in {"character", "integer", "list"}
      PROVE  Bound(x) = x
  <2>1. x \in Seq(Chars \ Values)
    BY <1>6, CellsTyped, NoSpecial
  <2>2. QED BY <1>5, <1>6, <2>1, NoSpecial
<1>7. ASSUME x # NULL, x # <<"Inf">>, class = "numeric"
      PROVE  Bound(x) = x
  <2>1. x \in Seq(Chars \ Values)
    BY <1>7, CellsTyped, NoSpecial
  <2>2. QED BY <1>5, <1>7, <2>1, NoSpecial
<1>8. QED BY <1>2, <1>3, <1>4, <1>5, <1>6, <1>7

(* The types that a column may be given. *)
Fits(class, T, size) ==
    \/ class = "character" /\ (T = <<"TEXT", TextSize>> \/ T = <<"VARCHAR", size>>)
    \/ class = "list" /\ T = <<"BLOB", TextSize>>
    \/ class \in {"integer", "numeric", "logical"} /\ T = <<"NUMBER", 0>>
    \/ class = "integer" /\ T = <<"BIT", 1>>

(* What an INSERT stores, and LOAD DATA. *)
InsertedAs(T, x) ==
    LET b == Bound(x)
    IN  IF T[1] = "BIT" /\ b # NULL THEN IF b = <<"0">> THEN b ELSE <<"1">> ELSE Stored(T, b)
LoadedAs(class, T, y) == Stored(T, IF class = "list" THEN Unhex(y) ELSE y)

LEMMA StoredNull ==
  ASSUME NEW T
  PROVE  Stored(T, NULL) = NULL /\ Unhex(NULL) = NULL
BY Zenon DEF Stored, Unhex

LEMMA StoredNumber ==
  ASSUME NEW x, x # NULL
  PROVE  /\ Stored(<<"NUMBER", 0>>, x) = IF x = <<>> THEN <<"0">> ELSE x
         /\ Stored(<<"BIT", 1>>, x) = IF x = <<>> THEN <<"0">> ELSE <<"1">>
<1> DEFINE n == <<"NUMBER", 0>>
           b == <<"BIT", 1>>
<1>1. n[1] = "NUMBER" /\ b[1] = "BIT"
  OBVIOUS
<1> HIDE DEF n, b
<1>2. Stored(n, x) = IF x = <<>> THEN <<"0">> ELSE x
  <2>1. n[1] \notin {"VARCHAR", "TEXT", "BLOB"} /\ n[1] # "BIT"
    BY <1>1
  <2>2. QED BY <1>1, <2>1, Zenon DEF Stored
<1>3. Stored(b, x) = IF x = <<>> THEN <<"0">> ELSE <<"1">>
  <2>1. b[1] \notin {"VARCHAR", "TEXT", "BLOB"} /\ b[1] # "NUMBER"
    BY <1>1
  <2>2. QED BY <1>1, <2>1, Zenon DEF Stored
<1>4. QED BY <1>2, <1>3 DEF n, b

LEMMA SameStored ==
  ASSUME NEW class \in Classes, NEW x \in Cells(class) \cup {NULL}, NEW T, NEW size,
         Fits(class, T, size)
  PROVE  LoadedAs(class, T, Meant(class, x)) = InsertedAs(T, x)
<1>0. /\ class = "character" => T[1] # "BIT" /\ class # "list"
      /\ class = "list" => T[1] # "BIT"
  BY DEF Fits
<1>1. CASE x = NULL
  <2>1. Meant(class, x) = NULL /\ Bound(x) = NULL
    BY <1>1, BoundIs, Zenon DEF Meant
  <2>2. LoadedAs(class, T, NULL) = NULL
    BY StoredNull, Zenon DEF LoadedAs
  <2>3. InsertedAs(T, x) = NULL
    BY <2>1, StoredNull, Zenon DEF InsertedAs
  <2>4. QED BY <2>1, <2>2, <2>3, Zenon
<1>2. CASE x # NULL
  <2>0. x \in Cells(class)
    BY <1>2
  <2>1. CASE class = "character"
    <3>1. Meant(class, x) = x /\ T[1] # "BIT" /\ class # "list"
      BY <1>0, <1>2, <2>1, Zenon DEF Meant
    <3>2. Bound(x) = x
      BY <1>2, <2>1, BoundIs
    <3>3. QED BY <3>1, <3>2, Zenon DEF LoadedAs, InsertedAs
  <2>2. CASE class = "list"
    <3>1. x \in Seq(Bytes) /\ T[1] # "BIT" /\ class # "character"
      BY <1>0, <2>0, <2>2, CellsTyped
    <3>2. Meant(class, x) = Hex(x)
      BY <1>2, <2>2, <3>1, Zenon DEF Meant, csv_quote_one
    <3>3. Unhex(Hex(x)) = x
      BY <3>1, HexRead
    <3>4. Bound(x) = x
      BY <1>2, <2>2, BoundIs
    <3>5. QED BY <2>2, <3>1, <3>2, <3>3, <3>4, Zenon DEF LoadedAs, InsertedAs
  <2>3. CASE class = "integer"
    <3>1. x # <<>> /\ class # "list" /\ class # "character" /\ (T = <<"NUMBER", 0>> \/ T = <<"BIT", 1>>)
      BY <2>0, <2>3, CellsTyped DEF Fits
    <3>2. Meant(class, x) = IF x = <<"0">> THEN <<>> ELSE x
      BY <1>2, <2>3, <3>1, Zenon DEF Meant, csv_quote_one, Integer
    <3>3. Bound(x) = x
      BY <1>2, <2>3, BoundIs
    <3>4. <<>> # NULL /\ <<"0">> # <<>>
      <4>1. <<>> \in Seq(Chars)
        OBVIOUS
      <4>2. QED BY <4>1, CharsAssumption
    <3>5. CASE T = <<"NUMBER", 0>>
      <4>1. T[1] # "BIT"
        BY <3>5
      <4>2. InsertedAs(T, x) = Stored(T, x)
        BY <3>3, <4>1, Zenon DEF InsertedAs
      <4>3. LoadedAs(class, T, Meant(class, x)) = Stored(T, Meant(class, x))
        BY <3>1, Zenon DEF LoadedAs
      <4>4. Stored(T, x) = x
        BY <1>2, <3>1, <3>5, StoredNumber
      <4>5. Stored(T, Meant(class, x)) = x
        BY <1>2, <3>1, <3>2, <3>4, <3>5, StoredNumber
      <4>6. QED BY <4>2, <4>3, <4>4, <4>5, Zenon
    <3>6. CASE T = <<"BIT", 1>>
      <4>1. T[1] = "BIT"
        BY <3>6
      <4>2. InsertedAs(T, x) = IF x = <<"0">> THEN x ELSE <<"1">>
        BY <1>2, <3>3, <4>1, Zenon DEF InsertedAs
      <4>3. LoadedAs(class, T, Meant(class, x)) = Stored(T, Meant(class, x))
        BY <3>1, Zenon DEF LoadedAs
      <4>4. Stored(T, Meant(class, x)) = IF x = <<"0">> THEN x ELSE <<"1">>
        BY <1>2, <3>1, <3>2, <3>4, <3>6, StoredNumber
      <4>5. QED BY <4>2, <4>3, <4>4, Zenon
    <3>7. QED BY <3>1, <3>5, <3>6
  <2>4. CASE class = "numeric"
    <3>1. class # "list" /\ class # "character" /\ T = <<"NUMBER", 0>>
      BY <2>4 DEF Fits
    <3>2. Meant(class, x) = IF x = <<"Inf">> THEN NULL ELSE x
      BY <1>2, <2>4, <3>1, Zenon DEF Meant, csv_quote_one
    <3>3. Bound(x) = IF x = <<"Inf">> THEN NULL ELSE x
      BY <1>2, <2>4, BoundIs
    <3>4. T[1] # "BIT"
      BY <3>1
    <3>5. Meant(class, x) = Bound(x)
      BY <3>2, <3>3
    <3>6. LoadedAs(class, T, Meant(class, x)) = Stored(T, Meant(class, x))
      BY <3>1, Zenon DEF LoadedAs
    <3>7. InsertedAs(T, x) = Stored(T, Bound(x))
      BY <3>4, Zenon DEF InsertedAs
    <3>8. QED BY <3>5, <3>6, <3>7, Zenon
  <2>5. CASE class = "logical"
    <3>1. class # "list" /\ class # "character" /\ T = <<"NUMBER", 0>> /\ x \in {<<"TRUE">>, <<"FALSE">>}
      BY <2>0, <2>5, CellsTyped DEF Fits
    <3>2. Meant(class, x) = IF x = <<"TRUE">> THEN <<"1">> ELSE <<"0">>
      BY <1>2, <2>5, <3>1, Zenon DEF Meant, csv_quote_one
    <3>3. Bound(x) = IF x = <<"TRUE">> THEN <<"1">> ELSE <<"0">>
      BY <3>1, BoundIs
    <3>4. T[1] # "BIT"
      BY <3>1
    <3>5. Meant(class, x) = Bound(x)
      BY <3>2, <3>3
    <3>6. LoadedAs(class, T, Meant(class, x)) = Stored(T, Meant(class, x))
      BY <3>1, Zenon DEF LoadedAs
    <3>7. InsertedAs(T, x) = Stored(T, Bound(x))
      BY <3>4, Zenon DEF InsertedAs
    <3>8. QED BY <3>5, <3>6, <3>7, Zenon
  <2>6. class \in {"character", "integer", "numeric", "logical", "list"}
    BY DEF Classes
  <2>7. QED BY <2>1, <2>2, <2>3, <2>4, <2>5, <2>6
<1>3. QED BY <1>1, <1>2

(* What was given, in a column of the type that was chosen for it. *)
LEMMA StoredAsGiven ==
  ASSUME NEW class \in Classes, NEW x \in Cells(class) \cup {NULL}, NEW T, NEW size \in Nat,
         Fits(class, T, size), T # <<"BIT", 1>>, x # NULL => Len(x) <= size
  PROVE  CASE x = NULL \/ x = <<"Inf">> -> InsertedAs(T, x) = NULL
           [] x = <<"TRUE">> -> InsertedAs(T, x) = <<"1">>
           [] x = <<"FALSE">> -> InsertedAs(T, x) = <<"0">>
           [] OTHER -> InsertedAs(T, x) = x
                         \/ (T[1] \in {"TEXT", "BLOB"} /\ InsertedAs(T, x) = Cut(x, TextSize))
<1>0. T[1] # "BIT"
  BY DEF Fits
<1>1. InsertedAs(T, x) = Stored(T, Bound(x))
  BY <1>0, Zenon DEF InsertedAs
<1>2. CASE x = NULL \/ x = <<"Inf">>
  <2>1. InsertedAs(T, x) = NULL
    BY <1>1, <1>2, BoundIs, StoredNull
  <2>2. x # <<"TRUE">> /\ x # <<"FALSE">>
    BY <1>2, SpecialTexts
  <2>3. QED BY <1>2, <2>1, <2>2, Zenon
<1>3. CASE x # NULL /\ x # <<"Inf">>
  <2>0. x \in Cells(class)
    BY <1>3
  <2>1. CASE class = "logical"
    <3>1. x \in {<<"TRUE">>, <<"FALSE">>} /\ T = <<"NUMBER", 0>>
      BY <2>0, <2>1, CellsTyped DEF Fits
    <3>2. /\ <<"0">> # NULL /\ <<"1">> # NULL /\ <<"0">> # <<>> /\ <<"1">> # <<>>
          /\ <<"TRUE">> # <<"FALSE">>
      <4>1. <<"0">> \in Seq(Chars) /\ <<"1">> \in Seq(Chars)
        BY Characters
      <4>2. <<"TRUE">>[1] # <<"FALSE">>[1]
        OBVIOUS
      <4>3. QED BY <4>1, <4>2, CharsAssumption
    <3>3. x = <<"TRUE">> => InsertedAs(T, x) = <<"1">>
      BY <1>1, <3>1, <3>2, BoundIs, StoredNumber
    <3>4. x = <<"FALSE">> => InsertedAs(T, x) = <<"0">>
      BY <1>1, <3>1, <3>2, BoundIs, StoredNumber
    <3>5. CASE x = <<"TRUE">>
      BY <1>3, <3>2, <3>3, <3>5, Zenon
    <3>6. CASE x = <<"FALSE">>
      BY <1>3, <3>2, <3>4, <3>6, Zenon
    <3>7. QED BY <3>1, <3>5, <3>6
  <2>2. CASE class # "logical"
    <3>1. Bound(x) = x /\ x # <<"TRUE">> /\ x # <<"FALSE">>
      <4>1. class \in {"character", "integer", "list"} \/ class = "numeric"
        BY <2>2 DEF Classes
      <4>2. x \in Seq(Chars \ Values)
        BY <1>3, <2>0, <4>1, CellsTyped, NoSpecial
      <4>3. QED BY <1>3, <4>1, <4>2, BoundIs, NoSpecial
    <3>2. InsertedAs(T, x) = Stored(T, x)
      BY <1>1, <3>1, Zenon
    <3>3. x \in Texts
      BY <2>0, CellsTyped
    <3>4. SUFFICES Stored(T, x) = x \/ (T[1] \in {"TEXT", "BLOB"} /\ Stored(T, x) = Cut(x, TextSize))
      BY <1>3, <3>1, <3>2, Zenon
    <3>5. CASE T = <<"NUMBER", 0>>
      <4>1. class \in {"integer", "numeric"}
        BY <2>2, <3>5 DEF Fits
      <4>2. x # <<>>
        BY <1>3, <2>0, <4>1, CellsTyped
      <4>3. QED BY <1>3, <3>5, <4>2, StoredNumber
    <3>6. CASE T = <<"TEXT", TextSize>> \/ T = <<"BLOB", TextSize>>
      <4>1. T[1] \in {"TEXT", "BLOB"} /\ T[2] = TextSize /\ T[1] \in {"VARCHAR", "TEXT", "BLOB"}
        BY <3>6
      <4>2. T[1] # "NUMBER" /\ T[1] # "BIT"
        BY <4>1
      <4>3. Stored(T, x) = Cut(x, TextSize)
        BY <1>3, <4>1, <4>2, Zenon DEF Stored
      <4>4. QED BY <4>1, <4>3
    <3>7. CASE T = <<"VARCHAR", size>>
      <4>1. T[1] = "VARCHAR" /\ T[2] = size /\ T[1] \in {"VARCHAR", "TEXT", "BLOB"}
        BY <3>7
      <4>2. T[1] # "NUMBER" /\ T[1] # "BIT"
        BY <4>1
      <4>3. Stored(T, x) = Cut(x, size)
        BY <1>3, <4>1, <4>2, Zenon DEF Stored
      <4>4. Cut(x, size) = x
        <5>1. Len(x) \in Nat /\ Len(x) <= size /\ x \in Seq(Chars)
          BY <1>3, <3>3 DEF Texts
        <5>2. Cut(x, size) = SubSeq(x, 1, Len(x))
          BY <5>1 DEF Cut
        <5>3. SubSeq(x, 1, Len(x)) = x
          <6> DEFINE v == SubSeq(x, 1, Len(x))
          <6>1. v \in Seq(Chars) /\ Len(v) = Len(x) /\ \A i \in 1..Len(x) : v[i] = x[i]
            BY <5>1
          <6> HIDE DEF v
          <6>2. v = x
            BY <5>1, <6>1, SeqEqual
          <6>3. QED BY <6>2 DEF v
        <5>4. QED BY <5>2, <5>3
      <4>5. QED BY <4>3, <4>4
    <3>8. QED BY <3>5, <3>6, <3>7 DEF Fits
  <2>3. QED BY <2>1, <2>2
<1>4. QED BY <1>2, <1>3

-----------------------------------------------------------------------------
(* The data frame of a call *)

Names == {frame[j].name : j \in Cols}
RowGiven(r) == [j \in Cols |-> <<frame[j].class, frame[j].cells[r]>>]
AllGiven == [r \in RowsOf |-> RowGiven(r)]

(* Columns of one length, with different names and the values of a class. *)
Shaped ==
    /\ frame \in Seq(Columns) /\ Cols = 1..Len(frame) /\ Len(frame) \in Nat /\ 1 \in Cols
    /\ Len(frame[1].cells) \in Nat /\ RowsOf = 1..Len(frame[1].cells)
    /\ \A j \in Cols :
         /\ frame[j].name \in Texts /\ frame[j].class \in Classes
         /\ frame[j].cells \in Seq(Texts \cup {NULL}) /\ DOMAIN frame[j].cells = RowsOf
         /\ \A r \in RowsOf : frame[j].cells[r] \in Cells(frame[j].class) \cup {NULL}
         /\ \A k \in Cols : frame[j].name = frame[k].name => j = k

LEMMA FrameShaped ==
  ASSUME call \in Calls
  PROVE  Shaped
<1> DEFINE f == call.frame
<1>1. /\ f \in Seq(Columns) /\ f # <<>>
      /\ \A j \in DOMAIN f :
           /\ DOMAIN f[j].cells = DOMAIN f[1].cells
           /\ \A r \in DOMAIN f[j].cells : f[j].cells[r] \in Cells(f[j].class) \cup {NULL}
           /\ \A k \in DOMAIN f : f[j].name = f[k].name => j = k
  BY CallsAssumption
<1> HIDE DEF f
<1>2. DOMAIN f = 1..Len(f) /\ Len(f) \in Nat /\ 1 \in DOMAIN f
  <2> DEFINE C == Columns
  <2>1. f \in Seq(C) /\ f # <<>>
    BY <1>1
  <2> HIDE DEF C
  <2>2. QED BY <2>1
<1>3. ASSUME NEW j \in DOMAIN f
      PROVE  /\ f[j].name \in Texts /\ f[j].class \in Classes
             /\ f[j].cells \in Seq(Texts \cup {NULL})
  <2> DEFINE C == Columns
  <2>1. f \in Seq(C)
    BY <1>1
  <2> HIDE DEF C
  <2>2. f[j] \in C
    BY <2>1
  <2>3. QED BY <2>2 DEF C, Columns, Texts
<1>4. Len(f[1].cells) \in Nat /\ DOMAIN f[1].cells = 1..Len(f[1].cells)
  <2> DEFINE c == f[1].cells
             V == Texts \cup {NULL}
  <2>1. c \in Seq(V)
    BY <1>2, <1>3
  <2> HIDE DEF c, V
  <2>2. Len(c) \in Nat /\ DOMAIN c = 1..Len(c)
    BY <2>1
  <2>3. QED BY <2>2 DEF c
<1>5. frame = f /\ Cols = DOMAIN f /\ RowsOf = DOMAIN f[1].cells
  BY DEF frame, Cols, RowsOf, f
<1>6. QED BY <1>1, <1>2, <1>3, <1>4, <1>5, Zenon DEF Shaped

(* A row of the data frame, and all of them. *)
LEMMA RowsGiven ==
  ASSUME Shaped
  PROVE  /\ \A r \in RowsOf : RowGiven(r) \in Given /\ DOMAIN RowGiven(r) = Cols
         /\ AllGiven \in Seq(Given) /\ DOMAIN AllGiven = RowsOf
<1>1. ASSUME NEW r \in RowsOf
      PROVE  RowGiven(r) \in Given /\ DOMAIN RowGiven(r) = Cols
  <2>1. ASSUME NEW j \in Cols
        PROVE  <<frame[j].class, frame[j].cells[r]>> \in CellPairs
    <3> DEFINE c == frame[j].class
               x == frame[j].cells[r]
    <3>1. c \in Classes /\ x \in Cells(c) \cup {NULL}
      BY DEF Shaped
    <3> HIDE DEF c, x
    <3>2. x \in Texts \cup {NULL}
      BY <3>1, CellsTyped
    <3>3. <<c, x>> \in CellPairs
      BY <3>1, <3>2 DEF CellPairs
    <3>4. QED BY <3>3 DEF c, x
  <2> DEFINE g == RowGiven(r)
             P == CellPairs
             e(j) == <<frame[j].class, frame[j].cells[r]>>
  <2>2. g = [j \in Cols |-> e(j)] /\ \A j \in Cols : e(j) \in P
    BY <2>1 DEF RowGiven
  <2> HIDE DEF g, P, e
  <2>3. Cols = 1..Len(frame) /\ Len(frame) \in Nat /\ 1 \in Cols
    BY DEF Shaped
  <2>4. g \in Seq(P) /\ DOMAIN g = Cols /\ g # <<>>
    <3> DEFINE n == Len(frame)
               D == Cols
    <3>1. D = 1..n /\ n \in Nat /\ 1 \in D /\ g = [j \in D |-> e(j)] /\ \A j \in D : e(j) \in P
      BY <2>2, <2>3
    <3> HIDE DEF n, D
    <3>2. g \in Seq(P) /\ DOMAIN g = D /\ g # <<>>
      BY <3>1
    <3>3. QED BY <3>2 DEF D
  <2>5. QED BY <2>4 DEF g, P, Given
<1>2. AllGiven \in Seq(Given) /\ DOMAIN AllGiven = RowsOf
  <2> DEFINE n == Len(frame[1].cells)
             D == RowsOf
             G == Given
             e(r) == RowGiven(r)
             a == AllGiven
  <2>1. D = 1..n /\ n \in Nat
    BY DEF Shaped
  <2>2. a = [r \in D |-> e(r)] /\ \A r \in D : e(r) \in G
    BY <1>1 DEF AllGiven
  <2> HIDE DEF n, D, G, e, a
  <2>3. a \in Seq(G) /\ DOMAIN a = D
    BY <2>1, <2>2
  <2>4. QED BY <2>3 DEF a, G, D
<1>3. QED BY <1>1, <1>2

(* What write_delim() writes of a row is the line of what is given. *)
LEMMA LineIs ==
  ASSUME Shaped, NEW r \in RowsOf
  PROVE  Line(r) = LineMap[RowGiven(r)]
<1> DEFINE s == RowGiven(r)
           q(j) == csv_quote_one(frame[j].class, frame[j].cells[r])
           a == [j \in Cols |-> LET x == q(j)
                                IN  (IF j = 1 THEN <<>> ELSE <<TAB>>) \o (IF x = NULL THEN <<BS, "N">> ELSE x)]
<1>1. s \in Given /\ DOMAIN s = Cols
  BY RowsGiven
<1>2. \A j \in Cols : s[j] = <<frame[j].class, frame[j].cells[r]>>
  BY DEF RowGiven
<1>3. \A j \in Cols : s[j][1] = frame[j].class /\ s[j][2] = frame[j].cells[r]
  BY <1>2
<1>4. Line(r) = FlattenSeq(a) \o <<LF>>
  BY Zenon DEF Line
<1> HIDE DEF s
<1>5. \A j \in Cols : a[j] = Piece(j, s[j])
  <2>1. ASSUME NEW j \in Cols PROVE a[j] = Piece(j, s[j])
    <3>1. a[j] = (IF j = 1 THEN <<>> ELSE <<TAB>>) \o (IF q(j) = NULL THEN <<BS, "N">> ELSE q(j))
      BY Zenon
    <3>2. csv_quote_one(s[j][1], s[j][2]) = q(j)
      BY <1>3, Zenon
    <3> HIDE DEF a, q
    <3>3. QED BY <3>1, <3>2, Zenon DEF Piece, Mark
  <2>2. QED BY <2>1
<1>6. a = Pieces(s)
  <2>1. a = [j \in Cols |-> a[j]]
    OBVIOUS
  <2> HIDE DEF a
  <2>2. QED BY <1>1, <1>5, <2>1, Zenon DEF Pieces
<1>7. LineMap[s] = FlattenSeq(Pieces(s)) \o <<LF>>
  BY <1>1, LinesTyped
<1>8. QED
  <2> HIDE DEF a
  <2>1. Line(r) = LineMap[s]
    BY <1>4, <1>6, <1>7, Zenon
  <2>2. QED BY <2>1 DEF s

(* What LOAD DATA reads in the file that was written. *)
LEMMA ReadBack ==
  ASSUME Shaped, NEW w, w = FlattenSeq([r \in RowsOf |-> Line(r)])
  PROVE  /\ DOMAIN ReadFile(w) = RowsOf
         /\ \A r \in RowsOf :
              /\ DOMAIN ReadFile(w)[r] = Cols
              /\ \A j \in Cols : ReadFile(w)[r][j] = Meant(frame[j].class, frame[j].cells[r])
<1> DEFINE g == AllGiven
           b == Mapped(RowMap, g)
<1>1. g \in Seq(Given) /\ DOMAIN g = RowsOf
  BY RowsGiven
<1>2. \A r \in RowsOf : g[r] = RowGiven(r)
  BY DEF AllGiven
<1> HIDE DEF g
<1>3. w = Spread(LineMap, g)
  <2>1. [r \in RowsOf |-> Line(r)] = [r \in DOMAIN g |-> LineMap[g[r]]]
    BY <1>1, <1>2, LineIs, Zenon
  <2>2. QED BY <2>1, Zenon DEF Spread
<1>4. ReadFile(w) = b
  BY <1>1, <1>3, FileRead, Zenon
<1>5. DOMAIN b = RowsOf /\ \A r \in RowsOf : b[r] = RowMap[RowGiven(r)]
  BY <1>1, <1>2 DEF Mapped
<1> HIDE DEF b
<1>6. ASSUME NEW r \in RowsOf
      PROVE  /\ DOMAIN b[r] = Cols
             /\ \A j \in Cols : b[r][j] = Meant(frame[j].class, frame[j].cells[r])
  <2> DEFINE s == RowGiven(r)
             m == Mapped(Meaning, s)
  <2>1. s \in Given /\ DOMAIN s = Cols
    BY RowsGiven
  <2>2. \A j \in Cols : s[j] = <<frame[j].class, frame[j].cells[r]>>
    BY DEF RowGiven
  <2>3. \A j \in Cols : s[j][1] = frame[j].class /\ s[j][2] = frame[j].cells[r]
    BY <2>2
  <2> HIDE DEF s
  <2>4. b[r] = m
    <3>1. b[r] = RowMap[s]
      BY <1>5 DEF s
    <3>2. RowMap[s] = m
      BY <2>1, LinesTyped
    <3>3. QED BY <3>1, <3>2
  <2>5. DOMAIN m = Cols /\ \A j \in Cols : m[j] = Meaning[s[j]]
    BY <2>1 DEF Mapped
  <2> HIDE DEF m
  <2>6. ASSUME NEW j \in Cols PROVE m[j] = Meant(frame[j].class, frame[j].cells[r])
    <3>1. s[j] \in CellPairs
      <4>1. s \in Seq(CellPairs) /\ j \in DOMAIN s
        BY <2>1 DEF Given
      <4>2. QED BY <4>1
    <3>2. Meaning[s[j]] = Meant(s[j][1], s[j][2])
      BY <3>1, MeaningTyped
    <3>3. QED BY <2>3, <2>5, <3>2, Zenon
  <2>7. QED BY <2>4, <2>5, <2>6, Zenon
<1>7. QED BY <1>4, <1>5, <1>6, Zenon

-----------------------------------------------------------------------------
(* The columns of the statement *)

LEMMA OneNameRead ==
  ASSUME NEW s \in Texts
  PROVE  /\ ReadName(dbQuoteIdentifier(s)) = <<s>>
         /\ dbQuoteIdentifier(s) \in Seq(Chars) /\ dbQuoteIdentifier(s)[1] = TICK
<1> DEFINE q == dbQuoteIdentifier(s)
           e == <<>>
           start == Before(e)
<1>0. e \in Seq(Texts) /\ e \in Texts
  BY EmptySeq DEF Texts
<1>1. q \in Seq(Chars) /\ q[1] = TICK
  <2> DEFINE a == Spread(Doubling, s)
  <2>1. q = <<TICK>> \o a \o <<TICK>> /\ a \in Seq(Chars) /\ TICK \in Chars
    BY Quoted, Characters
  <2> HIDE DEF q, a
  <2>2. QED BY <2>1, Enclosed
<1>2. FoldLeft(NameStep, start, q) = Run(NameNext, start, q)
  <2>1. start \in NameStates
    BY <1>0, NamePlaces
  <2> HIDE DEF start, q
  <2>2. QED BY <1>1, <2>1, NameRun
<1>3. Run(NameNext, start, q) = Behind(e, s)
  <2> HIDE DEF e
  <2>1. QED BY <1>0, ReadQuoted
<1>4. ReadName(q) = LET end == FoldLeft(NameStep, start, q) IN Append(end.parts, end.text)
  BY Zenon DEF ReadName, Before
<1>5. ReadName(q) = Append(Behind(e, s).parts, Behind(e, s).text)
  <2> HIDE DEF q, start
  <2>1. QED BY <1>2, <1>3, <1>4, Zenon
<1>6. Behind(e, s).parts = e /\ Behind(e, s).text = s
  BY DEF Behind
<1>7. Append(e, s) = <<s>>
  OBVIOUS
<1>8. QED BY <1>1, <1>5, <1>6, <1>7, Zenon

(* A variable is no name, and each column of raw bytes has its own. *)
LEMMA VariablesDiffer ==
  ASSUME NEW j, NEW k
  PROVE  /\ Variable(j) = Variable(k) => j = k
         /\ \A s \in Seq(Chars) : s[1] = TICK => Variable(j) # s
<1>1. Variable(j)[3] = j /\ Variable(k)[3] = k /\ Variable(j)[1] = "@"
  BY DEF Variable
<1>2. TICK # "@"
  BY Different
<1>3. QED BY <1>1, <1>2

(* Each name is the target of its own column only. *)
Reaches(k, n) ==
    \/ ~IsList(k) /\ ReadName(Targets[k]) = <<n>>
    \/ \E s \in SetClause : ReadName(s[1]) = <<n>> /\ s[2] = Targets[k]

LEMMA ReachesOwn ==
  ASSUME Shaped, NEW j \in Cols, NEW k \in Cols
  PROVE  Reaches(k, frame[j].name) <=> k = j
<1> DEFINE n(i) == frame[i].name
           q(i) == dbQuoteIdentifier(n(i))
           L == {i \in Cols : IsList(i)}
<1>1. \A i \in Cols : n(i) \in Texts /\ \A h \in Cols : n(i) = n(h) => i = h
  BY DEF Shaped
<1>2. \A i \in Cols : ReadName(q(i)) = <<n(i)>> /\ q(i) \in Seq(Chars) /\ q(i)[1] = TICK
  BY <1>1, OneNameRead
<1>3. \A i, h \in Cols : <<n(i)>> = <<n(h)>> => i = h
  <2>1. ASSUME NEW i \in Cols, NEW h \in Cols, <<n(i)>> = <<n(h)>> PROVE i = h
    <3>1. <<n(i)>>[1] = n(i) /\ <<n(h)>>[1] = n(h)
      OBVIOUS
    <3>2. QED BY <1>1, <2>1, <3>1
  <2>2. QED BY <2>1
<1>4. Targets[k] = IF IsList(k) THEN Variable(k) ELSE q(k)
  BY Zenon DEF Targets
<1>5. SetClause = {<<q(i), Variable(i)>> : i \in L}
  BY Zenon DEF SetClause
<1>6. \A i, h \in Cols : Variable(i) = Variable(h) => i = h
  BY VariablesDiffer
<1>7. \A i, h \in Cols : Variable(i) # q(h)
  BY <1>2, VariablesDiffer
<1> HIDE DEF n, q
<1>8. CASE IsList(k)
  <2>1. ASSUME NEW s \in SetClause, ReadName(s[1]) = <<n(j)>>, s[2] = Targets[k]
        PROVE  k = j
    <3>1. PICK i \in L : s = <<q(i), Variable(i)>>
      BY <1>5
    <3>2. s[1] = q(i) /\ s[2] = Variable(i) /\ i \in Cols
      BY <3>1
    <3>3. i = k
      BY <1>4, <1>6, <1>8, <2>1, <3>2
    <3>4. <<n(i)>> = <<n(j)>>
      BY <1>2, <2>1, <3>2
    <3>5. QED BY <1>3, <3>2, <3>3, <3>4
  <2>2. ASSUME k = j
        PROVE  \E s \in SetClause : ReadName(s[1]) = <<n(j)>> /\ s[2] = Targets[k]
    <3> DEFINE s == <<q(k), Variable(k)>>
    <3>1. s \in SetClause
      BY <1>5, <1>8
    <3>2. s[1] = q(k) /\ s[2] = Variable(k)
      OBVIOUS
    <3>3. ReadName(s[1]) = <<n(j)>> /\ s[2] = Targets[k]
      BY <1>2, <1>4, <1>8, <2>2, <3>2
    <3> HIDE DEF s
    <3>4. QED BY <3>1, <3>3
  <2>3. QED BY <1>8, <2>1, <2>2 DEF Reaches, n
<1>9. CASE ~IsList(k)
  <2>1. \A s \in SetClause : s[2] # Targets[k]
    <3>1. ASSUME NEW s \in SetClause PROVE s[2] # Targets[k]
      <4>1. PICK i \in L : s = <<q(i), Variable(i)>>
        BY <1>5
      <4>2. s[2] = Variable(i) /\ i \in Cols
        BY <4>1
      <4>3. QED BY <1>4, <1>7, <1>9, <4>2
    <3>2. QED BY <3>1
  <2>2. ReadName(Targets[k]) = <<n(k)>>
    BY <1>2, <1>4, <1>9
  <2>3. <<n(k)>> = <<n(j)>> <=> k = j
    BY <1>3
  <2>4. QED BY <1>9, <2>1, <2>2, <2>3 DEF Reaches, n
<1>10. QED BY <1>8, <1>9

(* With a field for each column, each column gets its own. *)
LEMMA LoadedIs ==
  ASSUME Shaped, NEW fields, DOMAIN fields = Cols
  PROVE  /\ DOMAIN Loaded(fields) = Names
         /\ \A j \in Cols : Loaded(fields)[frame[j].name] = LoadedAs(frame[j].class, types[j], fields[j])
<1>1. DOMAIN Loaded(fields) = Names
  BY DEF Loaded, Names
<1>2. ASSUME NEW j \in Cols
      PROVE  Loaded(fields)[frame[j].name] = LoadedAs(frame[j].class, types[j], fields[j])
  <2> DEFINE n == frame[j].name
             i == CHOOSE k \in Cols : frame[k].name = n
             at == {k \in Cols \cap DOMAIN fields : Reaches(k, n)}
             h == CHOOSE k \in at : TRUE
  <2>1. n \in Names
    BY DEF Names
  <2>2. Loaded(fields)[n] = IF at = {} THEN NULL
                            ELSE Stored(types[i], IF IsList(h) THEN Unhex(fields[h]) ELSE fields[h])
    BY <2>1, Zenon DEF Loaded, Names, Reaches
  <2>3. i = j
    BY DEF Shaped
  <2>4. at = {j}
    <3>1. \A k \in Cols : Reaches(k, n) <=> k = j
      BY ReachesOwn
    <3> HIDE DEF n
    <3>2. QED BY <3>1
  <2> HIDE DEF at, i, n
  <2>5. h = j
    BY <2>4
  <2> HIDE DEF h
  <2>6. Loaded(fields)[n] = Stored(types[j], IF IsList(j) THEN Unhex(fields[j]) ELSE fields[j])
    <3>1. at # {}
      BY <2>4
    <3>2. QED BY <2>2, <2>3, <2>5, <3>1, Zenon
  <2>7. QED BY <2>6, Zenon DEF n, LoadedAs, IsList
<1>3. QED BY <1>1, <1>2

-----------------------------------------------------------------------------
(* The types of the columns *)

(* There is a longest text in a column. *)
LEMMA Bounded ==
  ASSUME NEW s \in Seq(Texts \cup {NULL})
  PROVE  \E n \in Nat : \A k \in DOMAIN s : s[k] # NULL => Len(s[k]) <= n
<1> DEFINE S == Texts \cup {NULL}
           Below(u, n) == \A k \in 1..Len(u) : u[k] # NULL => Len(u[k]) <= n
           T == {u \in Seq(S) : \E n \in Nat : Below(u, n)}
<1>1. <<>> \in T
  BY EmptySeq
<1>2. ASSUME NEW u \in Seq(S), NEW c \in S, u \in T
      PROVE  u \o <<c>> \in T
  <2> DEFINE v == u \o <<c>>
  <2>1. /\ v \in Seq(S) /\ Len(v) = Len(u) + 1 /\ Len(u) \in Nat
        /\ \A i \in 1..Len(u) : v[i] = u[i]
        /\ v[Len(u) + 1] = c
    <3> HIDE DEF S, T
    <3>1. QED BY GrowProperties
  <2>2. PICK n \in Nat : Below(u, n)
    BY <1>2
  <2>3. PICK m \in Nat : c # NULL => Len(c) <= m
    <3>1. c # NULL => Len(c) \in Nat
      BY DEF Texts
    <3>2. CASE c = NULL
      BY <3>2
    <3>3. CASE c # NULL
      <4>1. Len(c) \in Nat /\ Len(c) <= Len(c)
        BY <3>1, <3>3
      <4>2. QED BY <4>1
    <3>4. QED BY <3>2, <3>3
  <2> HIDE DEF v
  <2>4. \A k \in 1..Len(u) : u[k] # NULL => Len(u[k]) \in Nat
    <3>1. ASSUME NEW k \in 1..Len(u), u[k] # NULL PROVE Len(u[k]) \in Nat
      <4>1. u[k] \in S
        <5> HIDE DEF S
        <5>1. QED OBVIOUS
      <4>2. u[k] \in Seq(Chars)
        BY <3>1, <4>1 DEF Texts
      <4>3. QED BY <4>2
    <3>2. QED BY <3>1
  <2>5. c # NULL => Len(c) \in Nat
    BY DEF Texts
  <2>6. Below(v, n + m)
    <3>1. ASSUME NEW k \in 1..Len(v), v[k] # NULL PROVE Len(v[k]) <= n + m
      <4>1. k \in 1..Len(u) \/ k = Len(u) + 1
        BY <2>1
      <4>2. CASE k \in 1..Len(u)
        BY <2>1, <2>2, <2>4, <3>1, <4>2
      <4>3. CASE k = Len(u) + 1
        BY <2>1, <2>3, <2>5, <3>1, <4>3
      <4>4. QED BY <4>1, <4>2, <4>3
    <3>2. QED BY <3>1
  <2>7. n + m \in Nat
    OBVIOUS
  <2> HIDE DEF S, Below
  <2>8. v \in T
    BY <2>1, <2>6, <2>7
  <2>9. QED BY <2>8 DEF v
<1>3. s \in T
  <2> HIDE DEF S, T
  <2>1. \A u \in Seq(S) : u \in T
    BY <1>1, <1>2, GrowInduction
  <2>2. QED BY <2>1 DEF S
<1>4. DOMAIN s = 1..Len(s)
  <2> HIDE DEF S
  <2>1. s \in Seq(S)
    BY DEF S
  <2>2. QED BY <2>1
<1>5. QED BY <1>3, <1>4

LEMMA LongestIs ==
  ASSUME Shaped, NEW j \in Cols
  PROVE  /\ Longest(j) \in Nat
         /\ \A r \in RowsOf : frame[j].cells[r] # NULL => Len(frame[j].cells[r]) <= Longest(j)
<1> DEFINE s == frame[j].cells
           t == {1} \cup {Len(x) : x \in {s[r] : r \in RowsOf} \ {NULL}}
<1>1. s \in Seq(Texts \cup {NULL}) /\ DOMAIN s = RowsOf
  BY DEF Shaped
<1>2. Longest(j) = Max(t)
  BY Zenon DEF Longest
<1> HIDE DEF s
<1>3. PICK n \in Nat : \A k \in DOMAIN s : s[k] # NULL => Len(s[k]) <= n
  BY <1>1, Bounded
<1>4. \A r \in RowsOf : s[r] # NULL => Len(s[r]) \in Nat
  <2>1. ASSUME NEW r \in RowsOf, s[r] # NULL PROVE Len(s[r]) \in Nat
    <3> DEFINE S == Texts \cup {NULL}
    <3>1. s[r] \in S
      <4>1. s \in Seq(S) /\ r \in DOMAIN s
        BY <1>1
      <4> HIDE DEF S
      <4>2. QED BY <4>1
    <3>2. s[r] \in Seq(Chars)
      BY <2>1, <3>1 DEF Texts
    <3>3. QED BY <3>2
  <2>2. QED BY <2>1
<1>5. t # {} /\ t \subseteq Nat /\ \A x \in t : x <= n + 1
  <2>1. ASSUME NEW x \in t PROVE x \in Nat /\ x <= n + 1
    <3>1. x = 1 \/ \E r \in RowsOf : s[r] # NULL /\ x = Len(s[r])
      BY <2>1
    <3>2. QED BY <1>1, <1>3, <1>4, <3>1
  <2>2. QED BY <2>1
<1>6. \A r \in RowsOf : s[r] # NULL => Len(s[r]) \in t
  OBVIOUS
<1> HIDE DEF t
<1>7. Max(t) \in t /\ \A x \in t : x <= Max(t)
  <2>1. n + 1 \in Nat
    OBVIOUS
  <2>2. QED BY <1>5, <2>1, MaxOf
<1>8. QED BY <1>2, <1>5, <1>6, <1>7 DEF s

(* A column that was created fits its class. *)
LEMMA TypesFit ==
  ASSUME Shaped, NEW j \in Cols, NEW T \in FieldTypes(j)
  PROVE  /\ Fits(frame[j].class, T, Longest(j))
         /\ T = dbDataType(j) => T # <<"BIT", 1>>
<1>1. frame[j].class \in Classes
  BY DEF Shaped
<1> DEFINE c == frame[j].class
           d == dbDataType(j)
           size == Longest(j)
           Chosen == \/ c = "character" /\ (d = <<"TEXT", TextSize>> \/ d = <<"VARCHAR", size>>)
                     \/ c = "list" /\ d = <<"BLOB", TextSize>>
                     \/ c \in {"integer", "numeric", "logical"} /\ d = <<"NUMBER", 0>>
<1>2. Chosen
  <2>1. c \in {"character", "list", "integer", "numeric", "logical"}
    BY <1>1 DEF Classes
  <2>2. CASE c = "character"
    BY <2>2, Zenon DEF dbDataType
  <2>3. CASE c = "list"
    <3>1. c # "character"
      BY <2>3
    <3>2. d = <<"BLOB", TextSize>>
      BY <2>3, <3>1, Zenon DEF dbDataType
    <3>3. QED BY <2>3, <3>2
  <2>4. CASE c \in {"integer", "numeric", "logical"}
    <3>1. c # "character" /\ c # "list"
      BY <2>4
    <3>2. d = <<"NUMBER", 0>>
      BY <3>1, Zenon DEF dbDataType
    <3>3. QED BY <2>4, <3>2
  <2>5. QED BY <2>1, <2>2, <2>3, <2>4
<1>3. T = d \/ (c = "integer" /\ T = <<"BIT", 1>>)
  BY DEF FieldTypes
<1> HIDE DEF c, d, size
<1>4. Fits(c, T, size)
  BY <1>2, <1>3 DEF Fits
<1>5. d # <<"BIT", 1>>
  <2>1. <<"BIT", 1>>[1] = "BIT" /\ <<"TEXT", TextSize>>[1] = "TEXT" /\ <<"VARCHAR", size>>[1] = "VARCHAR"
        /\ <<"BLOB", TextSize>>[1] = "BLOB" /\ <<"NUMBER", 0>>[1] = "NUMBER"
    OBVIOUS
  <2>2. QED BY <1>2, <2>1
<1>6. QED BY <1>4, <1>5 DEF c, d, size

-----------------------------------------------------------------------------
(* The call *)

(* What the steps of a call keep: the columns that were created fit, the     *)
(* file is what write_delim() makes of the data frame, and what is in the   *)
(* table is what an INSERT would have stored.                               *)
IInv ==
    /\ call \in Calls
    /\ stage \in {"called", "created", "written", "done", "refused"}
    /\ stage # "called" => \A j \in Cols : types[j] \in FieldTypes(j)
    /\ stage = "written" => file = FlattenSeq([r \in RowsOf |-> Line(r)])
    /\ stage = "done" =>
         /\ DOMAIN rows = RowsOf
         /\ \A r \in RowsOf : /\ DOMAIN rows[r] = Names
                              /\ \A j \in Cols : rows[r][frame[j].name] = Inserted(j, r)

LEMMA InsertedIs ==
  ASSUME NEW j, NEW r
  PROVE  Inserted(j, r) = InsertedAs(types[j], frame[j].cells[r])
BY Zenon DEF Inserted, InsertedAs

LEMMA InitIInv == Init => IInv
BY DEF Init, IInv

(* The call stays what it is; what it is made of stays, too. *)
LEMMA CallKept ==
  ASSUME call' = call
  PROVE  /\ Cols' = Cols /\ RowsOf' = RowsOf /\ Names' = Names /\ frame' = frame
         /\ \A j \in Cols : FieldTypes(j)' = FieldTypes(j)
         /\ FlattenSeq([r \in RowsOf |-> Line(r)])' = FlattenSeq([r \in RowsOf |-> Line(r)])
         /\ types' = types => \A j \in Cols, r \in RowsOf : Inserted(j, r)' = Inserted(j, r)
<1>1. /\ Cols' = Cols /\ RowsOf' = RowsOf /\ Names' = Names /\ frame' = frame
      /\ \A j \in Cols : FieldTypes(j)' = FieldTypes(j)
  BY Zenon DEF Cols, frame, FieldTypes, dbDataType, Longest, RowsOf, Names
<1>2. FlattenSeq([r \in RowsOf |-> Line(r)])' = FlattenSeq([r \in RowsOf |-> Line(r)])
  BY Zenon DEF RowsOf, Line, frame, Cols
<1>3. types' = types => \A j \in Cols, r \in RowsOf : Inserted(j, r)' = Inserted(j, r)
  BY Zenon DEF Inserted, frame
<1>4. QED BY <1>1, <1>2, <1>3

LEMMA CreateTableIInv ==
  ASSUME IInv, CreateTable
  PROVE  IInv'
<1>1. call' = call /\ stage' = "created" /\ \A j \in Cols : types'[j] \in FieldTypes(j)
  BY DEF CreateTable
<1>2. Cols' = Cols /\ \A j \in Cols : FieldTypes(j)' = FieldTypes(j)
  BY <1>1, CallKept
<1>3. call' \in Calls
  BY <1>1 DEF IInv
<1>4. \A j \in Cols' : types'[j] \in FieldTypes(j)'
  BY <1>1, <1>2
<1>5. QED BY <1>1, <1>3, <1>4 DEF IInv

LEMMA WriteFileIInv ==
  ASSUME IInv, WriteFile
  PROVE  IInv'
<1>1. /\ call' = call /\ types' = types /\ stage = "created" /\ stage' = "written"
      /\ file' = FlattenSeq([r \in RowsOf |-> Line(r)])
  BY DEF WriteFile
<1>2. Cols' = Cols /\ \A j \in Cols : FieldTypes(j)' = FieldTypes(j)
  BY <1>1, CallKept
<1>3. FlattenSeq([r \in RowsOf |-> Line(r)])' = FlattenSeq([r \in RowsOf |-> Line(r)])
  BY <1>1, CallKept
<1>4. call' \in Calls /\ \A j \in Cols : types[j] \in FieldTypes(j)
  BY <1>1 DEF IInv
<1>5. \A j \in Cols' : types'[j] \in FieldTypes(j)'
  BY <1>1, <1>2, <1>4
<1>6. file' = FlattenSeq([r \in RowsOf |-> Line(r)])'
  BY <1>1, <1>3
<1>7. QED BY <1>1, <1>4, <1>5, <1>6 DEF IInv

LEMMA LoadDataIInv ==
  ASSUME IInv, LoadData
  PROVE  IInv'
<1>1. /\ call' = call /\ types' = types /\ stage = "written" /\ stage' = "done"
      /\ rows' = [r \in DOMAIN ReadFile(file) |-> Loaded(ReadFile(file)[r])]
  BY DEF LoadData
<1>2. /\ call \in Calls /\ (\A j \in Cols : types[j] \in FieldTypes(j))
      /\ file = FlattenSeq([r \in RowsOf |-> Line(r)])
  BY <1>1 DEF IInv
<1>3. Shaped
  BY <1>2, FrameShaped
<1> DEFINE f == ReadFile(file)
<1>4. /\ DOMAIN f = RowsOf
      /\ \A r \in RowsOf : /\ DOMAIN f[r] = Cols
                           /\ \A j \in Cols : f[r][j] = Meant(frame[j].class, frame[j].cells[r])
  BY <1>2, <1>3, ReadBack
<1> HIDE DEF f
<1>5. DOMAIN rows' = RowsOf /\ \A r \in RowsOf : rows'[r] = Loaded(f[r])
  BY <1>1, <1>4 DEF f
<1>6. ASSUME NEW r \in RowsOf
      PROVE  /\ DOMAIN rows'[r] = Names
             /\ \A j \in Cols : rows'[r][frame[j].name] = Inserted(j, r)
  <2> DEFINE g == f[r]
  <2>1. DOMAIN g = Cols /\ \A j \in Cols : g[j] = Meant(frame[j].class, frame[j].cells[r])
    BY <1>4
  <2>2. rows'[r] = Loaded(g)
    BY <1>5
  <2> HIDE DEF g
  <2>3. /\ DOMAIN Loaded(g) = Names
        /\ \A j \in Cols : Loaded(g)[frame[j].name] = LoadedAs(frame[j].class, types[j], g[j])
    BY <1>3, <2>1, LoadedIs
  <2>4. ASSUME NEW j \in Cols
        PROVE  LoadedAs(frame[j].class, types[j], g[j]) = Inserted(j, r)
    <3> DEFINE c == frame[j].class
               x == frame[j].cells[r]
               T == types[j]
               n == Longest(j)
    <3>1. c \in Classes /\ x \in Cells(c) \cup {NULL}
      BY <1>3 DEF Shaped
    <3>2. Fits(c, T, n)
      BY <1>2, <1>3, TypesFit
    <3>3. Inserted(j, r) = InsertedAs(T, x)
      BY InsertedIs
    <3>4. g[j] = Meant(c, x)
      BY <2>1
    <3> HIDE DEF c, x, T, n
    <3>5. LoadedAs(c, T, Meant(c, x)) = InsertedAs(T, x)
      BY <3>1, <3>2, SameStored
    <3>6. LoadedAs(c, T, g[j]) = Inserted(j, r)
      BY <3>3, <3>4, <3>5, Zenon
    <3>7. QED BY <3>6 DEF c, T
  <2>5. QED BY <2>2, <2>3, <2>4, Zenon
<1>7. /\ Cols' = Cols /\ RowsOf' = RowsOf /\ Names' = Names /\ frame' = frame
      /\ \A j \in Cols : FieldTypes(j)' = FieldTypes(j)
  BY <1>1, CallKept
<1>8. \A j \in Cols, r \in RowsOf : Inserted(j, r)' = Inserted(j, r)
  BY <1>1, CallKept
<1>9. \A j \in Cols' : types'[j] \in FieldTypes(j)'
  BY <1>1, <1>2, <1>7
<1>10. /\ DOMAIN rows' = RowsOf'
       /\ \A r \in RowsOf' : /\ DOMAIN rows'[r] = Names'
                             /\ \A j \in Cols' : rows'[r][frame'[j].name] = Inserted(j, r)'
  BY <1>5, <1>6, <1>7, <1>8, Zenon
<1>11. QED BY <1>1, <1>2, <1>9, <1>10 DEF IInv

LEMMA InsertRowsIInv ==
  ASSUME IInv, InsertRows
  PROVE  IInv'
<1>1. /\ call' = call /\ types' = types /\ stage = "created"
      /\ \/ stage' = "refused"
         \/ /\ stage' = "done"
            /\ rows' = [r \in RowsOf |->
                          [n \in Names |-> Inserted(CHOOSE j \in Cols : frame[j].name = n, r)]]
  BY DEF InsertRows, Names
<1>2. call \in Calls /\ \A j \in Cols : types[j] \in FieldTypes(j)
  BY <1>1 DEF IInv
<1>3. Shaped
  BY <1>2, FrameShaped
<1>4. /\ Cols' = Cols /\ RowsOf' = RowsOf /\ Names' = Names /\ frame' = frame
      /\ \A j \in Cols : FieldTypes(j)' = FieldTypes(j)
  BY <1>1, CallKept
<1>5. \A j \in Cols' : types'[j] \in FieldTypes(j)'
  BY <1>1, <1>2, <1>4
<1>6. CASE stage' = "refused"
  BY <1>1, <1>2, <1>5, <1>6 DEF IInv
<1>7. CASE stage' = "done"
  <2>1. ASSUME NEW r \in RowsOf
        PROVE  /\ DOMAIN rows'[r] = Names
               /\ \A j \in Cols : rows'[r][frame[j].name] = Inserted(j, r)
    <3>1. rows'[r] = [n \in Names |-> Inserted(CHOOSE j \in Cols : frame[j].name = n, r)]
      BY <1>1, <1>7
    <3>2. ASSUME NEW j \in Cols
          PROVE  rows'[r][frame[j].name] = Inserted(j, r)
      <4> DEFINE n == frame[j].name
                 i == CHOOSE k \in Cols : frame[k].name = n
      <4>1. n \in Names
        BY DEF Names
      <4>2. rows'[r][n] = Inserted(i, r)
        BY <3>1, <4>1, Zenon
      <4>3. i = j
        BY <1>3 DEF Shaped
      <4> HIDE DEF i
      <4>4. QED BY <4>2, <4>3
    <3>3. QED BY <3>1, <3>2
  <2>2. DOMAIN rows' = RowsOf
    BY <1>1, <1>7
  <2>3. \A j \in Cols, r \in RowsOf : Inserted(j, r)' = Inserted(j, r)
    BY <1>1, CallKept
  <2>4. /\ DOMAIN rows' = RowsOf'
        /\ \A r \in RowsOf' : /\ DOMAIN rows'[r] = Names'
                              /\ \A j \in Cols' : rows'[r][frame'[j].name] = Inserted(j, r)'
    BY <1>4, <2>1, <2>2, <2>3, Zenon
  <2>5. QED BY <1>1, <1>2, <1>5, <1>7, <2>4 DEF IInv
<1>8. stage' = "refused" \/ stage' = "done"
  BY <1>1, Zenon
<1>9. QED BY <1>6, <1>7, <1>8, Zenon

LEMMA StutterIInv ==
  ASSUME IInv, UNCHANGED vars
  PROVE  IInv'
<1>1. call' = call /\ stage' = stage /\ types' = types /\ file' = file /\ rows' = rows
  BY DEF vars
<1>2. /\ Cols' = Cols /\ RowsOf' = RowsOf /\ Names' = Names /\ frame' = frame
      /\ \A j \in Cols : FieldTypes(j)' = FieldTypes(j)
  BY <1>1, CallKept
<1>3. FlattenSeq([r \in RowsOf |-> Line(r)])' = FlattenSeq([r \in RowsOf |-> Line(r)])
  BY <1>1, CallKept
<1>4. \A j \in Cols, r \in RowsOf : Inserted(j, r)' = Inserted(j, r)
  BY <1>1, CallKept
<1>5. call' \in Calls /\ stage' \in {"called", "created", "written", "done", "refused"}
  BY <1>1 DEF IInv
<1>6. stage' # "called" => \A j \in Cols' : types'[j] \in FieldTypes(j)'
  BY <1>1, <1>2 DEF IInv
<1>7. stage' = "written" => file' = FlattenSeq([r \in RowsOf |-> Line(r)])'
  BY <1>1, <1>3 DEF IInv
<1>8. stage' = "done" =>
        /\ DOMAIN rows' = RowsOf'
        /\ \A r \in RowsOf' : /\ DOMAIN rows'[r] = Names'
                              /\ \A j \in Cols' : rows'[r][frame'[j].name] = Inserted(j, r)'
  <2>1. ASSUME stage = "done"
        PROVE  /\ DOMAIN rows = RowsOf
               /\ \A r \in RowsOf : /\ DOMAIN rows[r] = Names
                                    /\ \A j \in Cols : rows[r][frame[j].name] = Inserted(j, r)
    BY <2>1, Zenon DEF IInv
  <2>2. QED BY <1>1, <1>2, <1>4, <2>1, Zenon
<1>9. QED BY <1>5, <1>6, <1>7, <1>8 DEF IInv

LEMMA IInvHolds == Spec => []IInv
<1>1. IInv /\ [Next]_vars => IInv'
  BY CreateTableIInv, WriteFileIInv, LoadDataIInv, InsertRowsIInv, StutterIInv DEF Next
<1>2. QED BY InitIInv, <1>1, PTL DEF Spec

(* dbWriteTable() and dbAppendTable() give the table one row for each row of *)
(* the data frame, with its columns, of whatever length they are.           *)
THEOREM Typed == Spec => []TypeOK
<1>1. IInv => TypeOK
  BY DEF IInv, TypeOK, Names
<1>2. QED BY <1>1, IInvHolds, PTL

(* Writing a file for LOAD DATA LOCAL, with the escapes of csv_quote() and   *)
(* UNHEX() for raw bytes, has the effect of binding the values to an INSERT, *)
(* whatever the values and the names of the columns are.                    *)
THEOREM EitherWay == Spec => []SameEitherWay
<1>1. IInv => SameEitherWay
  BY DEF IInv, SameEitherWay
<1>2. QED BY <1>1, IInvHolds, PTL

(* What dbWriteTable() stores in columns of the types it has chosen is what  *)
(* the data frame had: no value is cut by a VARCHAR that is too short, none  *)
(* turns into another.                                                      *)
THEOREM GivenIsStored == Spec => []StoredIsGiven
<1>1. ASSUME IInv PROVE StoredIsGiven
  <2>1. SUFFICES ASSUME stage = "done", NEW j \in Cols, NEW r \in RowsOf, types[j] = dbDataType(j)
                 PROVE  LET x == frame[j].cells[r]
                            y == rows[r][frame[j].name]
                        IN  CASE x = NULL \/ x = <<"Inf">> -> y = NULL
                              [] x = <<"TRUE">> -> y = <<"1">>
                              [] x = <<"FALSE">> -> y = <<"0">>
                              [] OTHER -> y = x \/ (types[j][1] \in {"TEXT", "BLOB"} /\ y = Cut(x, TextSize))
    BY Zenon DEF StoredIsGiven
  <2> DEFINE c == frame[j].class
             x == frame[j].cells[r]
             y == rows[r][frame[j].name]
             T == types[j]
             n == Longest(j)
  <2>2. Shaped
    BY <1>1, FrameShaped DEF IInv
  <2>3. c \in Classes /\ x \in Cells(c) \cup {NULL}
    BY <2>2 DEF Shaped
  <2>4. T \in FieldTypes(j)
    BY <1>1, <2>1 DEF IInv
  <2>5. Fits(c, T, n) /\ T # <<"BIT", 1>>
    BY <2>1, <2>2, <2>4, TypesFit
  <2>6. n \in Nat /\ (x # NULL => Len(x) <= n)
    BY <2>2, LongestIs
  <2>7. y = InsertedAs(T, x)
    <3>1. y = Inserted(j, r)
      BY <1>1, <2>1 DEF IInv
    <3>2. QED BY <3>1, InsertedIs
  <2> HIDE DEF c, x, y, T, n
  <2>8. (CASE x = NULL \/ x = <<"Inf">> -> InsertedAs(T, x) = NULL
           [] x = <<"TRUE">> -> InsertedAs(T, x) = <<"1">>
           [] x = <<"FALSE">> -> InsertedAs(T, x) = <<"0">>
           [] OTHER -> InsertedAs(T, x) = x
                         \/ (T[1] \in {"TEXT", "BLOB"} /\ InsertedAs(T, x) = Cut(x, TextSize)))
    BY <2>3, <2>5, <2>6, StoredAsGiven
  <2>9. (CASE x = NULL \/ x = <<"Inf">> -> y = NULL
           [] x = <<"TRUE">> -> y = <<"1">>
           [] x = <<"FALSE">> -> y = <<"0">>
           [] OTHER -> y = x \/ (T[1] \in {"TEXT", "BLOB"} /\ y = Cut(x, TextSize)))
    BY <2>7, <2>8, Zenon
  <2>10. QED BY <2>9, Zenon DEF x, y, T
<1>2. QED BY <1>1, IInvHolds, PTL

=============================================================================
