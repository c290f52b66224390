---------------------------- MODULE TextTokenizer ----------------------------
(***************************************************************************)
(* utils/TextTokenizer.cc: a text is cut into tokens.                      *)
(*                                                                         *)
(* A text is a sequence of symbols.  A symbol is a character, or a word    *)
(* that is nowhere cut ("sip"), one whose first letter an escape would     *)
(* change excepted; upper and lower case are one.  The value of a token is *)
(* a sequence of symbols.  The word operator "!=", which a word before it  *)
(* may swallow, is left out.                                               *)
(***************************************************************************)
EXTENDS Integers, Sequences, SequencesExt, FiniteSetsExt, TLC

Digits == <<"0", "1", "2", "3", "4", "5", "6", "7", "8", "9">>
Digit == {Digits[i] : i \in DOMAIN Digits}
Quote == "\""
Escape == "\\"

Dialect(blank, newline, op, sub, two, note) ==
  [blank |-> blank, newline |-> newline, op |-> op \cup sub \cup note, sub |-> sub,
   two |-> two, note |-> note]

ConfigTnkzr == Dialect({" ", "\t", "\r"}, {"\n"}, {"=", "[", "]"}, {"(", ")"}, {}, {"#"})
\* The values of a configuration, when it is compiled, and lists in a value.
ValueTnkzr == Dialect({" "}, {"\n"}, {"$", "."}, {"(", ")"}, {}, {})
ListTnkzr == Dialect({",", " ", "\t", "\r", "\n"}, {"\r", "\n"}, {";"}, {"<", ">"}, {}, {"#"})
SipTnkzr ==
  Dialect({" ", "\t", "\r"}, {"\n"},
          {"*", "/", "^", ",", Escape, "=", Quote, ";", ":", "<", ">", "?", "'"},
          {"(", ")"}, {<<"<", "=">>, <<">", "=">>, <<"=", "=">>}, {})

Tok(type, val) == [type |-> type, val |-> val]
Op(c) == Tok("OPERATOR", <<c>>)
WordTypes == {"IDENTIFIER", "INTEGRAL", "REAL"}

is_integer(w) == /\ w # << >> /\ w # <<"-">>
                 /\ Head(w) \in Digit \cup {"-"}
                 /\ \A i \in 2 .. Len(w) : w[i] \in Digit

\* "1e" is one: a sign and an exponent may follow.
is_real(w) ==
  /\ w # << >> /\ Head(w) \in Digit \cup {"-", "."}
  /\ Last(w) \in Digit \cup {"e"}
  /\ \A i \in DOMAIN w :
       \/ w[i] \in Digit
       \/ w[i] = "-" /\ i = 1
       \/ w[i] = "." /\ \A j \in 1 .. i - 1 : w[j] # "."
       \/ w[i] = "e" /\ i > 1 /\ w[i - 1] \in Digit /\ \A j \in 1 .. i - 1 : w[j] # "e"
       \/ w[i] \in {"+", "-"} /\ i > 1 /\ w[i - 1] = "e"

Word(w) == Tok(CASE is_integer(w) -> "INTEGRAL"
                 [] is_real(w) /\ ~is_integer(w) -> "REAL"
                 [] OTHER -> "IDENTIFIER", w)

-----------------------------------------------------------------------------
(***************************************************************************)
(* StringScanner, which is offered every symbol, those of a word included. *)
(* A symbol it accepts changes its state.                                  *)
(***************************************************************************)
NoString == [begun |-> FALSE, ended |-> FALSE, esc |-> FALSE, data |-> << >>]

\* "^H" and "^G" stand for backspace and bell.
Escaped(c) == CASE c = "n" -> <<"\n">> [] c = "r" -> <<"\r">> [] c = "t" -> <<"\t">>
                [] c = "b" -> <<"^H">> [] c = "a" -> <<"^G">> [] c = "u" -> <<Escape, "u">>
                [] OTHER -> <<c>>

accept(q, c) ==
  IF c = Escape /\ ~q.esc THEN [q EXCEPT !.esc = q.begun /\ ~q.ended]
  ELSE IF ~q.begun THEN [q EXCEPT !.begun = c = Quote]
  ELSE IF q.ended THEN q
  ELSE IF q.esc THEN [q EXCEPT !.esc = FALSE, !.data = @ \o Escaped(c)]
  ELSE IF c = Quote THEN [q EXCEPT !.ended = TRUE]
  ELSE [q EXCEPT !.data = Append(@, c)]

-----------------------------------------------------------------------------
(***************************************************************************)
(* next and _next, a symbol at a time.                                     *)
(***************************************************************************)
At0(toks) == [toks |-> toks, word |-> << >>, str |-> NoString, note |-> << >>]

\* next: "1", ".", "2" are one real, and so are ".", "2" (0.2).
WithReal(toks, t) ==
  LET n == Len(toks) IN
  IF t.type # "INTEGRAL" \/ n = 0 THEN Append(toks, t)
  ELSE IF toks[n] # Op(".") THEN Append(toks, t)
  ELSE IF n > 1 /\ toks[n - 1].type = "INTEGRAL"
       THEN Append(SubSeq(toks, 1, n - 2), Tok("REAL", toks[n - 1].val \o <<".">> \o t.val))
       ELSE Append(SubSeq(toks, 1, n - 1), Tok("REAL", <<"0", ".">> \o t.val))

WithOp(d, toks, c) ==
  LET n == Len(toks) IN
  IF n > 0 /\ toks[n].type = "OPERATOR" /\ Append(toks[n].val, c) \in d.two
  THEN [toks EXCEPT ![n].val = Append(@, c)]
  ELSE Append(toks, IF c \in d.sub THEN Tok("SUBEXP", <<c>>) ELSE Op(c))

\* The first symbol of a token.
First(d, toks, c) ==
  IF c = Quote THEN [At0(toks) EXCEPT !.str = accept(NoString, c)]
  ELSE IF c \in d.note THEN [At0(toks) EXCEPT !.note = <<c>>]
  ELSE IF c \in d.blank THEN At0(Append(toks, Tok("BLANK", <<c>>)))
  ELSE IF c \in d.newline THEN At0(Append(toks, Tok("NEWLINE", <<c>>)))
  ELSE IF c \in d.op THEN At0(WithOp(d, toks, c))
  ELSE [At0(toks) EXCEPT !.word = <<c>>]

Ended(s) == IF s.word = << >> THEN s.toks ELSE WithReal(s.toks, Word(s.word))

\* A further symbol.  The end of a string that begins within a word, and a
\* comment that follows a word at once, lose the word.
Step(d, s, c) ==
  LET str == accept(s.str, c) IN
  IF s.note # << >>
  THEN IF c \in d.newline THEN First(d, Append(s.toks, Tok("LINE_COMMENT", s.note)), c)
                          ELSE [s EXCEPT !.note = Append(@, c)]
  ELSE IF s.word = << >> /\ str # s.str /\ s.str.begun THEN [s EXCEPT !.str = str]
  ELSE IF str.ended THEN First(d, Append(s.toks, Tok("STRING_LITERAL", str.data)), c)
  ELSE IF s.word = << >> THEN First(d, s.toks, c)
  ELSE IF c \in d.note THEN First(d, s.toks, c)
  ELSE IF c \in d.blank \cup d.newline \cup d.op THEN First(d, Ended(s), c)
  ELSE [s EXCEPT !.word = Append(@, c), !.str = str]

Finish(s) ==
  IF s.note # << >> THEN Append(s.toks, Tok("LINE_COMMENT", s.note))
  ELSE IF s.word = << >> /\ s.str.begun
       THEN Append(s.toks, Tok(IF s.str.ended THEN "STRING_LITERAL" ELSE "UNDEFINED", s.str.data))
  ELSE Ended(s)

getTokenList(d, text) ==
  LET scan[i \in 0 .. Len(text)] == IF i = 0 THEN At0(<< >>) ELSE Step(d, scan[i - 1], text[i])
  IN Finish(scan[Len(text)])

-----------------------------------------------------------------------------
Value10(ds) ==
  FoldLeft(LAMBDA n, c : 10 * n + (CHOOSE i \in DOMAIN Digits : Digits[i] = c) - 1, 0, ds)

Past(w, S) == LET at == {i \in DOMAIN w : w[i] \notin S}
              IN IF at = {} THEN << >> ELSE SubSeq(w, Min(at), Len(w))

\* The number w begins with, in a set, or none: an exception.
stoi(w) ==
  LET v == Past(w, {" ", "\t", "\n"})
      u == IF v # << >> /\ Head(v) \in {"+", "-"} THEN Tail(v) ELSE v
      ds == SubSeq(u, 1, Len(u) - Len(Past(u, Digit)))
  IN IF ds = << >> THEN {} ELSE {IF Head(v) = "-" THEN -Value10(ds) ELSE Value10(ds)}
=============================================================================
