------------------------------ MODULE Boundary ------------------------------
(***************************************************************************)
(* What one value an operator gives goes through, from the command line,   *)
(* the environment, a file or standard input to the column it is stored    *)
(* in, and how the run answers.  A value is a short sequence of classes of *)
(* characters, of which the rules tell these apart:                        *)
(*   x a letter   @ at   - dash   = equals   s a space                     *)
(*   w whitespace that is no control character and no ASCII space          *)
(*   n whitespace that is a control character (a newline)                  *)
(*   c another control character      0 the character NUL                  *)
(*   u a byte that does not decode as UTF-8                                *)
(***************************************************************************)
EXTENDS Naturals, Sequences, SequencesExt

CONSTANT MinPasswordBytes   \* MIN_PASSWORD_BYTES

ASSUME MinPasswordIsWhole == MinPasswordBytes \in Nat

Class   == {"x", "@", "-", "=", "s", "w", "n", "c", "0", "u"}
Space   == {"s", "w", "n"}
Control == {"n", "c", "0"}

Has(text, classes) == \E i \in DOMAIN text : text[i] \in classes

-----------------------------------------------------------------------------
(* identity.py, consent.py: the rules a text is held to, and the schema's. *)

\* Mutant: a text is stored as it came.
Unstripped(text) == text

\* str.strip(): what is left between the first and the last non-space.
Strip(text) ==
  LET inked == {i \in DOMAIN text : text[i] \notin Space}
  IN  IF inked = {} THEN << >> ELSE SubSeq(text, Min(inked), Max(inked))

RequireText(text) ==
  IF Strip(text) # << >> /\ ~Has(Strip(text), Control) THEN {Strip(text)} ELSE {}

\* text.find("@"): the position of the first one, if any.
FirstAt(text) == {i \in DOMAIN text : text[i] = "@" /\ \A j \in 1..(i - 1) : text[j] # "@"}

RequireEmail(text) ==
  {t \in RequireText(text) : \E i \in FirstAt(t) : 1 < i /\ i < Len(t)}

\* The text shown: any that is not all whitespace, stored as it is.
RequireShown(text) == IF Strip(text) # << >> THEN {text} ELSE {}

RequirePassword(text) == IF text # << >> /\ Len(text) >= MinPasswordBytes THEN {text} ELSE {}

Rule(field, text) ==
  CASE field = "text"     -> RequireText(text)
    [] field = "email"    -> RequireEmail(text)
    [] field = "shown"    -> RequireShown(text)
    [] field = "password" -> RequirePassword(text)

\* CHECK (length(btrim(column)) > 0): btrim knows the ASCII space alone.
NotBlank(text) == Has(text, {"x", "@", "-", "=", "w", "n", "c", "u"})

\* CHECK (position('@' in email) > 1 AND position('@' in email) < length(email)).
AtInside(text) ==
  \E i \in DOMAIN text : /\ text[i] = "@" /\ 1 < i /\ i < Len(text)
                         /\ "@" \notin {text[j] : j \in 1..(i - 1)}

\* What the column's CHECK admits; a password is no column.
SchemaAdmits(field, text) ==
  CASE field = "email"         -> AtInside(text)
    [] field \in {"text", "shown"} -> NotBlank(text)
    [] OTHER                   -> TRUE

-----------------------------------------------------------------------------
(* cli.py: where a value comes from.                                       *)

\* What comes by which way: the token by standard input, the terms by a file.
Way ==
  {<<"arguments", "text">>, <<"arguments", "email">>, <<"environment", "password">>,
   <<"stdin", "text">>, <<"file", "shown">>}

\* Standard input may be read leniently; _token encodes the line back.
StrictlyText(text) == ~Has(text, {"u"})

\* _token and _text_file refuse by name what is not UTF-8; the arguments and
\* the environment are decoded leniently before the module is asked.
Read(source, text) ==
  CASE source = "stdin" -> IF StrictlyText(text) THEN {text} ELSE {}
    [] source = "file"  -> IF Has(text, {"u"}) THEN {} ELSE {text}
    [] OTHER            -> {text}

(***************************************************************************)
(* How a run answers a value: refused by name; kept; or, once a rule has   *)
(* let it through, raised at the place where it is encoded (the KDF, the   *)
(* digest, the driver), which nothing catches; or an error of the driver,  *)
(* which is a sentence.                                                    *)
(***************************************************************************)
Stored(field, text) ==
  CASE Has(text, {"u"})            -> "escaped"
    [] Has(text, {"0"})            -> "driver"
    [] ~SchemaAdmits(field, text)  -> "driver"
    [] OTHER                       -> "kept"

\* A password is encoded before it is measured, the others after their rule.
AnswerTo(way, text) ==
  LET field == way[2]
      kept  == UNION {Rule(field, t) : t \in Read(way[1], text)}
  IN  IF field = "password" /\ text # << >> /\ Has(text, {"u"}) THEN "escaped"
      ELSE IF kept = {} THEN "refused"
      ELSE CHOOSE a \in {Stored(field, t) : t \in kept} : TRUE

-----------------------------------------------------------------------------
(* cli.py: a value that starts with a dash, and argparse behind it.        *)

\* Two options of the command at hand that take one value (who, and a file),
\* and the one that takes none.
Valued == {"--by", "--terms-shown"}
Option == Valued \cup {"--help"}

IsDashed(token) == token \in Option \cup {"-x", "--"}

\* Mutant: whatever starts with a dash is the value of the option before it.
JoinsOptions(token, following) == token \in Valued /\ IsDashed(following)

Joins(token, following) ==
  token \in Valued /\ IsDashed(following) /\ following \notin Option

\* _values_that_start_with_a_dash: each pair to be joined becomes one token.
JoinDashed(argv) ==
  LET joined[i \in 1..(Len(argv) + 2)] ==
        IF i > Len(argv) THEN << >>
        ELSE IF i < Len(argv) /\ Joins(argv[i], argv[i + 1])
        THEN << <<argv[i], argv[i + 1]>> >> \o joined[i + 2]
        ELSE << <<argv[i]>> >> \o joined[i + 1]
  IN  joined[1]

\* argparse: an option takes what is joined to it, or the token after it unless
\* that starts with a dash; "usage" is its own error, exit 2.  A lone -- joined
\* to an option is dropped, and leaves the empty list for a value.
Value(tokens, i) ==
  CASE Len(tokens[i]) = 2 -> IF tokens[i][2] = "--" THEN "[]" ELSE tokens[i][2]
    [] i < Len(tokens) /\ Len(tokens[i]) = 1 /\ Len(tokens[i + 1]) = 1
         /\ ~IsDashed(tokens[i + 1][1]) -> tokens[i + 1][1]
    [] OTHER -> "usage"

\* The options in the order they were given, each with its value.
Parsed(argv) ==
  LET tokens == JoinDashed(argv)
      parsed[i \in 1..(Len(tokens) + 1)] ==
        IF i > Len(tokens) THEN << >>
        ELSE (IF tokens[i][1] \in Valued THEN << <<tokens[i][1], Value(tokens, i)>> >> ELSE << >>)
               \o parsed[i + 1]
  IN  parsed[1]

\* A value the module is given in place of a text: the rules of a text refuse
\* it by name, the open of a file raises what _text_file does not name.
Used(option, value) ==
  IF value = "[]" /\ option = "--terms-shown" THEN "escaped" ELSE "answered"
=============================================================================
