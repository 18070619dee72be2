-------------------------------- MODULE Values --------------------------------
(***************************************************************************)
(* coerce_value of agentic/values.py: what becomes of a value that is       *)
(* written to a field.  A string is a value of its own; what the regular    *)
(* expressions and conversions make of it is given by Reads, and Text is    *)
(* what numbers, booleans and lists look like as text.  Dates, email        *)
(* addresses and phone numbers stay strings, without the blanks around.     *)
(***************************************************************************)
EXTENDS SequencesExt

CONSTANTS Strings,           \* without the empty one, Blank
          Numbers,           \* finite
          True, False,
          Lists,             \* of strings
          Other,             \* any other JSON value
          Text,              \* of a number, a boolean and a list
          Fits,              \* Fits[type]: the strings that are short enough
          Reads,             \* Reads[type][string]: what it is read as, or Refused
          Blank, None, Refused

OptionTypes == {"select", "multiselect"}
TextTypes == {"text", "long_text"}
ReadTypes == {"number", "boolean", "date", "email", "phone"}
FieldTypes == OptionTypes \cup TextTypes \cup ReadTypes

Booleans == {True, False}
Everything == Strings \cup Numbers \cup Booleans \cup Lists \cup {Blank, None, Other}

\* The shapes of the constants.
AreShaped ==
    /\ Lists \subseteq Seq(Strings \cup {Blank})
    /\ Text \in [Numbers \cup Booleans \cup Lists -> Strings \cup {Blank}]
    /\ Fits \in [TextTypes -> SUBSET (Strings \cup {Blank})]
    /\ Reads \in [ReadTypes -> [Strings -> Strings \cup Numbers \cup Booleans \cup {Refused}]]

is_empty(v) == v \in {None, Blank, <<>>}

AsText(v) == IF v \in Strings THEN v ELSE IF v = Other THEN Refused ELSE Text[v]

\* What is of the type already: a boolean is no number, though Python has it so.
Kept(type) == CASE type = "number"  -> Numbers
                [] type = "boolean" -> Booleans
                [] OTHER            -> {}

\* dict.fromkeys: the first of each
Distinct(list) ==
    FoldLeft(LAMBDA seen, v : IF Contains(seen, v) THEN seen ELSE Append(seen, v), <<>>, list)

Items(v) == IF v \in Strings THEN <<v>> ELSE v

coerce_value(type, options, v) ==
    CASE is_empty(v) -> None
      [] ~is_empty(v) /\ type \in TextTypes ->
            IF AsText(v) \in Fits[type] THEN AsText(v) ELSE Refused
      [] ~is_empty(v) /\ type \in ReadTypes ->
            IF v \in Kept(type) THEN v
            ELSE IF v \in Strings THEN Reads[type][v] ELSE Refused
      [] ~is_empty(v) /\ type = "select" ->
            IF v \in Strings \cap options THEN v ELSE Refused
      [] ~is_empty(v) /\ type = "multiselect" ->
            IF v \in Strings \cup Lists /\ ToSet(Items(v)) \subseteq options
            THEN Distinct(Items(v)) ELSE Refused
=============================================================================
