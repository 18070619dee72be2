------------------------------ MODULE MCRecords ------------------------------
(* A small instance of Records with Impact: loans refer to members.  Coerce   *)
(* is what coerce_value does: a number is stored as a number, whichever way   *)
(* it was typed, in a text field it becomes text, and there a list of one     *)
(* empty string becomes the empty string.                                     *)
EXTENDS Impact, Naturals, Sequences, TLC

CONSTANTS loan, member, amount, borrower,
          digits, letters, yes, spaced, number, True, False, object

MCEntityOf == [f \in FieldKeys |-> loan]
MCFrom == [l \in LinkKeys |-> loan]
MCTo == [l \in LinkKeys |-> member]
MCCardinality == [l \in LinkKeys |-> "one_to_one"]

MCStrings == {digits, letters, yes, spaced}
MCLists == {<<>>, <<Blank>>, <<letters>>, <<yes>>, <<letters, yes>>, <<letters, yes, letters>>}
MCText == (number :> digits) @@ (True :> yes) @@ (False :> letters)
          @@ [list \in MCLists |-> IF Len(list) > 1 THEN spaced
                                  ELSE IF Len(list) = 1 THEN list[1] ELSE Blank]
MCFits == ("text" :> {digits, letters, yes, Blank}) @@ ("long_text" :> MCStrings \cup {Blank})

\* What is read as itself, with the blanks taken off spaced.
AsIs(ok) == [s \in MCStrings |-> IF s \in ok THEN IF s = spaced THEN letters ELSE s ELSE Refused]
MCReads ==
    ("number"  :> [s \in MCStrings |-> IF s = digits THEN number ELSE Refused]) @@
    ("boolean" :> [s \in MCStrings |-> IF s = yes THEN True ELSE IF s = spaced THEN False ELSE Refused]) @@
    ("date"    :> AsIs({letters, spaced})) @@
    ("email"   :> AsIs({letters, yes, spaced})) @@
    ("phone"   :> AsIs({digits}))

V == INSTANCE Values WITH Strings <- MCStrings, Numbers <- {number}, Lists <- MCLists,
        Other <- object, Text <- MCText, Fits <- MCFits, Reads <- MCReads, None <- NoValue

\* The types of a field.  "spaced" is how letters may be given as an option.
MCOptionsOf == [type \in Types |-> CASE type = "either" -> {letters, digits}
                                      [] type = "letters" -> {letters}
                                      [] type = "spaced"  -> {spaced}
                                      [] OTHER            -> {}]
FieldType(type) == IF MCOptionsOf[type] = {} THEN type ELSE "select"
MCWithOptions == [type \in Types |-> {other \in Types : FieldType(other) = FieldType(type)}]
MCStripped == [type \in Types |-> IF type = "spaced" THEN "letters" ELSE type]
OptionsUsed(v) == MCStrings \cap (IF v \in MCStrings THEN {v}
                                  ELSE IF v \in MCLists THEN {v[i] : i \in DOMAIN v} ELSE {})
MCUses == [v \in Values |-> OptionsUsed(v)]

MCCoerce == [type \in Types |->
               [v \in Values |-> V!coerce_value(FieldType(type), MCOptionsOf[type], v)]]

\* Whatever type a field has, what coerce_value returns is a value of the type:
\* to write it again changes nothing, unless it is the empty string.
ASSUME CoerceIsStable ==
    /\ V!AreShaped
    /\ \A type \in V!FieldTypes, v \in V!Everything, options \in SUBSET {letters, yes} :
          LET w == V!coerce_value(type, options, v)
          IN  w \notin {Refused, NoValue, Blank} => V!coerce_value(type, options, w) = w

\* No field but one of text ever gets the empty string.
ASSUME BlankIsText ==
    \A type \in V!FieldTypes \ V!TextTypes, v \in V!Everything, options \in SUBSET {letters, yes} :
       V!coerce_value(type, options, v) # Blank

\* A value that a type accepts is accepted with any options that include those it
\* uses, as ImpactAssumption has it.
ASSUME OptionsDecide ==
    \A type \in V!FieldTypes, v \in V!Everything, options, others \in SUBSET {letters, yes} :
       V!coerce_value(type, options, v) # Refused /\ OptionsUsed(v) \cap options \subseteq others =>
          V!coerce_value(type, others, v) # Refused

Base == [entities |-> EntityKeys, fields |-> FieldKeys, links |-> LinkKeys,
         required |-> {}, type |-> [f \in FieldKeys |-> "number"]]

MCSpecs == { Base,
             [Base EXCEPT !.links = LinkKeys \ {borrower}],
             [Base EXCEPT !.entities = {loan}, !.links = {}],
             [Base EXCEPT !.required = FieldKeys, !.type = [f \in FieldKeys |-> "text"]],
             [Base EXCEPT !.fields = {}, !.type = [f \in FieldKeys |-> "text"]],
             [Base EXCEPT !.type = [f \in FieldKeys |-> "text"]],
             [Base EXCEPT !.type = [f \in FieldKeys |-> "either"]] }

MCValues == {digits, letters, number, <<Blank>>, Blank}

Symmetry == Permutations(Threads) \cup Permutations(RecordIds)
=============================================================================
