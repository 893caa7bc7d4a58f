----------------------------- MODULE Validation -----------------------------
(***************************************************************************)
(* Validator (validator.ts): the rules of a form, texts or objects, against*)
(* its data.  A value, and a parameter of a rule, is a record of its type  *)
(* and of what String() and Number() make of it; numbers and lengths are   *)
(* counted in halves, and an array has items, too.  Which texts have the   *)
(* form of an address, a date and the like, or match a pattern, is given.  *)
(***************************************************************************)
EXTENDS Naturals, SequencesExt, FiniteSetsExt, TLC

CONSTANTS
    FormFields,     \* fields of a form
    ConfirmationOf, \* the name of each one's confirmation
    FieldValues,    \* what a field may hold; a form need not have it
    FieldRules,     \* rules: records of name, parts (of the text after the colon, or
                    \* params), given (an object, no text), message ("" if there is none)
    Formats,        \* pairs of a rule and a text that has its form
    PatternTexts,   \* pairs of a pattern, in its parts, and a text that matches it
    CustomMessages, \* keys for which the caller has a message: <<field, rule>>, <<rule>>
    FormRules,      \* sequences of pairs of a field and its rules
    MaxRules        \* bound: rules of a single value

ASSUME ValidationAssumption == MaxRules \in Nat

VARIABLE checked    \* the last form, or value, its rules and the result

FormatRules == {"email", "url", "alpha", "alphaNumeric", "slug", "date", "phone"}

Undefined == [type |-> "undefined", text |-> "undefined", length |-> 18, numeric |-> FALSE,
              number |-> 0]

\* The data of a form is a function on the fields it has.
FieldOf(data, field) == IF field \in DOMAIN data THEN data[field] ELSE Undefined

\* A number that is 0 or NaN, and false.
FalsyValue(value) ==
    \/ value.type = "number" /\ (~ value.numeric \/ value.number = 0)
    \/ value.type = "boolean" /\ value.text = "false"


\* What JavaScript takes for false.
Falsy(value) ==
    \/ value.type \in {"undefined", "null"}
    \/ value.type = "string" /\ value.text = ""
    \/ FalsyValue(value)

\* value === other
Same(value, other) ==
    /\ value.type = other.type
    /\ IF value.type = "number" THEN value.number = other.number ELSE value.text = other.text

\* parseRule(): the text after the colon falls apart at its commas, and what looks
\* like a number becomes one; a rule that is an object is taken as it is.
parseRule(rule) ==
    [i \in DOMAIN rule.parts |->
        IF ~ rule.given /\ rule.parts[i].numeric THEN [rule.parts[i] EXCEPT !.type = "number"]
        ELSE rule.parts[i]]

\* The list of in and notIn: all parameters, or the array that is the first one.
ListOf(params) ==
    Range(IF params # <<>> /\ params[1].type = "array" THEN params[1].items ELSE params)

\* Number(params[i]), which is NaN where there is none, and then nothing compares.
IsNumber(params, i) == i \in DOMAIN params /\ params[i].numeric

validateRule(value, name, params, data, confirmation) ==
    IF name = "required"
    THEN value.type \notin {"undefined", "null"} /\ ~ (value.type = "string" /\ value.text = "")
    ELSE \/ Falsy(value)
         \/ CASE name = "min" -> IsNumber(params, 1) /\ value.length >= params[1].number
              [] name = "max" -> IsNumber(params, 1) /\ value.length <= params[1].number
              [] name = "between" -> /\ IsNumber(params, 1) /\ value.length >= params[1].number
                                     /\ IsNumber(params, 2) /\ value.length <= params[2].number
              [] name = "minValue" -> /\ value.numeric /\ IsNumber(params, 1)
                                      /\ value.number >= params[1].number
              [] name = "maxValue" -> /\ value.numeric /\ IsNumber(params, 1)
                                      /\ value.number <= params[1].number
              [] name = "numeric" -> value.numeric
              [] name = "integer" -> value.numeric /\ value.number % 2 = 0
              [] name = "in" -> \E p \in ListOf(params) : Same(value, p)
              [] name = "notIn" -> ~ \E p \in ListOf(params) : Same(value, p)
              [] name = "regex" ->
                    <<IF params = <<>> THEN <<"undefined">> ELSE <<params[1].text>>, value.text>>
                       \in PatternTexts
              [] name = "confirmed" -> Same(value, FieldOf(data, confirmation))
              [] name \in FormatRules -> <<name, value.text>> \in Formats
              [] OTHER -> TRUE

Satisfied(data, field, rule) ==
    validateRule(FieldOf(data, field), rule.name, parseRule(rule), data,
                 ConfirmationOf[field])

\* Whose text the message of an error is.
MessageOf(field, rule) ==
    IF rule.message # "" THEN rule.message
    ELSE IF <<field, rule.name>> \in CustomMessages THEN "custom, of the field"
    ELSE IF <<rule.name>> \in CustomMessages THEN "custom" ELSE "default"

\* A field's rules are tried in turn until one fails.
ErrorOf(data, field, rules) ==
    LET failing == {i \in DOMAIN rules : ~ Satisfied(data, field, rules[i])} IN
    IF failing = {} THEN <<>>
    ELSE LET rule == rules[Min(failing)] IN
         <<[field |-> field, rule |-> rule.name, message |-> MessageOf(field, rule)]>>

\* Validator.check(); rules is a sequence of pairs of a field and its rules.
check(data, rules) ==
    LET errors == FlattenSeq([i \in DOMAIN rules |-> ErrorOf(data, rules[i][1], rules[i][2])]) IN
    checked' = [data |-> data, rules |-> rules, valid |-> errors = <<>>, errors |-> errors]

\* Validator.validate(): one value, no data, no field.
validateValue(value, rules) ==
    checked' = [value |-> value, rules |-> rules,
                valid |-> \A i \in DOMAIN rules :
                             validateRule(value, rules[i].name, parseRule(rules[i]), <<>>, "")]

NothingChecked == [valid |-> TRUE]

ValidationInit == checked = NothingChecked

SomeRules == UNION {[1 .. n -> FieldRules] : n \in 1 .. MaxRules}

\* Bound: one call, since a call leaves nothing behind for the next one.
ValidationNext ==
    /\ checked = NothingChecked
    /\ \/ \E fields \in SUBSET FormFields, rules \in FormRules :
             \E data \in [fields -> FieldValues] : check(data, rules)
       \/ \E value \in FieldValues, rules \in SomeRules : validateValue(value, rules)

ValidationSpec == ValidationInit /\ [][ValidationNext]_checked

\* One error at most for each field of the rules, with one of the four messages.
ValidationTypeOK ==
    /\ checked.valid \in BOOLEAN
    /\ "data" \in DOMAIN checked =>
          /\ Len(checked.errors) <= Len(checked.rules)
          /\ \A e \in Range(checked.errors) :
                e.field \in FormFields /\ e.message \in {"own", "custom, of the field", "custom", "default"}

-----------------------------------------------------------------------------
(* Properties.                                                             *)

\* Nothing was given: the field is left out, null, or left empty.
Blank(value) ==
    value.type \in {"undefined", "null"} \/ (value.type = "string" /\ value.text = "")

\* What the table of docs/user-guide/validation.md says of a rule; a field for
\* which nothing was given is only stopped by required.
Meant(value, rule, other) ==
    LET listed == \E p \in ListOf(rule.parts) : p.text = value.text
        Limit(i) == rule.parts[i].number
    IN CASE rule.name = "required" -> ~ Blank(value)
         [] Blank(value) -> TRUE
         [] rule.name = "min" -> value.length >= Limit(1)
         [] rule.name = "max" -> value.length <= Limit(1)
         [] rule.name = "between" -> value.length \in Limit(1) .. Limit(2)
         [] rule.name = "minValue" -> value.numeric /\ value.number >= Limit(1)
         [] rule.name = "maxValue" -> value.numeric /\ value.number <= Limit(1)
         [] rule.name = "numeric" -> value.numeric
         [] rule.name = "integer" -> value.numeric /\ value.number % 2 = 0
         [] rule.name = "in" -> listed
         [] rule.name = "notIn" -> ~ listed
         [] rule.name = "regex" ->
               <<[i \in DOMAIN rule.parts |-> rule.parts[i].text], value.text>> \in PatternTexts
         [] rule.name = "confirmed" -> other = value
         [] rule.name \in FormatRules -> <<rule.name, value.text>> \in Formats

\* Where the code departs from the table: 0, NaN and false pass for an empty field;
\* a value is compared with the ones of a list that have its type only; and the
\* text of a pattern ends at its first comma.
Departs(value, rule) ==
    \/ FalsyValue(value)
    \/ /\ rule.name \in {"in", "notIn"}
       /\ \E p \in ListOf(parseRule(rule)) : p.text = value.text /\ p.type # value.type
    \/ rule.name = "regex" /\ Len(rule.parts) > 1

\* Validator.check() reports for each field the first of its rules that the data
\* does not satisfy, and nothing for a field that satisfies them all;
\* Validator.validate() agrees with the table, too.  Where the code departs from it,
\* nothing is said here; BoundsHeld and ListsHeld are about two of those places.
ValidAsRuled ==
    /\ "data" \in DOMAIN checked => \A i \in DOMAIN checked.rules :
          LET field == checked.rules[i][1]
              rules == checked.rules[i][2]
              value == FieldOf(checked.data, field)
              other == FieldOf(checked.data, ConfirmationOf[field])
              unmet == {k \in DOMAIN rules : ~ Meant(value, rules[k], other)}
              reported == SelectSeq(checked.errors, LAMBDA e : e.field = field)
          IN (\A k \in DOMAIN rules : ~ Departs(value, rules[k])) =>
                IF unmet = {} THEN reported = <<>>
                ELSE Len(reported) = 1 /\ reported[1].rule = rules[Min(unmet)].name
    /\ "value" \in DOMAIN checked
       /\ (\A k \in DOMAIN checked.rules : ~ Departs(checked.value, checked.rules[k])) =>
             checked.valid = \A k \in DOMAIN checked.rules :
                                Meant(checked.value, checked.rules[k], Undefined)

\* minValue:N is the minimum value, so the table says: what passes it, and is a number,
\* is at least N.  The number 0 passes every minimum (validator.ts:187-188).
BoundsHeld ==
    "value" \in DOMAIN checked /\ checked.valid =>
       \A k \in DOMAIN checked.rules :
          checked.rules[k].name = "minValue" /\ checked.value.type = "number" =>
             checked.value.number >= checked.rules[k].parts[1].number

\* in:val1,val2 takes what is in the list, so the table says.  Values of the list that
\* look like numbers become numbers, and what a form sends is text (validator.ts:
\* 144-148, 217-220).
ListsHeld ==
    "value" \in DOMAIN checked /\ ~ checked.valid =>
       \E k \in DOMAIN checked.rules :
          ~ (/\ checked.rules[k].name = "in" /\ ~ checked.rules[k].given
             /\ \E p \in Range(checked.rules[k].parts) : p.text = checked.value.text)

=============================================================================
