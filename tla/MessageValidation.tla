-------------------------- MODULE MessageValidation --------------------------
(***************************************************************************)
(* What the generated validators (files pb.validate.go) have in common.  A *)
(* message is a record; a string in it is represented by its number of     *)
(* runes, all its validator looks at.  A validator lists the rules of the  *)
(* message in their order; Validate (all = FALSE) stops at the first       *)
(* broken one, ValidateAll (all = TRUE) collects them in a MultiError,     *)
(* here a set: no caller looks at the order of the errors.                 *)
(***************************************************************************)
EXTENDS Integers, Sequences

CONSTANT Nil      \* a nil pointer: an absent message or optional field

(* One rule; a broken one yields a ValidationError, which names the field. *)
Rule(field, holds) == [field |-> field, holds |-> holds]

(* An embedded message, invalid if its own validator finds errors. *)
Embedded(field, errors) == Rule(field, errors = {})

(* The rules of the items of a repeated field. *)
Each(items, RuleOf(_)) == [i \in DOMAIN items |-> RuleOf(items[i])]

(* The errors of a message: none if it is nil, whatever its rules. *)
Errors(message, rules, all) ==
    LET broken == {i \in DOMAIN rules : ~rules[i].holds}
        first  == CHOOSE i \in broken : \A j \in broken : i <= j
    IN  IF message = Nil \/ broken = {} THEN {}
        ELSE {rules[i].field : i \in IF all THEN broken ELSE {first}}

=============================================================================
