------------------------------ MODULE Template ------------------------------
(***************************************************************************)
(* The template pallet, pallets/template/src/lib.rs: one optional number   *)
(* that anyone may store and increment.                                    *)
(***************************************************************************)
EXTENDS Frame

CONSTANTS
  MaxValue,  \* u32::MAX
  NoValue    \* None of Option<u32>

ASSUME TemplateAssumption == MaxValue \in Nat /\ NoValue \notin Nat

VARIABLES
  something,  \* Something
  outcome     \* the last call: [who, call, result]

Origins == Accounts \cup {RootOrigin, NoneOrigin}

TInit == something = NoValue /\ outcome = [who |-> RootOrigin, call |-> "genesis", result |-> Ok]

\* do_something: store a number.
DoSomething(origin, value) ==
  LET result == IF origin \in Accounts THEN Ok ELSE "BadOrigin"
  IN  /\ something' = IF result = Ok THEN value ELSE something
      /\ outcome' = [who |-> origin, call |-> "do_something", result |-> result]

\* Fault: wrapping_add instead of checked_add.
CauseErrorResultWrapping(origin) ==
  IF origin \notin Accounts THEN "BadOrigin"
  ELSE IF something = NoValue THEN "NoneValue"
  ELSE Ok

\* The ways cause_error may fail.
CauseErrorResult(origin) ==
  IF origin \notin Accounts THEN "BadOrigin"
  ELSE IF something = NoValue THEN "NoneValue"
  ELSE IF something = MaxValue THEN "StorageOverflow"
  ELSE Ok

\* cause_error: increment the number, in u32.
CauseError(origin) ==
  /\ something' = IF CauseErrorResult(origin) = Ok
                  THEN (something + 1) % (MaxValue + 1) ELSE something
  /\ outcome' = [who |-> origin, call |-> "cause_error", result |-> CauseErrorResult(origin)]

TNext ==
  \/ \E o \in Origins, v \in 0 .. MaxValue : DoSomething(o, v)
  \/ \E o \in Origins : CauseError(o)

TSpec == TInit /\ [][TNext]_<<something, outcome>>

-----------------------------------------------------------------------------
(* Properties *)

\* Once stored, the number is there for ever, and only a signed do_something
\* makes it smaller: cause_error never wraps around.
ShrinksOnlyByOverwrite ==
  [][something # NoValue =>
       /\ something' # NoValue
       /\ something' < something =>
            outcome'.call = "do_something" /\ outcome'.who \in Accounts]_<<something, outcome>>

=============================================================================
