------------------------------ MODULE Settings ------------------------------
(* From the command line to the cutoff of a request: src/src/config/build.rs, *)
(* config/helpers.rs, parse_duration of cooldown.rs, and Config::cutoff_for.  *)
EXTENDS Integers, Sequences, Functions

CONSTANTS
  None,        \* the absent value
  Error,       \* Rust's Err
  LowerCase,   \* to_ascii_lowercase, over crate names
  MaxSecs      \* the largest u64

UnitSecs ==
  [u \in {None, "s", "m", "h", "d", "w"} |->
     CASE u \in {None, "s"} -> 1    [] u = "m" -> 60     [] u = "h" -> 3600
       [] u = "d" -> 86400        [] u = "w" -> 7 * 86400]

(* Mutant: the product wraps.                                                 *)
ParseDurationWrapping(text) ==
  IF text = None \/ text.unit \notin DOMAIN UnitSecs \/ text.value \notin 0..MaxSecs
  THEN Error
  ELSE (text.value * UnitSecs[text.unit]) % (MaxSecs + 1)

(* A duration's text is None when empty, else a value (None when it is no     *)
(* number) and the unit after it, None for none.                              *)
ParseDuration(text) ==
  IF \/ text = None
     \/ text.unit \notin DOMAIN UnitSecs
     \/ text.value \notin 0..MaxSecs
     \/ text.value * UnitSecs[text.unit] > MaxSecs
  THEN Error
  ELSE text.value * UnitSecs[text.unit]

(* The list, split at commas and white space; an empty piece is None.         *)
ParseOverrides(list) == {LowerCase[n] : n \in Range(list) \ {None}}

(* build: what the process starts with.  An argument that does not parse ends *)
(* it, and so does --version: None.                                           *)
Build(cli) ==
  IF ParseDuration(cli.cooldown) = Error \/ cli.version THEN None
  ELSE [cooldown  |-> ParseDuration(cli.cooldown),
        overrides |-> ParseOverrides(cli.overrides),
        restrict  |-> cli.restrict]

(* The cutoff of a request for a name, at the clock given; None unfiltered.   *)
CutoffAt(config, name, clock) ==
  IF LowerCase[name] \in config.overrides \/ config.cooldown = 0 THEN None
  ELSE IF clock < config.cooldown THEN 0 ELSE clock - config.cooldown
=============================================================================
