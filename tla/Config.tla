-------------------------------- MODULE Config --------------------------------
(***************************************************************************)
(* Config::load_config (src/static_config.hpp): settings start from their  *)
(* defaults, each line of the .env file overwrites one, the environment    *)
(* overwrites what the file said, and two of them are validated.           *)
(*                                                                         *)
(* A value is the number that std::stoul makes of it, or NotANumber, on    *)
(* which std::stoul throws; nobody catches.  Lines about HOST and          *)
(* LOGGING_LEVEL, unknown keys and lines without "=" set nothing here:     *)
(* they are lines with the key "OTHER".                                    *)
(***************************************************************************)
EXTENDS Integers, Sequences, SequencesExt

CONSTANTS
  Defaults,   \* the initial values of the static members
  PortBits    \* width of in_port_t

Setting == {"PORT", "NUM_REQUESTS", "PAGE_COUNT", "CLIENT_THREADS"}
NotANumber == -1
Thrown == [exception |-> TRUE]

\* 2^PortBits is positive for every PortBits; the provers do not know it.
ASSUME ConfigAssumption == /\ Defaults \in [Setting -> Nat]
                           /\ PortBits \in Nat /\ 2^PortBits \in Nat \ {0}

\* What a line of the file, or a variable of the environment, may say.
Value == Nat \cup {NotANumber}
EnvLine == [key : Setting \cup {"OTHER"}, value : Value]

\* static_cast<in_port_t>(std::stoul(...)) for the port, size_t for the others.
Narrow(key, value) == IF key = "PORT" THEN value % 2^PortBits ELSE value

ParseLineOnce(settings, line) ==        \* mutant: a key counts the first time only
  IF settings = Thrown \/ line.key \notin Setting THEN settings
  ELSE IF line.value = NotANumber THEN Thrown
  ELSE IF settings[line.key] # Defaults[line.key] THEN settings
  ELSE [settings EXCEPT ![line.key] = Narrow(line.key, line.value)]

parse_env_line(settings, line) ==
  IF settings = Thrown \/ line.key \notin Setting THEN settings
  ELSE IF line.value = NotANumber THEN Thrown
  ELSE [settings EXCEPT ![line.key] = Narrow(line.key, line.value)]

\* env is a function from the variables that are set to their values.
Override(settings, env) ==
  IF settings = Thrown \/ \E key \in DOMAIN env : env[key] = NotANumber THEN Thrown
  ELSE [key \in Setting |-> IF key \in DOMAIN env THEN Narrow(key, env[key])
                            ELSE settings[key]]

\* PAGE_COUNT and CLIENT_THREADS are not looked at.
Validate(settings) ==
  IF settings = Thrown \/ settings["PORT"] = 0 \/ settings["NUM_REQUESTS"] = 0
  THEN Thrown ELSE settings

load_config(file, env) ==
  Validate(Override(FoldLeft(parse_env_line, Defaults, file), env))

-----------------------------------------------------------------------------

\* What a reader of the file and the environment expects of one setting.
LinesOf(file, key) == {n \in DOMAIN file : file[n].key = key}
Meant(file, env, key) ==
  IF key \in DOMAIN env THEN env[key]
  ELSE IF LinesOf(file, key) = {} THEN Defaults[key]
  ELSE file[CHOOSE n \in LinesOf(file, key) : \A k \in LinesOf(file, key) : k <= n].value
=============================================================================
