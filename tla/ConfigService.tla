----------------------------- MODULE ConfigService -----------------------------
(***************************************************************************)
(* ConfigService (src/src/config/config.service.ts): the constructor reads *)
(* the YAML file, lays the environment variables over it one by one, and   *)
(* lets zod validate and strip the result.                                 *)
(*                                                                         *)
(* A word of a key or of a variable name is <<w, form>>, where the form is *)
(* how w is written:                                                       *)
(*   "lower"  port        "camel"  eventBuffer                             *)
(*   "upper"  OPC         "odd"    oPC                                     *)
(* Every word that matters has at least two letters.  A configuration maps *)
(* each path to the value of that leaf; an object without leaves, an array *)
(* and a value are not taken apart.                                        *)
(***************************************************************************)
EXTENDS Naturals, Sequences, SequencesExt

CONSTANTS Words,     \* the words, whatever their form
          Known,     \* the sections isValidConfigEnvVar() knows
          Schema,    \* the paths of the leaves that configSchema declares
          Required,  \* those of them that are not optional
          Names,     \* the variable names that may be set, as sequences of words
          Values,    \* the values of a leaf
          None,      \* no value
          Blank      \* the empty word: two '_' in a row, or one at the end

VARIABLES
  file,     \* what the YAML file gives
  env,      \* process.env
  obj,      \* the object that is being built
  left,     \* the variables still to be looked at
  stage,    \* whether the constructor is loading, has returned or has thrown
  config    \* ConfigService.config, once loaded

configVars == <<file, env, obj, left, stage, config>>

-----------------------------------------------------------------------------
(* The case conversions.                                                   *)

(* part.charAt(0).toLowerCase() + part.slice(1)                            *)
LowerFirst(word) ==
  IF word # Blank /\ word[2] = "upper" THEN <<word[1], "odd">> ELSE word

(* part.toLowerCase()                                                      *)
ToLower(word) == IF word = Blank THEN Blank ELSE <<word[1], "lower">>

(* The path setNestedValue() writes for the name n.                        *)
PathOf(n) == [i \in DOMAIN n |-> IF i = 1 THEN LowerFirst(n[i]) ELSE ToLower(n[i])]

Paths == Schema \cup {PathOf(n) : n \in Names} \cup {Front(PathOf(n)) : n \in Names}

(* isValidConfigEnvVar(): a known section in capitals and a '_'.           *)
IsValidConfigEnvVar(n) ==
  /\ Len(n) >= 2
  /\ \E w \in Known : n[1] = <<w, "upper">>

(* obj with v at path p: the leaves on the way to p become objects, those  *)
(* below p are replaced with it.                                           *)
Assign(o, p, v) ==
  [q \in Paths |-> IF q = p THEN v
                   ELSE IF IsPrefix(q, p) \/ IsPrefix(p, q) THEN None ELSE o[q]]

(* A name that ends with '_' only makes objects of what is on the way.     *)
Objectify(o, p) == [q \in Paths |-> IF IsPrefix(q, p) THEN None ELSE o[q]]

SetNestedValue(o, n, v) ==
  IF Last(n) = Blank THEN Objectify(o, Front(PathOf(n))) ELSE Assign(o, PathOf(n), v)

-----------------------------------------------------------------------------

ConfigInit ==
  /\ file \in [Schema -> Values \cup {None}]
  /\ \E set \in SUBSET Names : env \in [set -> Values]
  /\ obj = [p \in Paths |-> IF p \in Schema THEN file[p] ELSE None]
  /\ left = DOMAIN env
  /\ stage = "loading"
  /\ config = [p \in Schema |-> None]

(* One turn of the loop of applyEnvironmentVariables(), in any order.      *)
ApplyVariable(n) ==
  /\ n \in left
  /\ left' = left \ {n}
  /\ obj' = IF IsValidConfigEnvVar(n) THEN SetNestedValue(obj, n, env[n]) ELSE obj
  /\ UNCHANGED <<file, env, stage, config>>

(* safeParse() strips what the schema does not declare.                    *)
Validate ==
  /\ stage = "loading" /\ left = {}
  /\ \/ /\ \A p \in Required : obj[p] # None
        /\ stage' = "loaded"
        /\ config' = [p \in Schema |-> obj[p]]
     \/ /\ \E p \in Required : obj[p] = None
        /\ stage' = "failed"
        /\ UNCHANGED config
  /\ UNCHANGED <<file, env, obj, left>>

ConfigNext == Validate \/ \E n \in Names : ApplyVariable(n)

ConfigSpec == ConfigInit /\ [][ConfigNext]_configVars

-----------------------------------------------------------------------------
(* Properties.                                                             *)

(* What the names and the schema look like.  configSchema writes every     *)
(* section with a small first letter.                                      *)
Lexemes == (Words \X {"lower", "camel", "upper", "odd"}) \cup {Blank}

WellFormed ==
  /\ Blank \notin Words \X {"lower", "camel", "upper", "odd"}
  /\ Known \subseteq Words
  /\ Names \subseteq Seq(Lexemes)
  /\ Schema \subseteq Seq(Lexemes)
  /\ Required \subseteq Schema
  /\ \A p \in Schema : p # <<>> /\ p[1] \in Words \X {"lower", "camel"}

(* The values the application sees are those of the file, whatever the     *)
(* environment holds: the sections are converted to keys such as 'oPC'     *)
(* that the schema does not declare.                                       *)
EnvironmentIsIgnored ==
  /\ stage = "loaded" => config = file
  /\ stage = "failed" => \E p \in Required : file[p] = None

(* openspec/specs/config-management/spec.md, lines 30-39: "Environment     *)
(* variables SHALL take precedence over values defined in the YAML file":  *)
(* with OPC_PORT set to 5000, opc.port is 5000.                            *)
Documented(n) == [i \in DOMAIN n |-> ToLower(n[i])]

EnvironmentOverrides ==
  stage = "loaded" => \A n \in DOMAIN env :
    IsValidConfigEnvVar(n) /\ Documented(n) \in Schema => config[Documented(n)] = env[n]
=============================================================================
