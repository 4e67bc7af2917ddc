-------------------------- MODULE ConfigServiceProofs --------------------------
(***************************************************************************)
(* What the environment can do to the configuration: nothing.              *)
(***************************************************************************)
EXTENDS ConfigService, TLAPS

(* The first key a recognised variable leads to is written like 'oPC'.     *)
Astray(q) == q \in Seq(Lexemes) /\ Len(q) >= 1 /\ q[1] \in Known \X {"odd"}

(* A path with such a first key has nothing in common with the schema.     *)
LEMMA AstrayApart ==
  ASSUME WellFormed, NEW q, Astray(q), NEW p \in Schema
  PROVE  q # p /\ ~IsPrefix(q, p) /\ ~IsPrefix(p, q)
<1>1. p \in Seq(Lexemes) /\ Len(p) >= 1 /\ p[1] \in Words \X {"lower", "camel"}
  BY DEF WellFormed
<1>2. q[1] # p[1]
  BY <1>1 DEF Astray
<1>3. ASSUME NEW s \in Seq(Lexemes), NEW t \in Seq(Lexemes), Len(s) >= 1, IsPrefix(s, t)
      PROVE  s[1] = t[1]
  <2>1. Len(s) =< Len(t) /\ SubSeq(s, 1, Len(s)) = SubSeq(t, 1, Len(s))
    BY <1>3 DEF IsPrefix
  <2>2. SubSeq(s, 1, Len(s))[1] = s[1]
    BY <1>3
  <2>3. SubSeq(t, 1, Len(s))[1] = t[1]
    BY <1>3, <2>1
  <2> QED
    BY <2>1, <2>2, <2>3
<1> QED
  BY <1>1, <1>2, <1>3 DEF Astray

(* Both paths that setNestedValue() follows for a recognised variable go   *)
(* astray.                                                                 *)
LEMMA PathsGoAstray ==
  ASSUME WellFormed, NEW n \in Names, IsValidConfigEnvVar(n)
  PROVE  Astray(PathOf(n)) /\ Astray(Front(PathOf(n)))
<1>1. n \in Seq(Lexemes) /\ Len(n) >= 2
  BY DEF WellFormed, IsValidConfigEnvVar
<1>2. PICK w \in Known : n[1] = <<w, "upper">>
  BY DEF IsValidConfigEnvVar
<1>3. <<w, "upper">> # Blank /\ w \in Words
  BY DEF WellFormed
<1>4. n[1] # Blank /\ LowerFirst(n[1]) = <<w, "odd">>
  BY <1>2, <1>3 DEF LowerFirst
<1>5. \A i \in 2..Len(n) : ToLower(n[i]) \in Lexemes
  <2> SUFFICES ASSUME NEW i \in 2..Len(n) PROVE ToLower(n[i]) \in Lexemes
    OBVIOUS
  <2>1. n[i] \in Lexemes
    BY <1>1
  <2> QED
    BY <2>1 DEF ToLower, Lexemes
<1>6. PathOf(n) \in Seq(Lexemes) /\ Len(PathOf(n)) = Len(n) /\ PathOf(n)[1] = <<w, "odd">>
  <2>1. DOMAIN n = 1..Len(n)
    BY <1>1
  <2>2. <<w, "odd">> \in Lexemes
    BY <1>3 DEF Lexemes
  <2>3. PathOf(n) \in [1..Len(n) -> Lexemes]
    BY <1>4, <1>5, <2>1, <2>2 DEF PathOf
  <2>4. PathOf(n)[1] = <<w, "odd">>
    BY <1>1, <1>4, <2>1 DEF PathOf
  <2> QED
    BY <1>1, <2>3, <2>4
<1>7. Front(PathOf(n)) \in Seq(Lexemes) /\ Len(Front(PathOf(n))) >= 1
      /\ Front(PathOf(n))[1] = PathOf(n)[1]
  BY <1>1, <1>6 DEF Front
<1> QED
  BY <1>1, <1>6, <1>7 DEF Astray

(* No turn of the loop touches a leaf of the schema.                       *)
LEMMA LeavesUntouched ==
  ASSUME WellFormed, NEW n \in Names, IsValidConfigEnvVar(n), NEW o, NEW v, NEW p \in Schema
  PROVE  SetNestedValue(o, n, v)[p] = o[p]
<1>1. p \in Paths
  BY DEF Paths
<1>2. Astray(PathOf(n)) /\ Astray(Front(PathOf(n)))
  BY PathsGoAstray
<1>3. PathOf(n) # p /\ ~IsPrefix(p, PathOf(n)) /\ ~IsPrefix(PathOf(n), p)
  BY <1>2, AstrayApart
<1>4. ~IsPrefix(p, Front(PathOf(n)))
  BY <1>2, AstrayApart
<1>5. Assign(o, PathOf(n), v)[p] = o[p]
  BY <1>1, <1>3 DEF Assign
<1>6. Objectify(o, Front(PathOf(n)))[p] = o[p]
  BY <1>1, <1>4 DEF Objectify
<1> QED
  BY <1>5, <1>6 DEF SetNestedValue

(* The inductive invariant: what the schema will read is what the file has. *)
LoadingInv ==
  /\ file \in [Schema -> Values \cup {None}]
  /\ \A p \in Schema : obj[p] = file[p]
  /\ EnvironmentIsIgnored

(* The configuration that ConfigService exposes is that of the YAML file,  *)
(* and it fails to load only for a value the file lacks, whatever          *)
(* variables are set and in whatever order they are visited.               *)
THEOREM EnvironmentHasNoEffect ==
  ASSUME WellFormed PROVE ConfigSpec => []EnvironmentIsIgnored
<1>1. ConfigInit => LoadingInv
  <2> SUFFICES ASSUME ConfigInit PROVE LoadingInv
    OBVIOUS
  <2>1. \A p \in Schema : p \in Paths
    BY DEF Paths
  <2> QED
    BY <2>1 DEF ConfigInit, LoadingInv, EnvironmentIsIgnored
<1>2. LoadingInv /\ [ConfigNext]_configVars => LoadingInv'
  <2> SUFFICES ASSUME LoadingInv, [ConfigNext]_configVars PROVE LoadingInv'
    OBVIOUS
  <2>1. ASSUME NEW n \in Names, ApplyVariable(n) PROVE LoadingInv'
    <3>1. \A p \in Schema : obj'[p] = obj[p]
      BY <2>1, LeavesUntouched DEF ApplyVariable
    <3> QED
      BY <2>1, <3>1 DEF ApplyVariable, LoadingInv, EnvironmentIsIgnored
  <2>2. ASSUME Validate PROVE LoadingInv'
    <3>1. [p \in Schema |-> obj[p]] = file
      BY DEF LoadingInv
    <3>2. \A p \in Required : obj[p] = file[p]
      BY DEF LoadingInv, WellFormed
    <3> QED
      BY <2>2, <3>1, <3>2 DEF Validate, LoadingInv, EnvironmentIsIgnored
  <2>3. CASE UNCHANGED configVars
    BY <2>3 DEF configVars, LoadingInv, EnvironmentIsIgnored
  <2> QED
    BY <2>1, <2>2, <2>3 DEF ConfigNext
<1>3. LoadingInv => EnvironmentIsIgnored
  BY DEF LoadingInv
<1> QED
  BY <1>1, <1>2, <1>3, PTL DEF ConfigSpec
=============================================================================
