------------------------------ MODULE TopicFilters ------------------------------
(***************************************************************************)
(* Topics, filters and the two ways this system matches them.  A topic is  *)
(* a sequence of levels; a filter may also hold "+" and, at its end, "#".  *)
(***************************************************************************)
EXTENDS Naturals, Sequences

Plus == "+"
Hash == "#"

IsWild(f) == \E i \in DOMAIN f : f[i] \in {Plus, Hash}

(* "#" may only be the last level of a filter.                             *)
IsFilter(f) ==
  /\ f \in Seq(STRING) /\ f # <<>>
  /\ \A i \in DOMAIN f : f[i] = Hash => i = Len(f)

(* The broker's matching: "+" stands for one level, "#" for any number of  *)
(* them, none included.  Neither stands for a first level with "$", like   *)
(* the "$SYS" of the broker's own topics.                                  *)
Reserved == {"$SYS", "$share"}

LevelMatches(f, t, i) == f[i] \in {Plus, t[i]}

BrokerMatches(f, t) ==
  /\ t[1] \in Reserved => f[1] = t[1]
  /\ \/ /\ f[Len(f)] # Hash
        /\ Len(f) = Len(t)
        /\ \A i \in 1..Len(f) : LevelMatches(f, t, i)
     \/ /\ f[Len(f)] = Hash
        /\ Len(f) - 1 =< Len(t)
        /\ \A i \in 1..Len(f) - 1 : LevelMatches(f, t, i)

(* The regular expression that the service builds of a filter.  It escapes *)
(* "+" before it looks for it and gets '\[^/]+', where the '^' asks for    *)
(* the beginning of the topic: no topic matches.  "#" becomes '.*'.        *)
StreamMatches_AnyPrefix(f, t) ==
  /\ \A i \in DOMAIN f : f[i] # Plus
  /\ \/ f = t
     \/ f[Len(f)] = Hash

StreamMatches(f, t) ==
  /\ \A i \in DOMAIN f : f[i] # Plus
  /\ \/ f = t
     \/ /\ f[Len(f)] = Hash
        /\ Len(f) =< Len(t)
        /\ \A i \in 1..Len(f) - 1 : f[i] = t[i]
=============================================================================
