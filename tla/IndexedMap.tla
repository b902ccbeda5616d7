----------------------------- MODULE IndexedMap -----------------------------
(***************************************************************************)
(* What the tl_bplustree interface promises: a map from keys to values     *)
(* whose keys can also be had by their rank.  Unlike in the other two      *)
(* trees, an insert with b_update of a key that is there overwrites the    *)
(* value and hands nothing back.  And there is what it does not promise:   *)
(* after a failure in the middle of an insert nothing is known.            *)
(***************************************************************************)
EXTENDS Integers, FiniteSets

CONSTANTS Key, Val, Nothing

VARIABLES
  st,      \* "none", "open", or "over": the map is broken or the process stopped
  map,     \* key -> value
  ret      \* what the last call returned: its code, key and value

mapVars == <<st, map, ret>>

Empty == [k \in {} |-> Nothing]
Keys == DOMAIN map
Rank(k) == Cardinality({j \in Keys : j < k})

Returns(c, k, v) == ret' = [code |-> c, key |-> k, val |-> v]

Init == /\ st = "none" /\ map = Empty
        /\ ret = [code |-> 0, key |-> Nothing, val |-> Nothing]

Open == st = "none" /\ st' = "open" /\ map' = Empty /\ Returns(0, Nothing, Nothing)

OpenFails == st = "none" /\ Returns(-1, Nothing, Nothing) /\ UNCHANGED <<st, map>>

Insert(k, v) ==
  /\ k \notin Keys
  /\ map' = [j \in Keys \cup {k} |-> IF j = k THEN v ELSE map[j]]
  /\ Returns(0, Nothing, Nothing) /\ UNCHANGED st

InsertAgain(k, v) ==
  /\ k \in Keys
  /\ \/ map' = [map EXCEPT ![k] = v] /\ Returns(0, Nothing, Nothing)
     \/ UNCHANGED map /\ Returns(-1, Nothing, Nothing)
  /\ UNCHANGED st

InsertFails == Returns(-1, Nothing, Nothing) /\ UNCHANGED <<st, map>>

\* There is no memory in the middle of an insert, or for the first leaf.
InsertBreaks ==
  /\ st' = "over" /\ (Returns(-1, Nothing, Nothing) \/ UNCHANGED ret)
  /\ UNCHANGED map

Query(k) ==
  /\ IF k \in Keys THEN Returns(0, Nothing, map[k]) ELSE Returns(-1, Nothing, Nothing)
  /\ UNCHANGED <<st, map>>

Get(i) ==
  /\ \/ \E k \in Keys : Rank(k) = i /\ Returns(0, k, map[k])
     \/ i >= Cardinality(Keys) /\ Returns(0, Nothing, Nothing)
  /\ UNCHANGED <<st, map>>

Erase(k) ==
  /\ k \in Keys
  /\ map' = [j \in Keys \ {k} |-> map[j]]
  /\ Returns(0, Nothing, map[k]) /\ UNCHANGED st

EraseMisses(k) == k \notin Keys /\ Returns(-1, Nothing, Nothing) /\ UNCHANGED <<st, map>>

\* Destroy returns how many keys it erased: none if the first is 0, which it takes
\* for the end.
Close ==
  /\ st' = "none" /\ map' = Empty
  /\ Returns(IF 0 \in Keys THEN 0 ELSE Cardinality(Keys), Nothing, Nothing)

Call == \/ \E k \in Key : \/ \E v \in Val : Insert(k, v) \/ InsertAgain(k, v)
                          \/ Query(k) \/ Erase(k) \/ EraseMisses(k)
        \/ InsertFails \/ InsertBreaks
        \/ \E i \in 0 .. Cardinality(Keys) : Get(i)
        \/ Close

Next == Open \/ OpenFails \/ (st = "open" /\ Call)

Spec == Init /\ [][Next]_mapVars
=============================================================================
