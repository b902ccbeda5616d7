----------------------------- MODULE CursorMap ------------------------------
(***************************************************************************)
(* What the tl_btree interface promises: a map from keys to values, and an *)
(* entry that walks it in the order of the keys.  It differs from that of  *)
(* tl_rbtree (OrderedMap) in two places.  An insert with b_update of a key *)
(* that is there exchanges the values.  And an entry that walks off either *)
(* end stands there, so that a step back returns to the last key it was    *)
(* at; the caller gives it up before he inserts a key, erases one or       *)
(* closes the map.                                                         *)
(***************************************************************************)
EXTENDS Integers

CONSTANTS Key, Val, Nothing, Front, End   \* Front and End: before and after all keys

VARIABLES
  open,     \* the map exists
  map,      \* key -> value
  at,       \* where the caller's entry is: a key, Front, End or Nothing
  ret       \* what the last call returned: its code and the value it handed back

mapVars == <<open, map, at, ret>>

Empty == [k \in {} |-> Nothing]
Keys == DOMAIN map

Init == open = FALSE /\ map = Empty /\ at = Nothing /\ ret = [code |-> 0, val |-> Nothing]

Returns(c, v) == ret' = [code |-> c, val |-> v]

IsLeast(k, S) == k \in S /\ \A j \in S : k <= j
IsGreatest(k, S) == k \in S /\ \A j \in S : j <= k
After == {j \in Keys : IF at = Front THEN TRUE ELSE j > at}
Before == {j \in Keys : IF at = End THEN TRUE ELSE j < at}

Open == ~open /\ open' = TRUE /\ map' = Empty /\ at' = Nothing /\ Returns(0, Nothing)

OpenFails == ~open /\ Returns(-1, Nothing) /\ UNCHANGED <<open, map, at>>

Insert(k, v) ==
  /\ k \notin Keys /\ at = Nothing
  /\ map' = [j \in Keys \cup {k} |-> IF j = k THEN v ELSE map[j]]
  /\ Returns(0, Nothing)
  /\ UNCHANGED <<open, at>>

InsertAgain(k, v) ==
  /\ k \in Keys
  /\ \/ map' = [map EXCEPT ![k] = v] /\ Returns(0, map[k])
     \/ UNCHANGED map /\ Returns(-1, Nothing)
  /\ UNCHANGED <<open, at>>

\* There is no memory for a new first node: the call fails, and all is lost.
InsertLoses ==
  /\ at = Nothing
  /\ map' = Empty
  /\ Returns(-1, Nothing)
  /\ UNCHANGED <<open, at>>

Query(k) ==
  /\ IF k \in Keys THEN Returns(0, map[k]) ELSE Returns(-1, Nothing)
  /\ UNCHANGED <<open, map, at>>

Erase(k) ==
  /\ k \in Keys /\ at = Nothing
  /\ map' = [j \in Keys \ {k} |-> map[j]]
  /\ Returns(0, map[k])
  /\ UNCHANGED <<open, at>>

EraseMisses(k) == k \notin Keys /\ Returns(-1, Nothing) /\ UNCHANGED <<open, map, at>>

MoveTo(k, code) == at' = k /\ Returns(code, Nothing) /\ UNCHANGED <<open, map>>
First == \/ \E k \in Keys : IsLeast(k, Keys) /\ MoveTo(k, 0)
         \/ Keys = {} /\ MoveTo(at, -1)
Last  == \/ \E k \in Keys : IsGreatest(k, Keys) /\ MoveTo(k, 0)
         \/ Keys = {} /\ MoveTo(at, -1)
Advance == /\ at \notin {Nothing, End}
           /\ \/ \E k \in After : IsLeast(k, After) /\ MoveTo(k, 0)
              \/ After = {} /\ MoveTo(End, -1)
Retreat == /\ at \notin {Nothing, Front}
           /\ \/ \E k \in Before : IsGreatest(k, Before) /\ MoveTo(k, 0)
              \/ Before = {} /\ MoveTo(Front, -1)

GiveUp == at' = Nothing /\ UNCHANGED <<open, map, ret>>

Set(v) == /\ at \in Keys
          /\ map' = [map EXCEPT ![at] = v]
          /\ UNCHANGED <<open, at, ret>>

Close == open /\ at = Nothing /\ open' = FALSE /\ map' = Empty /\ UNCHANGED <<at, ret>>

Call == \/ \E k \in Key : \/ \E v \in Val : Insert(k, v) \/ InsertAgain(k, v)
                          \/ Query(k) \/ Erase(k) \/ EraseMisses(k)
        \/ InsertLoses
        \/ First \/ Last \/ Advance \/ Retreat
        \/ GiveUp \/ \E v \in Val : Set(v)

Next == Open \/ OpenFails \/ (open /\ Call) \/ Close

Spec == Init /\ [][Next]_mapVars
=============================================================================
