----------------------------- MODULE OrderedMap -----------------------------
(***************************************************************************)
(* What the tl_rbtree interface promises: a map from keys to values, and   *)
(* an entry that walks it in the order of the keys.  Inserting a key that  *)
(* is there never changes its value: with b_update the value is handed     *)
(* back, without it the call fails.  Erasing a key costs the caller the    *)
(* entry at that key and at the next one.                                  *)
(***************************************************************************)
EXTENDS Integers

CONSTANTS
  Key,      \* integers
  Val,
  Nothing   \* neither a key nor a value

VARIABLES
  open,     \* the map exists
  map,      \* key -> value
  at,       \* the key the caller's entry is at, or Nothing
  ret       \* what the last call returned: its code and the value it handed back

mapVars == <<open, map, at, ret>>

Empty == [k \in {} |-> Nothing]
Keys == DOMAIN map

Init == open = FALSE /\ map = Empty /\ at = Nothing /\ ret = [code |-> 0, val |-> Nothing]

Returns(c, v) == ret' = [code |-> c, val |-> v]

Above(k) == {j \in Keys : j > k}
Below(k) == {j \in Keys : j < k}
IsLeast(k, S) == k \in S /\ \A j \in S : k <= j
IsGreatest(k, S) == k \in S /\ \A j \in S : j <= k

Open == ~open /\ open' = TRUE /\ map' = Empty /\ at' = Nothing /\ UNCHANGED ret

Insert(k, v) ==
  /\ k \notin Keys
  /\ map' = [j \in Keys \cup {k} |-> IF j = k THEN v ELSE map[j]]
  /\ Returns(0, Nothing)
  /\ UNCHANGED <<open, at>>

InsertAgain(k) ==
  /\ k \in Keys
  /\ Returns(0, map[k]) \/ Returns(-1, Nothing)
  /\ UNCHANGED <<open, map, at>>

InsertFails == Returns(-1, Nothing) /\ UNCHANGED <<open, map, at>>

Query(k) ==
  /\ IF k \in Keys THEN Returns(0, map[k]) ELSE Returns(-1, Nothing)
  /\ UNCHANGED <<open, map, at>>

Erase(k) ==
  /\ k \in Keys
  /\ map' = [j \in Keys \ {k} |-> map[j]]
  /\ at' = IF at = k \/ (at # Nothing /\ IsLeast(at, Above(k))) THEN Nothing ELSE at
  /\ Returns(0, map[k])
  /\ UNCHANGED open

EraseMisses(k) == k \notin Keys /\ Returns(-1, Nothing) /\ UNCHANGED <<open, map, at>>

\* The entry goes to the key k, the first or last of S, if there is one.
MoveTo(k) == at' = k /\ Returns(0, Nothing) /\ UNCHANGED <<open, map>>
Stay == Returns(-1, Nothing) /\ UNCHANGED <<open, map, at>>
First == \/ \E k \in Keys : IsLeast(k, Keys) /\ MoveTo(k)
         \/ Keys = {} /\ Stay
Last  == \/ \E k \in Keys : IsGreatest(k, Keys) /\ MoveTo(k)
         \/ Keys = {} /\ Stay
Advance == at # Nothing /\ \/ \E k \in Above(at) : IsLeast(k, Above(at)) /\ MoveTo(k)
                           \/ Above(at) = {} /\ Stay
Retreat == at # Nothing /\ \/ \E k \in Below(at) : IsGreatest(k, Below(at)) /\ MoveTo(k)
                           \/ Below(at) = {} /\ Stay

Set(v) == /\ at # Nothing
          /\ map' = [map EXCEPT ![at] = v]
          /\ UNCHANGED <<open, at, ret>>

Close == open /\ open' = FALSE /\ map' = Empty /\ at' = Nothing /\ UNCHANGED ret

Call == \/ \E k \in Key : \/ \E v \in Val : Insert(k, v)
                          \/ InsertAgain(k) \/ Query(k) \/ Erase(k) \/ EraseMisses(k)
        \/ InsertFails
        \/ First \/ Last \/ Advance \/ Retreat
        \/ \E v \in Val : Set(v)

Next == Open \/ (open /\ Call) \/ Close

Spec == Init /\ [][Next]_mapVars
=============================================================================
