--------------------------- MODULE PriorityQueue ---------------------------
(***************************************************************************)
(* What the tl_heap_t interface promises: a bounded collection of elements *)
(* from which the one that beats all others is looked at, taken or         *)
(* replaced.  A call that could not get memory leaves the queue broken:    *)
(* its elements are gone, and most calls crash.                            *)
(***************************************************************************)
EXTENDS FiniteSets, Integers

CONSTANTS
  Item,
  Cap,      \* the most elements the queue takes
  Nothing   \* not an element

VARIABLES
  state,    \* "none", "open", "broken", "crashed"
  raft,     \* the largest element first, or the smallest
  key,
  items,
  ret       \* the last call: its code, and the element it handed out

queueVars == <<state, raft, key, items, ret>>

IsBest(x) == x \in items /\ \A y \in items : IF raft THEN key[x] >= key[y] ELSE key[x] <= key[y]

Returns(c, x) == ret' = [code |-> c, ele |-> x]
Init == /\ state = "none" /\ items = {} /\ raft \in BOOLEAN
        /\ key \in [Item -> Int] /\ ret = [code |-> 0, ele |-> Nothing]

Open == state = "none" /\ state' = "open" /\ UNCHANGED <<items, ret>>

Add(x) == /\ state = "open" /\ x \notin items /\ Cardinality(items) < Cap
          /\ items' = items \cup {x} /\ Returns(0, Nothing) /\ UNCHANGED state

Refuse == /\ state = "open" /\ Cardinality(items) = Cap
          /\ Returns(-1, Nothing) /\ UNCHANGED <<state, items>>

Break == /\ state = "open" /\ state' = "broken"
         /\ items' = {} /\ Returns(-1, Nothing)

Top == /\ state \in {"open", "broken"}
       /\ IF items = {} THEN Returns(0, Nothing) ELSE \E x \in items : IsBest(x) /\ Returns(0, x)
       /\ UNCHANGED <<state, items>>

Pop == /\ state \in {"open", "broken"} /\ UNCHANGED state
       /\ IF items = {} THEN Returns(-1, Nothing) /\ UNCHANGED items
          ELSE \E x \in items : IsBest(x) /\ items' = items \ {x} /\ Returns(0, x)

Replace(y) == /\ state = "open" /\ items # {} /\ y \notin items
              /\ \E x \in items : IsBest(x) /\ items' = (items \ {x}) \cup {y}
              /\ UNCHANGED <<state, ret>>

Crash == state = "broken" /\ state' = "crashed" /\ UNCHANGED <<items, ret>>
Close == state \in {"open", "broken"} /\ state' = "none" /\ items' = {} /\ UNCHANGED ret

Next == /\ \/ Open \/ Refuse \/ Break \/ Top \/ Pop \/ Crash \/ Close
           \/ \E x \in Item : Add(x) \/ Replace(x)
        /\ UNCHANGED <<raft, key>>

Spec == Init /\ [][Next]_queueVars
=============================================================================
