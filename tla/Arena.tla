------------------------------- MODULE Arena -------------------------------
(***************************************************************************)
(* What tl_pool promises about memory, without buckets, footers or links:  *)
(* blocks of memory cut into tags end to end.  A free tag is taken whole   *)
(* or split; a tag given back merges with the free tags it borders on; a   *)
(* block that is one tag may be dropped, except the arena's own.  Which    *)
(* free tag serves a request is left open, and so is when a block is added *)
(* rather than a tag reused.                                               *)
(***************************************************************************)
EXTENDS Integers

CONSTANTS
  Addr,     \* the addresses a block may begin and end at
  Base,     \* the first tag of the block the arena keeps until it is destroyed
  Thresh,   \* the largest rest that stays with the tag it is left of
  Gap       \* the words of a block before its first tag

ASSUME ArenaAssumption ==
  Addr \subseteq Nat /\ Base \in Addr /\ Thresh \in Nat /\ Gap \in Nat \ {0}

VARIABLES
  tags,     \* address -> [size, used, blk], blk being the block the tag is in
  blks      \* block, named by its first tag -> the address where it ends

arenaVars == <<tags, blks>>

Tag == DOMAIN tags
Blk == DOMAIN blks
EndOf(t) == t + tags[t].size
IsFree(t) == t \in Tag /\ ~tags[t].used

Empty == [a \in {} |-> a]
Init == tags = Empty /\ blks = Empty

-----------------------------------------------------------------------------
\* The tags T after n words are taken of the free tag t.  Two mutants first:
\* the rest overlaps what was taken, and the rest is lost.
CarveOverlaps(T, t, n) ==
  IF T[t].size - n > Thresh
  THEN [u \in DOMAIN T \cup {t + n} |->
          IF u = t THEN [T[t] EXCEPT !.used = TRUE]
          ELSE IF u = t + n THEN [T[t] EXCEPT !.size = @ - n] ELSE T[u]]
  ELSE [T EXCEPT ![t].used = TRUE]
CarveLoses(T, t, n) == [T EXCEPT ![t].size = n, ![t].used = TRUE]

Carve(T, t, n) ==
  LET rest == T[t].size - n
  IN  IF rest > Thresh
      THEN [u \in DOMAIN T \cup {t + n} |->
              IF u = t THEN [T[t] EXCEPT !.size = n, !.used = TRUE]
              ELSE IF u = t + n THEN [T[t] EXCEPT !.size = rest, !.used = FALSE]
              ELSE T[u]]
      ELSE [T EXCEPT ![t].used = TRUE]

\* The tags and blocks after a block [b, end) of one free tag is added.
WithTag(T, b, end) ==
  [u \in DOMAIN T \cup {b} |->
     IF u = b THEN [size |-> end - b, used |-> FALSE, blk |-> b] ELSE T[u]]
WithBlk(b, end) == [c \in Blk \cup {b} |-> IF c = b THEN end ELSE blks[c]]

\* A new block is the system's to choose, clear of all the others.
Clear(b, end) == \A c \in Blk : end + Gap <= c \/ blks[c] + Gap <= b

Create(end) ==
  /\ Blk = {}
  /\ end > Base
  /\ tags' = WithTag(tags, Base, end)
  /\ blks' = WithBlk(Base, end)

Take(t, n) ==
  /\ IsFree(t)
  /\ n \in 1 .. tags[t].size
  /\ tags' = Carve(tags, t, n)
  /\ UNCHANGED blks

Grow(b, end) ==
  /\ Blk # {} /\ Clear(b, end)
  /\ blks' = WithBlk(b, end)
  /\ \E n \in 1 .. end - b : tags' = Carve(WithTag(tags, b, end), b, n)

\* The free tags that t borders on, below and above.
Lower(t) == {u \in Tag : IsFree(u) /\ EndOf(u) = t}
UpperIgnored(t) == {}                    \* mutant: only the tag below is merged
Upper(t) == {u \in Tag : IsFree(u) /\ u = EndOf(t)}

\* t is given back; the merged tag runs from s to e.
Merge(t, s, e) ==
  tags' = [u \in (Tag \ (Lower(t) \cup Upper(t) \cup {t})) \cup {s} |->
             IF u = s THEN [size |-> e - s, used |-> FALSE, blk |-> tags[t].blk]
             ELSE tags[u]]

GiveBack(t) ==
  /\ t \in Tag /\ tags[t].used
  /\ \E s \in (IF Lower(t) = {} THEN {t} ELSE Lower(t)),
        u \in (IF Upper(t) = {} THEN {t} ELSE Upper(t)) :
       Merge(t, s, EndOf(u))
  /\ UNCHANGED blks

Drop(b) ==
  /\ b \in Blk \ {Base}
  /\ b \in Tag /\ EndOf(b) = blks[b]
  /\ tags' = [u \in Tag \ {b} |-> tags[u]]
  /\ blks' = [c \in Blk \ {b} |-> blks[c]]

Destroy ==
  /\ Blk # {}
  /\ tags' = Empty /\ blks' = Empty

Next ==
  \/ \E end \in Addr : Create(end)
  \/ \E t \in Tag : \E n \in 1 .. tags[t].size : Take(t, n)
  \/ \E b, end \in Addr : Grow(b, end)
  \/ \E t \in Tag : GiveBack(t)
  \/ \E b \in Blk : Drop(b)
  \/ Destroy

Spec == Init /\ [][Next]_arenaVars

-----------------------------------------------------------------------------
(* Tags and blocks are named by addresses, and no tag is empty. *)
TypeOK ==
  /\ Tag \subseteq Nat /\ tags \in [Tag -> [size : Nat \ {0}, used : BOOLEAN, blk : Nat]]
  /\ Blk \subseteq Nat /\ blks \in [Blk -> Nat]

(* Tags do not overlap: two regions in use have no word in common. *)
TagsDisjoint == \A t, u \in Tag : t < u => EndOf(t) <= u

(* Tags lie in their block and tile it: where a tag ends, the block ends or the
   next tag of the block begins, so that no memory is ever lost. *)
TagsTile ==
  \A t \in Tag :
    LET b == tags[t].blk
    IN  /\ b \in Blk /\ b <= t /\ EndOf(t) <= blks[b]
        /\ EndOf(t) # blks[b] => EndOf(t) \in Tag /\ tags[EndOf(t)].blk = b

(* A free tag never borders on another: free memory is one tag as far as it
   goes, and a request fails for want of memory, not of merging. *)
FreeMerged == \A t, u \in Tag : IsFree(t) /\ IsFree(u) => EndOf(t) # u
=============================================================================
