---------------------------- MODULE ArenaProofs ----------------------------
(***************************************************************************)
(* Theorems about Arena, for any memory, threshold and gap.  What holds of *)
(* tags and blocks is stated of any tags T and blocks B, so that each part *)
(* of an operation (a block is added, a tag is carved, merged, dropped)    *)
(* is one lemma; Grow uses two of them.                                    *)
(***************************************************************************)
EXTENDS Arena, TLAPS

End(T, t) == t + T[t].size

WellTyped(T, B) ==
  /\ DOMAIN T \subseteq Nat
  /\ T \in [DOMAIN T -> [size : Nat \ {0}, used : BOOLEAN, blk : Nat]]
  /\ DOMAIN B \subseteq Nat
  /\ B \in [DOMAIN B -> Nat]

Disjoint(T) == \A t, u \in DOMAIN T : t < u => End(T, t) <= u

\* A tag lies in its block.
Within(T, B) == \A t \in DOMAIN T : /\ T[t].blk \in DOMAIN B
                                    /\ T[t].blk <= t
                                    /\ End(T, t) <= B[T[t].blk]

\* A tag ends where its block does or where the next tag of the block begins.
Followed(T, B) == \A t \in DOMAIN T :
  End(T, t) # B[T[t].blk] => End(T, t) \in DOMAIN T /\ T[End(T, t)].blk = T[t].blk

Merged(T) == \A t, u \in DOMAIN T : ~T[t].used /\ ~T[u].used => End(T, t) # u

\* A block begins with a tag of its own, and blocks keep their distance.
Headed(T, B) == \A b \in DOMAIN B : b \in DOMAIN T /\ T[b].blk = b
Apart(B) == \A b, c \in DOMAIN B : b < c => B[b] + Gap <= c

Good(T, B) == /\ WellTyped(T, B)
              /\ Disjoint(T)
              /\ Within(T, B)
              /\ Followed(T, B)
              /\ Merged(T)
              /\ Headed(T, B)
              /\ Apart(B)

IInv == Good(tags, blks)

-----------------------------------------------------------------------------
(* The inductive invariant implies each property of Arena. *)
LEMMA GoodImplies == IInv => TypeOK /\ TagsDisjoint /\ TagsTile /\ FreeMerged
<1> SUFFICES ASSUME IInv PROVE TypeOK /\ TagsDisjoint /\ TagsTile /\ FreeMerged
  OBVIOUS
<1> USE DEF IInv, Good, Tag, Blk, EndOf, End
<1>1. TypeOK
  BY DEF TypeOK, WellTyped
<1>2. TagsDisjoint
  BY DEF TagsDisjoint, Disjoint
<1>3. TagsTile
  BY DEF TagsTile, Within, Followed
<1>4. FreeMerged
  BY DEF FreeMerged, Merged, IsFree
<1> QED BY <1>1, <1>2, <1>3, <1>4

(* An arena without memory is good. *)
LEMMA EmptyGood == Good(Empty, Empty)
  BY DEF Good, WellTyped, Disjoint, Within, Followed, Merged, Headed, Apart, Empty

-----------------------------------------------------------------------------
(* Resizing a tag and changing its use leave it a tag. *)
LEMMA ResizeType ==
  ASSUME NEW x \in [size : Nat \ {0}, used : BOOLEAN, blk : Nat], NEW k \in Nat \ {0}
  PROVE  /\ [x EXCEPT !.size = k, !.used = TRUE] \in [size : Nat \ {0}, used : BOOLEAN, blk : Nat]
         /\ [x EXCEPT !.size = k, !.used = FALSE] \in [size : Nat \ {0}, used : BOOLEAN, blk : Nat]
  OBVIOUS

(* Carving a request out of a free tag, with or without a rest
   (tl_pool_tag_alloc), keeps the tags of the block end to end, and the rest
   borders on no free tag because the tag it was cut from did not. *)
LEMMA CarveGood ==
  ASSUME NEW T, NEW B, Good(T, B),
         NEW t \in DOMAIN T, ~T[t].used, NEW n \in 1 .. T[t].size
  PROVE  Good(Carve(T, t, n), B)
<1> DEFINE C == Carve(T, t, n)
           rest == T[t].size - n
<1> USE ArenaAssumption DEF Good
<1>0. /\ t \in Nat /\ n \in Nat /\ n > 0 /\ T[t].size \in Nat /\ n <= T[t].size
      /\ T[t].blk \in Nat
  BY DEF WellTyped
<1>1. CASE rest > Thresh
  <2> DEFINE r == t + n
  <2>1. /\ r \in Nat /\ r > t /\ rest \in Nat /\ rest > 0
        /\ r + rest = End(T, t)
    BY <1>0, <1>1 DEF End
  <2>2. r \notin DOMAIN T
    BY <1>0, <1>1, <2>1 DEF Disjoint, End, WellTyped
  <2>3. /\ DOMAIN C = DOMAIN T \cup {r}
        /\ C[t] = [T[t] EXCEPT !.size = n, !.used = TRUE]
        /\ C[r] = [T[t] EXCEPT !.size = rest, !.used = FALSE]
        /\ \A u \in DOMAIN T \ {t} : C[u] = T[u]
    BY <1>0, <1>1, <2>1, <2>2 DEF Carve
  <2>4. /\ C[t].size = n /\ C[t].used = TRUE /\ C[t].blk = T[t].blk
        /\ C[r].size = rest /\ C[r].used = FALSE /\ C[r].blk = T[t].blk
    BY <2>3 DEF WellTyped
  <2>5. /\ End(C, t) = r /\ End(C, r) = End(T, t)
        /\ \A u \in DOMAIN T \ {t} : End(C, u) = End(T, u)
    BY <2>1, <2>3, <2>4 DEF End
  <2>6. WellTyped(C, B)
    <3> DEFINE R == [size : Nat \ {0}, used : BOOLEAN, blk : Nat]
    <3>a. T[t] \in R /\ \A u \in DOMAIN T \ {t} : T[u] \in R
      BY DEF WellTyped
    <3>b. [T[t] EXCEPT !.size = n, !.used = TRUE] \in R
      <4>1. n \in Nat \ {0}
        BY <1>0
      <4> HIDE DEF C, rest
      <4> QED BY <3>a, <4>1, ResizeType
    <3>c. [T[t] EXCEPT !.size = rest, !.used = FALSE] \in R
      <4>1. rest \in Nat \ {0}
        BY <2>1
      <4> HIDE DEF C, rest
      <4> QED BY <3>a, <4>1, ResizeType
    <3>1. \A u \in DOMAIN C : C[u] \in [size : Nat \ {0}, used : BOOLEAN, blk : Nat]
      BY <3>a, <3>b, <3>c, <2>3
    <3>2. C \in [DOMAIN C -> [size : Nat \ {0}, used : BOOLEAN, blk : Nat]]
      BY <3>1, <1>1 DEF Carve
    <3> QED BY <3>2, <2>1, <2>3 DEF WellTyped
  <2> HIDE DEF C
  <2>7. Disjoint(C)
    <3> SUFFICES ASSUME NEW u \in DOMAIN C, NEW v \in DOMAIN C, u < v
                 PROVE  End(C, u) <= v
      BY DEF Disjoint
    <3>1. \A w \in DOMAIN T : w \in Nat /\ End(T, w) \in Nat /\ End(T, w) > w
      BY DEF WellTyped, End
    <3>2. \A w \in DOMAIN T \ {t} : End(T, w) <= t \/ End(T, t) <= w
      BY <3>1, <1>0 DEF Disjoint
    <3>3. CASE u \in {t, r} /\ v \in {t, r}
      BY <3>3, <1>0, <2>1, <2>5
    <3>4. CASE u \in {t, r} /\ v \in DOMAIN T \ {t}
      BY <3>1, <3>2, <3>4, <2>1, <2>5, <1>0
    <3>5. CASE u \in DOMAIN T \ {t} /\ v \in {t, r}
      BY <3>1, <3>2, <3>5, <2>1, <2>5, <1>0
    <3>6. CASE u \in DOMAIN T \ {t} /\ v \in DOMAIN T \ {t}
      BY <3>6, <2>5 DEF Disjoint
    <3> QED BY <3>3, <3>4, <3>5, <3>6, <2>3
  <2>8. Within(C, B)
    <3>1. T[t].blk \in DOMAIN B /\ T[t].blk <= t /\ End(T, t) <= B[T[t].blk] /\ B[T[t].blk] \in Nat
      BY DEF Within, WellTyped
    <3>2. End(T, t) \in Nat
      BY <1>0 DEF End
    <3>3. r <= End(T, t)
      BY <2>1, <3>2
    <3> SUFFICES ASSUME NEW u \in DOMAIN C
                 PROVE  C[u].blk \in DOMAIN B /\ C[u].blk <= u /\ End(C, u) <= B[C[u].blk]
      BY DEF Within
    <3>4. CASE u = t
      BY <3>1, <3>2, <3>3, <3>4, <2>1, <2>4, <2>5
    <3>5. CASE u = r
      BY <3>1, <3>5, <2>1, <2>4, <2>5, <1>0
    <3>6. CASE u \in DOMAIN T \ {t}
      BY <3>6, <2>3, <2>5 DEF Within
    <3> QED BY <3>4, <3>5, <3>6, <2>3
  <2>9. Followed(C, B)
    <3>1. \A v \in DOMAIN T : v \in DOMAIN C /\ C[v].blk = T[v].blk
      BY <2>3, <2>4
    <3> SUFFICES ASSUME NEW u \in DOMAIN C, End(C, u) # B[C[u].blk]
                 PROVE  End(C, u) \in DOMAIN C /\ C[End(C, u)].blk = C[u].blk
      BY DEF Followed
    <3>2. CASE u = t
      BY <3>2, <2>3, <2>4, <2>5
    <3>3. CASE u = r
      BY <3>1, <3>3, <2>4, <2>5 DEF Followed
    <3>4. CASE u \in DOMAIN T \ {t}
      BY <3>1, <3>4, <2>3, <2>5 DEF Followed
    <3> QED BY <3>2, <3>3, <3>4, <2>3
  <2>10. Merged(C)
    <3> SUFFICES ASSUME NEW u \in DOMAIN C, NEW v \in DOMAIN C, ~C[u].used, ~C[v].used
                 PROVE  End(C, u) # v
      BY DEF Merged
    <3>1. u # t /\ v # t
      BY <2>4
    <3>2. CASE u = r /\ v = r
      BY <3>2, <2>1, <2>5 DEF End
    <3>3. CASE u = r /\ v # r
      BY <3>1, <3>3, <2>3, <2>5 DEF Merged
    <3>4. CASE u # r /\ v = r
      \* the tag that ends at r is t alone, because the others keep clear of t
      <4>1. u \in DOMAIN T \ {t} /\ u \in Nat /\ T[u].size \in Nat /\ T[u].size > 0
        BY <3>1, <3>4, <2>3 DEF WellTyped
      <4>2. u < t => End(T, u) <= t
        BY <4>1 DEF Disjoint
      <4>3. t < u => End(T, t) <= u
        BY <4>1 DEF Disjoint
      <4> QED BY <4>1, <4>2, <4>3, <3>4, <2>1, <2>5, <1>0 DEF End
    <3>5. CASE u # r /\ v # r
      BY <3>1, <3>5, <2>3, <2>5 DEF Merged
    <3> QED BY <3>2, <3>3, <3>4, <3>5
  <2>11. Headed(C, B)
    <3>1. \A v \in DOMAIN T : v \in DOMAIN C /\ C[v].blk = T[v].blk
      BY <2>3, <2>4
    <3> QED BY <3>1 DEF Headed
  <2> QED BY <2>6, <2>7, <2>8, <2>9, <2>10, <2>11 DEF C
<1>2. CASE ~(rest > Thresh)
  <2>1. C = [T EXCEPT ![t].used = TRUE]
    BY <1>2 DEF Carve
  <2>2. /\ DOMAIN C = DOMAIN T
        /\ \A u \in DOMAIN T : C[u].size = T[u].size /\ C[u].blk = T[u].blk
        /\ \A u \in DOMAIN T : ~C[u].used => ~T[u].used
    BY <2>1 DEF WellTyped
  <2>3. WellTyped(C, B)
    BY <2>1 DEF WellTyped
  <2> HIDE DEF C
  <2>4. Disjoint(C) /\ Merged(C)
    BY <2>2 DEF Disjoint, Merged, End
  <2>5. Within(C, B) /\ Followed(C, B) /\ Headed(C, B)
    BY <2>2 DEF Within, Followed, Headed, End
  <2> QED BY <2>3, <2>4, <2>5 DEF C
<1> QED BY <1>1, <1>2

-----------------------------------------------------------------------------
(* Facts about good tags that the lemmas below use. *)
LEMMA GoodFacts ==
  ASSUME NEW T, NEW B, Good(T, B)
  PROVE  /\ \A t \in DOMAIN T : /\ t \in Nat /\ T[t].size \in Nat /\ T[t].used \in BOOLEAN
                               /\ End(T, t) \in Nat /\ End(T, t) > t
                               /\ T[t].blk \in DOMAIN B
         /\ \A b \in DOMAIN B : b \in Nat /\ B[b] \in Nat /\ b < B[b]
<1>1. \A t \in DOMAIN T : /\ t \in Nat /\ T[t].size \in Nat /\ T[t].size > 0 /\ T[t].used \in BOOLEAN
                         /\ T[t].blk \in DOMAIN B
  BY DEF Good, WellTyped, Within
<1>2. \A t \in DOMAIN T : End(T, t) \in Nat /\ End(T, t) > t
  BY <1>1 DEF End
<1>3. \A b \in DOMAIN B : b \in Nat /\ B[b] \in Nat
  BY DEF Good, WellTyped
<1>4. \A b \in DOMAIN B : b \in DOMAIN T /\ End(T, b) <= B[b]
  BY DEF Good, Headed, Within
<1> QED BY <1>1, <1>2, <1>3, <1>4

(* Tags in different blocks are a gap apart. *)
LEMMA BlocksKeepTagsApart ==
  ASSUME NEW T, NEW B, Good(T, B), NEW t \in DOMAIN T, NEW u \in DOMAIN T,
         T[t].blk < T[u].blk
  PROVE  End(T, t) < u
<1>1. End(T, t) <= B[T[t].blk] /\ B[T[t].blk] + Gap <= T[u].blk /\ T[u].blk <= u
  BY GoodFacts DEF Good, Within, Apart
<1> QED BY <1>1, GoodFacts, ArenaAssumption

(* A block of one free tag, clear of the other blocks, may be added
   (tl_pool_add_blk). *)
LEMMA AddGood ==
  ASSUME IInv, NEW b \in Nat, NEW end \in Nat, b < end, Clear(b, end)
  PROVE  LET T == WithTag(tags, b, end)
         IN  Good(T, WithBlk(b, end)) /\ b \in DOMAIN T /\ ~T[b].used /\ T[b].size = end - b
<1> DEFINE T == WithTag(tags, b, end)
           B == WithBlk(b, end)
<1> USE ArenaAssumption
<1>g. Good(tags, blks)
  BY DEF IInv
<1>f. /\ \A t \in Tag : /\ t \in Nat /\ EndOf(t) \in Nat /\ EndOf(t) > t /\ tags[t].blk \in Blk
                       /\ tags[t].blk <= t /\ EndOf(t) <= blks[tags[t].blk]
      /\ \A c \in Blk : c \in Nat /\ blks[c] \in Nat /\ c < blks[c]
  BY <1>g, GoodFacts DEF Good, Within, Tag, Blk, End, EndOf
<1>1. b \notin Blk /\ \A c \in Blk : end < c \/ blks[c] < b
  BY <1>f DEF Clear
<1>2. \A t \in Tag : end < t \/ EndOf(t) < b
  BY <1>1, <1>f
<1>3. b \notin Tag /\ end \notin Tag
  BY <1>2, <1>f
<1>4. /\ DOMAIN T = Tag \cup {b}
      /\ T[b] = [size |-> end - b, used |-> FALSE, blk |-> b]
      /\ \A t \in Tag : T[t] = tags[t] /\ t # b
      /\ DOMAIN B = Blk \cup {b}
      /\ B[b] = end
      /\ \A c \in Blk : B[c] = blks[c] /\ c # b
  BY <1>1, <1>3 DEF WithTag, WithBlk, Tag
<1>5. /\ End(T, b) = end
      /\ \A t \in Tag : End(T, t) = EndOf(t)
      /\ T[b].blk = b /\ T[b].size = end - b /\ ~T[b].used
  BY <1>4 DEF End, EndOf
<1>6. WellTyped(T, B)
  <2> DEFINE R == [size : Nat \ {0}, used : BOOLEAN, blk : Nat]
  <2>1. \A t \in Tag : tags[t] \in R
    BY <1>g DEF Good, WellTyped, Tag
  <2>2. T[b] \in R
    BY <1>4
  <2>3. T \in [DOMAIN T -> R]
    <3>1. \A t \in DOMAIN T : T[t] \in R
      BY <2>1, <2>2, <1>4
    <3> HIDE DEF R
    <3> QED BY <3>1, <1>4 DEF WithTag, Tag
  <2>4. B \in [DOMAIN B -> Nat]
    <3>1. \A c \in DOMAIN B : B[c] \in Nat
      BY <1>4, <1>f
    <3> QED BY <3>1, <1>4 DEF WithBlk, Blk
  <2> QED BY <2>3, <2>4, <1>4, <1>f DEF WellTyped
<1> HIDE DEF T, B
<1>7. Disjoint(T)
  <2>1. \A t, u \in Tag : t < u => EndOf(t) <= u
    BY <1>g DEF Good, Disjoint, Tag, EndOf, End
  <2> QED BY <2>1, <1>2, <1>4, <1>5, <1>f DEF Disjoint
<1>8. Within(T, B)
  BY <1>4, <1>5, <1>f DEF Within
<1>9. Followed(T, B)
  <2>1. \A t \in Tag : EndOf(t) # blks[tags[t].blk]
                         => EndOf(t) \in Tag /\ tags[EndOf(t)].blk = tags[t].blk
    BY <1>g DEF Good, Followed, Tag, EndOf, End
  <2> QED BY <2>1, <1>4, <1>5, <1>f DEF Followed
<1>10. Merged(T)
  <2>1. \A t, u \in Tag : ~tags[t].used /\ ~tags[u].used => EndOf(t) # u
    BY <1>g DEF Good, Merged, Tag, EndOf, End
  <2>2. \A t \in Tag : EndOf(t) # b /\ end # t
    BY <1>2, <1>f
  <2> QED BY <2>1, <2>2, <1>4, <1>5 DEF Merged
<1>11. Headed(T, B)
  BY <1>g, <1>4, <1>5 DEF Good, Headed, Tag, Blk
<1>12. Apart(B)
  <2>1. \A c, d \in Blk : c < d => blks[c] + Gap <= d
    BY <1>g DEF Good, Apart, Blk
  <2>2. \A c \in Blk : end + Gap <= c \/ blks[c] + Gap <= b
    BY DEF Clear
  <2> QED BY <2>1, <2>2, <1>4, <1>f DEF Apart
<1>13. Good(T, B)
  BY <1>6, <1>7, <1>8, <1>9, <1>10, <1>11, <1>12 DEF Good
<1> QED BY <1>13, <1>4, <1>5 DEF T, B

(* A block that is one tag may be dropped (tl_pool_rm_blk). *)
LEMMA DropGood ==
  ASSUME IInv, NEW b \in Blk, Drop(b)
  PROVE  IInv'
<1>g. Good(tags, blks)
  BY DEF IInv
<1>f. \A t \in Tag : /\ t \in Nat /\ EndOf(t) \in Nat /\ EndOf(t) > t /\ tags[t].blk \in Blk
                     /\ tags[t].blk <= t /\ EndOf(t) <= blks[tags[t].blk]
  BY <1>g, GoodFacts DEF Good, Within, Tag, Blk, End, EndOf
<1>1. /\ tags' = [u \in Tag \ {b} |-> tags[u]]
      /\ blks' = [c \in Blk \ {b} |-> blks[c]]
      /\ b \in Tag /\ EndOf(b) = blks[b] /\ tags[b].blk = b
  BY <1>g DEF Drop, Good, Headed, Blk, Tag
<1>2. \A t \in Tag \ {b} : tags[t].blk # b
  <2>1. \A t \in Tag \ {b} : b < t => EndOf(b) <= t
    BY <1>g, <1>1 DEF Good, Disjoint, Tag, EndOf, End
  <2> QED BY <2>1, <1>1, <1>f
<1>3. /\ DOMAIN tags' = Tag \ {b} /\ DOMAIN blks' = Blk \ {b}
      /\ \A t \in Tag \ {b} : tags'[t] = tags[t] /\ End(tags', t) = EndOf(t)
      /\ \A c \in Blk \ {b} : blks'[c] = blks[c]
  BY <1>1 DEF End, EndOf
<1>4. WellTyped(tags', blks')
  BY <1>g, <1>1 DEF Good, WellTyped, Tag, Blk
<1>5. Disjoint(tags')
  BY <1>g, <1>3 DEF Good, Disjoint, Tag, EndOf, End
<1>6. Within(tags', blks')
  BY <1>2, <1>3, <1>f DEF Within
<1>7. Followed(tags', blks')
  <2>1. \A t \in Tag : EndOf(t) # blks[tags[t].blk]
                         => EndOf(t) \in Tag /\ tags[EndOf(t)].blk = tags[t].blk
    BY <1>g DEF Good, Followed, Tag, EndOf, End
  <2> SUFFICES ASSUME NEW t \in Tag \ {b}, EndOf(t) # blks'[tags'[t].blk]
               PROVE  EndOf(t) \in Tag \ {b} /\ tags'[EndOf(t)].blk = tags'[t].blk
    BY <1>3 DEF Followed
  <2>2. EndOf(t) # blks[tags[t].blk]
    BY <1>2, <1>3, <1>f
  <2>3. EndOf(t) \in Tag /\ tags[EndOf(t)].blk = tags[t].blk
    BY <2>1, <2>2
  <2>4. EndOf(t) # b
    BY <2>3, <1>1, <1>2
  <2> QED BY <2>3, <2>4, <1>3
<1>8. Merged(tags')
  <2>1. \A t, u \in Tag : ~tags[t].used /\ ~tags[u].used => EndOf(t) # u
    BY <1>g DEF Good, Merged, Tag, EndOf, End
  <2> QED BY <2>1, <1>3 DEF Merged
<1>9. Headed(tags', blks') /\ Apart(blks')
  BY <1>g, <1>3 DEF Good, Headed, Apart, Tag, Blk
<1> QED BY <1>4, <1>5, <1>6, <1>7, <1>8, <1>9 DEF IInv, Good

-----------------------------------------------------------------------------
(* Giving a tag back (tl_pool_tag_free): whichever of its neighbours are free
   become one tag with it, and the tag they become borders on used tags only. *)
LEMMA GiveBackGood ==
  ASSUME IInv, NEW t \in Tag, GiveBack(t)
  PROVE  IInv'
<1>g. Good(tags, blks)
  BY DEF IInv
<1>f. \A v \in Tag : /\ v \in Nat /\ EndOf(v) \in Nat /\ EndOf(v) > v /\ tags[v].blk \in Blk
                     /\ tags[v].blk <= v /\ EndOf(v) <= blks[tags[v].blk] /\ tags[v].used \in BOOLEAN
                     /\ tags[v].blk \in Nat
  BY <1>g, GoodFacts DEF Good, Within, Tag, Blk, End, EndOf
<1>d. \A v, w \in Tag : v < w => EndOf(v) <= w
  BY <1>g DEF Good, Disjoint, Tag, EndOf, End
<1>m. \A v, w \in Tag : ~tags[v].used /\ ~tags[w].used => EndOf(v) # w
  BY <1>g DEF Good, Merged, Tag, EndOf, End
<1>n. \A v \in Tag : EndOf(v) # blks[tags[v].blk]
                     => EndOf(v) \in Tag /\ tags[EndOf(v)].blk = tags[v].blk
  BY <1>g DEF Good, Followed, Tag, EndOf, End
<1>h. \A b \in Blk : b \in Tag /\ tags[b].blk = b
  BY <1>g DEF Good, Headed, Tag, Blk
\* tags that border on each other are in one block
<1>b. \A v, w \in Tag : EndOf(v) = w => tags[v].blk = tags[w].blk
  <2> SUFFICES ASSUME NEW v \in Tag, NEW w \in Tag, EndOf(v) = w, tags[v].blk # tags[w].blk
               PROVE  FALSE
    OBVIOUS
  <2>1. CASE tags[v].blk < tags[w].blk
    BY <2>1, <1>g, <1>f, BlocksKeepTagsApart DEF Tag, EndOf, End
  <2>2. CASE tags[w].blk < tags[v].blk
    <3>1. EndOf(w) < v
      BY <2>2, <1>g, BlocksKeepTagsApart DEF Tag, EndOf, End
    <3> QED BY <3>1, <1>f
  <2> QED BY <2>1, <2>2, <1>f
<1>u. tags[t].used /\ blks' = blks
  BY DEF GiveBack
<1> PICK s \in (IF Lower(t) = {} THEN {t} ELSE Lower(t)),
         u \in (IF Upper(t) = {} THEN {t} ELSE Upper(t)) : Merge(t, s, EndOf(u))
  BY DEF GiveBack
<1> DEFINE e == EndOf(u)
           Gone == Lower(t) \cup Upper(t) \cup {t}
           Kept == Tag \ Gone
\* s is t or the one tag below, u is t or the one tag above
<1>1. /\ s \in Tag /\ s <= t /\ tags[s].blk = tags[t].blk
      /\ s # t => ~tags[s].used /\ EndOf(s) = t
      /\ \A v \in Lower(t) : v = s
  <2>1. \A v \in Lower(t) : v \in Tag /\ ~tags[v].used /\ EndOf(v) = t
    BY DEF Lower, IsFree
  <2>2. \A v, w \in Lower(t) : v = w
    BY <2>1, <1>f, <1>d
  <2>3. CASE Lower(t) = {}
    BY <2>3, <1>f
  <2>4. CASE Lower(t) # {}
    BY <2>1, <2>2, <2>4, <1>f, <1>b
  <2> QED BY <2>3, <2>4
<1>2. /\ u \in Tag /\ t <= u /\ EndOf(t) <= e /\ tags[u].blk = tags[t].blk
      /\ u # t => ~tags[u].used /\ EndOf(t) = u
      /\ \A v \in Upper(t) : v = u
  <2>1. \A v \in Upper(t) : v \in Tag /\ ~tags[v].used /\ EndOf(t) = v
    BY DEF Upper, IsFree
  <2>3. CASE Upper(t) = {}
    BY <2>3, <1>f
  <2>4. CASE Upper(t) # {}
    BY <2>1, <2>4, <1>f, <1>b
  <2> QED BY <2>3, <2>4
<1>3. Gone = {s, t, u}
  BY <1>1, <1>2 DEF Lower, Upper, IsFree
<1>4. /\ s \in Nat /\ e \in Nat /\ s < e
  BY <1>1, <1>2, <1>f
<1>5. /\ DOMAIN tags' = Kept \cup {s} /\ s \notin Kept
      /\ tags'[s] = [size |-> e - s, used |-> FALSE, blk |-> tags[t].blk]
      /\ \A v \in Kept : tags'[v] = tags[v]
  <2>1. tags' = [v \in Kept \cup {s} |->
                  IF v = s THEN [size |-> e - s, used |-> FALSE, blk |-> tags[t].blk]
                  ELSE tags[v]]
    BY DEF Merge
  <2> QED BY <2>1, <1>3
<1>6. /\ End(tags', s) = e /\ tags'[s].blk = tags[t].blk /\ ~tags'[s].used
      /\ \A v \in Kept : End(tags', v) = EndOf(v)
  BY <1>4, <1>5 DEF End, EndOf
<1>7. WellTyped(tags', blks')
  <2> DEFINE R == [size : Nat \ {0}, used : BOOLEAN, blk : Nat]
  <2>1. \A v \in Kept : tags[v] \in R
    BY <1>g DEF Good, WellTyped, Tag
  <2>2. tags'[s] \in R
    BY <1>4, <1>5, <1>f
  <2>3. tags' \in [DOMAIN tags' -> R]
    <3>1. \A v \in DOMAIN tags' : tags'[v] \in R
      BY <2>1, <2>2, <1>5
    <3> HIDE DEF R
    <3> QED BY <3>1 DEF Merge
  <2>4. DOMAIN tags' \subseteq Nat
    BY <1>4, <1>5, <1>f
  <2> QED BY <2>3, <2>4, <1>g, <1>u DEF Good, WellTyped
\* what is kept ends at or before s, or begins at or after e
<1>8. \A v \in Kept : EndOf(v) <= s \/ e <= v
  BY <1>1, <1>2, <1>3, <1>d, <1>f
<1> HIDE DEF Gone, e
<1>9. Disjoint(tags')
  <2>1. \A v \in Kept : v \in Tag
    OBVIOUS
  <2> HIDE DEF Kept
  <2> SUFFICES ASSUME NEW v \in Kept \cup {s}, NEW w \in Kept \cup {s}, v < w
               PROVE  End(tags', v) <= w
    BY <1>5 DEF Disjoint
  <2>2. CASE v \in Kept /\ w \in Kept
    BY <2>1, <2>2, <1>6, <1>d
  <2>3. CASE v = s /\ w \in Kept
    BY <2>1, <2>3, <1>4, <1>6, <1>8, <1>f
  <2>4. CASE v \in Kept /\ w = s
    BY <2>1, <2>4, <1>4, <1>6, <1>8, <1>f
  <2>5. CASE v = s /\ w = s
    BY <2>5, <1>4
  <2> QED BY <2>2, <2>3, <2>4, <2>5
<1>10. Within(tags', blks')
  <2>1. tags[t].blk \in Blk /\ tags[t].blk <= s /\ e <= blks[tags[t].blk]
    BY <1>1, <1>2, <1>f DEF e
  <2> QED BY <2>1, <1>5, <1>6, <1>f, <1>u DEF Within, Blk
<1>11. Followed(tags', blks')
  <2>1. ASSUME NEW v \in Tag, EndOf(v) \in Tag, v \in Kept \/ v = u
        PROVE  EndOf(v) \in Kept \cup {s}
    \* nothing that is kept ends at t or at u, unless that is s
    <3> SUFFICES ASSUME EndOf(v) \in {t, u}, EndOf(v) # s PROVE FALSE
      BY <2>1, <1>3 DEF Gone
    <3>1. CASE v = u
      BY <3>1, <1>2, <1>f
    <3>2. CASE v \in Kept /\ EndOf(v) = t /\ s # t
      BY <3>2, <1>1, <1>3, <1>d, <1>f DEF Gone
    <3>3. CASE v \in Kept /\ EndOf(v) = u /\ u # t
      BY <3>3, <1>2, <1>3, <1>d, <1>f DEF Gone
    <3> QED BY <3>1, <3>2, <3>3, <2>1
  <2>2. ASSUME NEW v \in Tag, v \in Kept \/ v = u, EndOf(v) # blks[tags[v].blk]
        PROVE  EndOf(v) \in DOMAIN tags' /\ tags'[EndOf(v)].blk = tags[v].blk
    <3>1. EndOf(v) \in Kept \cup {s} /\ tags[EndOf(v)].blk = tags[v].blk
      BY <2>1, <2>2, <1>n
    <3> QED BY <3>1, <1>1, <1>5, <1>6
  <2>3. \A v \in Kept : End(tags', v) # blks'[tags'[v].blk]
          => End(tags', v) \in DOMAIN tags' /\ tags'[End(tags', v)].blk = tags'[v].blk
    BY <2>2, <1>5, <1>6, <1>u
  <2>4. End(tags', s) # blks'[tags'[s].blk]
          => End(tags', s) \in DOMAIN tags' /\ tags'[End(tags', s)].blk = tags'[s].blk
    BY <2>2, <1>2, <1>6, <1>u DEF e
  <2> QED BY <2>3, <2>4, <1>5 DEF Followed
<1>12. Merged(tags')
  <2>1. \A v \in Kept : ~tags[v].used => EndOf(v) # s /\ e # v
    <3> SUFFICES ASSUME NEW v \in Kept, ~tags[v].used PROVE EndOf(v) # s /\ e # v
      OBVIOUS
    <3>1. v \in Tag /\ v \notin Lower(t) /\ v \notin Upper(t)
      BY DEF Gone
    <3>2. EndOf(v) # t /\ EndOf(t) # v
      BY <3>1 DEF Lower, Upper, IsFree
    <3>3. EndOf(v) # s
      BY <3>1, <3>2, <1>1, <1>m
    <3>4. e # v
      BY <3>1, <3>2, <1>2, <1>m DEF e
    <3> QED BY <3>3, <3>4
  <2>2. \A v, w \in Kept : ~tags[v].used /\ ~tags[w].used => EndOf(v) # w
    BY <1>m
  <2> HIDE DEF Kept
  <2> SUFFICES ASSUME NEW v \in Kept \cup {s}, NEW w \in Kept \cup {s},
                      ~tags'[v].used, ~tags'[w].used
               PROVE  End(tags', v) # w
    BY <1>5 DEF Merged
  <2>3. CASE v \in Kept /\ w \in Kept
    BY <2>2, <2>3, <1>5, <1>6
  <2>4. CASE v = s /\ w \in Kept
    BY <2>1, <2>4, <1>5, <1>6
  <2>5. CASE v \in Kept /\ w = s
    BY <2>1, <2>5, <1>5, <1>6
  <2>6. CASE v = s /\ w = s
    BY <2>6, <1>4, <1>6
  <2> QED BY <2>3, <2>4, <2>5, <2>6
<1>13. Headed(tags', blks')
  \* no block begins inside the merged tag
  <2>1. \A b \in Blk : b \in Kept \cup {s}
    <3> SUFFICES ASSUME NEW b \in Blk, b \in {t, u}, b # s PROVE FALSE
      BY <1>3, <1>h DEF Gone
    <3>1. tags[t].blk = b
      BY <1>h, <1>2
    <3>2. b <= s
      BY <3>1, <1>1, <1>f
    <3> QED BY <3>2, <1>1, <1>2, <1>f
  <2>2. \A b \in Blk : tags'[b].blk = b
    BY <2>1, <1>1, <1>5, <1>6, <1>h
  <2> QED BY <2>1, <2>2, <1>5, <1>u DEF Headed, Blk
<1>14. Apart(blks')
  BY <1>g, <1>u DEF Good
<1> QED BY <1>7, <1>9, <1>10, <1>11, <1>12, <1>13, <1>14 DEF IInv, Good

-----------------------------------------------------------------------------
(* Every operation keeps the arena good. *)
LEMMA GoodStep == IInv /\ [Next]_arenaVars => IInv'
<1> SUFFICES ASSUME IInv, [Next]_arenaVars PROVE IInv'
  OBVIOUS
<1> USE ArenaAssumption
<1>1. ASSUME NEW end \in Addr, Create(end) PROVE IInv'
  <2>1. Base \in Nat /\ end \in Nat /\ Base < end /\ Clear(Base, end)
    BY <1>1 DEF Create, Clear
  <2> QED BY <1>1, <2>1, AddGood DEF Create, IInv
<1>2. ASSUME NEW t \in Tag, NEW n \in 1 .. tags[t].size, Take(t, n) PROVE IInv'
  BY <1>2, CarveGood DEF Take, IsFree, IInv, Tag
<1>3. ASSUME NEW b \in Addr, NEW end \in Addr, Grow(b, end) PROVE IInv'
  <2> DEFINE T == WithTag(tags, b, end)
  <2> PICK n \in 1 .. end - b : tags' = Carve(T, b, n)
    BY <1>3 DEF Grow
  <2>1. b \in Nat /\ end \in Nat /\ b < end /\ Clear(b, end)
    BY <1>3 DEF Grow
  <2>2. Good(T, WithBlk(b, end)) /\ b \in DOMAIN T /\ ~T[b].used /\ T[b].size = end - b
    BY <2>1, AddGood
  <2> HIDE DEF T
  <2>3. Good(Carve(T, b, n), WithBlk(b, end))
    BY <2>2, CarveGood
  <2> QED BY <1>3, <2>3 DEF Grow, IInv
<1>4. ASSUME NEW t \in Tag, GiveBack(t) PROVE IInv'
  BY <1>4, GiveBackGood
<1>5. ASSUME NEW b \in Blk, Drop(b) PROVE IInv'
  BY <1>5, DropGood
<1>6. CASE Destroy
  BY <1>6, EmptyGood DEF Destroy, IInv
<1>7. CASE UNCHANGED arenaVars
  BY <1>7 DEF arenaVars, IInv
<1> QED BY <1>1, <1>2, <1>3, <1>4, <1>5, <1>6, <1>7 DEF Next

(* The arena is always good: its tags are well typed, disjoint, tile their
   blocks, and no two free ones border on each other. *)
THEOREM Inductive == Spec => []IInv
<1>1. Init => IInv
  BY EmptyGood DEF Init, IInv
<1> QED BY <1>1, GoodStep, PTL DEF Spec

(* No tag is ever empty and every tag names a block. *)
THEOREM TypeCorrect == Spec => []TypeOK
  BY Inductive, GoodImplies, PTL

(* No two regions overlap, wherever the system puts the blocks and in whatever
   order tags are split and merged. *)
THEOREM Disjointness == Spec => []TagsDisjoint
  BY Inductive, GoodImplies, PTL

(* Tags tile their blocks, so that no word is lost between them. *)
THEOREM Tiling == Spec => []TagsTile
  BY Inductive, GoodImplies, PTL

(* Merging with the two neighbours once is enough: no two free tags ever
   border on each other. *)
THEOREM Merging == Spec => []FreeMerged
  BY Inductive, GoodImplies, PTL
=============================================================================
