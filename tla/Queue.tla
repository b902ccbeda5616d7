-------------------------------- MODULE Queue --------------------------------
(***************************************************************************)
(* tl_queue.c: a FIFO in chunks of CHUNK elements.  The chunks in use form *)
(* a list from q->h to q->t; a chunk whose elements are all popped goes to *)
(* the list of spares at q->f, from which the next chunk is taken before   *)
(* the system is asked for one.  tl_queue_top gives the caller an address  *)
(* inside a chunk.                                                         *)
(***************************************************************************)
EXTENDS Integers, Sequences, FiniteSets

CONSTANTS
  Val,      \* the elements, eleSize bytes each
  Chunks,   \* the addresses calloc may give to a tl_queue_list_t
  CHUNK,    \* elements of a chunk, 512 in the code
  NULL,
  Junk      \* what memory nobody has written holds

ASSUME QueueAssumption ==
  /\ CHUNK \in Nat \ {0} /\ IsFiniteSet(Chunks)
  /\ NULL \notin Chunks /\ Junk \notin Chunks \cup {NULL} \cup Val

VARIABLES
  h, t, f,  \* q->h, q->t, q->f
  size,     \* q->size
  list,     \* chunk -> its tl_queue_list_t: [s, e, next, container]
  heap,     \* external: the chunks that are allocated
  pc,       \* "none", "open", or the list that tl_queue_destroy is freeing
  l,        \* the chunk that freeList frees next
  held,     \* the caller: the place tl_queue_top gave it and the element there
  peak,     \* history: the most elements the queue has held
  abort     \* a tl_assert has failed

vars == <<h, t, f, size, list, heap, pc, l, held, peak, abort>>

Place == 0 .. CHUNK - 1
NoList == [s |-> 0, e |-> 0, next |-> Junk, container |-> [i \in Place |-> Junk]]
Nowhere == [chunk |-> NULL, at |-> 0, ele |-> Junk]

Init ==
  /\ h = NULL /\ t = NULL /\ f = NULL /\ size = 0
  /\ list = [c \in Chunks |-> NoList] /\ heap = {}
  /\ pc = "none" /\ l = NULL
  /\ held = Nowhere /\ peak = 0 /\ abort = FALSE

QueueInit ==
  /\ pc = "none" /\ pc' = "open"
  /\ UNCHANGED <<h, t, f, size, list, heap, l, held, peak, abort>>

-----------------------------------------------------------------------------
(* newList: the first spare is taken again, and only without one is the system
   asked. *)

SpareNever == FALSE                     \* mutant: spares are never taken again
HasSpare == f # NULL

Reset(c) == [list[c] EXCEPT !.s = 0, !.e = 0, !.next = NULL]
\* mutant: the old link is kept.
RenewLinked(c) == IF HasSpare THEN [list[c] EXCEPT !.s = 0, !.e = 0]
                  ELSE [NoList EXCEPT !.next = NULL]
Renew(c) == IF HasSpare THEN Reset(c) ELSE [NoList EXCEPT !.next = NULL]

NewList(c) ==
  IF HasSpare THEN c = f /\ f' = list[f].next /\ UNCHANGED heap
              ELSE c \in Chunks \ heap /\ heap' = heap \cup {c} /\ UNCHANGED f

-----------------------------------------------------------------------------
(* tl_queue_push. *)

Full(c) == list[c].e = CHUNK

NewTailStale(c) == IF t = NULL THEN c ELSE t        \* mutant: q->t is not moved on
NewTail(c) == c

\* v goes behind the elements of chunk c of the chunks L; c is the tail now, and
\* the head if there was none.
Store(L, c, v) ==
  /\ list' = [L EXCEPT ![c].container[L[c].e] = v, ![c].e = @ + 1]
  /\ t' = NewTail(c)
  /\ h' = IF h = NULL THEN c ELSE h
  /\ size' = size + 1
  /\ peak' = IF size < peak THEN peak ELSE size + 1
  /\ UNCHANGED <<pc, l, held, abort>>

PushRoom(v) ==
  /\ pc = "open" /\ t # NULL /\ ~Full(t)
  /\ Store(list, t, v)
  /\ UNCHANGED <<f, heap>>

PushFirst(v, c) ==
  /\ pc = "open" /\ t = NULL
  /\ NewList(c)
  /\ Store([list EXCEPT ![c] = Renew(c)], c, v)

PushNext(v, c) ==
  /\ pc = "open" /\ t # NULL /\ Full(t)
  /\ NewList(c)
  /\ Store([list EXCEPT ![c] = Renew(c), ![t].next = c], c, v)

\* calloc or malloc fails.  The tail's link is written even so.
PushFails ==
  /\ pc = "open" /\ ~HasSpare
  /\ t # NULL => Full(t)
  /\ list' = IF t = NULL THEN list ELSE [list EXCEPT ![t].next = NULL]
  /\ UNCHANGED <<h, t, f, size, heap, pc, l, held, peak, abort>>

-----------------------------------------------------------------------------
(* tl_queue_pop and tl_queue_top. *)

Popped == [list EXCEPT ![h].s = @ + 1]
Drained == Popped[h].e = Popped[h].s

Retire(L) == [L EXCEPT ![h].next = f]

KeepTail == t                           \* mutant: the tail of an empty queue is left
TailAfterRetire == IF list[h].next = NULL THEN NULL ELSE t

PopAsserts == list[h].next = NULL => size = 1 /\ t = h

PopKeeps ==
  /\ pc = "open" /\ size # 0 /\ ~Drained
  /\ list' = Popped
  /\ size' = size - 1
  /\ held' = Nowhere
  /\ UNCHANGED <<h, t, f, heap, pc, l, peak, abort>>

\* The chunk that is drained becomes a spare.
PopRetires ==
  /\ pc = "open" /\ size # 0 /\ Drained
  /\ h' = list[h].next
  /\ t' = TailAfterRetire
  /\ abort' = (abort \/ ~PopAsserts)
  /\ list' = Retire(Popped)
  /\ f' = h
  /\ size' = size - 1
  /\ held' = Nowhere
  /\ UNCHANGED <<heap, pc, l, peak>>

Front == list[h].container[list[h].s]

Top ==
  /\ pc = "open" /\ size # 0
  /\ held' = [chunk |-> h, at |-> list[h].s, ele |-> Front]
  /\ UNCHANGED <<h, t, f, size, list, heap, pc, l, peak, abort>>

-----------------------------------------------------------------------------
(* tl_queue_destroy: freeList of the spares, freeList of the chunks in use, and
   the queue itself. *)

DestroyCall ==
  /\ pc = "open"
  /\ pc' = "free_f" /\ l' = f
  /\ held' = Nowhere
  /\ UNCHANGED <<h, t, f, size, list, heap, peak, abort>>

NextOf(c) == list[c].next

FreeOne ==
  /\ pc \in {"free_f", "free_h"} /\ l # NULL
  /\ list' = [list EXCEPT ![l] = NoList]
  /\ heap' = heap \ {l}
  /\ l' = NextOf(l)
  /\ UNCHANGED <<h, t, f, size, pc, held, peak, abort>>

FreeChunksNext ==
  /\ pc = "free_f" /\ l = NULL
  /\ pc' = "free_h" /\ l' = h
  /\ UNCHANGED <<h, t, f, size, list, heap, held, peak, abort>>

DestroyDone ==
  /\ pc = "free_h" /\ l = NULL
  /\ pc' = "none"
  /\ h' = NULL /\ t' = NULL /\ f' = NULL /\ size' = 0 /\ peak' = 0
  /\ UNCHANGED <<list, heap, l, held, abort>>

-----------------------------------------------------------------------------
Push == \/ \E v \in Val : PushRoom(v)
        \/ \E v \in Val, c \in Chunks : PushFirst(v, c)
        \/ \E v \in Val, c \in Chunks : PushNext(v, c)
        \/ PushFails
Pop == PopKeeps \/ PopRetires
Destroying == FreeOne \/ FreeChunksNext \/ DestroyDone

Next == QueueInit \/ Push \/ Pop \/ Top \/ DestroyCall \/ Destroying

Spec == Init /\ [][Next]_vars

-----------------------------------------------------------------------------
\* nth[n] is the n-th chunk behind c, NULL behind the last.
Along(c) ==
  LET nth[n \in 0 .. Cardinality(Chunks)] ==
        IF n = 0 THEN c
        ELSE IF nth[n - 1] \in Chunks THEN list[nth[n - 1]].next ELSE nth[n - 1]
  IN  nth

\* The chunks from c on; too many, or Junk among them, if the list does not end.
Chain(c) ==
  [n \in 1 .. Cardinality({m \in 0 .. Cardinality(Chunks) : Along(c)[m] # NULL}) |-> Along(c)[n - 1]]

\* The elements of the queue, the first to be popped first: CHUNK in every chunk, but
\* for those popped from the first one and those not yet in the last.
Contents ==
  LET place(p) == list[h].s + p - 1
  IN  [p \in 1 .. size |-> list[Chain(h)[place(p) \div CHUNK + 1]].container[place(p) % CHUNK]]

Contiguous ==
  LET C == Chain(h)
  IN  /\ \A n \in DOMAIN C : /\ list[C[n]].s < list[C[n]].e
                             /\ n > 1 => list[C[n]].s = 0
                             /\ n < Len(C) => list[C[n]].e = CHUNK
      /\ size = IF C = <<>> THEN 0 ELSE (Len(C) - 1) * CHUNK + list[t].e - list[h].s

ToSet(seq) == {seq[i] : i \in DOMAIN seq}

-----------------------------------------------------------------------------
TypeOK ==
  /\ {h, t, f} \subseteq Chunks \cup {NULL} /\ l \in Chunks \cup {NULL, Junk}
  /\ size \in Nat /\ peak \in Nat
  /\ list \in [Chunks -> [s : 0 .. CHUNK, e : 0 .. CHUNK, next : Chunks \cup {NULL, Junk},
                          container : [Place -> Val \cup {Junk}]]]
  /\ heap \subseteq Chunks
  /\ pc \in {"none", "open", "free_f", "free_h"}
  /\ abort \in BOOLEAN

(* No tl_assert of tl_queue_pop fails.  Every chunk ever allocated is in use or a
   spare, never both and never lost, and both lists end: a recycled chunk does
   not drag its old list along, nor its old window: the elements are as many as
   size says.  So tl_queue_destroy frees no chunk twice, reads none it has freed,
   and leaves none behind. *)
ChunksPartitioned ==
  /\ TypeOK /\ ~abort
  /\ pc = "open" => /\ ToSet(Chain(h)) \cup ToSet(Chain(f)) = heap
                    /\ Len(Chain(h)) + Len(Chain(f)) = Cardinality(heap)
                    /\ t = IF Chain(h) = <<>> THEN NULL ELSE Chain(h)[Len(Chain(h))]
                    /\ Contiguous
  /\ pc \in {"free_f", "free_h"} => l \in heap \cup {NULL}
  /\ pc = "none" => heap = {}

(* The address that tl_queue_top returned keeps its element until the next pop,
   through any pushes, their recycled chunks included. *)
HeldStays ==
  held # Nowhere =>
    held.chunk \in heap /\ list[held.chunk].container[held.at] = held.ele

(* The memory of a queue is bounded by the most it ever held, however long it
   runs: spares are used before the system is asked for more. *)
MemoryBounded == pc = "open" => Cardinality(heap) * CHUNK <= peak + 2 * CHUNK - 2

-----------------------------------------------------------------------------
(* The queue implements the FIFO. *)
Q == INSTANCE Fifo WITH
       open  <- pc = "open",
       items <- IF pc = "open" THEN Contents ELSE <<>>

ImplementsFifo == Q!Spec
=============================================================================
