-------------------------------- MODULE Fifo --------------------------------
(* What tl_queue promises: the elements come out in the order they went in,
   each once.  That a push may fail for want of memory shows as no step. *)
EXTENDS Sequences

CONSTANT Val

VARIABLES
  open,     \* the queue exists
  items     \* what it holds, the next to be popped first

fifoVars == <<open, items>>

Init == open = FALSE /\ items = <<>>

Open   == ~open /\ open' = TRUE /\ items' = <<>>
Push   == open /\ \E v \in Val : items' = Append(items, v) /\ UNCHANGED open
Pop    == open /\ items # <<>> /\ items' = Tail(items) /\ UNCHANGED open
Close  == open /\ open' = FALSE /\ items' = <<>>

Next == Open \/ Push \/ Pop \/ Close

Spec == Init /\ [][Next]_fifoVars
=============================================================================
