------------------------------- MODULE Tracer -------------------------------
(***************************************************************************)
(* What tl_profile promises: measurements that are started one inside the  *)
(* other end in the opposite order, each is then in the log, and a start   *)
(* is counted for its name.  A start may go unnoticed, for want of memory  *)
(* or because it is too deep.  Its end is then taken for that of the       *)
(* measurement around it, which is lost, and so are all around that one.   *)
(***************************************************************************)
EXTENDS Integers, Sequences

CONSTANTS Func

VARIABLES
  st,       \* "none", "open" or "over": the process is gone
  running,  \* the measurements under way, the innermost first: [func, intact]
  log,      \* the names of those that have ended, in the order of their ends
  calls,    \* name -> the starts that were noticed
  lost      \* one was lost

tracerVars == <<st, running, log, calls, lost>>

Nothing == running = <<>> /\ log = <<>> /\ calls = [f \in Func |-> 0] /\ ~lost

Init == st = "none" /\ Nothing

\* Nothing can be told apart any more of what is around a measurement that was lost.
Spoilt(s) == IF s = <<>> THEN s ELSE [s EXCEPT ![1].intact = FALSE]

Open == st = "none" /\ st' = "open" /\ UNCHANGED <<running, log, calls, lost>>

Start(f) ==
  /\ running' = <<[func |-> f, intact |-> TRUE]>> \o running
  /\ calls' = [calls EXCEPT ![f] = @ + 1]
  /\ UNCHANGED <<st, log, lost>>

Miss == running' = Spoilt(running) /\ UNCHANGED <<st, log, calls, lost>>

End ==
  /\ running # <<>> /\ Head(running).intact
  /\ log' = Append(log, Head(running).func)
  /\ running' = Tail(running)
  /\ UNCHANGED <<st, calls, lost>>

Lose ==
  /\ running # <<>> /\ ~Head(running).intact
  /\ running' = Spoilt(Tail(running))
  /\ lost' = TRUE
  /\ UNCHANGED <<st, log, calls>>

Close == st' = "none" /\ Nothing'

\* The process goes at the first start of a name, for want of memory, and where the
\* log is read though nothing is in it but, once, a measurement that was lost.
Break == /\ (\E f \in Func : calls[f] = 0) \/ (lost /\ log = <<>>)
         /\ st' = "over"
         /\ UNCHANGED <<running, log, calls, lost>>

Next == \/ Open \/ Break
        \/ st = "open" /\ (Miss \/ End \/ Lose \/ Close \/ \E f \in Func : Start(f))

Spec == Init /\ [][Next]_tracerVars
=============================================================================
