------------------------------ MODULE Profile -------------------------------
(***************************************************************************)
(* tl_profile.c: measurements that are started and ended, in a list of     *)
(* those under way from lastI on, and in one of those that have ended from *)
(* first to lastE.  Both use the same link of an entry.  The end of a      *)
(* measurement does not name it: it is that of lastI, if that is as deep   *)
(* as the calls are.  The map of the items by name is an rbtree.           *)
(***************************************************************************)
EXTENDS Integers, Sequences, FiniteSets

CONSTANTS
  Func,       \* the names
  Entries,    \* the addresses calloc may give to an entry (a bound on the starts)
  Levels,     \* the values of maxLevel that a profile is made with; 0 for no limit
  MaxLevel,   \* bound: no start is made when curL has come to this
  Second,     \* the microseconds of a second
  MaxTime,    \* bound: the clock stops here
  NULL

ASSUME ProfileAssumption ==
  /\ Second \in Nat \ {0} /\ Levels \subseteq Nat /\ MaxLevel \in Nat /\ MaxTime \in Nat
  /\ IsFiniteSet(Entries) /\ NULL \notin Entries /\ Func # {}

VARIABLES
  maxL, curL,
  root,     \* name -> [cnt_call, sec, usec], the item; [] before its first start
  first, lastI, lastE,
  entry,    \* entry -> [func, level, sec, usec, next]; it is external which are allocated
  heap,     \* external: the entries that are allocated
  st,       \* "none", "open", or "over": the process is gone
  now,      \* external: what gettimeofday tells, in microseconds; it does not go back
  spent,    \* history: name -> the time its ended measurements took
  lost      \* history: a measurement was dropped

vars == <<maxL, curL, root, first, lastI, lastE, entry, heap, st, now, spent, lost>>

NoItems == [f \in {} |-> NULL]
NoEntry == [func |-> NULL, level |-> 0, sec |-> 0, usec |-> 0, next |-> NULL]

Init ==
  /\ maxL \in Levels /\ curL = 0
  /\ root = NoItems /\ first = NULL /\ lastI = NULL /\ lastE = NULL
  /\ entry = [e \in Entries |-> NoEntry] /\ heap = {}
  /\ st = "none" /\ now = 0
  /\ spent = [f \in Func |-> 0] /\ lost = FALSE

Tick == now < MaxTime /\ now' = now + 1
        /\ UNCHANGED <<maxL, curL, root, first, lastI, lastE, entry, heap, st, spent, lost>>

\* Bound: entries that a destroy leaked are not carried over into another profile.
ProfileInit ==
  /\ st = "none" /\ heap = {} /\ st' = "open"
  /\ UNCHANGED <<maxL, curL, root, first, lastI, lastE, entry, heap, now, spent, lost>>

\* Without memory for the rbtree, maxL is written through NULL.
InitCrashes ==
  /\ st = "none" /\ st' = "over"
  /\ UNCHANGED <<maxL, curL, root, first, lastI, lastE, entry, heap, now, spent, lost>>

-----------------------------------------------------------------------------
(* tl_profile_start. *)

Starts == st = "open" /\ curL < MaxLevel
TooDeep == 0 < maxL /\ curL + 1 > maxL

Item(f) == IF f \in DOMAIN root THEN root[f] ELSE [cnt_call |-> 0, sec |-> 0, usec |-> 0]

Start(f, e) ==
  /\ Starts /\ ~TooDeep /\ e \in Entries \ heap
  /\ curL' = curL + 1
  /\ root' = [g \in DOMAIN root \cup {f} |->
                IF g = f THEN [Item(f) EXCEPT !.cnt_call = @ + 1] ELSE root[g]]
  /\ entry' = [entry EXCEPT ![e] = [func |-> f, level |-> curL + 1, sec |-> now \div Second,
                                    usec |-> now % Second, next |-> lastI]]
  /\ heap' = heap \cup {e}
  /\ lastI' = e /\ first' = IF first = NULL THEN e ELSE first
  /\ UNCHANGED <<maxL, lastE, st, now, spent, lost>>

\* It is too deep, or there is no memory: curL stays raised.
StartIgnored ==
  /\ Starts
  /\ curL' = curL + 1
  /\ UNCHANGED <<maxL, root, first, lastI, lastE, entry, heap, st, now, spent, lost>>

\* Without memory for the item of a new name, its func is written through NULL.
StartCrashes ==
  /\ Starts /\ ~TooDeep /\ Func \ DOMAIN root # {}
  /\ st' = "over"
  /\ UNCHANGED <<maxL, curL, root, first, lastI, lastE, entry, heap, now, spent, lost>>

-----------------------------------------------------------------------------
(* tl_profile_end. *)

Ends == st = "open"
end == entry[lastI]

\* The time from a to b, each in seconds and microseconds.
Elapsed(a, b) ==
  IF b.usec > a.usec THEN [sec |-> b.sec - a.sec, usec |-> b.usec - a.usec]
  ELSE [sec |-> b.sec - a.sec - 1, usec |-> Second + b.usec - a.usec]
TotalNoCarry(i, t) == [i EXCEPT !.sec = @ + t.sec, !.usec = @ + t.usec]    \* mutant
Total(i, t) ==
  LET s == i.sec + t.sec
      m == i.usec + t.usec
  IN  IF Second <= m THEN [i EXCEPT !.sec = s + 1, !.usec = m - Second]
      ELSE [i EXCEPT !.sec = s, !.usec = m]

\* The ended entry leaves the one list for the other.
LoggedAlone(t) ==                        \* mutant: the entry that ended before is not linked to it
  [entry EXCEPT ![lastI].sec = t.sec, ![lastI].usec = t.usec, ![lastI].next = NULL]
FirstStays(e) == first                   \* mutant: the list of the ended has no head
NewFirst(e) == IF lastE = NULL THEN e ELSE first
Logged(t) ==
  LET E == [entry EXCEPT ![lastI].sec = t.sec, ![lastI].usec = t.usec, ![lastI].next = NULL]
  IN  IF lastE = NULL THEN E ELSE [E EXCEPT ![lastE].next = lastI]

End ==
  /\ Ends /\ lastI # NULL /\ curL = end.level
  /\ curL' = curL - 1
  /\ LET t == Elapsed(end, [sec |-> now \div Second, usec |-> now % Second])
     IN  /\ root' = [root EXCEPT ![end.func] = Total(@, t)]
         /\ entry' = Logged(t)
  /\ lastI' = end.next /\ first' = NewFirst(lastI) /\ lastE' = lastI
  /\ spent' = [spent EXCEPT ![end.func] = @ + now - (end.sec * Second + end.usec)]
  /\ UNCHANGED <<maxL, heap, st, now, lost>>

\* A start was ignored: what is freed instead is the entry of the measurement around
\* it, and curL stays.  first may be that entry.
EndLoses ==
  /\ Ends /\ lastI # NULL /\ curL > end.level
  /\ lastI' = end.next
  /\ heap' = heap \ {lastI} /\ entry' = [entry EXCEPT ![lastI] = NoEntry]
  /\ lost' = TRUE
  /\ UNCHANGED <<maxL, curL, root, first, lastE, st, now, spent>>

EndOfNothing ==
  /\ Ends /\ IF lastI = NULL THEN TRUE ELSE curL < end.level
  /\ UNCHANGED <<maxL, curL, root, first, lastI, lastE, entry, heap, st, now, spent, lost>>

-----------------------------------------------------------------------------
(* tl_profile_destroy frees what is linked from first on.  While no measurement
   has ended that is the outermost under way, which may have been freed. *)

\* The entries from e on.
Chain(e) ==
  LET list[n \in 0 .. Cardinality(Entries)] ==
        [x \in Entries \cup {NULL} |->
           IF x = NULL \/ n = 0 THEN <<>> ELSE <<x>> \o list[n - 1][entry[x].next]]
  IN  list[Cardinality(Entries)][e]
InChain(e) == {Chain(e)[i] : i \in DOMAIN Chain(e)}

Dangling == first # NULL /\ first \notin heap

Destroy ==
  /\ st = "open" /\ ~Dangling /\ st' = "none"
  /\ heap' = heap \ InChain(first)
  /\ entry' = [e \in Entries |-> IF e \in heap' THEN entry[e] ELSE NoEntry]
  /\ curL' = 0 /\ root' = NoItems /\ first' = NULL /\ lastI' = NULL /\ lastE' = NULL
  /\ spent' = [f \in Func |-> 0] /\ lost' = FALSE
  /\ UNCHANGED <<maxL, now>>

DestroyCrashes ==
  /\ st = "open" /\ Dangling /\ st' = "over"
  /\ UNCHANGED <<maxL, curL, root, first, lastI, lastE, entry, heap, now, spent, lost>>

Next == \/ Tick \/ ProfileInit \/ InitCrashes
        \/ StartIgnored \/ StartCrashes \/ \E f \in Func, e \in Entries : Start(f, e)
        \/ End \/ EndLoses \/ EndOfNothing
        \/ Destroy \/ DestroyCrashes

Spec == Init /\ [][Next]_vars

-----------------------------------------------------------------------------
TypeOK ==
  /\ maxL \in Levels /\ curL \in Nat
  /\ DOMAIN root \subseteq Func
  /\ root \in [DOMAIN root -> [cnt_call : Nat, sec : Nat, usec : Nat]]
  /\ lastI \in Entries \cup {NULL}
  /\ entry \in [Entries -> [func : Func \cup {NULL}, level : Nat, sec : Int, usec : Nat,
                            next : Entries \cup {NULL}]]
  /\ spent \in [Func -> Nat] /\ now \in Nat

(* The totals are exact and stay in their form, however often seconds are borrowed
   and carried: the seconds and microseconds of an item, which are below a
   second, are the time that its ended measurements took. *)
TotalsExact ==
  st = "open" => \A f \in DOMAIN root :
                   /\ root[f].usec < Second
                   /\ root[f].sec * Second + root[f].usec = spent[f]

(* The two lists share nothing and are all that is allocated; the levels of the
   measurements under way fall from curL on; the list of the ended is found at
   first and ends at lastE.  Only while none has ended, and one was lost, may
   first be an entry that is gone. *)
ListsApart ==
  st = "open" =>
    LET under == Chain(lastI)
        ended == IF lastE = NULL THEN {} ELSE InChain(first)
    IN  /\ InChain(lastI) \cap ended = {} /\ InChain(lastI) \cup ended = heap
        /\ lastI # NULL => entry[lastI].level <= curL
        /\ \A i \in 1 .. Len(under) - 1 : entry[under[i]].level > entry[under[i + 1]].level
        /\ lastE # NULL => Chain(first)[Len(Chain(first))] = lastE
        /\ Dangling => lost /\ lastE = NULL

-----------------------------------------------------------------------------
(* The profile implements the tracer.  A measurement under way is intact if it is
   as deep as the one inside it, or the calls, say. *)
Running ==
  LET under == Chain(lastI)
  IN  [i \in DOMAIN under |->
         [func   |-> entry[under[i]].func,
          intact |-> entry[under[i]].level =
                       IF i = 1 THEN curL ELSE entry[under[i - 1]].level - 1]]
Log == IF lastE = NULL THEN <<>> ELSE [i \in DOMAIN Chain(first) |-> entry[Chain(first)[i]].func]

T == INSTANCE Tracer WITH
       running <- Running, log <- Log, lost <- lost,
       calls   <- [f \in Func |-> Item(f).cnt_call]

ImplementsTracer == T!Spec
=============================================================================
