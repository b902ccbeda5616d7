------------------------------ MODULE SpinLock ------------------------------
(***************************************************************************)
(* tl_lock.c: a spin lock in one 32-bit word.  The top bit says that the   *)
(* lock is held; the 31 bits below are a version that every release moves  *)
(* down by one, 0 wrapping to the largest value.  A thread reads the word  *)
(* into a local copy in one step and compares-and-swaps it in another, so  *)
(* that other threads run in between.                                      *)
(***************************************************************************)
EXTENDS Integers, FiniteSets

CONSTANTS
  Threads,      \* the threads that share the lock
  MaxVer        \* the largest version, 0x7FFFFFFF in the code

ASSUME MaxVerAssumption == MaxVer \in Nat

VARIABLES
  l,            \* the shared lock word
  o,            \* o[t]: the copy of the word that t holds in its local o
  pc,           \* pc[t]: where t is
  ret,          \* ret[t]: what t's last tl_lock_tryon returned
  contended,    \* contended[t]: history, another thread has held the lock at
                \* some moment since t called tl_lock_tryon
  gap           \* gap[t]: history, the releases since t last read the word,
                \* counted modulo the number of versions

vars == <<l, o, pc, ret, contended, gap>>

Version == 0..MaxVer
Word == [held : BOOLEAN, ver : Version]

Spinning == {"on_get", "on_cas"}
Trying == {"try_get", "try_cas"}
Releasing == {"off_get", "off_cas"}
Location == {"idle", "crit"} \cup Spinning \cup Trying \cup Releasing

Holding(t) == pc[t] \in {"crit"} \cup Releasing

TypeOK ==
  /\ l \in Word
  /\ o \in [Threads -> Word]
  /\ pc \in [Threads -> Location]
  /\ ret \in [Threads -> {0, -1}]
  /\ contended \in [Threads -> BOOLEAN]
  /\ gap \in [Threads -> Version]

-----------------------------------------------------------------------------
\* tl_atomic_cmp_set: what CAS(&l, old, new) returns and what it leaves in l.
CasBlind(old) == TRUE           \* mutant: a plain store
CasSucceeds(old) == l = old
CasWord(old, new) == IF CasSucceeds(old) THEN new ELSE l

FreeAlways(w) == TRUE           \* mutant: the held bit is not tested
FreeByVersion(w) == w.ver = 0   \* mutant: the mask of the version is tested
Free(w) == ~w.held
Taken(w) == [w EXCEPT !.held = TRUE]

\* The word a release writes: free, with the next version down.
NextVersionSame(v) == v         \* mutant: the version stays
NextVersion(v) == IF v = 0 THEN MaxVer ELSE v - 1
ReleasedHeld(w) == [w EXCEPT !.ver = NextVersion(w.ver)]  \* mutant: still held
Released(w) == [held |-> FALSE, ver |-> NextVersion(w.ver)]

Goto(t, where) == pc' = [pc EXCEPT ![t] = where]
Get(t) == /\ o' = [o EXCEPT ![t] = l]
          /\ gap' = [gap EXCEPT ![t] = 0]

\* A thread that takes the lock marks every other thread inside tryon.
MarkContended(t) ==
  contended' = [u \in Threads |->
                  contended[u] \/ (u # t /\ pc[u] \in Trying)]

CountRelease == gap' = [u \in Threads |-> IF gap[u] = MaxVer THEN 0 ELSE gap[u] + 1]

-----------------------------------------------------------------------------
(* tl_lock_init, by the thread that shares the lock afterwards. *)
Init ==
  /\ l = [held |-> FALSE, ver |-> 0]
  /\ o = [t \in Threads |-> [held |-> FALSE, ver |-> 0]]
  /\ pc = [t \in Threads |-> "idle"]
  /\ ret = [t \in Threads |-> 0]
  /\ contended = [t \in Threads |-> FALSE]
  /\ gap = [t \in Threads |-> 0]

(* tl_lock_on *)
OnCall(t) ==
  /\ pc[t] = "idle"
  /\ Goto(t, "on_get")
  /\ UNCHANGED <<l, o, ret, contended, gap>>

OnGet(t) ==
  /\ pc[t] = "on_get"
  /\ Get(t)
  /\ Goto(t, IF Free(l) THEN "on_cas" ELSE "on_get")   \* held: tl_yield, again
  /\ UNCHANGED <<l, ret, contended>>

OnCasDone(t) ==
  /\ pc[t] = "on_cas"
  /\ CasSucceeds(o[t])
  /\ l' = Taken(o[t])
  /\ Goto(t, "crit")
  /\ MarkContended(t)
  /\ UNCHANGED <<o, ret, gap>>

OnCasFailed(t) ==
  /\ pc[t] = "on_cas"
  /\ ~CasSucceeds(o[t])
  /\ Goto(t, "on_get")
  /\ UNCHANGED <<l, o, ret, contended, gap>>

(* tl_lock_tryon *)
TryCall(t) ==
  /\ pc[t] = "idle"
  /\ Goto(t, "try_get")
  /\ contended' = [contended EXCEPT ![t] = l.held]
  /\ UNCHANGED <<l, o, ret, gap>>

TryGet(t) ==
  /\ pc[t] = "try_get"
  /\ Get(t)
  /\ IF Free(l) THEN Goto(t, "try_cas") /\ UNCHANGED ret
                ELSE Goto(t, "idle") /\ ret' = [ret EXCEPT ![t] = -1]
  /\ UNCHANGED <<l, contended>>

TryCas(t) ==
  /\ pc[t] = "try_cas"
  /\ l' = CasWord(o[t], Taken(o[t]))
  /\ IF CasSucceeds(o[t])
       THEN /\ Goto(t, "crit")
            /\ ret' = [ret EXCEPT ![t] = 0]
            /\ MarkContended(t)
       ELSE /\ Goto(t, "idle")
            /\ ret' = [ret EXCEPT ![t] = -1]
            /\ UNCHANGED contended
  /\ UNCHANGED <<o, gap>>

(* tl_lock_off, called by the thread that holds the lock. *)
OffCall(t) ==
  /\ pc[t] = "crit"
  /\ Goto(t, "off_get")
  /\ UNCHANGED <<l, o, ret, contended, gap>>

OffGet(t) ==
  /\ pc[t] = "off_get"
  /\ Get(t)
  /\ Goto(t, "off_cas")
  /\ UNCHANGED <<l, ret, contended>>

OffCas(t) ==
  /\ pc[t] = "off_cas"
  /\ l' = CasWord(o[t], Released(o[t]))
  /\ IF CasSucceeds(o[t]) THEN Goto(t, "idle") /\ CountRelease
                          ELSE Goto(t, "off_get") /\ UNCHANGED gap
  /\ UNCHANGED <<o, ret, contended>>

-----------------------------------------------------------------------------
On(t) == OnGet(t) \/ OnCasDone(t) \/ OnCasFailed(t)
Tryon(t) == TryGet(t) \/ TryCas(t)
Off(t) == OffGet(t) \/ OffCas(t)

Next == \E t \in Threads :
          \/ OnCall(t) \/ TryCall(t) \/ OffCall(t)
          \/ On(t) \/ Tryon(t) \/ Off(t)

(***************************************************************************)
(* Fairness.  A thread inside a call of the lock is scheduled again, and a *)
(* thread that holds the lock calls tl_lock_off; nobody has to ask for the *)
(* lock.  Nothing stronger than weak fairness: the word keeps no queue of  *)
(* waiters, so that one thread may lose every race for ever.               *)
(***************************************************************************)
Fairness == \A t \in Threads : /\ WF_vars(On(t))
                               /\ WF_vars(Tryon(t))
                               /\ WF_vars(OffCall(t) \/ Off(t))

Spec == Init /\ [][Next]_vars
FairSpec == Spec /\ Fairness

-----------------------------------------------------------------------------
(* Two threads never hold the lock together, whatever they read and however
   often the version has wrapped between a read and its compare-and-swap. *)
MutualExclusion ==
  \A t, u \in Threads : Holding(t) /\ Holding(u) => t = u

(* The word says held exactly while some thread holds the lock: no release is
   lost, and no compare-and-swap of a waiter undoes one. *)
WordAgrees == l.held <=> \E t \in Threads : Holding(t)

(* The holder's copy of the word is still the word when it releases: nobody
   else writes a held word, so tl_lock_off never goes round its loop. *)
ReleaseNeverRetries == \A t \in Threads : pc[t] = "off_cas" => CasSucceeds(o[t])

(* A thread about to compare-and-swap does so from a free word, so that a
   success can only take a lock nobody holds. *)
SwapsFromFree ==
  \A t \in Threads : pc[t] \in {"on_cas", "try_cas"} => Free(o[t])

(* tl_lock_tryon fails only when another thread held the lock at some moment
   of the call: an uncontended tryon succeeds. *)
TryFailsOnlyContended ==
  [][\A t \in Threads :
       pc[t] \in Trying /\ pc'[t] = "idle" => contended[t]]_vars

(* What the version is for: a waiter's copy read before some release does not
   pass its compare-and-swap, unless the version has gone all the way round
   since (a multiple of MaxVer + 1 releases, 2^31 in the code). *)
StaleCopyFails ==
  \A t \in Threads :
    pc[t] \in {"on_cas", "try_cas"} /\ gap[t] # 0 => ~CasSucceeds(o[t])

(* Lock freedom: while somebody spins, somebody gets the lock. *)
SomeoneGetsIt ==
  (\E t \in Threads : pc[t] \in Spinning) ~> (\E t \in Threads : pc[t] = "crit")
=============================================================================
