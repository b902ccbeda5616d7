--------------------------- MODULE SpinLockProofs ---------------------------
(***************************************************************************)
(* Theorems about SpinLock, for any set of threads and any number of       *)
(* versions.  One inductive invariant carries them all: IInv adds to the   *)
(* properties what links a thread's copy of the word to the word.          *)
(***************************************************************************)
EXTENDS SpinLock, TLAPS

(* A copy and the word differ, in their versions, by the releases since the
   copy was read. *)
GapAgrees ==
  \A t \in Threads : \/ o[t].ver - gap[t] = l.ver
                     \/ o[t].ver - gap[t] + MaxVer + 1 = l.ver

(* Why a tryon that is going to fail has met another holder. *)
ContentionSeen ==
  \A t \in Threads :
    /\ pc[t] = "try_get" /\ l.held => contended[t]
    /\ pc[t] = "try_cas" /\ ~CasSucceeds(o[t]) => contended[t]

IInv == /\ TypeOK
        /\ MutualExclusion
        /\ WordAgrees
        /\ ReleaseNeverRetries
        /\ SwapsFromFree
        /\ GapAgrees
        /\ ContentionSeen

-----------------------------------------------------------------------------
(* The version a release writes is a version. *)
LEMMA NextVersionType == \A v \in Version : NextVersion(v) \in Version
  BY MaxVerAssumption DEF NextVersion, Version

(* Counting a release keeps every gap a version. *)
LEMMA CountReleaseType ==
  ASSUME gap \in [Threads -> Version], CountRelease
  PROVE  gap' \in [Threads -> Version]
<1>1. \A v \in Version : (IF v = MaxVer THEN 0 ELSE v + 1) \in Version
  BY MaxVerAssumption DEF Version
<1> QED BY <1>1 DEF CountRelease

(* Every variable keeps its type in every step of every thread: the lock word
   never leaves 32 bits. *)
LEMMA TypeStep == TypeOK /\ [Next]_vars => TypeOK'
<1> SUFFICES ASSUME TypeOK, [Next]_vars PROVE TypeOK'
  OBVIOUS
<1> USE MaxVerAssumption, NextVersionType
        DEF TypeOK, Word, Location, Spinning, Trying, Releasing, Goto
<1>1. ASSUME NEW t \in Threads, OnCall(t) PROVE TypeOK'
  BY <1>1 DEF OnCall
<1>2. ASSUME NEW t \in Threads, TryCall(t) PROVE TypeOK'
  BY <1>2 DEF TryCall
<1>3. ASSUME NEW t \in Threads, OffCall(t) PROVE TypeOK'
  BY <1>3 DEF OffCall
<1>4. ASSUME NEW t \in Threads, On(t) PROVE TypeOK'
  <2>1. CASE OnGet(t)
    BY <2>1 DEF OnGet, Get, Version
  <2>2. CASE OnCasDone(t)
    BY <2>2 DEF OnCasDone, Taken, MarkContended
  <2>3. CASE OnCasFailed(t)
    BY <2>3 DEF OnCasFailed
  <2> QED BY <1>4, <2>1, <2>2, <2>3 DEF On
<1>5. ASSUME NEW t \in Threads, Tryon(t) PROVE TypeOK'
  <2>1. CASE TryGet(t)
    BY <2>1 DEF TryGet, Get, Version
  <2>2. CASE TryCas(t)
    BY <2>2 DEF TryCas, Taken, CasWord, MarkContended
  <2> QED BY <1>5, <2>1, <2>2 DEF Tryon
<1>6. ASSUME NEW t \in Threads, Off(t) PROVE TypeOK'
  <2>1. CASE OffGet(t)
    BY <2>1 DEF OffGet, Get, Version
  <2>2. CASE OffCas(t)
    <3>1. gap' \in [Threads -> Version]
      BY <2>2, CountReleaseType DEF OffCas
    <3> QED BY <2>2, <3>1 DEF OffCas, CasWord, Released
  <2> QED BY <1>6, <2>1, <2>2 DEF Off
<1>7. CASE UNCHANGED vars
  BY <1>7 DEF vars
<1> QED BY <1>1, <1>2, <1>3, <1>4, <1>5, <1>6, <1>7 DEF Next

(* The initial state is a state of the invariant. *)
LEMMA InitIInv == Init => IInv
  BY MaxVerAssumption
     DEF Init, IInv, TypeOK, MutualExclusion, WordAgrees, ReleaseNeverRetries,
         SwapsFromFree, GapAgrees, ContentionSeen, Word, Version, Location,
         Spinning, Trying, Releasing, Holding, Free, CasSucceeds

(* What the invariant says beside the types. *)
Links == /\ MutualExclusion
         /\ WordAgrees
         /\ ReleaseNeverRetries
         /\ SwapsFromFree
         /\ GapAgrees
         /\ ContentionSeen

(* A step of one thread keeps the links between the copies and the word. *)
LEMMA LinksStep == IInv /\ [Next]_vars => Links'
<1> SUFFICES ASSUME IInv, [Next]_vars, TypeOK' PROVE Links'
  BY TypeStep DEF IInv
<1> USE MaxVerAssumption
        DEF IInv, Links, TypeOK, MutualExclusion, WordAgrees, ReleaseNeverRetries,
            SwapsFromFree, GapAgrees, ContentionSeen, Holding, Goto, Free,
            CasSucceeds, Spinning, Trying, Releasing, Word, Version
<1>1. ASSUME NEW t \in Threads, OnCall(t) PROVE Links'
  BY <1>1 DEF OnCall
<1>2. ASSUME NEW t \in Threads, TryCall(t) PROVE Links'
  BY <1>2 DEF TryCall
<1>3. ASSUME NEW t \in Threads, OffCall(t) PROVE Links'
  BY <1>3 DEF OffCall
<1>4. ASSUME NEW t \in Threads, OnGet(t) PROVE Links'
  BY <1>4 DEF OnGet, Get
<1>5. ASSUME NEW t \in Threads, OnCasDone(t) PROVE Links'
  <2>1. MutualExclusion'
    BY <1>5 DEF OnCasDone, Taken, MarkContended
  <2>2. WordAgrees'
    BY <1>5 DEF OnCasDone, Taken, MarkContended
  <2>3. ReleaseNeverRetries'
    BY <1>5 DEF OnCasDone, Taken, MarkContended
  <2>4. SwapsFromFree'
    BY <1>5 DEF OnCasDone, Taken, MarkContended
  <2>5. GapAgrees'
    BY <1>5 DEF OnCasDone, Taken, MarkContended
  <2>6. ContentionSeen'
    BY <1>5 DEF OnCasDone, Taken, MarkContended
  <2> QED BY <2>1, <2>2, <2>3, <2>4, <2>5, <2>6
<1>6. ASSUME NEW t \in Threads, OnCasFailed(t) PROVE Links'
  BY <1>6 DEF OnCasFailed
<1>7. ASSUME NEW t \in Threads, TryGet(t) PROVE Links'
  BY <1>7 DEF TryGet, Get
<1>8. ASSUME NEW t \in Threads, TryCas(t) PROVE Links'
  <2>1. MutualExclusion'
    BY <1>8 DEF TryCas, Taken, CasWord, MarkContended
  <2>2. WordAgrees'
    BY <1>8 DEF TryCas, Taken, CasWord, MarkContended
  <2>3. ReleaseNeverRetries'
    BY <1>8 DEF TryCas, Taken, CasWord, MarkContended
  <2>4. SwapsFromFree'
    BY <1>8 DEF TryCas, Taken, CasWord, MarkContended
  <2>5. GapAgrees'
    BY <1>8 DEF TryCas, Taken, CasWord, MarkContended
  <2>6. ContentionSeen'
    BY <1>8 DEF TryCas, Taken, CasWord, MarkContended
  <2> QED BY <2>1, <2>2, <2>3, <2>4, <2>5, <2>6
<1>9. ASSUME NEW t \in Threads, OffGet(t) PROVE Links'
  BY <1>9 DEF OffGet, Get
<1>10. ASSUME NEW t \in Threads, OffCas(t) PROVE Links'
  <2>1. MutualExclusion'
    BY <1>10 DEF OffCas, CasWord, Released, NextVersion, CountRelease
  <2>2. WordAgrees'
    BY <1>10 DEF OffCas, CasWord, Released, NextVersion, CountRelease
  <2>3. ReleaseNeverRetries'
    BY <1>10 DEF OffCas, CasWord, Released, NextVersion, CountRelease
  <2>4. SwapsFromFree'
    BY <1>10 DEF OffCas, CasWord, Released, NextVersion, CountRelease
  <2>5. GapAgrees'
    BY <1>10 DEF OffCas, CasWord, Released, NextVersion, CountRelease
  <2>6. ContentionSeen'
    BY <1>10 DEF OffCas, CasWord, Released, NextVersion, CountRelease
  <2> QED BY <2>1, <2>2, <2>3, <2>4, <2>5, <2>6
<1>11. CASE UNCHANGED vars
  BY <1>11 DEF vars
<1> QED BY <1>1, <1>2, <1>3, <1>4, <1>5, <1>6, <1>7, <1>8, <1>9, <1>10, <1>11 DEF Next, On, Tryon, Off

(* The invariant is inductive. *)
LEMMA IInvStep == IInv /\ [Next]_vars => IInv'
  BY TypeStep, LinksStep DEF IInv, Links

(* Every reachable state satisfies the inductive invariant. *)
THEOREM Inductive == Spec => []IInv
<1>1. Init => IInv
  BY InitIInv
<1>2. IInv /\ [Next]_vars => IInv'
  BY IInvStep
<1> QED BY <1>1, <1>2, PTL DEF Spec

-----------------------------------------------------------------------------
(* The lock word, the copies and the program counters keep their types. *)
THEOREM TypeCorrect == Spec => []TypeOK
<1>1. IInv => TypeOK
  BY DEF IInv
<1> QED BY <1>1, Inductive, PTL

(* tl_lock_on and tl_lock_tryon never let two threads in together. *)
THEOREM Exclusion == Spec => []MutualExclusion
<1>1. IInv => MutualExclusion
  BY DEF IInv
<1> QED BY <1>1, Inductive, PTL

(* The held bit is set exactly while a thread holds the lock. *)
THEOREM HeldBitIsRight == Spec => []WordAgrees
<1>1. IInv => WordAgrees
  BY DEF IInv
<1> QED BY <1>1, Inductive, PTL

(* tl_lock_off succeeds at its first compare-and-swap. *)
THEOREM ReleaseAtOnce == Spec => []ReleaseNeverRetries
<1>1. IInv => ReleaseNeverRetries
  BY DEF IInv
<1> QED BY <1>1, Inductive, PTL

(* A copy that is stale by fewer releases than there are versions does not
   pass the compare-and-swap of tl_lock_on and tl_lock_tryon. *)
THEOREM StaleCopies == Spec => []StaleCopyFails
<1>1. IInv => StaleCopyFails
  <2> SUFFICES ASSUME IInv, NEW t \in Threads, gap[t] # 0, l = o[t]
               PROVE  FALSE
    BY DEF StaleCopyFails, CasSucceeds
  <2>1. l.ver \in 0..MaxVer /\ gap[t] \in 0..MaxVer
    BY DEF IInv, TypeOK, Word, Version
  <2>2. \/ l.ver - gap[t] = l.ver
        \/ l.ver - gap[t] + MaxVer + 1 = l.ver
    BY DEF IInv, GapAgrees
  <2> QED BY <2>1, <2>2, MaxVerAssumption
<1> QED BY <1>1, Inductive, PTL

(* tl_lock_tryon returns -1 only after another thread held the lock during the
   call. *)
THEOREM TryonHonest == Spec => TryFailsOnlyContended
<1> DEFINE Honest == \A t \in Threads :
                       pc[t] \in Trying /\ pc'[t] = "idle" => contended[t]
<1>1. IInv /\ [Next]_vars => [Honest]_vars
  <2> SUFFICES ASSUME IInv, [Next]_vars,
                      NEW t \in Threads, pc[t] \in Trying, pc'[t] = "idle"
               PROVE  contended[t]
    OBVIOUS
  <2>1. pc[t] = "try_get" \/ pc[t] = "try_cas"
    BY DEF Trying
  <2> QED
    BY <2>1
       DEF vars, Next, IInv, TypeOK, ContentionSeen, CasSucceeds, Goto, On, Tryon, Off,
           OnCall, TryCall, OffCall, OnGet, OnCasDone, OnCasFailed, TryGet,
           TryCas, OffGet, OffCas, Free
<1> QED BY <1>1, Inductive, PTL DEF Spec, TryFailsOnlyContended
=============================================================================
