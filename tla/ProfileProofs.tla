---------------------------- MODULE ProfileProofs ----------------------------
(***************************************************************************)
(* The totals of Profile are exact, for any number of measurements and any *)
(* second.  An end adds what it reads in the entry of lastI, so the proof  *)
(* is about which entries those are: the ones from lastI on, whose levels  *)
(* fall, and which nothing has written since their start.  The two lists   *)
(* are then written down as sequences, u of the entries under way and d of *)
(* those that have ended, and LInv says that there are such: from it       *)
(* follow ListsApart and that the profile implements the tracer.           *)
(***************************************************************************)
EXTENDS Profile, FiniteSetTheorems, NaturalsInduction, SequenceTheorems, WellFoundedInduction,
        TLAPS

\* A set with the entries from lastI on.  End writes lastI and lastE only.
Open(U) ==
  /\ U \subseteq heap /\ lastE \notin U
  /\ lastI \in U \cup {NULL}
  /\ lastI # NULL => entry[lastI].level <= curL
  /\ \A e \in U :
       /\ e # lastI => lastI # NULL /\ entry[e].level < entry[lastI].level
       /\ entry[e].next \in U \cup {NULL}
       /\ entry[e].next # NULL => entry[entry[e].next].level < entry[e].level
       /\ entry[e].level > 0 /\ entry[e].func \in DOMAIN root
       /\ entry[e].sec \in Nat /\ entry[e].usec < Second
       /\ entry[e].sec * Second + entry[e].usec <= now

\* TotalsExact, and no time spent where nothing was measured.
TotalsGood ==
  /\ \A f \in DOMAIN root :
       root[f].usec < Second /\ root[f].sec * Second + root[f].usec = spent[f]
  /\ \A f \in Func \ DOMAIN root : spent[f] = 0

IInv ==
  /\ TypeOK /\ heap \subseteq Entries /\ lastE \in heap \cup {NULL}
  /\ TotalsGood
  /\ \E U \in SUBSET Entries : Open(U)

-----------------------------------------------------------------------------
(* A time in microseconds is its seconds and the rest. *)
LEMMA DivMod ==
  ASSUME NEW t \in Nat
  PROVE  /\ t \div Second \in Nat /\ t % Second \in Nat /\ t % Second < Second
         /\ (t \div Second) * Second + (t % Second) = t
BY ProfileAssumption

(* Seconds are added, subtracted, carried and borrowed. *)
LEMMA Distribute ==
  ASSUME NEW a \in Int, NEW b \in Int
  PROVE  /\ a * Second \in Int
         /\ (a + b) * Second = a * Second + b * Second
         /\ (a - b) * Second = a * Second - b * Second
         /\ (a + 1) * Second = a * Second + Second
         /\ (a - 1) * Second = a * Second - Second
BY ProfileAssumption

(* A time that is not negative has seconds that are not. *)
LEMMA SignOf ==
  ASSUME NEW a \in Int, NEW r \in Int, r < Second, a * Second + r >= 0
  PROVE  a >= 0
BY ProfileAssumption

(* What tl_profile_end computes is the time from the start to now, in seconds and
   at most a second more. *)
LEMMA ElapsedExact ==
  ASSUME NEW a \in [sec : Nat, usec : Nat], NEW t \in Nat, a.usec < Second
  PROVE  LET d == Elapsed(a, [sec |-> t \div Second, usec |-> t % Second])
         IN  /\ d \in [sec : Int, usec : Nat] /\ d.usec <= Second
             /\ d.sec * Second + d.usec = t - (a.sec * Second + a.usec)
<1> DEFINE b == [sec |-> t \div Second, usec |-> t % Second]
           d == Elapsed(a, b)
           D == b.sec - a.sec
<1> SUFFICES d \in [sec : Int, usec : Nat] /\ d.usec <= Second
             /\ d.sec * Second + d.usec = t - (a.sec * Second + a.usec)
  OBVIOUS
<1>1. /\ b.sec \in Nat /\ b.usec \in Nat /\ b.usec < Second
      /\ b.sec * Second + b.usec = t
  BY DivMod
<1>2. Second \in Nat \ {0}
  BY ProfileAssumption
<1>3. a.sec \in Nat /\ a.usec \in Nat
  OBVIOUS
<1> HIDE DEF b
<1>4. /\ D * Second = b.sec * Second - a.sec * Second
      /\ b.sec * Second \in Int /\ a.sec * Second \in Int /\ D \in Int
  <2>1. b.sec \in Int /\ a.sec \in Int /\ D \in Int
    BY <1>1, <1>3
  <2> QED
    BY <2>1, Distribute
<1> HIDE DEF D
<1>5. (D - 1) * Second = D * Second - Second /\ D * Second \in Int /\ (D - 1) * Second \in Int
  <2>1. D \in Int /\ D - 1 \in Int
    BY <1>4
  <2> QED
    BY <2>1, Distribute
<1>6. CASE b.usec > a.usec
  <2>1. d = [sec |-> D, usec |-> b.usec - a.usec]
    BY <1>6 DEF Elapsed, D
  <2> HIDE DEF d
  <2> QED
    BY <1>1, <1>2, <1>3, <1>4, <1>5, <1>6, <2>1
<1>7. CASE ~(b.usec > a.usec)
  <2>1. d = [sec |-> D - 1, usec |-> Second + b.usec - a.usec]
    BY <1>7 DEF Elapsed, D
  <2> HIDE DEF d
  <2>2. d.sec = D - 1 /\ d.usec = Second + b.usec - a.usec
    BY <2>1
  <2>3. d.usec \in Nat /\ d.usec <= Second
    BY <1>1, <1>2, <1>3, <1>7, <2>2
  <2>4. d.sec * Second + d.usec = t - (a.sec * Second + a.usec)
    BY <1>1, <1>2, <1>3, <1>4, <1>5, <2>2
  <2>5. d \in [sec : Int, usec : Nat]
    BY <1>4, <2>1, <2>2, <2>3
  <2> QED
    BY <2>3, <2>4, <2>5
<1> QED
  BY <1>6, <1>7

(* An item's total grows by the time that is added, and keeps its form. *)
LEMMA TotalExact ==
  ASSUME NEW i \in [cnt_call : Nat, sec : Nat, usec : Nat], i.usec < Second,
         NEW d \in [sec : Int, usec : Nat], d.usec <= Second,
         NEW x \in Nat, d.sec * Second + d.usec = x
  PROVE  /\ Total(i, d) \in [cnt_call : Nat, sec : Nat, usec : Nat]
         /\ Total(i, d).usec < Second
         /\ Total(i, d).sec * Second + Total(i, d).usec = i.sec * Second + i.usec + x
<1> DEFINE s == i.sec + d.sec
           m == i.usec + d.usec
           r == Total(i, d)
<1>1. /\ s \in Int /\ m \in Nat /\ m < 2 * Second /\ Second \in Nat \ {0}
      /\ i.sec \in Nat /\ i.usec \in Nat /\ d.sec \in Int /\ d.usec \in Nat
  BY ProfileAssumption
<1>2. s * Second = i.sec * Second + d.sec * Second /\ i.sec * Second \in Nat /\ d.sec * Second \in Int
  BY <1>1, Distribute
<1>3. s * Second + m = i.sec * Second + i.usec + x /\ s * Second \in Int
  BY <1>1, <1>2
<1>4. (s + 1) * Second = s * Second + Second
  BY <1>1, Distribute
<1>5. CASE Second <= m
  <2>1. r = [cnt_call |-> i.cnt_call, sec |-> s + 1, usec |-> m - Second]
    BY <1>5 DEF Total
  <2> HIDE DEF r, s, m
  <2>2. s + 1 >= 0
    <3>1. (s + 1) * Second + (m - Second) >= 0 /\ m - Second < Second /\ s + 1 \in Int /\ m - Second \in Int
      BY <1>1, <1>2, <1>3, <1>4, <1>5
    <3> QED
      BY <3>1, SignOf
  <2>3. r.sec = s + 1 /\ r.usec = m - Second /\ r.cnt_call = i.cnt_call
    BY <2>1
  <2>4. r \in [cnt_call : Nat, sec : Nat, usec : Nat]
    BY <1>1, <1>5, <2>1, <2>2
  <2> QED
    BY <1>1, <1>2, <1>3, <1>4, <1>5, <2>3, <2>4 DEF r
<1>6. CASE ~(Second <= m)
  <2>1. r = [cnt_call |-> i.cnt_call, sec |-> s, usec |-> m]
    BY <1>6 DEF Total
  <2> HIDE DEF r, s, m
  <2>2. s >= 0
    <3>1. s * Second + m >= 0 /\ m < Second
      BY <1>1, <1>2, <1>3, <1>6
    <3> QED
      BY <1>1, <3>1, SignOf
  <2>3. r.sec = s /\ r.usec = m /\ r.cnt_call = i.cnt_call
    BY <2>1
  <2>4. r \in [cnt_call : Nat, sec : Nat, usec : Nat]
    BY <1>1, <2>1, <2>2
  <2> QED
    BY <1>1, <1>2, <1>3, <1>6, <2>3, <2>4 DEF r
<1> QED
  BY <1>5, <1>6

-----------------------------------------------------------------------------
(* A profile begins with nothing measured. *)
THEOREM InitGood == Init => IInv
<1> SUFFICES ASSUME Init PROVE IInv
  OBVIOUS
<1>1. TypeOK /\ heap \subseteq Entries /\ lastE \in heap \cup {NULL}
  BY ProfileAssumption DEF Init, TypeOK, NoItems, NoEntry
<1>2. TotalsGood
  BY DEF Init, TotalsGood, NoItems
<1>3. Open({})
  BY DEF Init, Open
<1> QED
  BY <1>1, <1>2, <1>3 DEF IInv

(* Neither the lists nor the totals. *)
LEMMA QuietKeeps ==
  ASSUME IInv, UNCHANGED <<maxL, root, lastI, lastE, entry, heap, spent>>,
         curL' \in Nat, curL' >= curL, now' \in Nat, now' >= now
  PROVE  IInv'
<1>1. TypeOK' /\ heap' \subseteq Entries /\ lastE' \in heap' \cup {NULL}
  BY DEF IInv, TypeOK
<1>2. TotalsGood'
  BY DEF IInv, TotalsGood
<1>3. PICK U \in SUBSET Entries : Open(U)
  BY DEF IInv
<1>4. Open(U)'
  <2>1. \A e \in U : entry[e].usec \in Nat /\ entry[e].sec \in Nat /\ entry[e].sec * Second + entry[e].usec \in Int
    BY <1>3, ProfileAssumption DEF IInv, TypeOK, Open
  <2>2. lastI # NULL => entry[lastI].level \in Nat
    BY DEF IInv, TypeOK
  <2> QED
    BY <1>3, <2>1, <2>2 DEF Open, IInv, TypeOK
<1> QED
  BY <1>1, <1>2, <1>4 DEF IInv

\* tl_profile_start: the new entry is open, below the ones it was started in.
LEMMA StartKeeps ==
  ASSUME IInv, NEW f \in Func, NEW e \in Entries, Start(f, e)
  PROVE  IInv'
<1>1. /\ e \notin heap /\ curL' = curL + 1 /\ curL \in Nat
      /\ root' = [g \in DOMAIN root \cup {f} |->
                    IF g = f THEN [Item(f) EXCEPT !.cnt_call = @ + 1] ELSE root[g]]
      /\ entry' = [entry EXCEPT ![e] = [func |-> f, level |-> curL + 1, sec |-> now \div Second,
                                        usec |-> now % Second, next |-> lastI]]
      /\ heap' = heap \cup {e} /\ lastI' = e
      /\ UNCHANGED <<maxL, lastE, now, spent>>
  BY DEF Start, IInv, TypeOK
<1>2. TypeOK
  BY DEF IInv
<1>3. /\ now \in Nat /\ now \div Second \in Nat /\ now % Second \in Nat /\ now % Second < Second
      /\ (now \div Second) * Second + (now % Second) = now
  BY <1>2, DivMod DEF TypeOK
<1>4. Item(f) \in [cnt_call : Nat, sec : Nat, usec : Nat]
  BY <1>2 DEF Item, TypeOK
<1>5. root' \in [DOMAIN root \cup {f} -> [cnt_call : Nat, sec : Nat, usec : Nat]]
  BY <1>1, <1>2, <1>4 DEF TypeOK
<1>6. TypeOK' /\ heap' \subseteq Entries /\ lastE' \in heap' \cup {NULL}
  <2>1. entry' \in [Entries -> [func : Func \cup {NULL}, level : Nat, sec : Int, usec : Nat,
                                next : Entries \cup {NULL}]]
    BY <1>1, <1>2, <1>3 DEF TypeOK
  <2>2. DOMAIN root' \subseteq Func
    BY <1>1, <1>2 DEF TypeOK
  <2> QED
    BY <1>1, <1>2, <1>5, <2>1, <2>2 DEF TypeOK, IInv
<1>7. TotalsGood'
  <2>1. /\ root'[f].sec = Item(f).sec /\ root'[f].usec = Item(f).usec
        /\ \A g \in DOMAIN root : g # f => root'[g] = root[g]
        /\ DOMAIN root' = DOMAIN root \cup {f}
    BY <1>1, <1>4
  <2>2. root'[f].usec < Second /\ root'[f].sec * Second + root'[f].usec = spent[f]
    BY <1>2, <2>1, ProfileAssumption DEF Item, IInv, TotalsGood
  <2> QED
    BY <1>1, <2>1, <2>2 DEF IInv, TotalsGood
<1>8. PICK U \in SUBSET Entries : Open(U)
  BY DEF IInv
<1>9. Open(U \cup {e})'
  <2>1. e \notin U /\ e # NULL /\ lastE # e /\ lastI # e
    BY <1>1, <1>8, ProfileAssumption DEF Open, IInv
  <2>2. /\ entry'[e] = [func |-> f, level |-> curL + 1, sec |-> now \div Second,
                        usec |-> now % Second, next |-> lastI]
        /\ \A x \in Entries : x # e => entry'[x] = entry[x]
        /\ f \in DOMAIN root' /\ DOMAIN root \subseteq DOMAIN root'
    BY <1>1, <1>2 DEF TypeOK
  <2>3. \A x \in U : entry[x].level \in Nat /\ entry[x].level <= curL
    <3> SUFFICES ASSUME NEW x \in U PROVE entry[x].level \in Nat /\ entry[x].level <= curL
      OBVIOUS
    <3>1. lastI # NULL /\ entry[x].level <= entry[lastI].level /\ entry[lastI].level <= curL
          /\ lastI \in U /\ entry[x].level \in Nat /\ entry[lastI].level \in Nat
      <4>1. x \in Entries /\ entry[x].level \in Nat
        BY <1>2 DEF TypeOK
      <4>2. x # lastI => lastI # NULL /\ entry[x].level < entry[lastI].level
        BY <1>8 DEF Open
      <4>3. lastI # NULL
        BY <4>1, <4>2, ProfileAssumption
      <4>4. lastI \in U /\ entry[lastI].level <= curL /\ entry[lastI].level \in Nat
        BY <1>2, <1>8, <4>3 DEF Open, TypeOK
      <4> QED
        BY <4>1, <4>2, <4>3, <4>4
    <3> QED
      BY <1>1, <3>1
  <2>4. \A x \in U : /\ x # e /\ entry'[x].level < entry'[e].level
                     /\ entry'[x].next \in U \cup {NULL}
                     /\ entry'[x].next # NULL => entry'[entry'[x].next].level < entry'[x].level
                     /\ entry'[x].level > 0 /\ entry'[x].func \in DOMAIN root'
                     /\ entry'[x].sec \in Nat /\ entry'[x].usec < Second
                     /\ entry'[x].sec * Second + entry'[x].usec <= now'
    BY <1>1, <1>8, <2>1, <2>2, <2>3 DEF Open
  <2>5. /\ entry'[e].next \in U \cup {NULL}
        /\ entry'[e].next # NULL => entry'[entry'[e].next].level < entry'[e].level
        /\ entry'[e].level > 0 /\ entry'[e].level <= curL' /\ entry'[e].func \in DOMAIN root'
        /\ entry'[e].sec \in Nat /\ entry'[e].usec < Second
        /\ entry'[e].sec * Second + entry'[e].usec <= now'
    BY <1>1, <1>3, <1>8, <2>1, <2>2, <2>3 DEF Open
  <2>6. U \cup {e} \subseteq heap' /\ lastE' \notin U \cup {e} /\ lastI' \in U \cup {e} \cup {NULL}
    BY <1>1, <1>8, <2>1 DEF Open
  <2> QED
    BY <1>1, <2>1, <2>4, <2>5, <2>6 DEF Open
<1> QED
  BY <1>6, <1>7, <1>8, <1>9 DEF IInv

\* What is left of U when lastI leaves the list: the entries from the next one on.
Rest(U) == {x \in U : x = entry[lastI].next
                      \/ (entry[lastI].next # NULL /\ entry[x].level < entry[entry[lastI].next].level)}

\* What is left of the open entries when the last of them ends.
LEMMA RestGood ==
  ASSUME TypeOK, NEW U \in SUBSET Entries, Open(U), lastI # NULL
  PROVE  LET n == entry[lastI].next
         IN  /\ Rest(U) \subseteq U /\ lastI \notin Rest(U) /\ n # lastI
             /\ n \in Rest(U) \cup {NULL}
             /\ n # NULL => entry[n].level < entry[lastI].level
             /\ \A e \in Rest(U) :
                  /\ e # n => n # NULL /\ entry[e].level < entry[n].level
                  /\ entry[e].next \in Rest(U) \cup {NULL}
<1> DEFINE n == entry[lastI].next
<1>1. /\ lastI \in U /\ lastI \in Entries /\ n \in U \cup {NULL}
      /\ n # NULL => entry[n].level < entry[lastI].level
      /\ \A e \in U : entry[e].level \in Nat
  BY DEF Open, TypeOK
<1>2. n # lastI /\ lastI \notin Rest(U)
  BY <1>1, ProfileAssumption DEF Rest
<1>3. \A e \in Rest(U) : /\ e # n => n # NULL /\ entry[e].level < entry[n].level
                         /\ entry[e].next \in Rest(U) \cup {NULL}
  <2> SUFFICES ASSUME NEW e \in Rest(U)
               PROVE  /\ e # n => n # NULL /\ entry[e].level < entry[n].level
                      /\ entry[e].next \in Rest(U) \cup {NULL}
    OBVIOUS
  <2>1. e \in U /\ (e = n \/ (n # NULL /\ entry[e].level < entry[n].level))
    BY DEF Rest
  <2>2. n \in U /\ n # NULL
    BY <1>1, <2>1, ProfileAssumption
  <2>3. CASE entry[e].next = NULL
    BY <2>1, <2>3
  <2>4. CASE entry[e].next # NULL
    <3>1. entry[e].next \in U /\ entry[entry[e].next].level < entry[e].level
      BY <2>1, <2>4 DEF Open
    <3>2. entry[entry[e].next].level < entry[n].level
      BY <1>1, <2>1, <2>2, <3>1
    <3> QED
      BY <2>1, <2>2, <3>1, <3>2 DEF Rest
  <2> QED
    BY <2>3, <2>4
<1>4. n \in Rest(U) \cup {NULL} /\ Rest(U) \subseteq U
  BY <1>1 DEF Rest
<1> QED
  BY <1>1, <1>2, <1>3, <1>4

\* tl_profile_end: the time goes to the entry that lastI is at, and to no other.
LEMMA EndKeeps ==
  ASSUME IInv, End
  PROVE  IInv'
<1> DEFINE a == [sec |-> entry[lastI].sec, usec |-> entry[lastI].usec]
           f == entry[lastI].func
           n == entry[lastI].next
           t == Elapsed(entry[lastI], [sec |-> now \div Second, usec |-> now % Second])
           x == now - (entry[lastI].sec * Second + entry[lastI].usec)
<1>1. /\ lastI # NULL /\ curL = entry[lastI].level /\ curL' = curL - 1
      /\ root' = [root EXCEPT ![f] = Total(@, t)]
      /\ entry' = Logged(t)
      /\ lastI' = n /\ lastE' = lastI
      /\ spent' = [spent EXCEPT ![f] = @ + now - (entry[lastI].sec * Second + entry[lastI].usec)]
      /\ UNCHANGED <<maxL, heap, now>>
  BY DEF End, end
<1>2. TypeOK /\ TotalsGood /\ lastE \in heap \cup {NULL} /\ heap \subseteq Entries
  BY DEF IInv
<1>3. PICK U \in SUBSET Entries : Open(U)
  BY DEF IInv
<1>4. /\ lastI \in U /\ lastI \in Entries /\ lastE \notin U
      /\ f \in DOMAIN root /\ f \in Func
      /\ entry[lastI].sec \in Nat /\ entry[lastI].usec \in Nat /\ entry[lastI].usec < Second
      /\ entry[lastI].sec * Second + entry[lastI].usec <= now
      /\ now \in Nat /\ entry[lastI].level \in Nat /\ entry[lastI].level > 0
  BY <1>1, <1>2, <1>3 DEF Open, TypeOK
<1>5. /\ t \in [sec : Int, usec : Nat] /\ t.usec <= Second
      /\ t.sec * Second + t.usec = x
  <2>1. t = Elapsed(a, [sec |-> now \div Second, usec |-> now % Second])
    BY DEF Elapsed
  <2>2. a \in [sec : Nat, usec : Nat] /\ a.usec < Second /\ a.sec = entry[lastI].sec
        /\ a.usec = entry[lastI].usec
    BY <1>4
  <2> HIDE DEF a, t
  <2> QED
    BY <1>4, <2>1, <2>2, ElapsedExact
<1>6. x \in Nat
  BY <1>4, Distribute, ProfileAssumption
<1> HIDE DEF t, x
<1>7. /\ root[f] \in [cnt_call : Nat, sec : Nat, usec : Nat] /\ root[f].usec < Second
      /\ root[f].sec * Second + root[f].usec = spent[f]
      /\ spent[f] \in Nat
  BY <1>2, <1>4 DEF TypeOK, TotalsGood
<1>8. /\ Total(root[f], t) \in [cnt_call : Nat, sec : Nat, usec : Nat]
      /\ Total(root[f], t).usec < Second
      /\ Total(root[f], t).sec * Second + Total(root[f], t).usec = spent[f] + x
  BY <1>5, <1>6, <1>7, TotalExact
<1>9. /\ DOMAIN root' = DOMAIN root /\ root'[f] = Total(root[f], t)
      /\ \A g \in DOMAIN root : g # f => root'[g] = root[g]
  BY <1>1, <1>2, <1>4 DEF TypeOK
<1>10. spent' = [spent EXCEPT ![f] = spent[f] + x]
  BY <1>1, <1>2, <1>4, <1>7 DEF TypeOK, x
<1>11. /\ \A e \in Entries : e # lastI /\ e # lastE => entry'[e] = entry[e]
       /\ entry' \in [Entries -> [func : Func \cup {NULL}, level : Nat, sec : Int, usec : Nat,
                                  next : Entries \cup {NULL}]]
  <2> DEFINE E == [entry EXCEPT ![lastI].sec = t.sec, ![lastI].usec = t.usec, ![lastI].next = NULL]
             r == [entry[lastI] EXCEPT !.sec = t.sec, !.usec = t.usec, !.next = NULL]
  <2>1. E = [entry EXCEPT ![lastI] = r]
    BY <1>2, <1>4 DEF TypeOK
  <2>2. r \in [func : Func \cup {NULL}, level : Nat, sec : Int, usec : Nat,
               next : Entries \cup {NULL}]
    <3>1. entry[lastI] \in [func : Func \cup {NULL}, level : Nat, sec : Int, usec : Nat,
                            next : Entries \cup {NULL}]
      BY <1>2, <1>4 DEF TypeOK
    <3>2. t.sec \in Int /\ t.usec \in Nat
      BY <1>5
    <3> QED
      BY <3>1, <3>2
  <2> HIDE DEF r
  <2>3. /\ E \in [Entries -> [func : Func \cup {NULL}, level : Nat, sec : Int, usec : Nat,
                              next : Entries \cup {NULL}]]
        /\ \A e \in Entries : e # lastI => E[e] = entry[e]
    BY <1>2, <1>4, <2>1, <2>2 DEF TypeOK
  <2>4. entry' = IF lastE = NULL THEN E ELSE [E EXCEPT ![lastE].next = lastI]
    BY <1>1 DEF Logged
  <2> HIDE DEF E
  <2> QED
    BY <1>2, <1>4, <2>3, <2>4
<1>12. TypeOK' /\ heap' \subseteq Entries /\ lastE' \in heap' \cup {NULL}
  <2>1. root' \in [DOMAIN root' -> [cnt_call : Nat, sec : Nat, usec : Nat]]
    BY <1>1, <1>2, <1>4, <1>8, <1>9 DEF TypeOK
  <2>2. spent' \in [Func -> Nat] /\ n \in Entries \cup {NULL} /\ curL' \in Nat
    BY <1>1, <1>2, <1>4, <1>6, <1>7, <1>10 DEF TypeOK
  <2> QED
    BY <1>1, <1>2, <1>3, <1>4, <1>9, <1>11, <2>1, <2>2 DEF TypeOK, Open
<1>13. TotalsGood'
  <2>1. spent'[f] = spent[f] + x /\ \A g \in Func : g # f => spent'[g] = spent[g]
    BY <1>2, <1>4, <1>10 DEF TypeOK
  <2> QED
    BY <1>2, <1>4, <1>8, <1>9, <2>1 DEF TotalsGood, TypeOK
<1>14. \E R \in SUBSET Entries : Open(R)'
  <2>1. PICK R \in SUBSET Entries :
        /\ R \subseteq U /\ lastI \notin R /\ n # lastI
        /\ n \in R \cup {NULL}
        /\ n # NULL => entry[n].level < entry[lastI].level
        /\ \A e \in R : /\ e # n => n # NULL /\ entry[e].level < entry[n].level
                        /\ entry[e].next \in R \cup {NULL}
    <3>1. Rest(U) \in SUBSET Entries
      BY DEF Rest
    <3> QED
      BY <1>1, <1>2, <1>3, <3>1, RestGood
  <2>2. \A e \in R : entry'[e] = entry[e] /\ e \in U /\ e \in Entries
    BY <1>4, <1>11, <2>1
  <2>3. n # NULL => entry'[n].level <= curL'
    <3> SUFFICES ASSUME n # NULL PROVE entry'[n].level <= curL'
      OBVIOUS
    <3>1. entry'[n] = entry[n] /\ n \in Entries /\ entry[n].level \in Nat
      BY <1>2, <2>1, <2>2 DEF TypeOK
    <3> QED
      BY <1>1, <1>4, <2>1, <3>1
  <2>4. \A e \in R :
          /\ e # n => n # NULL /\ entry'[e].level < entry'[n].level
          /\ entry'[e].next \in R \cup {NULL}
          /\ entry'[e].next # NULL => entry'[entry'[e].next].level < entry'[e].level
          /\ entry'[e].level > 0 /\ entry'[e].func \in DOMAIN root'
          /\ entry'[e].sec \in Nat /\ entry'[e].usec < Second
          /\ entry'[e].sec * Second + entry'[e].usec <= now'
    BY <1>1, <1>3, <1>9, <2>1, <2>2 DEF Open
  <2>5. R \subseteq heap' /\ lastE' \notin R /\ lastI' \in R \cup {NULL}
    BY <1>1, <1>3, <2>1 DEF Open
  <2>6. Open(R)'
    BY <1>1, <2>3, <2>4, <2>5 DEF Open
  <2> QED
    BY <2>6
<1> QED
  BY <1>12, <1>13, <1>14 DEF IInv

\* An end that a missed start brings about frees the entry around it, and times nothing.
LEMMA LosesKeeps ==
  ASSUME IInv, EndLoses
  PROVE  IInv'
<1> DEFINE n == entry[lastI].next
<1>1. /\ lastI # NULL /\ curL > entry[lastI].level /\ lastI' = n
      /\ heap' = heap \ {lastI} /\ entry' = [entry EXCEPT ![lastI] = NoEntry]
      /\ UNCHANGED <<maxL, curL, root, lastE, now, spent>>
  BY DEF EndLoses, end
<1>2. TypeOK /\ TotalsGood /\ lastE \in heap \cup {NULL} /\ heap \subseteq Entries
  BY DEF IInv
<1>3. PICK U \in SUBSET Entries : Open(U)
  BY DEF IInv
<1>4. lastI \in U /\ lastI \in Entries /\ lastE # lastI
  BY <1>1, <1>3 DEF Open
<1>5. TypeOK' /\ heap' \subseteq Entries /\ lastE' \in heap' \cup {NULL}
  <2>1. NoEntry \in [func : Func \cup {NULL}, level : Nat, sec : Int, usec : Nat,
                     next : Entries \cup {NULL}]
    BY DEF NoEntry
  <2>2. entry' \in [Entries -> [func : Func \cup {NULL}, level : Nat, sec : Int, usec : Nat,
                                next : Entries \cup {NULL}]]
    BY <1>1, <1>2, <1>4, <2>1 DEF TypeOK
  <2>3. n \in Entries \cup {NULL}
    BY <1>2, <1>4 DEF TypeOK
  <2> QED
    BY <1>1, <1>2, <1>4, <2>2, <2>3 DEF TypeOK
<1>6. TotalsGood'
  BY <1>1, <1>2 DEF TotalsGood
<1>7. \E R \in SUBSET Entries : Open(R)'
  <2>1. PICK R \in SUBSET Entries :
        /\ R \subseteq U /\ lastI \notin R /\ n # lastI
        /\ n \in R \cup {NULL}
        /\ n # NULL => entry[n].level < entry[lastI].level
        /\ \A e \in R : /\ e # n => n # NULL /\ entry[e].level < entry[n].level
                        /\ entry[e].next \in R \cup {NULL}
    <3>1. Rest(U) \in SUBSET Entries
      BY DEF Rest
    <3> QED
      BY <1>1, <1>2, <1>3, <3>1, RestGood
  <2>2. \A e \in R : entry'[e] = entry[e] /\ e \in U /\ e \in Entries
    BY <1>1, <1>2, <1>4, <2>1 DEF TypeOK
  <2>3. n # NULL => entry'[n].level <= curL'
    <3> SUFFICES ASSUME n # NULL PROVE entry'[n].level <= curL'
      OBVIOUS
    <3>1. entry'[n] = entry[n] /\ n \in Entries /\ entry[n].level \in Nat
          /\ entry[lastI].level \in Nat /\ curL \in Nat
      BY <1>2, <1>4, <2>1, <2>2 DEF TypeOK
    <3> QED
      BY <1>1, <2>1, <3>1
  <2>4. \A e \in R :
          /\ e # n => n # NULL /\ entry'[e].level < entry'[n].level
          /\ entry'[e].next \in R \cup {NULL}
          /\ entry'[e].next # NULL => entry'[entry'[e].next].level < entry'[e].level
          /\ entry'[e].level > 0 /\ entry'[e].func \in DOMAIN root'
          /\ entry'[e].sec \in Nat /\ entry'[e].usec < Second
          /\ entry'[e].sec * Second + entry'[e].usec <= now'
    BY <1>1, <1>3, <2>1, <2>2 DEF Open
  <2>5. R \subseteq heap' /\ lastE' \notin R /\ lastI' \in R \cup {NULL}
    BY <1>1, <1>3, <2>1 DEF Open
  <2> QED
    BY <1>1, <2>3, <2>4, <2>5 DEF Open
<1> QED
  BY <1>5, <1>6, <1>7 DEF IInv

\* tl_profile_destroy leaves no entry open and no total.
LEMMA DestroyKeeps ==
  ASSUME IInv, Destroy
  PROVE  IInv'
<1>1. TypeOK /\ heap \subseteq Entries
  BY DEF IInv
<1>2. TypeOK' /\ heap' \subseteq Entries /\ lastE' \in heap' \cup {NULL}
  BY <1>1 DEF Destroy, TypeOK, NoItems, NoEntry
<1>3. TotalsGood'
  BY DEF Destroy, TotalsGood, NoItems
<1>4. Open({})'
  BY ProfileAssumption DEF Destroy, Open
<1> QED
  BY <1>2, <1>3, <1>4 DEF IInv

(* The invariant is inductive: one lemma per action that writes a list or a total. *)
THEOREM NextKeeps == IInv /\ [Next]_vars => IInv'
<1> SUFFICES ASSUME IInv, [Next]_vars PROVE IInv'
  OBVIOUS
<1>1. now \in Nat /\ curL \in Nat
  BY DEF IInv, TypeOK
<1>2. CASE Tick
  BY <1>1, <1>2, QuietKeeps DEF Tick
<1>3. CASE ProfileInit \/ InitCrashes \/ StartCrashes \/ EndOfNothing \/ DestroyCrashes
  BY <1>1, <1>3, QuietKeeps DEF ProfileInit, InitCrashes, StartCrashes, EndOfNothing, DestroyCrashes
<1>4. CASE StartIgnored
  BY <1>1, <1>4, QuietKeeps DEF StartIgnored
<1>5. CASE \E f \in Func, e \in Entries : Start(f, e)
  BY <1>5, StartKeeps
<1>6. CASE End
  BY <1>6, EndKeeps
<1>7. CASE EndLoses
  BY <1>7, LosesKeeps
<1>8. CASE Destroy
  BY <1>8, DestroyKeeps
<1>9. CASE UNCHANGED vars
  BY <1>1, <1>9, QuietKeeps DEF vars
<1> QED
  BY <1>2, <1>3, <1>4, <1>5, <1>6, <1>7, <1>8, <1>9 DEF Next

(* Every field holds what its declaration says, whatever the calls: a name of an
   item for a measurement, levels that are not negative, microseconds that are not. *)
THEOREM TypeCorrect == Spec => []TypeOK
<1>1. IInv => TypeOK
  BY DEF IInv
<1> QED
  BY <1>1, InitGood, NextKeeps, PTL DEF Spec

(* The total of a name is the time that its measurements took that have ended, with
   its microseconds below a second: tl_profile_end reads in the entry of lastI the
   time of the start it belongs to, and borrows and carries rightly. *)
THEOREM Totals == Spec => []TotalsExact
<1>1. IInv => TotalsExact
  BY DEF IInv, TotalsGood, TotalsExact
<1> QED
  BY <1>1, InitGood, NextKeeps, PTL DEF Spec

-----------------------------------------------------------------------------
(* A set of numbers has a least one. *)
LEMMA LeastNumber ==
  ASSUME NEW S, S \subseteq Nat, S # {}
  PROVE  \E x \in S : \A y \in S : x <= y
<1> DEFINE R == OpToRel(<, Nat)
<1>1. IsWellFoundedOn(R, Nat)
  BY NatLessThanWellFounded, Zenon
<1>2. \A x, y \in Nat : <<y, x>> \in R <=> y < x
  BY DEF OpToRel
<1> HIDE DEF R
<1>3. PICK x \in S : \A y \in S : ~ (<<y, x>> \in R)
  BY <1>1, WFMin, Zenon
<1>4. \A y \in S : ~(y < x)
  BY <1>2, <1>3, Zenon
<1> HIDE <1>1, <1>2, <1>3
<1> QED
  BY <1>4

(* Induction up to a bound. *)
LEMMA UpToBound ==
  ASSUME NEW n \in Nat, NEW P, 0 \in P, \A m \in 0 .. n - 1 : m \in P => m + 1 \in P
  PROVE  \A m \in 0 .. n : m \in P
<1> SUFFICES ASSUME (0 .. n) \ P # {} PROVE FALSE
  OBVIOUS
<1> DEFINE C == (0 .. n) \ P
<1>1. C \subseteq Nat /\ C # {}
  OBVIOUS
<1>2. PICK m \in C : \A i \in C : m <= i
  <2> HIDE DEF C
  <2> QED
    BY <1>1, LeastNumber
<1>3. m # 0 /\ m - 1 \in 0 .. n - 1 /\ m - 1 \notin C
  BY <1>2
<1>4. m - 1 \in P /\ (m - 1) + 1 = m
  BY <1>3
<1> QED
  BY <1>2, <1>3, <1>4

Links == [func : Func \cup {NULL}, level : Nat, sec : Int, usec : Nat,
          next : Entries \cup {NULL}]
Memory == [Entries -> Links]

\* The entries q are those from e on, each once.
IsList(E, e, q) ==
  /\ q \in Seq(Entries)
  /\ e = (IF q = <<>> THEN NULL ELSE q[1])
  /\ \A i \in 1 .. Len(q) : E[q[i]].next = IF i = Len(q) THEN NULL ELSE q[i + 1]
  /\ \A i, j \in 1 .. Len(q) : q[i] = q[j] => i = j

\* A step of the recursive function in Chain(e).
Longer(E, h, n) ==
  [x \in Entries \cup {NULL} |->
     IF x = NULL \/ n = 0 THEN <<>> ELSE <<x>> \o h[E[x].next]]
Chains(f, E, C) == f = [n \in 0 .. C |-> Longer(E, f[n - 1], n)]
ListFrom(E, e) == (CHOOSE f : Chains(f, E, Cardinality(Entries)))[Cardinality(Entries)][e]

(* There is such a function. *)
LEMMA ChainsExist ==
  ASSUME NEW E, NEW C \in Nat
  PROVE  \E f : Chains(f, E, C)
<1> DEFINE P == {m \in 0 .. C : \E f : Chains(f, E, m)}
<1>1. 0 \in P
  <2> DEFINE none == [y \in Entries \cup {NULL} |-> <<>>]
             f == [n \in 0 .. 0 |-> none]
  <2>1. \A h : Longer(E, h, 0) = none
    BY DEF Longer
  <2> HIDE DEF none
  <2>2. \A n \in 0 .. 0 : f[n] = Longer(E, f[n - 1], n)
    BY <2>1
  <2>3. Chains(f, E, 0)
    BY <2>2 DEF Chains
  <2> QED
    BY <2>3
<1>2. ASSUME NEW m \in 0 .. C - 1, m \in P PROVE m + 1 \in P
  <2>1. PICK f : Chains(f, E, m)
    BY <1>2
  <2> DEFINE g == [n \in 0 .. m + 1 |-> IF n = m + 1 THEN Longer(E, f[m], n) ELSE f[n]]
  <2>2. \A n \in 0 .. m : f[n] = Longer(E, f[n - 1], n)
    BY <2>1 DEF Chains
  <2>3. ASSUME NEW n \in 0 .. m + 1 PROVE g[n] = Longer(E, g[n - 1], n)
    <3>1. CASE n = 0
      <4>1. g[0] = Longer(E, f[0 - 1], 0)
        BY <2>2
      <4>2. Longer(E, f[0 - 1], 0) = Longer(E, g[0 - 1], 0)
        BY DEF Longer
      <4> QED
        BY <3>1, <4>1, <4>2
    <3>2. CASE n \in 1 .. m
      <4>1. g[n] = f[n] /\ g[n - 1] = f[n - 1] /\ n \in 0 .. m
        BY <3>2
      <4> HIDE DEF g
      <4> QED
        BY <2>2, <4>1
    <3>3. CASE n = m + 1
      <4>1. g[m + 1] = Longer(E, f[m], m + 1) /\ g[(m + 1) - 1] = f[m]
        OBVIOUS
      <4> HIDE DEF g
      <4> QED
        BY <3>3, <4>1
    <3> QED
      BY <3>1, <3>2, <3>3
  <2>4. g = [n \in 0 .. m + 1 |-> g[n]]
    OBVIOUS
  <2> HIDE DEF g
  <2>5. Chains(g, E, m + 1)
    BY <2>3, <2>4 DEF Chains
  <2> QED
    BY <2>5
<1> HIDE DEF P
<1>3. \A m \in 0 .. C : m \in P
  BY <1>1, <1>2, UpToBound
<1>4. C \in P
  BY <1>3
<1> QED
  BY <1>4 DEF P

(* A list is no longer than there are entries. *)
LEMMA ListShort ==
  ASSUME NEW E, NEW e, NEW q, IsList(E, e, q)
  PROVE  Len(q) \in Nat /\ Len(q) <= Cardinality(Entries)
<1>1. q \in Seq(Entries) /\ \A i, j \in 1 .. Len(q) : q[i] = q[j] => i = j
  BY DEF IsList
<1>2. Len(q) \in Nat /\ q \in [1 .. Len(q) -> Entries]
  BY <1>1
<1>3. q \in Injection(1 .. Len(q), Entries)
  BY <1>1, <1>2 DEF Injection, IsInjective
<1>4. Cardinality(1 .. Len(q)) <= Cardinality(Entries)
  BY <1>3, ProfileAssumption, FS_Injection
<1>5. Cardinality(1 .. Len(q)) = Len(q)
  BY <1>2, FS_Interval
<1> QED
  BY <1>2, <1>4, <1>5

\* The i-th entry of q, or NULL after the last, and the list from there on.
At(q, i) == IF i = Len(q) + 1 THEN NULL ELSE q[i]
From(q, i) == [j \in 1 .. Len(q) + 1 - i |-> q[i + j - 1]]

(* A list is an entry and those after it. *)
LEMMA FromIs ==
  ASSUME NEW q \in Seq(Entries)
  PROVE  /\ From(q, 1) = q /\ From(q, Len(q) + 1) = <<>>
         /\ \A i \in 1 .. Len(q) : <<q[i]>> \o From(q, i + 1) = From(q, i)
<1>1. Len(q) \in Nat /\ \A i \in 1 .. Len(q) : q[i] \in Entries
  OBVIOUS
<1>2. ASSUME NEW i \in 1 .. Len(q) + 1
      PROVE  From(q, i) \in Seq(Entries) /\ Len(From(q, i)) = Len(q) + 1 - i
             /\ \A j \in 1 .. Len(q) + 1 - i : From(q, i)[j] = q[i + j - 1]
  <2>1. Len(q) + 1 - i \in Nat /\ \A j \in 1 .. Len(q) + 1 - i : q[i + j - 1] \in Entries
    BY <1>1
  <2> QED
    BY <2>1, IsASeq DEF From
<1>3. From(q, 1) = q
  BY <1>1, <1>2, SeqEqual
<1>4. From(q, Len(q) + 1) = <<>>
  BY <1>1, <1>2
<1>5. ASSUME NEW i \in 1 .. Len(q) PROVE <<q[i]>> \o From(q, i + 1) = From(q, i)
  <2> DEFINE s == From(q, i + 1)
             t == From(q, i)
             r == <<q[i]>>
  <2>1. /\ s \in Seq(Entries) /\ Len(s) = Len(q) - i
        /\ \A j \in 1 .. Len(q) - i : s[j] = q[i + j]
    BY <1>1, <1>2
  <2>2. /\ t \in Seq(Entries) /\ Len(t) = Len(q) + 1 - i
        /\ \A j \in 1 .. Len(q) + 1 - i : t[j] = q[i + j - 1]
    BY <1>1, <1>2
  <2>3. r \in Seq(Entries) /\ Len(r) = 1 /\ r[1] = q[i]
    BY <1>1
  <2> HIDE DEF s, t, r
  <2>4. /\ r \o s \in Seq(Entries) /\ Len(r \o s) = 1 + Len(s)
        /\ \A j \in 1 .. 1 + Len(s) : (r \o s)[j] = IF j <= 1 THEN r[j] ELSE s[j - 1]
    <3>1. s \in Seq(Entries) /\ r \in Seq(Entries) /\ Len(r) = 1
      BY <2>1, <2>3
    <3>2. /\ r \o s \in Seq(Entries) /\ Len(r \o s) = Len(r) + Len(s)
          /\ \A j \in 1 .. Len(r) + Len(s) :
               (r \o s)[j] = IF j <= Len(r) THEN r[j] ELSE s[j - Len(r)]
      BY <3>1, ConcatProperties
    <3> QED
      BY <3>1, <3>2
  <2>5. \A j \in 1 .. Len(t) : (r \o s)[j] = t[j]
    <3> SUFFICES ASSUME NEW j \in 1 .. Len(t) PROVE (r \o s)[j] = t[j]
      OBVIOUS
    <3>1. CASE j = 1
      BY <1>1, <2>1, <2>2, <2>3, <2>4, <3>1
    <3>2. CASE j # 1
      <4>1. j - 1 \in 1 .. Len(q) - i /\ i + (j - 1) = i + j - 1
        BY <1>1, <2>2, <3>2
      <4>2. (r \o s)[j] = s[j - 1]
        BY <1>1, <2>1, <2>2, <2>4, <3>2
      <4> QED
        BY <1>1, <2>1, <2>2, <4>1, <4>2
    <3> QED
      BY <3>1, <3>2
  <2>6. r \o s = t
    <3>1. Len(r \o s) = Len(t)
      BY <1>1, <2>1, <2>2, <2>4
    <3> QED
      BY <2>2, <2>4, <2>5, <3>1, SeqEqual
  <2> QED
    BY <2>6 DEF r, s, t
<1> QED
  BY <1>3, <1>4, <1>5

(* Chain(e) is the list from e on. *)
LEMMA ListFromIs ==
  ASSUME NEW E, NEW e, NEW q, IsList(E, e, q)
  PROVE  ListFrom(E, e) = q
<1> DEFINE C == Cardinality(Entries)
           f == CHOOSE h : Chains(h, E, C)
           P == {n \in 0 .. C : \A i \in 1 .. Len(q) + 1 :
                                  Len(q) + 1 - i <= n => f[n][At(q, i)] = From(q, i)}
<1>1. C \in Nat
  BY FS_CardinalityType, ProfileAssumption
<1>2. Chains(f, E, C)
  <2> HIDE DEF C
  <2> QED
    BY <1>1, ChainsExist, Zenon
<1>3. ListFrom(E, e) = f[C][e]
  BY DEF ListFrom
<1>4. q \in Seq(Entries) /\ Len(q) \in Nat /\ Len(q) <= C
  BY ListShort DEF IsList
<1> HIDE DEF f, C
<1>5. \A n \in 0 .. C : f[n] = Longer(E, f[n - 1], n)
  BY <1>2 DEF Chains
<1>6. \A n \in 0 .. C : f[n][NULL] = <<>>
  BY <1>5 DEF Longer
<1>7. ASSUME NEW n \in 0 .. C, n # 0, NEW i \in 1 .. Len(q)
      PROVE  f[n][q[i]] = <<q[i]>> \o f[n - 1][At(q, i + 1)]
  <2>1. q[i] \in Entries /\ q[i] # NULL
    BY <1>4, ProfileAssumption
  <2>2. E[q[i]].next = At(q, i + 1)
    BY <1>4 DEF IsList, At
  <2>3. f[n] = Longer(E, f[n - 1], n)
    BY <1>5
  <2>4. Longer(E, f[n - 1], n)[q[i]] = <<q[i]>> \o f[n - 1][E[q[i]].next]
    BY <1>7, <2>1 DEF Longer
  <2> QED
    BY <2>2, <2>3, <2>4
<1>8. At(q, Len(q) + 1) = NULL /\ \A i \in 1 .. Len(q) : At(q, i) = q[i]
  BY <1>4 DEF At
<1>9. 0 \in P
  <2>1. \A i \in 1 .. Len(q) + 1 : Len(q) + 1 - i <= 0 => i = Len(q) + 1
    BY <1>4
  <2>2. f[0][NULL] = <<>>
    BY <1>1, <1>6
  <2> QED
    BY <1>1, <1>4, <1>8, <2>1, <2>2, FromIs
<1>10. ASSUME NEW m \in 0 .. C - 1, m \in P PROVE m + 1 \in P
  <2>1. m + 1 \in 0 .. C /\ (m + 1) - 1 = m /\ m + 1 # 0
    BY <1>1
  <2>2. ASSUME NEW i \in 1 .. Len(q) + 1, Len(q) + 1 - i <= m + 1
        PROVE  f[m + 1][At(q, i)] = From(q, i)
    <3>1. CASE i = Len(q) + 1
      BY <1>4, <1>6, <1>8, <2>1, <3>1, FromIs
    <3>2. CASE i # Len(q) + 1
      <4>1. i \in 1 .. Len(q) /\ i + 1 \in 1 .. Len(q) + 1 /\ Len(q) + 1 - (i + 1) <= m
        BY <1>4, <2>2, <3>2
      <4>2. f[m][At(q, i + 1)] = From(q, i + 1)
        BY <1>10, <4>1
      <4>3. f[m + 1][q[i]] = <<q[i]>> \o From(q, i + 1)
        BY <1>7, <2>1, <4>1, <4>2
      <4> QED
        BY <1>4, <1>8, <4>1, <4>3, FromIs
    <3> QED
      BY <3>1, <3>2
  <2> QED
    BY <2>1, <2>2
<1>11. C \in P
  <2> HIDE DEF P
  <2>1. \A m \in 0 .. C : m \in P
    BY <1>1, <1>9, <1>10, UpToBound
  <2> QED
    BY <1>1, <2>1
<1>12. f[C][At(q, 1)] = From(q, 1)
  BY <1>4, <1>11
<1>13. At(q, 1) = e
  BY <1>4 DEF At, IsList
<1> QED
  BY <1>3, <1>4, <1>12, <1>13, FromIs

(* What a list consists of, with another entry before it, *)
LEMMA PushIs ==
  ASSUME NEW S, NEW u \in Seq(S), NEW e \in S
  PROVE  /\ <<e>> \o u \in Seq(S) /\ Len(<<e>> \o u) = Len(u) + 1 /\ (<<e>> \o u)[1] = e
         /\ \A i \in 1 .. Len(u) : (<<e>> \o u)[i + 1] = u[i]
<1> DEFINE r == <<e>>
<1>1. r \in Seq(S) /\ Len(r) = 1 /\ r[1] = e /\ Len(u) \in Nat
  OBVIOUS
<1> HIDE DEF r
<1>2. /\ r \o u \in Seq(S) /\ Len(r \o u) = Len(r) + Len(u)
      /\ \A i \in 1 .. Len(r) + Len(u) : (r \o u)[i] = IF i <= Len(r) THEN r[i] ELSE u[i - Len(r)]
  BY <1>1, ConcatProperties
<1>3. Len(r \o u) = Len(u) + 1 /\ (r \o u)[1] = e
  BY <1>1, <1>2
<1>4. ASSUME NEW i \in 1 .. Len(u) PROVE (r \o u)[i + 1] = u[i]
  <2>1. i + 1 \in 1 .. Len(r) + Len(u) /\ ~(i + 1 <= Len(r)) /\ (i + 1) - Len(r) = i
    BY <1>1
  <2> QED
    BY <1>2, <2>1
<1>5. r \o u \in Seq(S)
  BY <1>2
<1>6. /\ r \o u \in Seq(S) /\ Len(r \o u) = Len(u) + 1 /\ (r \o u)[1] = e
      /\ \A i \in 1 .. Len(u) : (r \o u)[i + 1] = u[i]
  BY <1>3, <1>4, <1>5
<1> QED
  BY <1>6 DEF r

(* without its first, *)
LEMMA TailIs ==
  ASSUME NEW u \in Seq(Entries), u # <<>>
  PROVE  /\ Tail(u) \in Seq(Entries) /\ Len(Tail(u)) = Len(u) - 1 /\ Len(u) \in Nat \ {0}
         /\ \A i \in 1 .. Len(u) - 1 : Tail(u)[i] = u[i + 1]
OBVIOUS

(* and with another one after it. *)
LEMMA AppendIs ==
  ASSUME NEW u \in Seq(Entries), NEW e \in Entries
  PROVE  /\ Append(u, e) \in Seq(Entries) /\ Len(Append(u, e)) = Len(u) + 1
         /\ Append(u, e)[Len(u) + 1] = e
         /\ \A i \in 1 .. Len(u) : Append(u, e)[i] = u[i]
OBVIOUS

Of(q) == {q[i] : i \in 1 .. Len(q)}
SameNext(E, F, S) == \A x \in S : F[x].next = E[x].next
SameLevel(E, F, S) == \A x \in S : F[x].level = E[x].level
SameFunc(E, F, S) == \A x \in S : F[x].func = E[x].func

\* The levels fall.
Falls(E, q) == \A i \in 1 .. Len(q) - 1 : E[q[i]].level > E[q[i + 1]].level

(* The first entry of a list. *)
LEMMA FirstOf ==
  ASSUME NEW E, NEW e, NEW q, IsList(E, e, q)
  PROVE  /\ q \in Seq(Entries) /\ Len(q) \in Nat /\ Of(q) \subseteq Entries
         /\ e = NULL <=> q = <<>>
         /\ e # NULL => e = q[1] /\ e \in Of(q) /\ 1 <= Len(q)
<1>1. q \in Seq(Entries) /\ e = IF q = <<>> THEN NULL ELSE q[1]
  BY DEF IsList
<1>2. Len(q) \in Nat /\ \A i \in 1 .. Len(q) : q[i] \in Entries
  BY <1>1
<1>3. CASE q = <<>>
  BY <1>1, <1>2, <1>3 DEF Of
<1>4. CASE q # <<>>
  <2>1. 1 \in 1 .. Len(q)
    BY <1>1, <1>4
  <2>2. e = q[1] /\ q[1] \in Entries /\ q[1] \in Of(q)
    BY <1>1, <1>2, <1>4, <2>1 DEF Of
  <2>3. Of(q) \subseteq Entries
    BY <1>2 DEF Of
  <2> QED
    BY <1>1, <1>2, <1>4, <2>1, <2>2, <2>3, ProfileAssumption
<1> QED
  BY <1>3, <1>4

(* The list stays while the links of its entries do. *)
LEMMA ListStays ==
  ASSUME NEW E, NEW F, NEW e, NEW q, IsList(E, e, q), SameNext(E, F, Of(q))
  PROVE  IsList(F, e, q)
<1>1. \A i \in 1 .. Len(q) : F[q[i]].next = E[q[i]].next
  BY DEF SameNext, Of
<1> QED
  BY <1>1 DEF IsList

\* Nor do levels that stay cease to fall.
LEMMA FallsStays ==
  ASSUME NEW E, NEW F, NEW q \in Seq(Entries), Falls(E, q), SameLevel(E, F, Of(q))
  PROVE  Falls(F, q)
<1>1. \A i \in 1 .. Len(q) : F[q[i]].level = E[q[i]].level
  BY DEF SameLevel, Of
<1>2. \A i \in 1 .. Len(q) - 1 : i \in 1 .. Len(q) /\ i + 1 \in 1 .. Len(q)
  OBVIOUS
<1> QED
  BY <1>1, <1>2 DEF Falls

(* A start puts an entry before the list. *)
LEMMA Pushed ==
  ASSUME NEW E, NEW F, NEW l, NEW u, IsList(E, l, u), SameNext(E, F, Of(u)),
         NEW e \in Entries, e \notin Of(u), F[e].next = l
  PROVE  IsList(F, e, <<e>> \o u) /\ Of(<<e>> \o u) = Of(u) \cup {e}
<1> DEFINE q == <<e>> \o u
<1>1. u \in Seq(Entries) /\ Len(u) \in Nat /\ (l = NULL <=> u = <<>>) /\ (l # NULL => l = u[1])
  BY FirstOf
<1>2. /\ q \in Seq(Entries) /\ Len(q) = Len(u) + 1 /\ q[1] = e
      /\ \A i \in 1 .. Len(u) : q[i + 1] = u[i]
  BY <1>1, PushIs
<1> HIDE DEF q
<1>3. \A i \in 1 .. Len(q) : i = 1 \/ (i - 1 \in 1 .. Len(u) /\ q[i] = u[i - 1])
  <2> SUFFICES ASSUME NEW i \in 1 .. Len(q), i # 1
               PROVE  i - 1 \in 1 .. Len(u) /\ q[i] = u[i - 1]
    OBVIOUS
  <2>1. i - 1 \in 1 .. Len(u) /\ (i - 1) + 1 = i
    BY <1>1, <1>2
  <2> QED
    BY <1>2, <2>1
<1>4. ASSUME NEW i \in 1 .. Len(q)
      PROVE  F[q[i]].next = IF i = Len(q) THEN NULL ELSE q[i + 1]
  <2>1. CASE i = 1
    <3>1. CASE u = <<>>
      BY <1>1, <1>2, <2>1, <3>1
    <3>2. CASE u # <<>>
      <4>1. 1 \in 1 .. Len(u) /\ Len(q) # 1
        BY <1>1, <1>2, <3>2
      <4> QED
        BY <1>1, <1>2, <2>1, <3>2, <4>1
    <3> QED
      BY <3>1, <3>2
  <2>2. CASE i # 1
    <3>1. i - 1 \in 1 .. Len(u) /\ q[i] = u[i - 1]
      BY <1>3, <2>2
    <3>2. F[q[i]].next = E[u[i - 1]].next
      BY <3>1 DEF SameNext, Of
    <3>3. E[u[i - 1]].next = IF i - 1 = Len(u) THEN NULL ELSE u[(i - 1) + 1]
      BY <3>1 DEF IsList
    <3>4. CASE i = Len(q)
      <4>1. i - 1 = Len(u)
        BY <1>1, <1>2, <3>4
      <4> QED
        BY <3>2, <3>3, <3>4, <4>1
    <3>5. CASE i # Len(q)
      <4>1. i - 1 # Len(u) /\ i \in 1 .. Len(u) /\ (i - 1) + 1 = i
        BY <1>1, <1>2, <3>1, <3>5
      <4> QED
        BY <1>2, <3>2, <3>3, <3>5, <4>1
    <3> QED
      BY <3>4, <3>5
  <2> QED
    BY <2>1, <2>2
<1>5. ASSUME NEW i \in 1 .. Len(q), NEW j \in 1 .. Len(q), q[i] = q[j] PROVE i = j
  <2>1. \A m \in 1 .. Len(u) : u[m] # e
    BY DEF Of
  <2>2. CASE i = 1 \/ j = 1
    BY <1>2, <1>3, <1>5, <2>1, <2>2
  <2>3. CASE i # 1 /\ j # 1
    <3>1. /\ i - 1 \in 1 .. Len(u) /\ j - 1 \in 1 .. Len(u) /\ u[i - 1] = u[j - 1]
      BY <1>3, <1>5, <2>3
    <3>2. i - 1 = j - 1
      BY <3>1 DEF IsList
    <3> QED
      BY <3>2
  <2> QED
    BY <2>2, <2>3
<1>6. q # <<>>
  BY <1>1, <1>2
<1>7. IsList(F, e, q)
  BY <1>2, <1>4, <1>5, <1>6 DEF IsList
<1>8. Of(q) = Of(u) \cup {e}
  <2>1. \A i \in 1 .. Len(q) : q[i] \in Of(u) \cup {e}
    BY <1>2, <1>3 DEF Of
  <2>2. \A i \in 1 .. Len(u) : i + 1 \in 1 .. Len(q) /\ q[i + 1] = u[i]
    BY <1>1, <1>2
  <2>3. \A i \in 1 .. Len(u) : u[i] \in Of(q)
    BY <2>2 DEF Of
  <2>4. e \in Of(q)
    BY <1>1, <1>2 DEF Of
  <2>5. Of(q) \subseteq Of(u) \cup {e}
    BY <2>1 DEF Of
  <2>6. Of(u) \subseteq Of(q)
    BY <2>3 DEF Of
  <2> QED
    BY <2>4, <2>5, <2>6
<1> QED
  BY <1>7, <1>8 DEF q

(* An end takes the first one out. *)
LEMMA Popped ==
  ASSUME NEW E, NEW l, NEW u, IsList(E, l, u), l # NULL
  PROVE  /\ IsList(E, E[l].next, Tail(u)) /\ l \in Of(u) /\ l \notin Of(Tail(u))
         /\ Of(Tail(u)) = Of(u) \ {l}
<1> DEFINE q == Tail(u)
<1>1. /\ u \in Seq(Entries) /\ Len(u) \in Nat /\ u # <<>> /\ l = u[1] /\ l \in Of(u)
      /\ 1 <= Len(u)
  BY FirstOf
<1>2. /\ q \in Seq(Entries) /\ Len(q) = Len(u) - 1
      /\ \A i \in 1 .. Len(u) - 1 : q[i] = u[i + 1]
  BY <1>1, TailIs
<1> HIDE DEF q
<1>3. /\ \A i \in 1 .. Len(u) : E[u[i]].next = IF i = Len(u) THEN NULL ELSE u[i + 1]
      /\ \A i, j \in 1 .. Len(u) : u[i] = u[j] => i = j
  BY DEF IsList
<1>4. \A i \in 1 .. Len(q) : i + 1 \in 1 .. Len(u) /\ q[i] = u[i + 1] /\ i + 1 # 1
  BY <1>1, <1>2
<1>5. ASSUME NEW i \in 1 .. Len(q)
      PROVE  E[q[i]].next = IF i = Len(q) THEN NULL ELSE q[i + 1]
  <2>1. i + 1 \in 1 .. Len(u) /\ q[i] = u[i + 1]
    BY <1>4
  <2>2. CASE i = Len(q)
    <3>1. i + 1 = Len(u)
      BY <1>1, <1>2, <2>2
    <3> QED
      BY <1>3, <2>1, <2>2, <3>1
  <2>3. CASE i # Len(q)
    <3>1. i + 1 # Len(u) /\ i + 1 \in 1 .. Len(q)
      BY <1>1, <1>2, <2>3
    <3>2. q[i + 1] = u[(i + 1) + 1]
      BY <1>4, <3>1
    <3> QED
      BY <1>3, <2>1, <2>3, <3>1, <3>2
  <2> QED
    BY <2>2, <2>3
<1>6. ASSUME NEW i \in 1 .. Len(q), NEW j \in 1 .. Len(q), q[i] = q[j] PROVE i = j
  <2>1. i + 1 = j + 1
    BY <1>3, <1>4, <1>6
  <2> QED
    BY <2>1
<1>7. E[l].next = IF q = <<>> THEN NULL ELSE q[1]
  <2>1. E[l].next = IF 1 = Len(u) THEN NULL ELSE u[1 + 1]
    <3>1. 1 \in 1 .. Len(u) /\ l = u[1]
      BY <1>1
    <3>2. E[u[1]].next = IF 1 = Len(u) THEN NULL ELSE u[1 + 1]
      BY <1>3, <3>1
    <3> QED
      BY <3>1, <3>2
  <2>2. CASE Len(u) = 1
    <3>1. q = <<>>
      BY <1>2, <2>2
    <3> QED
      BY <2>1, <2>2, <3>1
  <2>3. CASE Len(u) # 1
    <3>1. q # <<>> /\ 1 \in 1 .. Len(q)
      BY <1>1, <1>2, <2>3
    <3>2. q[1] = u[1 + 1]
      BY <1>4, <3>1
    <3> QED
      BY <2>1, <2>3, <3>1, <3>2
  <2> QED
    BY <2>2, <2>3
<1>8. IsList(E, E[l].next, q)
  BY <1>2, <1>5, <1>6, <1>7 DEF IsList
<1>9. l \notin Of(q)
  <2>1. \A i \in 1 .. Len(q) : q[i] # u[1]
    BY <1>1, <1>3, <1>4
  <2> QED
    BY <1>1, <2>1 DEF Of
<1>10. Of(q) = Of(u) \ {l}
  <2>1. Of(q) \subseteq Of(u)
    BY <1>4 DEF Of
  <2>2. ASSUME NEW i \in 1 .. Len(u), u[i] # l PROVE u[i] \in Of(q)
    <3>1. i - 1 \in 1 .. Len(q) /\ (i - 1) + 1 = i
      BY <1>1, <1>2, <2>2
    <3>2. q[i - 1] = u[i]
      BY <1>4, <3>1
    <3> QED
      BY <3>1, <3>2 DEF Of
  <2>3. Of(u) \ {l} \subseteq Of(q)
    BY <2>2 DEF Of
  <2> QED
    BY <1>9, <2>1, <2>3
<1> QED
  BY <1>1, <1>8, <1>9, <1>10 DEF q

(* and puts it after the others that have ended. *)
LEMMA Appended ==
  ASSUME NEW E, NEW F, NEW f, NEW d, IsList(E, f, d), d # <<>>, NEW e \in Entries, e \notin Of(d),
         SameNext(E, F, Of(d) \ {d[Len(d)]}), F[d[Len(d)]].next = e, F[e].next = NULL
  PROVE  /\ IsList(F, f, Append(d, e)) /\ Of(Append(d, e)) = Of(d) \cup {e}
         /\ Append(d, e)[Len(Append(d, e))] = e
<1> DEFINE q == Append(d, e)
<1>1. d \in Seq(Entries) /\ Len(d) \in Nat /\ f = d[1] /\ 1 <= Len(d)
  BY FirstOf
<1>2. /\ q \in Seq(Entries) /\ Len(q) = Len(d) + 1 /\ q[Len(d) + 1] = e
      /\ \A i \in 1 .. Len(d) : q[i] = d[i]
  BY <1>1, AppendIs
<1> HIDE DEF q
<1>3. /\ \A i \in 1 .. Len(d) : E[d[i]].next = IF i = Len(d) THEN NULL ELSE d[i + 1]
      /\ \A i, j \in 1 .. Len(d) : d[i] = d[j] => i = j
  BY DEF IsList
<1>4. \A i \in 1 .. Len(q) : i = Len(d) + 1 \/ i \in 1 .. Len(d)
  BY <1>1, <1>2
<1>5. ASSUME NEW i \in 1 .. Len(q)
      PROVE  F[q[i]].next = IF i = Len(q) THEN NULL ELSE q[i + 1]
  <2>1. CASE i = Len(d) + 1
    BY <1>2, <2>1
  <2>2. CASE i = Len(d)
    <3>1. i \in 1 .. Len(d) /\ i # Len(q)
      BY <1>1, <1>2, <2>2
    <3> QED
      BY <1>2, <2>2, <3>1
  <2>3. CASE i \in 1 .. Len(d) /\ i # Len(d)
    <3>1. i + 1 \in 1 .. Len(d) /\ i # Len(q)
      BY <1>1, <1>2, <2>3
    <3>2. d[i] # d[Len(d)]
      BY <1>1, <1>3, <2>3
    <3>3. F[d[i]].next = E[d[i]].next
      BY <2>3, <3>2 DEF SameNext, Of
    <3> QED
      BY <1>2, <1>3, <2>3, <3>1, <3>3
  <2> QED
    BY <1>4, <2>1, <2>2, <2>3
<1>6. ASSUME NEW i \in 1 .. Len(q), NEW j \in 1 .. Len(q), q[i] = q[j] PROVE i = j
  <2>1. \A m \in 1 .. Len(d) : d[m] # e
    BY DEF Of
  <2> QED
    BY <1>2, <1>3, <1>4, <1>6, <2>1
<1>7. q # <<>> /\ q[1] = f
  BY <1>1, <1>2
<1>8. IsList(F, f, q)
  BY <1>2, <1>5, <1>6, <1>7 DEF IsList
<1>9. Of(q) = Of(d) \cup {e}
  <2>1. \A i \in 1 .. Len(q) : q[i] \in Of(d) \cup {e}
    BY <1>2, <1>4 DEF Of
  <2>2. \A i \in 1 .. Len(d) : i \in 1 .. Len(q) /\ q[i] = d[i]
    BY <1>1, <1>2
  <2>3. Of(d) \subseteq Of(q)
    BY <2>2 DEF Of
  <2>4. e \in Of(q)
    BY <1>1, <1>2 DEF Of
  <2>5. Of(q) \subseteq Of(d) \cup {e}
    BY <2>1 DEF Of
  <2> QED
    BY <2>3, <2>4, <2>5
<1>10. q[Len(q)] = e
  BY <1>2
<1> QED
  BY <1>8, <1>9, <1>10 DEF q

-----------------------------------------------------------------------------
(* The two lists.  u are the entries under way, d those that have ended: they share
   nothing, are all that is allocated, and are where lastI, first and lastE say. *)
Under(E, l, c, u) ==
  /\ IsList(E, l, u) /\ Falls(E, u)
  /\ l # NULL => E[l].level <= c
Done(E, f, l, d) ==
  /\ l = NULL => d = <<>>
  /\ l # NULL => d # <<>> /\ IsList(E, f, d) /\ d[Len(d)] = l
Lists(u, d) ==
  /\ Under(entry, lastI, curL, u)
  /\ Done(entry, first, lastE, d)
  /\ Of(u) \cap Of(d) = {} /\ Of(u) \cup Of(d) = heap

\* Nothing is under way, and nothing has ended.
Clear == first = NULL /\ lastI = NULL /\ lastE = NULL /\ curL = 0 /\ root = NoItems /\ ~lost

LInv ==
  /\ IInv
  /\ st \in {"none", "open", "over"} /\ lost \in BOOLEAN
  /\ first \in Entries \cup {NULL}
  /\ lastE = NULL /\ first \notin heap \cup {NULL} => lost
  /\ first = NULL => lastI = NULL /\ lastE = NULL
  /\ st = "none" => Clear
  /\ st = "open" => \E u, d : Lists(u, d)

(* The chain from an entry on is the list there. *)
LEMMA ChainIs ==
  /\ Chain(lastI) = ListFrom(entry, lastI)
  /\ Chain(first) = ListFrom(entry, first)
BY DEF Chain, ListFrom, Chains, Longer

(* A list whose first level is at most c does not notice that c grows. *)
LEMMA UnderRaised ==
  ASSUME NEW E \in Memory, NEW l \in Entries \cup {NULL}, NEW c \in Nat, NEW b \in Nat, b >= c,
         NEW u, Under(E, l, c, u)
  PROVE  Under(E, l, b, u)
<1>1. l # NULL => E[l].level \in Nat
  BY DEF Memory, Links
<1>2. l # NULL => E[l].level <= b
  BY <1>1 DEF Under
<1> QED
  BY <1>2 DEF Under

(* What Lists says of the parts. *)
LEMMA ListsAre ==
  ASSUME IInv, NEW u, NEW d, Lists(u, d)
  PROVE  /\ entry \in Memory /\ lastI \in Entries \cup {NULL} /\ curL \in Nat /\ heap \subseteq Entries
         /\ lastE \in heap \cup {NULL}
         /\ IsList(entry, lastI, u) /\ Falls(entry, u) /\ u \in Seq(Entries)
         /\ d \in Seq(Entries) /\ Of(d) \subseteq Entries
         /\ Of(u) \cap Of(d) = {} /\ Of(u) \cup Of(d) = heap
         /\ lastI # NULL => lastI \in heap /\ lastI \notin Of(d) /\ entry[lastI].level <= curL
<1>1. /\ entry \in Memory /\ lastI \in Entries \cup {NULL} /\ curL \in Nat /\ heap \subseteq Entries
      /\ lastE \in heap \cup {NULL}
  BY DEF IInv, TypeOK, Memory, Links
<1>2. /\ IsList(entry, lastI, u) /\ Falls(entry, u)
      /\ lastI # NULL => entry[lastI].level <= curL
      /\ Of(u) \cap Of(d) = {} /\ Of(u) \cup Of(d) = heap
  BY DEF Lists, Under
<1>3. u \in Seq(Entries) /\ (lastI # NULL => lastI \in Of(u))
  BY <1>2, FirstOf
<1>4. d \in Seq(Entries)
  <2>1. CASE lastE = NULL
    BY <2>1 DEF Lists, Done
  <2>2. CASE lastE # NULL
    BY <2>2 DEF Lists, Done, IsList
  <2> QED
    BY <2>1, <2>2
<1> QED
  BY <1>1, <1>2, <1>3, <1>4

(* The list of the ended stays while its entries do. *)
LEMMA DoneStays ==
  ASSUME NEW E, NEW F, NEW f, NEW l, NEW d, Done(E, f, l, d), SameNext(E, F, Of(d))
  PROVE  Done(F, f, l, d)
<1>1. CASE l = NULL
  BY <1>1 DEF Done
<1>2. CASE l # NULL
  <2>1. d # <<>> /\ IsList(E, f, d) /\ d[Len(d)] = l
    BY <1>2 DEF Done
  <2>2. IsList(F, f, d)
    BY <2>1, ListStays
  <2> QED
    BY <1>2, <2>1, <2>2 DEF Done
<1> QED
  BY <1>1, <1>2

(* tl_profile_start puts its entry before those under way. *)
LEMMA StartLists ==
  ASSUME IInv, first = NULL => lastE = NULL,
         NEW f \in Func, NEW e \in Entries, Start(f, e), NEW u, NEW d, Lists(u, d)
  PROVE  Lists(<<e>> \o u, d)'
<1>1. /\ entry \in Memory /\ curL \in Nat /\ heap \subseteq Entries /\ u \in Seq(Entries)
      /\ IsList(entry, lastI, u) /\ Falls(entry, u) /\ Of(u) \cap Of(d) = {} /\ Of(u) \cup Of(d) = heap
      /\ lastI # NULL => entry[lastI].level <= curL
  BY ListsAre
<1>2. /\ e \notin heap /\ curL' = curL + 1 /\ heap' = heap \cup {e} /\ lastI' = e /\ lastE' = lastE
      /\ first' = (IF first = NULL THEN e ELSE first)
      /\ \A x \in Entries \ {e} : entry'[x] = entry[x]
      /\ entry'[e].next = lastI /\ entry'[e].level = curL + 1
  BY <1>1 DEF Start, Memory
<1>3. SameNext(entry, entry', heap) /\ SameLevel(entry, entry', heap)
  BY <1>1, <1>2 DEF SameNext, SameLevel
<1>4. SameNext(entry, entry', Of(u)) /\ SameLevel(entry, entry', Of(u)) /\ SameNext(entry, entry', Of(d))
  BY <1>1, <1>3 DEF SameNext, SameLevel
<1>5. e \notin Of(u) /\ e \notin Of(d) /\ e # NULL
  BY <1>1, <1>2, ProfileAssumption
<1> DEFINE q == <<e>> \o u
           E == entry'
<1>6. IsList(E, e, q) /\ Of(q) = Of(u) \cup {e}
  <2>1. E[e].next = lastI
    BY <1>2
  <2> HIDE DEF E
  <2> QED
    BY <1>1, <1>4, <1>5, <2>1, Pushed DEF E
<1>7. /\ Len(q) = Len(u) + 1 /\ q[1] = e /\ \A i \in 1 .. Len(u) : q[i + 1] = u[i]
  BY <1>1, PushIs
<1> HIDE DEF q
<1>8. Falls(E, q)
  <2>1. Falls(E, u) /\ Len(u) \in Nat
    BY <1>1, <1>4, FallsStays
  <2>2. ASSUME NEW i \in 1 .. Len(q) - 1 PROVE E[q[i]].level > E[q[i + 1]].level
    <3>0. i \in 1 .. Len(u) /\ q[i + 1] = u[i]
      BY <1>7, <2>1
    <3>1. CASE i = 1
      <4>1. lastI = u[1] /\ lastI # NULL /\ lastI \in Of(u)
        <5>1. u # <<>>
          BY <3>0
        <5> QED
          BY <1>1, <5>1, FirstOf
      <4>2. E[lastI].level = entry[lastI].level /\ entry[lastI].level <= curL
        BY <1>1, <1>4, <4>1 DEF SameLevel
      <4>3. E[q[i]].level = curL + 1 /\ E[q[i + 1]].level = entry[lastI].level
        BY <1>2, <1>7, <3>0, <3>1, <4>1, <4>2
      <4>4. entry[lastI].level \in Nat
        BY <1>1, <4>1 DEF Memory, Links
      <4> QED
        BY <1>1, <4>2, <4>3, <4>4
    <3>2. CASE i # 1
      <4>1. i - 1 \in 1 .. Len(u) - 1 /\ (i - 1) + 1 = i
        BY <2>1, <3>0, <3>2
      <4>2. q[i] = u[i - 1]
        BY <1>7, <2>1, <4>1
      <4>3. E[u[i - 1]].level > E[u[(i - 1) + 1]].level
        BY <2>1, <4>1 DEF Falls
      <4> QED
        BY <3>0, <4>1, <4>2, <4>3
    <3> QED
      BY <3>1, <3>2
  <2> QED
    BY <2>2 DEF Falls
<1>9. Under(entry', lastI', curL', q)
  <2>1. E[e].level <= curL'
    BY <1>1, <1>2
  <2> QED
    BY <1>2, <1>6, <1>8, <2>1 DEF Under
<1>10. Done(entry', first', lastE', d)
  <2>1. Done(E, first, lastE, d)
    <3> HIDE DEF E
    <3>1. Done(entry, first, lastE, d)
      BY DEF Lists
    <3> QED
      BY <1>4, <3>1, DoneStays DEF E
  <2>2. CASE lastE = NULL
    BY <1>2, <2>1, <2>2 DEF Done
  <2>3. CASE lastE # NULL
    BY <1>2, <2>1, <2>3
  <2> QED
    BY <2>2, <2>3
<1>11. Of(q) \cap Of(d) = {} /\ Of(q) \cup Of(d) = heap'
  BY <1>1, <1>2, <1>5, <1>6
<1> QED
  BY <1>9, <1>10, <1>11 DEF Lists, q

(* The entries around the innermost one are deeper than none that is under way. *)
LEMMA TailFalls ==
  ASSUME NEW E \in Memory, NEW l, NEW u, IsList(E, l, u), Falls(E, u), l # NULL
  PROVE  /\ Falls(E, Tail(u))
         /\ E[l].next # NULL => E[E[l].next].level < E[l].level
<1>1. u \in Seq(Entries) /\ Len(u) \in Nat /\ u # <<>> /\ l = u[1] /\ 1 <= Len(u)
  BY FirstOf
<1>2. /\ Len(Tail(u)) = Len(u) - 1 /\ \A i \in 1 .. Len(u) - 1 : Tail(u)[i] = u[i + 1]
  BY <1>1, TailIs
<1> DEFINE q == Tail(u)
<1> HIDE DEF q
<1>3. \A i \in 1 .. Len(q) : i + 1 \in 1 .. Len(u) /\ q[i] = u[i + 1]
  BY <1>1, <1>2 DEF q
<1>4. ASSUME NEW i \in 1 .. Len(q) - 1 PROVE E[q[i]].level > E[q[i + 1]].level
  <2>1. i \in 1 .. Len(q) /\ i + 1 \in 1 .. Len(q) /\ i + 1 \in 1 .. Len(u) - 1
    BY <1>1, <1>2 DEF q
  <2>2. E[u[i + 1]].level > E[u[(i + 1) + 1]].level
    BY <2>1 DEF Falls
  <2> QED
    BY <1>3, <2>1, <2>2
<1>5. ASSUME E[l].next # NULL PROVE E[E[l].next].level < E[l].level
  <2>1. 1 \in 1 .. Len(u)
    BY <1>1
  <2>2. E[u[1]].next = IF 1 = Len(u) THEN NULL ELSE u[1 + 1]
    BY <2>1 DEF IsList
  <2>3. Len(u) # 1 /\ E[l].next = u[1 + 1]
    <3>1. E[l].next = IF 1 = Len(u) THEN NULL ELSE u[1 + 1]
      BY <1>1, <2>2
    <3> QED
      BY <1>5, <3>1
  <2>4. 1 \in 1 .. Len(u) - 1
    <3>1. Len(u) \in Nat /\ 1 <= Len(u) /\ Len(u) # 1
      BY <1>1, <2>3
    <3>2. \A n \in Nat : 1 <= n /\ n # 1 => 1 \in 1 .. n - 1
      OBVIOUS
    <3> QED
      BY <3>1, <3>2
  <2>5. E[u[1]].level > E[u[1 + 1]].level
    BY <2>4 DEF Falls
  <2>6. E[l].level > E[E[l].next].level
    BY <1>1, <2>3, <2>5
  <2>7. l \in Entries /\ E[l].next \in Entries
    BY <1>1, <2>1, <2>4, FirstOf, <2>3
  <2> QED
    BY <2>6, <2>7 DEF Memory, Links
<1> QED
  BY <1>4, <1>5 DEF Falls, q

\* F is the memory after an end.
EndedIn(F) ==
  /\ \A x \in Entries : F[x].level = entry[x].level /\ F[x].func = entry[x].func
  /\ F[lastI].next = NULL
  /\ lastE # NULL => F[lastE].next = lastI
  /\ \A x \in Entries \ {lastI, lastE} : F[x].next = entry[x].next

(* That is what Logged writes, whatever the time. *)
LEMMA LoggedIs ==
  ASSUME entry \in Memory, lastI \in Entries, lastE \in Entries \cup {NULL}, lastI # lastE, NEW t
  PROVE  EndedIn(Logged(t))
<1> DEFINE E == [entry EXCEPT ![lastI].sec = t.sec, ![lastI].usec = t.usec, ![lastI].next = NULL]
           r == [entry[lastI] EXCEPT !.sec = t.sec, !.usec = t.usec, !.next = NULL]
<1>1. E = [entry EXCEPT ![lastI] = r]
  BY DEF Memory
<1>2. r.next = NULL /\ r.level = entry[lastI].level /\ r.func = entry[lastI].func
  <2>1. entry[lastI] \in Links
    BY DEF Memory
  <2> QED
    BY <2>1 DEF Links
<1> HIDE DEF r
<1>3. /\ \A x \in Entries : x # lastI => E[x] = entry[x]
      /\ E[lastI] = r /\ DOMAIN E = Entries
  BY <1>1 DEF Memory
<1>4. Logged(t) = IF lastE = NULL THEN E ELSE [E EXCEPT ![lastE].next = lastI]
  BY DEF Logged
<1> HIDE DEF E
<1>5. CASE lastE = NULL
  BY <1>2, <1>3, <1>4, <1>5 DEF EndedIn
<1>6. CASE lastE # NULL
  <2> DEFINE s == [entry[lastE] EXCEPT !.next = lastI]
             F == [E EXCEPT ![lastE] = s]
  <2>1. Logged(t) = F
    BY <1>3, <1>4, <1>6
  <2>2. s.next = lastI /\ s.level = entry[lastE].level /\ s.func = entry[lastE].func
    <3>1. entry[lastE] \in Links
      BY <1>6 DEF Memory
    <3> QED
      BY <3>1 DEF Links
  <2> HIDE DEF s
  <2>3. F[lastE] = s /\ F[lastI] = r /\ \A x \in Entries \ {lastI, lastE} : F[x] = entry[x]
    BY <1>3, <1>6
  <2> HIDE DEF F
  <2>4. EndedIn(F)
    BY <1>2, <1>6, <2>2, <2>3 DEF EndedIn
  <2> QED
    BY <2>1, <2>4
<1> QED
  BY <1>5, <1>6

(* tl_profile_end takes the innermost entry from the one list to the end of the other. *)
LEMMA EndLists ==
  ASSUME IInv, End, NEW u, NEW d, Lists(u, d), NEW l, l = lastI
  PROVE  Lists(Tail(u), Append(d, l))' /\ EndedIn(entry') /\ lastI \in Entries
<1>1. /\ lastI # NULL /\ curL = entry[lastI].level /\ curL' = curL - 1
      /\ lastI' = entry[lastI].next /\ lastE' = lastI /\ heap' = heap
      /\ first' = IF lastE = NULL THEN lastI ELSE first
      /\ \E t : entry' = Logged(t)
  BY DEF End, end, NewFirst
<1>2. /\ entry \in Memory /\ lastI \in Entries /\ curL \in Nat /\ heap \subseteq Entries /\ u \in Seq(Entries)
      /\ IsList(entry, lastI, u) /\ Falls(entry, u) /\ Of(u) \cap Of(d) = {} /\ Of(u) \cup Of(d) = heap
      /\ lastI \in heap /\ lastI \notin Of(d)
      /\ d \in Seq(Entries) /\ Of(d) \subseteq Entries /\ lastE \in Entries \cup {NULL}
  BY <1>1, ListsAre
<1>3. Done(entry, first, lastE, d)
  BY DEF Lists
<1>4. lastE # NULL => d # <<>> /\ IsList(entry, first, d) /\ d[Len(d)] = lastE /\ lastE \in Of(d)
  <2> SUFFICES ASSUME lastE # NULL PROVE d # <<>> /\ IsList(entry, first, d) /\ d[Len(d)] = lastE /\ lastE \in Of(d)
    OBVIOUS
  <2>1. d # <<>> /\ IsList(entry, first, d) /\ d[Len(d)] = lastE
    BY <1>3 DEF Done
  <2>2. Len(d) \in 1 .. Len(d)
    BY <1>2, <2>1
  <2> QED
    BY <2>1, <2>2 DEF Of
<1>5. lastI # lastE
  BY <1>1, <1>2, <1>4
<1>6. EndedIn(entry')
  <2>1. PICK t : entry' = Logged(t)
    BY <1>1
  <2> QED
    BY <1>2, <1>5, <2>1, LoggedIs
<1> DEFINE E == entry'
           q == Tail(u)
<1>7. /\ IsList(entry, entry[lastI].next, q) /\ lastI \in Of(u) /\ lastI \notin Of(q)
      /\ Of(q) = Of(u) \ {lastI}
  BY <1>1, <1>2, Popped
<1>8. /\ Falls(entry, q)
      /\ entry[lastI].next # NULL => entry[entry[lastI].next].level < entry[lastI].level
  BY <1>1, <1>2, TailFalls
<1> HIDE DEF q
<1>9. /\ SameNext(entry, E, Of(q)) /\ SameLevel(entry, E, Of(q)) /\ lastE \notin Of(u)
  <2>1. lastE \notin Of(u)
    BY <1>1, <1>2, <1>4, <1>7, FirstOf, ProfileAssumption
  <2> QED
    BY <1>2, <1>6, <1>7, <2>1 DEF EndedIn, SameNext, SameLevel
<1>10. Under(E, lastI', curL', q)
  <2>1. IsList(E, entry[lastI].next, q)
    <3> HIDE DEF E
    <3> QED
      BY <1>7, <1>9, ListStays
  <2>2. Falls(E, q)
    <3>1. q \in Seq(Entries)
      BY <1>7 DEF IsList
    <3> HIDE DEF E
    <3> QED
      BY <1>8, <1>9, <3>1, FallsStays
  <2>3. ASSUME lastI' # NULL PROVE E[lastI'].level <= curL'
    <3>1. lastI' \in Entries
      BY <1>1, <1>2, <2>3 DEF Memory, Links
    <3>2. entry[lastI'].level \in Nat /\ E[lastI'].level = entry[lastI'].level
      BY <1>2, <1>6, <3>1 DEF EndedIn, Memory, Links
    <3>3. entry[lastI'].level < curL
      BY <1>1, <1>8, <2>3
    <3> QED
      BY <1>1, <1>2, <3>2, <3>3
  <2> QED
    BY <1>1, <2>1, <2>2, <2>3 DEF Under
<1> DEFINE p == Append(d, l)
<1>11. /\ IsList(E, first', p) /\ Of(p) = Of(d) \cup {lastI} /\ p[Len(p)] = lastI /\ p # <<>>
  <2>1. p # <<>>
    BY <1>2
  <2>2. CASE lastE = NULL
    <3>1. d = <<>>
      BY <1>3, <2>2 DEF Done
    <3>2. p \in Seq(Entries) /\ Len(p) = 1 /\ p[1] = lastI
      BY <1>2, <3>1
    <3>3. first' = lastI /\ E[lastI].next = NULL
      BY <1>1, <1>6, <2>2 DEF EndedIn
    <3> HIDE DEF p, E
    <3>4. IsList(E, lastI, p)
      BY <2>1, <3>2, <3>3 DEF IsList
    <3>5. Of(p) = {lastI} /\ Of(d) = {}
      BY <3>1, <3>2 DEF Of
    <3> QED
      BY <2>1, <3>2, <3>3, <3>4, <3>5
  <2>3. CASE lastE # NULL
    <3>1. first' = first /\ d # <<>> /\ IsList(entry, first, d) /\ d[Len(d)] = lastE
      BY <1>1, <1>4, <2>3
    <3>2. SameNext(entry, E, Of(d) \ {d[Len(d)]})
      BY <1>2, <1>6, <3>1 DEF EndedIn, SameNext
    <3>3. E[d[Len(d)]].next = lastI /\ E[lastI].next = NULL
      BY <1>6, <2>3, <3>1 DEF EndedIn
    <3> HIDE DEF E
    <3>4. IsList(E, first, p) /\ Of(p) = Of(d) \cup {lastI} /\ p[Len(p)] = lastI
      BY <1>2, <3>1, <3>2, <3>3, Appended
    <3> QED
      BY <2>1, <3>1, <3>4
  <2> QED
    BY <2>2, <2>3
<1> HIDE DEF p
<1>12. Done(E, first', lastE', p)
  BY <1>1, <1>11 DEF Done
<1>13. Of(q) \cap Of(p) = {} /\ Of(q) \cup Of(p) = heap'
  BY <1>1, <1>2, <1>7, <1>11
<1>14. Lists(q, p)'
  BY <1>10, <1>12, <1>13 DEF Lists
<1> QED
  BY <1>2, <1>6, <1>14 DEF q, p

(* tl_profile_end, where a start was ignored, takes it out of both. *)
LEMMA LosesLists ==
  ASSUME IInv, EndLoses, NEW u, NEW d, Lists(u, d)
  PROVE  Lists(Tail(u), d)' /\ lastI \in Of(u) /\ \A x \in Entries \ {lastI} : entry'[x] = entry[x]
<1>1. /\ lastI # NULL /\ curL > entry[lastI].level /\ lastI' = entry[lastI].next
      /\ heap' = heap \ {lastI} /\ entry' = [entry EXCEPT ![lastI] = NoEntry]
      /\ UNCHANGED <<curL, first, lastE>>
  BY DEF EndLoses, end
<1>2. /\ entry \in Memory /\ lastI \in Entries /\ curL \in Nat /\ heap \subseteq Entries /\ u \in Seq(Entries)
      /\ IsList(entry, lastI, u) /\ Falls(entry, u) /\ Of(u) \cap Of(d) = {} /\ Of(u) \cup Of(d) = heap
      /\ lastI \in heap /\ lastI \notin Of(d)
      /\ d \in Seq(Entries) /\ Of(d) \subseteq Entries
  BY <1>1, ListsAre
<1>3. Done(entry, first, lastE, d)
  BY DEF Lists
<1>4. \A x \in Entries \ {lastI} : entry'[x] = entry[x]
  BY <1>1, <1>2 DEF Memory
<1> DEFINE E == entry'
           q == Tail(u)
<1>5. /\ IsList(entry, entry[lastI].next, q) /\ lastI \in Of(u) /\ lastI \notin Of(q)
      /\ Of(q) = Of(u) \ {lastI}
  BY <1>1, <1>2, Popped
<1>6. /\ Falls(entry, q)
      /\ entry[lastI].next # NULL => entry[entry[lastI].next].level < entry[lastI].level
  BY <1>1, <1>2, TailFalls
<1> HIDE DEF q
<1>7. SameNext(entry, E, Of(q)) /\ SameLevel(entry, E, Of(q)) /\ SameNext(entry, E, Of(d))
  BY <1>2, <1>4, <1>5 DEF SameNext, SameLevel
<1>8. Under(E, lastI', curL', q)
  <2>1. IsList(E, entry[lastI].next, q) /\ (entry[lastI].next # NULL => entry[lastI].next \in Of(q))
    <3> HIDE DEF E
    <3> QED
      BY <1>5, <1>7, ListStays, FirstOf
  <2>2. Falls(E, q)
    <3>1. q \in Seq(Entries)
      BY <1>5 DEF IsList
    <3> HIDE DEF E
    <3> QED
      BY <1>6, <1>7, <3>1, FallsStays
  <2>3. ASSUME lastI' # NULL PROVE E[lastI'].level <= curL'
    <3>1. lastI' \in Entries /\ lastI' \in Of(q)
      BY <1>1, <1>2, <2>1, <2>3 DEF Memory, Links
    <3>2. entry[lastI'].level \in Nat /\ E[lastI'].level = entry[lastI'].level
      BY <1>2, <1>7, <3>1 DEF SameLevel, Memory, Links
    <3>3. entry[lastI'].level < entry[lastI].level /\ entry[lastI].level \in Nat
      BY <1>1, <1>2, <1>6, <2>3 DEF Memory, Links
    <3> QED
      BY <1>1, <1>2, <3>2, <3>3
  <2> QED
    BY <1>1, <2>1, <2>2, <2>3 DEF Under
<1>9. Done(E, first', lastE', d)
  <2>1. Done(E, first, lastE, d)
    <3> HIDE DEF E
    <3> QED
      BY <1>3, <1>7, DoneStays
  <2> QED
    BY <1>1, <2>1
<1>10. Of(q) \cap Of(d) = {} /\ Of(q) \cup Of(d) = heap'
  BY <1>1, <1>2, <1>5
<1>11. Lists(q, d)'
  BY <1>8, <1>9, <1>10 DEF Lists
<1> QED
  BY <1>4, <1>5, <1>11 DEF q

-----------------------------------------------------------------------------
(* The inductive invariant of the lists, step by step. *)
LEMMA ListsInit == Init => LInv
<1> SUFFICES ASSUME Init PROVE LInv
  OBVIOUS
<1>1. IInv
  BY InitGood
<1>2. st = "none" /\ first = NULL /\ lastI = NULL /\ lastE = NULL /\ lost = FALSE
  BY DEF Init
<1>3. Clear
  BY DEF Init, Clear
<1> QED
  BY <1>1, <1>2, <1>3 DEF LInv

\* A step that leaves the lists alone.
LEMMA SameLists ==
  ASSUME LInv, IInv', UNCHANGED <<first, lastI, lastE, entry, heap, lost>>, curL' >= curL,
         st' = st \/ st' = "over", st = "none" => UNCHANGED <<curL, root>>
  PROVE  LInv'
<1>1. ASSUME st' = "open" PROVE \E u, d : Lists(u, d)'
  <2>1. st = "open"
    BY <1>1 DEF LInv
  <2>2. PICK u, d : Lists(u, d)
    BY <2>1 DEF LInv
  <2>3. curL \in Nat /\ curL' \in Nat /\ entry \in Memory /\ lastI \in Entries \cup {NULL}
    BY DEF LInv, IInv, TypeOK, Memory, Links
  <2>4. Under(entry, lastI, curL', u)
    BY <2>2, <2>3, UnderRaised DEF Lists
  <2>5. Lists(u, d)'
    BY <2>2, <2>4 DEF Lists
  <2> QED
    BY <2>5
<1>2. st' = "none" => Clear'
  BY DEF LInv, Clear
<1> QED
  BY <1>1, <1>2 DEF LInv

(* tl_profile_init begins with no entries. *)
LEMMA InitLists ==
  ASSUME LInv, IInv', ProfileInit
  PROVE  LInv' /\ st' = "open"
<1>1. Clear /\ heap = {} /\ st' = "open" /\ UNCHANGED <<first, lastI, lastE, entry, heap, curL, lost>>
  BY DEF LInv, ProfileInit
<1> DEFINE none == <<>>
<1>2. none \in Seq(Entries) /\ Len(none) = 0 /\ Of(none) = {}
  BY DEF Of
<1>3. IsList(entry, NULL, none) /\ Falls(entry, none) /\ none = <<>>
  BY <1>2 DEF IsList, Falls
<1> HIDE DEF none
<1>4. Lists(none, none)'
  BY <1>1, <1>2, <1>3 DEF Lists, Clear, Under, Done
<1>5. \E u, d : Lists(u, d)'
  BY <1>4
<1> QED
  BY <1>1, <1>5 DEF LInv, Clear

(* tl_profile_start keeps the lists. *)
LEMMA StartKeepsLists ==
  ASSUME LInv, IInv', NEW f \in Func, NEW e \in Entries, Start(f, e)
  PROVE  LInv'
<1>1. /\ st = "open" /\ st' = st /\ e \notin heap /\ heap' = heap \cup {e} /\ lastI' = e
      /\ lastE' = lastE /\ lost' = lost /\ first' = IF first = NULL THEN e ELSE first
  BY DEF Start, Starts
<1>2. PICK u, d : Lists(u, d)
  BY <1>1 DEF LInv
<1>3. IInv /\ (first = NULL => lastE = NULL)
  BY DEF LInv
<1>4. Lists(<<e>> \o u, d)'
  BY <1>2, <1>3, StartLists
<1>5. \E v, w : Lists(v, w)'
  BY <1>4
<1>6. e # NULL
  BY ProfileAssumption
<1> QED
  BY <1>1, <1>5, <1>6 DEF LInv

(* tl_profile_end keeps the lists, *)
LEMMA EndKeepsLists ==
  ASSUME LInv, IInv', End
  PROVE  LInv'
<1>1. /\ st = "open" /\ st' = st /\ lastI # NULL /\ lastE' = lastI /\ lost' = lost
      /\ first' = IF lastE = NULL THEN lastI ELSE first
  BY DEF End, Ends, NewFirst
<1>2. PICK u, d : Lists(u, d)
  BY <1>1 DEF LInv
<1>3. PICK l : l = lastI
  OBVIOUS
<1>4. Lists(Tail(u), Append(d, l))' /\ lastI \in Entries
  BY <1>2, <1>3, EndLists DEF LInv
<1>5. \E v, w : Lists(v, w)'
  BY <1>4
<1> QED
  BY <1>1, <1>4, <1>5 DEF LInv

(* also where it loses a measurement. *)
LEMMA LosesKeepsLists ==
  ASSUME LInv, IInv', EndLoses
  PROVE  LInv'
<1>1. st = "open" /\ st' = st /\ lastI # NULL /\ lost' = TRUE /\ first' = first /\ lastE' = lastE
  BY DEF EndLoses, Ends
<1>2. PICK u, d : Lists(u, d)
  BY <1>1 DEF LInv
<1>3. Lists(Tail(u), d)'
  BY <1>2, LosesLists DEF LInv
<1>4. \E v, w : Lists(v, w)'
  BY <1>3
<1> QED
  BY <1>1, <1>4 DEF LInv

(* Every step keeps the lists. *)
LEMMA ListsNext == LInv /\ [Next]_vars => LInv'
<1> SUFFICES ASSUME LInv, [Next]_vars PROVE LInv'
  OBVIOUS
<1>0. IInv'
  BY NextKeeps DEF LInv
<1>1. curL \in Nat
  BY DEF LInv, IInv, TypeOK
<1>2. CASE ProfileInit
  BY <1>0, <1>2, InitLists
<1>3. ASSUME NEW f \in Func, NEW e \in Entries, Start(f, e) PROVE LInv'
  BY <1>0, <1>3, StartKeepsLists
<1>4. CASE End
  BY <1>0, <1>4, EndKeepsLists
<1>5. CASE EndLoses
  BY <1>0, <1>5, LosesKeepsLists
<1>6. CASE Destroy
  BY <1>0, <1>6 DEF Destroy, LInv, Clear
<1>7. CASE Tick \/ InitCrashes \/ StartIgnored \/ StartCrashes \/ EndOfNothing \/ DestroyCrashes
           \/ UNCHANGED vars
  <2>1. /\ UNCHANGED <<first, lastI, lastE, entry, heap, lost>> /\ curL' >= curL
        /\ st' = st \/ st' = "over"
        /\ st = "none" => UNCHANGED <<curL, root>>
    BY <1>1, <1>7 DEF Tick, InitCrashes, StartIgnored, Starts, StartCrashes, EndOfNothing,
                      DestroyCrashes, vars
  <2> QED
    BY <1>0, <2>1, SameLists
<1> QED
  BY <1>2, <1>3, <1>4, <1>5, <1>6, <1>7 DEF Next

(* The two lists are lists at every moment: what is linked from lastI on, and from
   first to lastE, never meets and never leaks. *)
THEOREM ListsInvariant == Spec => []LInv
BY ListsInit, ListsNext, PTL DEF Spec

(* Where the lists are. *)
LEMMA ChainsAre ==
  ASSUME NEW u, NEW d, Lists(u, d)
  PROVE  /\ Chain(lastI) = u /\ InChain(lastI) = Of(u)
         /\ lastE # NULL => Chain(first) = d /\ InChain(first) = Of(d)
<1>1. IsList(entry, lastI, u) /\ u \in Seq(Entries)
  BY DEF Lists, Under, IsList
<1>2. Chain(lastI) = u
  BY <1>1, ChainIs, ListFromIs
<1>3. InChain(lastI) = Of(u)
  BY <1>1, <1>2 DEF InChain, Of
<1>4. ASSUME lastE # NULL PROVE Chain(first) = d /\ InChain(first) = Of(d)
  <2>1. IsList(entry, first, d) /\ d \in Seq(Entries)
    BY <1>4 DEF Lists, Done, IsList
  <2>2. Chain(first) = d
    BY <2>1, ChainIs, ListFromIs
  <2> QED
    BY <2>1, <2>2 DEF InChain, Of
<1> QED
  BY <1>2, <1>3, <1>4

(* ListsApart: no entry is in both lists, none leaks while the profile is open, and
   the levels of those under way fall. *)
THEOREM ListsCorrect == Spec => []ListsApart
<1>1. LInv => ListsApart
  <2> SUFFICES ASSUME LInv, st = "open" PROVE ListsApart
    BY DEF ListsApart
  <2>1. PICK u, d : Lists(u, d)
    BY DEF LInv
  <2>2. /\ Chain(lastI) = u /\ InChain(lastI) = Of(u)
        /\ lastE # NULL => Chain(first) = d /\ InChain(first) = Of(d)
    BY <2>1, ChainsAre
  <2>3. /\ Falls(entry, u) /\ Of(u) \cap Of(d) = {} /\ Of(u) \cup Of(d) = heap
        /\ lastI # NULL => entry[lastI].level <= curL
    BY <2>1 DEF Lists, Under
  <2>4. CASE lastE = NULL
    <3>1. Of(d) = {}
      BY <2>1, <2>4 DEF Lists, Done, Of
    <3>2. Dangling => lost
      BY <2>4 DEF LInv, Dangling
    <3> QED
      BY <2>2, <2>3, <2>4, <3>1, <3>2 DEF ListsApart, Falls
  <2>5. CASE lastE # NULL
    <3>1. d # <<>> /\ IsList(entry, first, d) /\ d[Len(d)] = lastE
      BY <2>1, <2>5 DEF Lists, Done
    <3>2. ~Dangling
      BY <2>3, <3>1, FirstOf DEF Dangling
    <3> QED
      BY <2>2, <2>3, <2>5, <3>1, <3>2 DEF ListsApart, Falls
  <2> QED
    BY <2>4, <2>5
<1> QED
  BY <1>1, ListsInvariant, PTL

-----------------------------------------------------------------------------
(* The profile implements the tracer.  What it says of the lists u and d. *)
RunRec == [func : Func \cup {NULL}, intact : BOOLEAN]
Intact(u, E, c, i) == E[u[i]].level = IF i = 1 THEN c ELSE E[u[i - 1]].level - 1
RunAt(u, E, c, i) == [func |-> E[u[i]].func, intact |-> Intact(u, E, c, i)]
RunOf(u, E, c) == [i \in DOMAIN u |-> RunAt(u, E, c, i)]
LogOf(d, E) == [i \in DOMAIN d |-> E[d[i]].func]

\* The tracer's view of the lists,
LEMMA ViewIs ==
  ASSUME NEW u, NEW d, Lists(u, d)
  PROVE  Running = RunOf(u, entry, curL) /\ Log = LogOf(d, entry)
<1>1. Chain(lastI) = u /\ (lastE # NULL => Chain(first) = d)
  BY ChainsAre
<1>2. Running = RunOf(u, entry, curL)
  BY <1>1 DEF Running, RunOf, RunAt, Intact
<1>3. CASE lastE = NULL
  <2>1. d = <<>>
    BY <1>3 DEF Lists, Done
  <2>2. LogOf(d, entry) = <<>>
    BY <2>1 DEF LogOf
  <2> QED
    BY <1>2, <1>3, <2>2 DEF Log
<1>4. CASE lastE # NULL
  BY <1>1, <1>2, <1>4 DEF Log, LogOf
<1> QED
  BY <1>3, <1>4

\* The same of the next state.
ViewHolds(u, d) == Lists(u, d) => Running = RunOf(u, entry, curL) /\ Log = LogOf(d, entry)

ViewsHold == \A u, d : ViewHolds(u, d)

\* It holds here, and so,
LEMMA ViewHere == ViewsHold
BY ViewIs DEF ViewsHold, ViewHolds

\* of the next state too.
LEMMA ViewThen ==
  ASSUME NEW u, NEW d, Lists(u, d)'
  PROVE  Running' = RunOf(u, entry', curL') /\ Log' = LogOf(d, entry')
<1>1. ViewsHold'
  BY ViewHere, PTL
<1>2. ViewHolds(u, d)'
  BY <1>1 DEF ViewsHold
<1> QED
  BY <1>2 DEF ViewHolds

(* The measurements under way, as a sequence. *)
LEMMA RunSeq ==
  ASSUME NEW E \in Memory, NEW u \in Seq(Entries), NEW c
  PROVE  /\ RunOf(u, E, c) \in Seq(RunRec) /\ Len(RunOf(u, E, c)) = Len(u)
         /\ \A i \in 1 .. Len(u) : RunOf(u, E, c)[i] = RunAt(u, E, c, i)
<1>1. ASSUME NEW i \in 1 .. Len(u) PROVE RunAt(u, E, c, i) \in RunRec
  <2>1. E[u[i]].func \in Func \cup {NULL}
    BY DEF Memory, Links
  <2>2. Intact(u, E, c, i) \in BOOLEAN
    BY DEF Intact
  <2> QED
    BY <2>1, <2>2 DEF RunAt, RunRec
<1>2. DOMAIN u = 1 .. Len(u) /\ Len(u) \in Nat
  OBVIOUS
<1>3. RunOf(u, E, c) = [i \in 1 .. Len(u) |-> RunAt(u, E, c, i)]
  BY <1>2 DEF RunOf
<1>4. [i \in 1 .. Len(u) |-> RunAt(u, E, c, i)] \in Seq(RunRec)
  BY <1>1, <1>2, IsASeq
<1>5. Len([i \in 1 .. Len(u) |-> RunAt(u, E, c, i)]) = Len(u)
  BY <1>2
<1> QED
  BY <1>3, <1>4, <1>5

(* The names of those that have ended, as a sequence. *)
LEMMA LogSeq ==
  ASSUME NEW E \in Memory, NEW d \in Seq(Entries)
  PROVE  /\ LogOf(d, E) \in Seq(Func \cup {NULL}) /\ Len(LogOf(d, E)) = Len(d)
         /\ \A i \in 1 .. Len(d) : LogOf(d, E)[i] = E[d[i]].func
<1>1. DOMAIN d = 1 .. Len(d) /\ Len(d) \in Nat
  OBVIOUS
<1>2. \A i \in 1 .. Len(d) : E[d[i]].func \in Func \cup {NULL}
  BY DEF Memory, Links
<1>3. LogOf(d, E) = [i \in 1 .. Len(d) |-> E[d[i]].func]
  BY <1>1 DEF LogOf
<1>4. [i \in 1 .. Len(d) |-> E[d[i]].func] \in Seq(Func \cup {NULL})
  BY <1>1, <1>2, IsASeq
<1> QED
  BY <1>1, <1>3, <1>4

\* Entries whose levels and names stay look the same, but for the depth of the calls.
SameLook(E, F, S) == SameLevel(E, F, S) /\ SameFunc(E, F, S)

(* An entry that has ended keeps its name. *)
LEMMA LogStays ==
  ASSUME NEW E \in Memory, NEW F \in Memory, NEW d \in Seq(Entries), SameFunc(E, F, Of(d))
  PROVE  LogOf(d, F) = LogOf(d, E)
<1>1. /\ Len(LogOf(d, F)) = Len(LogOf(d, E))
      /\ LogOf(d, F) \in Seq(Func \cup {NULL}) /\ LogOf(d, E) \in Seq(Func \cup {NULL})
      /\ Len(LogOf(d, E)) = Len(d)
  BY LogSeq
<1>2. \A i \in 1 .. Len(d) : F[d[i]].func = E[d[i]].func
  BY DEF SameFunc, Of
<1>3. \A i \in 1 .. Len(d) : LogOf(d, F)[i] = LogOf(d, E)[i]
  BY <1>2, LogSeq
<1> QED
  BY <1>1, <1>3, SeqEqual

(* Only the innermost measurement sees how deep the calls are. *)
LEMMA RunOther ==
  ASSUME NEW E \in Memory, NEW F \in Memory, NEW u \in Seq(Entries), SameLook(E, F, Of(u)),
         NEW c, NEW b
  PROVE  \A i \in 1 .. Len(u) : i # 1 => RunAt(u, F, b, i) = RunAt(u, E, c, i)
<1> SUFFICES ASSUME NEW i \in 1 .. Len(u), i # 1 PROVE RunAt(u, F, b, i) = RunAt(u, E, c, i)
  OBVIOUS
<1>1. i - 1 \in 1 .. Len(u)
  OBVIOUS
<1>2. u[i] \in Of(u) /\ u[i - 1] \in Of(u)
  BY <1>1 DEF Of
<1>3. /\ F[u[i]].level = E[u[i]].level /\ F[u[i]].func = E[u[i]].func
      /\ F[u[i - 1]].level = E[u[i - 1]].level
  BY <1>2 DEF SameLook, SameLevel, SameFunc
<1>4. Intact(u, F, b, i) = Intact(u, E, c, i)
  BY <1>3 DEF Intact
<1> QED
  BY <1>3, <1>4 DEF RunAt

\* A step that neither ends nor starts a measurement.
LEMMA RunStays ==
  ASSUME NEW E \in Memory, NEW F \in Memory, NEW u \in Seq(Entries), SameLook(E, F, Of(u)), NEW c,
         NEW b, u # <<>> => (F[u[1]].level = b) = (E[u[1]].level = c)
  PROVE  RunOf(u, F, b) = RunOf(u, E, c)
<1>1. /\ RunOf(u, F, b) \in Seq(RunRec) /\ RunOf(u, E, c) \in Seq(RunRec)
      /\ Len(RunOf(u, F, b)) = Len(u) /\ Len(RunOf(u, E, c)) = Len(u)
  BY RunSeq
<1>2. ASSUME NEW i \in 1 .. Len(u) PROVE RunAt(u, F, b, i) = RunAt(u, E, c, i)
  <2>1. CASE i = 1
    <3>1. u # <<>> /\ u[i] \in Of(u) /\ u[i] = u[1]
      BY <2>1 DEF Of
    <3>2. F[u[i]].func = E[u[i]].func
      BY <3>1 DEF SameLook, SameFunc
    <3>3. Intact(u, F, b, i) = Intact(u, E, c, i)
      BY <2>1, <3>1 DEF Intact
    <3> QED
      BY <3>2, <3>3 DEF RunAt
  <2>2. CASE i # 1
    BY <2>2, RunOther
  <2> QED
    BY <2>1, <2>2
<1>3. \A i \in 1 .. Len(u) : RunOf(u, F, b)[i] = RunOf(u, E, c)[i]
  BY <1>2, RunSeq
<1> QED
  BY <1>1, <1>3, SeqEqual

(* A start puts an intact one before them: the one around it stays as it is. *)
LEMMA RunPushed ==
  ASSUME NEW E \in Memory, NEW F \in Memory, NEW u \in Seq(Entries), SameLook(E, F, Of(u)),
         NEW c \in Nat, NEW e \in Entries, F[e].level = c + 1
  PROVE  RunOf(<<e>> \o u, F, c + 1) = <<[func |-> F[e].func, intact |-> TRUE]>> \o RunOf(u, E, c)
<1> DEFINE q == <<e>> \o u
           r == [func |-> F[e].func, intact |-> TRUE]
           one == <<r>>
           t == RunOf(u, E, c)
<1>1. /\ q \in Seq(Entries) /\ Len(q) = Len(u) + 1 /\ q[1] = e
      /\ \A i \in 1 .. Len(u) : q[i + 1] = u[i]
  BY PushIs
<1>2. Len(u) \in Nat
  OBVIOUS
<1> HIDE DEF q
<1>3. t \in Seq(RunRec) /\ Len(t) = Len(u) /\ \A i \in 1 .. Len(u) : t[i] = RunAt(u, E, c, i)
  BY RunSeq
<1>4. /\ RunOf(q, F, c + 1) \in Seq(RunRec) /\ Len(RunOf(q, F, c + 1)) = Len(q)
      /\ \A i \in 1 .. Len(q) : RunOf(q, F, c + 1)[i] = RunAt(q, F, c + 1, i)
  BY <1>1, RunSeq
<1>5. r \in RunRec
  BY DEF RunRec, Memory, Links
<1>6. RunAt(q, F, c + 1, 1) = r
  <2>1. Intact(q, F, c + 1, 1) = TRUE
    BY <1>1 DEF Intact
  <2> QED
    BY <1>1, <2>1 DEF RunAt
<1>7. ASSUME NEW i \in 1 .. Len(u) PROVE RunAt(q, F, c + 1, i + 1) = RunAt(u, E, c, i)
  <2>1. q[i + 1] = u[i] /\ i + 1 # 1 /\ (i + 1) - 1 = i /\ u[i] \in Of(u)
    BY <1>1 DEF Of
  <2>2. F[u[i]].level = E[u[i]].level /\ F[u[i]].func = E[u[i]].func
    BY <2>1 DEF SameLook, SameLevel, SameFunc
  <2>3. Intact(q, F, c + 1, i + 1) = (F[u[i]].level = F[q[i]].level - 1)
    BY <2>1 DEF Intact
  <2>4. F[q[i]].level - 1 = IF i = 1 THEN c ELSE E[u[i - 1]].level - 1
    <3>1. CASE i = 1
      BY <1>1, <3>1
    <3>2. CASE i # 1
      <4>1. i - 1 \in 1 .. Len(u) /\ (i - 1) + 1 = i
        BY <3>2
      <4>2. q[i] = u[i - 1] /\ u[i - 1] \in Of(u)
        BY <1>1, <4>1 DEF Of
      <4>3. F[u[i - 1]].level = E[u[i - 1]].level
        BY <4>2 DEF SameLook, SameLevel
      <4> QED
        BY <3>2, <4>2, <4>3
    <3> QED
      BY <3>1, <3>2
  <2>5. Intact(q, F, c + 1, i + 1) = Intact(u, E, c, i)
    BY <2>2, <2>3, <2>4 DEF Intact
  <2>6. F[q[i + 1]].func = E[u[i]].func
    BY <2>1, <2>2
  <2> QED
    BY <2>5, <2>6 DEF RunAt
<1> HIDE DEF r, t
<1>8. /\ one \o t \in Seq(RunRec) /\ Len(one \o t) = Len(t) + 1 /\ (one \o t)[1] = r
      /\ \A i \in 1 .. Len(t) : (one \o t)[i + 1] = t[i]
  BY <1>3, <1>5, PushIs
<1> HIDE DEF one
<1> DEFINE p == one \o t
<1> HIDE DEF p
<1>9. ASSUME NEW i \in 1 .. Len(q) PROVE RunOf(q, F, c + 1)[i] = p[i]
  <2>1. RunOf(q, F, c + 1)[i] = RunAt(q, F, c + 1, i)
    BY <1>4
  <2>2. CASE i = 1
    <3>1. p[1] = r
      BY <1>8 DEF p
    <3> QED
      BY <1>6, <2>1, <2>2, <3>1
  <2>3. CASE i # 1
    <3>1. i - 1 \in 1 .. Len(u) /\ (i - 1) + 1 = i
      BY <1>1, <1>2, <2>3
    <3>2. RunAt(q, F, c + 1, i) = RunAt(u, E, c, i - 1)
      BY <1>7, <3>1
    <3>3. i - 1 \in 1 .. Len(t)
      BY <1>3, <3>1
    <3>4. p[(i - 1) + 1] = t[i - 1]
      BY <1>8, <3>3 DEF p
    <3>5. p[i] = RunAt(u, E, c, i - 1)
      BY <1>3, <3>1, <3>4
    <3> QED
      BY <2>1, <3>2, <3>5
  <2> QED
    BY <2>2, <2>3
<1>10. RunOf(q, F, c + 1) = p
  <2>1. p \in Seq(RunRec) /\ Len(p) = Len(q)
    BY <1>1, <1>3, <1>8 DEF p
  <2> QED
    BY <1>4, <1>9, <2>1, SeqEqual
<1> QED
  BY <1>10 DEF p, one, r, t, q

(* What is around the innermost measurement. *)
LEMMA RunTail ==
  ASSUME NEW E \in Memory, NEW u \in Seq(Entries), u # <<>>, NEW c
  PROVE  RunOf(Tail(u), E, E[u[1]].level - 1) = Tail(RunOf(u, E, c))
<1> DEFINE q == Tail(u)
           b == E[u[1]].level - 1
           R == RunOf(u, E, c)
           Q == RunOf(q, E, b)
<1>1. /\ q \in Seq(Entries) /\ Len(q) = Len(u) - 1 /\ Len(u) \in Nat \ {0}
      /\ \A i \in 1 .. Len(u) - 1 : q[i] = u[i + 1]
  BY TailIs
<1> HIDE DEF q, b
<1>2. R \in Seq(RunRec) /\ Len(R) = Len(u) /\ \A i \in 1 .. Len(u) : R[i] = RunAt(u, E, c, i)
  BY RunSeq
<1>3. Q \in Seq(RunRec) /\ Len(Q) = Len(q) /\ \A i \in 1 .. Len(q) : Q[i] = RunAt(q, E, b, i)
  BY <1>1, RunSeq
<1> HIDE DEF R, Q
<1>4. R # <<>>
  BY <1>1, <1>2
<1>5. /\ Tail(R) \in Seq(RunRec) /\ Len(Tail(R)) = Len(R) - 1
      /\ \A i \in 1 .. Len(R) - 1 : Tail(R)[i] = R[i + 1]
  BY <1>2, <1>4
<1>6. ASSUME NEW i \in 1 .. Len(Q) PROVE Q[i] = Tail(R)[i]
  <2>1. i \in 1 .. Len(q) /\ i \in 1 .. Len(u) - 1 /\ i + 1 \in 1 .. Len(u) /\ i + 1 # 1
        /\ (i + 1) - 1 = i /\ i \in 1 .. Len(R) - 1
    BY <1>1, <1>2, <1>3
  <2>2. q[i] = u[i + 1]
    BY <1>1, <2>1
  <2>3. Intact(u, E, c, i + 1) = (E[u[i + 1]].level = E[u[i]].level - 1)
    BY <2>1 DEF Intact
  <2>4. Intact(q, E, b, i) = (E[u[i + 1]].level = E[u[i]].level - 1)
    <3>1. CASE i = 1
      <4>1. Intact(q, E, b, i) = (E[q[1]].level = b)
        BY <3>1 DEF Intact
      <4>2. b = E[u[i]].level - 1 /\ q[1] = u[i + 1]
        BY <2>2, <3>1 DEF b
      <4> QED
        BY <4>1, <4>2
    <3>2. CASE i # 1
      <4>1. i - 1 \in 1 .. Len(u) - 1 /\ (i - 1) + 1 = i
        BY <2>1, <3>2
      <4>2. q[i - 1] = u[i]
        BY <1>1, <4>1
      <4> QED
        BY <2>2, <3>2, <4>2 DEF Intact
    <3> QED
      BY <3>1, <3>2
  <2>5. RunAt(q, E, b, i) = RunAt(u, E, c, i + 1)
    <3>1. Intact(q, E, b, i) = Intact(u, E, c, i + 1)
      BY <2>3, <2>4
    <3>2. E[q[i]].func = E[u[i + 1]].func
      BY <2>2
    <3> QED
      BY <3>1, <3>2 DEF RunAt
  <2>6. Tail(R)[i] = RunAt(u, E, c, i + 1)
    BY <1>2, <1>5, <2>1
  <2> QED
    BY <1>3, <2>1, <2>5, <2>6
<1>7. Q = Tail(R)
  <2>1. Len(Q) = Len(Tail(R))
    BY <1>1, <1>2, <1>3, <1>5
  <2> QED
    BY <1>3, <1>5, <1>6, <2>1, SeqEqual
<1> QED
  BY <1>7 DEF Q, R, q, b

\* What the tracer says of the innermost one, when it cannot be told any more.
LEMMA SpoiltIs ==
  ASSUME NEW s \in Seq(RunRec), s # <<>>
  PROVE  /\ T!Spoilt(s) \in Seq(RunRec) /\ Len(T!Spoilt(s)) = Len(s)
         /\ T!Spoilt(s)[1] = [func |-> s[1].func, intact |-> FALSE]
         /\ \A i \in 1 .. Len(s) : i # 1 => T!Spoilt(s)[i] = s[i]
<1> DEFINE r == [s[1] EXCEPT !.intact = FALSE]
<1>1. 1 \in 1 .. Len(s) /\ Len(s) \in Nat /\ s \in [1 .. Len(s) -> RunRec]
  OBVIOUS
<1>2. r = [func |-> s[1].func, intact |-> FALSE] /\ r \in RunRec
  <2>1. s[1] \in RunRec
    BY <1>1
  <2> DEFINE x == s[1]
             y == [func |-> x.func, intact |-> FALSE]
  <2> HIDE DEF x
  <2>2. x \in [func : Func \cup {NULL}, intact : BOOLEAN]
    BY <2>1 DEF RunRec, x
  <2>3. [x EXCEPT !.intact = FALSE] = y
    <3> DEFINE z == [x EXCEPT !.intact = FALSE]
    <3>1. DOMAIN z = {"func", "intact"} /\ DOMAIN y = {"func", "intact"}
      BY <2>2
    <3>2. z["func"] = y["func"] /\ z["intact"] = y["intact"]
      BY <2>2
    <3>3. z = [a \in DOMAIN z |-> z[a]] /\ y = [a \in DOMAIN y |-> y[a]]
      BY <2>2
    <3> HIDE DEF z, y
    <3>4. z = y
      BY <3>1, <3>2, <3>3
    <3> QED
      BY <3>4 DEF z
  <2>4. y \in RunRec
    BY <2>2 DEF RunRec
  <2> QED
    BY <2>3, <2>4 DEF x
<1> DEFINE p == [s EXCEPT ![1] = r]
<1>3. T!Spoilt(s) = p
  BY <1>1 DEF T!Spoilt
<1> HIDE DEF r
<1>4. p \in Seq(RunRec) /\ Len(p) = Len(s) /\ p[1] = r /\ \A i \in 1 .. Len(s) : i # 1 => p[i] = s[i]
  BY <1>1, <1>2
<1> QED
  BY <1>2, <1>3, <1>4

(* A measurement that is not as deep as the calls is spoilt; those around it stay. *)
LEMMA RunSpoilt ==
  ASSUME NEW E \in Memory, NEW F \in Memory, NEW u \in Seq(Entries), SameLook(E, F, Of(u)),
         NEW c, NEW b, u # <<>> => F[u[1]].level # b
  PROVE  RunOf(u, F, b) = T!Spoilt(RunOf(u, E, c))
<1> DEFINE R == RunOf(u, E, c)
           Q == RunOf(u, F, b)
<1>1. R \in Seq(RunRec) /\ Len(R) = Len(u) /\ \A i \in 1 .. Len(u) : R[i] = RunAt(u, E, c, i)
  BY RunSeq
<1>2. Q \in Seq(RunRec) /\ Len(Q) = Len(u) /\ \A i \in 1 .. Len(u) : Q[i] = RunAt(u, F, b, i)
  BY RunSeq
<1>3. \A i \in 1 .. Len(u) : i # 1 => RunAt(u, F, b, i) = RunAt(u, E, c, i)
  BY RunOther
<1> HIDE DEF R, Q
<1>4. CASE u = <<>>
  <2>1. R = <<>> /\ Q = <<>>
    BY <1>1, <1>2, <1>4
  <2> QED
    BY <2>1 DEF T!Spoilt, R, Q
<1>5. CASE u # <<>>
  <2>1. 1 \in 1 .. Len(u) /\ R # <<>>
    BY <1>1, <1>5
  <2>2. /\ T!Spoilt(R) \in Seq(RunRec) /\ Len(T!Spoilt(R)) = Len(R)
        /\ T!Spoilt(R)[1] = [func |-> R[1].func, intact |-> FALSE]
        /\ \A i \in 1 .. Len(R) : i # 1 => T!Spoilt(R)[i] = R[i]
    BY <1>1, <2>1, SpoiltIs
  <2> DEFINE p == T!Spoilt(R)
  <2> HIDE DEF p
  <2>3. /\ p \in Seq(RunRec) /\ Len(p) = Len(R) /\ p[1] = [func |-> R[1].func, intact |-> FALSE]
        /\ \A i \in 1 .. Len(R) : i # 1 => p[i] = R[i]
    BY <2>2 DEF p
  <2>4. Q[1] = p[1]
    <3>1. u[1] \in Of(u)
      BY <2>1 DEF Of
    <3>2. F[u[1]].func = E[u[1]].func
      BY <3>1 DEF SameLook, SameFunc
    <3>3. Intact(u, F, b, 1) = FALSE
      BY <1>5 DEF Intact
    <3>4. Q[1] = [func |-> E[u[1]].func, intact |-> FALSE]
      BY <1>2, <2>1, <3>2, <3>3 DEF RunAt
    <3>5. R[1].func = E[u[1]].func
      <4>1. RunAt(u, E, c, 1).func = E[u[1]].func
        BY DEF RunAt
      <4>2. R[1] = RunAt(u, E, c, 1)
        BY <1>1, <2>1
      <4> QED
        BY <4>1, <4>2
    <3> QED
      BY <2>3, <3>4, <3>5
  <2>5. ASSUME NEW i \in 1 .. Len(Q) PROVE Q[i] = p[i]
    <3>1. CASE i = 1
      BY <2>4, <3>1
    <3>2. CASE i # 1
      <4>1. i \in 1 .. Len(u) /\ i \in 1 .. Len(R)
        BY <1>1, <1>2
      <4>2. Q[i] = RunAt(u, E, c, i)
        BY <1>2, <1>3, <3>2, <4>1
      <4>3. p[i] = R[i] /\ R[i] = RunAt(u, E, c, i)
        BY <1>1, <2>3, <3>2, <4>1
      <4> QED
        BY <4>2, <4>3
    <3> QED
      BY <3>1, <3>2
  <2>6. Q = p
    <3>1. Len(Q) = Len(p)
      BY <1>1, <1>2, <2>3
    <3> QED
      BY <1>2, <2>3, <2>5, <3>1, SeqEqual
  <2> QED
    BY <2>6 DEF p, Q, R
<1> QED
  BY <1>4, <1>5

(* What has ended is the last in the log. *)
LEMMA LogAppended ==
  ASSUME NEW E \in Memory, NEW F \in Memory, NEW d \in Seq(Entries), NEW e \in Entries,
         SameFunc(E, F, Of(d))
  PROVE  LogOf(Append(d, e), F) = Append(LogOf(d, E), F[e].func)
<1> DEFINE q == Append(d, e)
           L == LogOf(d, E)
           r == F[e].func
           p == Append(L, r)
<1>1. q \in Seq(Entries) /\ Len(q) = Len(d) + 1 /\ q[Len(d) + 1] = e /\ \A i \in 1 .. Len(d) : q[i] = d[i]
  BY AppendIs
<1> HIDE DEF q
<1>2. L \in Seq(Func \cup {NULL}) /\ Len(L) = Len(d) /\ \A i \in 1 .. Len(d) : L[i] = E[d[i]].func
  BY LogSeq
<1>3. /\ LogOf(q, F) \in Seq(Func \cup {NULL}) /\ Len(LogOf(q, F)) = Len(q)
      /\ \A i \in 1 .. Len(q) : LogOf(q, F)[i] = F[q[i]].func
  BY <1>1, LogSeq
<1>4. r \in Func \cup {NULL} /\ Len(d) \in Nat
  BY DEF Memory, Links
<1> HIDE DEF L, r
<1>5. /\ p \in Seq(Func \cup {NULL}) /\ Len(p) = Len(L) + 1 /\ p[Len(L) + 1] = r
      /\ \A i \in 1 .. Len(L) : p[i] = L[i]
  BY <1>2, <1>4
<1> HIDE DEF p
<1>6. ASSUME NEW i \in 1 .. Len(LogOf(q, F)) PROVE LogOf(q, F)[i] = p[i]
  <2>1. i \in 1 .. Len(q) /\ LogOf(q, F)[i] = F[q[i]].func
    BY <1>3
  <2>2. CASE i = Len(d) + 1
    <3>1. q[i] = e /\ p[i] = r
      BY <1>1, <1>2, <1>5, <2>2
    <3> QED
      BY <2>1, <3>1 DEF r
  <2>3. CASE i # Len(d) + 1
    <3>1. i \in 1 .. Len(d) /\ i \in 1 .. Len(L)
      BY <1>1, <1>2, <1>4, <2>1, <2>3
    <3>2. q[i] = d[i] /\ d[i] \in Of(d) /\ p[i] = L[i] /\ L[i] = E[d[i]].func
      BY <1>1, <1>2, <1>5, <3>1 DEF Of
    <3>3. F[d[i]].func = E[d[i]].func
      BY <3>2 DEF SameFunc
    <3> QED
      BY <2>1, <3>2, <3>3
  <2> QED
    BY <2>2, <2>3
<1>7. LogOf(q, F) = p
  <2>1. Len(LogOf(q, F)) = Len(p)
    BY <1>1, <1>2, <1>3, <1>5
  <2> QED
    BY <1>3, <1>5, <1>6, <2>1, SeqEqual
<1> QED
  BY <1>7 DEF q, p, L, r

-----------------------------------------------------------------------------
(* Each step of the profile is one of the tracer, or none that it sees. *)
Calls == [f \in Func |-> Item(f).cnt_call]

(* Nothing is under way at first. *)
LEMMA TracerInit == Init => T!Init
<1> SUFFICES ASSUME Init PROVE T!Init
  OBVIOUS
<1>1. st = "none" /\ root = NoItems /\ lastI = NULL /\ lastE = NULL /\ lost = FALSE
  BY DEF Init
<1>2. IsList(entry, NULL, <<>>)
  BY DEF IsList
<1>3. Chain(lastI) = <<>>
  BY <1>1, <1>2, ChainIs, ListFromIs
<1>4. Running = <<>> /\ Log = <<>>
  BY <1>1, <1>3 DEF Running, Log
<1>5. Calls = [f \in Func |-> 0]
  BY <1>1 DEF Calls, Item, NoItems
<1> QED
  BY <1>1, <1>4, <1>5 DEF T!Init, T!Nothing, Calls

\* What the tracer sees while the lists stay and the calls are no deeper.
LEMMA ViewSame ==
  ASSUME LInv, UNCHANGED <<first, lastI, lastE, entry, curL, root>>
  PROVE  Running' = Running /\ Log' = Log /\ Calls' = Calls
<1>1. Chain(lastI)' = Chain(lastI) /\ Chain(first)' = Chain(first)
  BY DEF Chain
<1>2. Running' = Running
  BY <1>1 DEF Running
<1>3. Log' = Log
  BY <1>1 DEF Log
<1>4. Calls' = Calls
  BY DEF Calls, Item
<1> QED
  BY <1>2, <1>3, <1>4

\* Nor are more starts counted.
LEMMA CallsSame ==
  ASSUME UNCHANGED root
  PROVE  Calls' = Calls
BY DEF Calls, Item

\* An item with its time added to keeps its count.
LEMMA CallsCount ==
  ASSUME NEW i \in [cnt_call : Nat, sec : Nat, usec : Nat], NEW t
  PROVE  Total(i, t).cnt_call = i.cnt_call
BY DEF Total

(* tl_profile_start starts a measurement of the tracer. *)
LEMMA TracerStart ==
  ASSUME LInv, NEW f \in Func, NEW e \in Entries, Start(f, e)
  PROVE  T!Next
<1>1. /\ st = "open" /\ st' = st /\ lost' = lost /\ lastE' = lastE /\ curL' = curL + 1 /\ e \notin heap
      /\ root' = [g \in DOMAIN root \cup {f} |->
                    IF g = f THEN [Item(f) EXCEPT !.cnt_call = @ + 1] ELSE root[g]]
      /\ entry' = [entry EXCEPT ![e] = [func |-> f, level |-> curL + 1, sec |-> now \div Second,
                                        usec |-> now % Second, next |-> lastI]]
  BY DEF Start, Starts
<1>2. PICK u, d : Lists(u, d)
  BY <1>1 DEF LInv
<1>3. IInv /\ IInv' /\ (first = NULL => lastE = NULL)
  BY StartKeeps DEF LInv
<1>4. Lists(<<e>> \o u, d)'
  BY <1>2, <1>3, StartLists
<1>5. /\ entry \in Memory /\ entry' \in Memory /\ curL \in Nat /\ u \in Seq(Entries) /\ d \in Seq(Entries)
      /\ Of(u) \cup Of(d) = heap /\ heap \subseteq Entries
  BY <1>2, <1>3, ListsAre DEF IInv, TypeOK, Memory, Links
<1>6. entry'[e].func = f /\ entry'[e].level = curL + 1 /\ \A x \in Entries \ {e} : entry'[x] = entry[x]
  BY <1>1, <1>5 DEF Memory
<1>7. SameLook(entry, entry', Of(u)) /\ SameFunc(entry, entry', Of(d))
  BY <1>1, <1>5, <1>6 DEF SameLook, SameLevel, SameFunc
<1> DEFINE r == [func |-> f, intact |-> TRUE]
<1>8. Running' = <<r>> \o Running
  <2>1. Running = RunOf(u, entry, curL)
    BY <1>2, ViewIs
  <2>2. Running' = RunOf(<<e>> \o u, entry', curL + 1)
    BY <1>1, <1>4, ViewThen
  <2>3. RunOf(<<e>> \o u, entry', curL + 1) = <<[func |-> entry'[e].func, intact |-> TRUE]>> \o RunOf(u, entry, curL)
    <3> DEFINE F == entry'
    <3>1. F \in Memory /\ F[e].level = curL + 1 /\ SameLook(entry, F, Of(u))
      BY <1>5, <1>6, <1>7
    <3> HIDE DEF F
    <3>2. RunOf(<<e>> \o u, F, curL + 1) = <<[func |-> F[e].func, intact |-> TRUE]>> \o RunOf(u, entry, curL)
      BY <1>5, <3>1, RunPushed
    <3> QED
      BY <3>2 DEF F
  <2>4. [func |-> entry'[e].func, intact |-> TRUE] = r
    BY <1>6
  <2> QED
    BY <2>1, <2>2, <2>3, <2>4
<1>9. Log' = Log
  <2>1. Log = LogOf(d, entry) /\ Log' = LogOf(d, entry')
    BY <1>2, <1>4, ViewIs, ViewThen
  <2>2. LogOf(d, entry') = LogOf(d, entry)
    <3> DEFINE F == entry'
    <3>1. F \in Memory /\ SameFunc(entry, F, Of(d))
      BY <1>5, <1>7
    <3> HIDE DEF F
    <3>2. LogOf(d, F) = LogOf(d, entry)
      BY <1>5, <3>1, LogStays
    <3> QED
      BY <3>2 DEF F
  <2> QED
    BY <2>1, <2>2
<1>10. Calls' = [Calls EXCEPT ![f] = @ + 1]
  <2>1. \A g \in Func : Item(g) \in [cnt_call : Nat, sec : Nat, usec : Nat]
    BY <1>3 DEF IInv, TypeOK, Item
  <2>2. /\ f \in DOMAIN root' /\ root'[f] = [Item(f) EXCEPT !.cnt_call = @ + 1]
        /\ \A g \in Func : g # f => /\ g \in DOMAIN root' <=> g \in DOMAIN root
                                    /\ g \in DOMAIN root => root'[g] = root[g]
    BY <1>1
  <2>3. Item(f)'.cnt_call = Item(f).cnt_call + 1
    <3>1. Item(f)' = root'[f]
      BY <2>2 DEF Item
    <3>2. root'[f].cnt_call = Item(f).cnt_call + 1
      BY <2>1, <2>2
    <3> QED
      BY <3>1, <3>2
  <2>4. \A g \in Func : g # f => Item(g)' = Item(g)
    BY <2>2 DEF Item
  <2> QED
    BY <2>3, <2>4 DEF Calls
<1>11. T!Start(f)
  BY <1>1, <1>8, <1>9, <1>10 DEF T!Start, Calls
<1> QED
  BY <1>1, <1>11 DEF T!Next

(* The innermost measurement is that of lastI. *)
LEMMA HeadIs ==
  ASSUME IInv, NEW u, NEW d, Lists(u, d), lastI # NULL
  PROVE  /\ u # <<>> /\ u \in Seq(Entries) /\ u[1] = lastI /\ Running # <<>>
         /\ Head(Running).func = entry[lastI].func
         /\ Head(Running).intact = (entry[lastI].level = curL)
<1>1. IsList(entry, lastI, u) /\ entry \in Memory
  BY ListsAre
<1>2. u \in Seq(Entries) /\ u # <<>> /\ u[1] = lastI /\ 1 \in 1 .. Len(u)
  BY <1>1, FirstOf
<1> DEFINE R == RunOf(u, entry, curL)
<1>3. R \in Seq(RunRec) /\ Len(R) = Len(u) /\ \A i \in 1 .. Len(u) : R[i] = RunAt(u, entry, curL, i)
  BY <1>1, <1>2, RunSeq
<1>4. Running = R
  BY ViewIs
<1> HIDE DEF R
<1>5. R # <<>> /\ Head(R) = R[1]
  BY <1>2, <1>3
<1>6. R[1] = RunAt(u, entry, curL, 1)
  BY <1>2, <1>3
<1>7. RunAt(u, entry, curL, 1) = [func |-> entry[lastI].func, intact |-> entry[lastI].level = curL]
  <2>1. Intact(u, entry, curL, 1) = (entry[lastI].level = curL)
    BY <1>2 DEF Intact
  <2> QED
    BY <1>2, <2>1 DEF RunAt
<1>8. Head(R) = [func |-> entry[lastI].func, intact |-> entry[lastI].level = curL]
  BY <1>5, <1>6, <1>7
<1>9. Head(R).func = entry[lastI].func /\ Head(R).intact = (entry[lastI].level = curL)
  BY <1>8
<1> QED
  BY <1>2, <1>4, <1>5, <1>9

(* tl_profile_end ends the innermost one, *)
LEMMA TracerEnd ==
  ASSUME LInv, End
  PROVE  T!Next
<1>1. /\ st = "open" /\ st' = st /\ lost' = lost /\ lastI # NULL /\ curL = entry[lastI].level
      /\ curL' = curL - 1
      /\ root' = [root EXCEPT ![entry[lastI].func] =
                    Total(@, Elapsed(entry[lastI], [sec |-> now \div Second, usec |-> now % Second]))]
  BY DEF End, Ends, end
<1>2. PICK u, d : Lists(u, d)
  BY <1>1 DEF LInv
<1>3. IInv /\ IInv'
  BY EndKeeps DEF LInv
<1>4. PICK l : l = lastI
  OBVIOUS
<1>5. Lists(Tail(u), Append(d, l))' /\ EndedIn(entry') /\ l \in Entries
  BY <1>2, <1>3, <1>4, EndLists
<1>6. /\ entry \in Memory /\ entry' \in Memory /\ curL \in Nat /\ d \in Seq(Entries)
      /\ Of(u) \cup Of(d) = heap /\ heap \subseteq Entries
  BY <1>2, <1>3, ListsAre DEF IInv, TypeOK, Memory, Links
<1>7. /\ u # <<>> /\ u \in Seq(Entries) /\ u[1] = lastI /\ Running # <<>>
      /\ Head(Running).func = entry[lastI].func
      /\ Head(Running).intact = (entry[lastI].level = curL)
  BY <1>1, <1>2, <1>3, HeadIs
<1> DEFINE q == Tail(u)
           F == entry'
<1>8. q \in Seq(Entries) /\ Of(q) \subseteq Entries
  <2>1. q \in Seq(Entries)
    BY <1>7, TailIs
  <2> HIDE DEF q
  <2> QED
    BY <2>1 DEF Of
<1>9. F \in Memory /\ SameLook(entry, F, Of(q)) /\ SameFunc(entry, F, Of(d)) /\ F[l].func = entry[l].func
  BY <1>5, <1>6, <1>8 DEF EndedIn, SameLook, SameLevel, SameFunc
<1> HIDE DEF q
<1>10. Running' = Tail(Running)
  <2>1. Running = RunOf(u, entry, curL)
    BY <1>2, ViewIs
  <2>2. Running' = RunOf(q, F, curL - 1)
    BY <1>1, <1>5, ViewThen DEF q
  <2> HIDE DEF F
  <2>3. RunOf(q, F, curL - 1) = RunOf(q, entry, curL - 1)
    <3>1. q # <<>> => (F[q[1]].level = curL - 1) = (entry[q[1]].level = curL - 1)
      <4> SUFFICES ASSUME q # <<>> PROVE F[q[1]].level = entry[q[1]].level
        OBVIOUS
      <4>1. q[1] \in Of(q)
        <5>1. 1 \in 1 .. Len(q)
          BY <1>8
        <5> QED
          BY <5>1 DEF Of
      <4> QED
        BY <1>9, <4>1 DEF SameLook, SameLevel
    <3> QED
      BY <1>6, <1>8, <1>9, <3>1, RunStays
  <2>4. RunOf(q, entry, curL - 1) = Tail(RunOf(u, entry, curL))
    <3>1. RunOf(Tail(u), entry, entry[u[1]].level - 1) = Tail(RunOf(u, entry, curL))
      BY <1>6, <1>7, RunTail
    <3>2. entry[u[1]].level - 1 = curL - 1
      BY <1>1, <1>7
    <3> QED
      BY <3>1, <3>2 DEF q
  <2> QED
    BY <2>1, <2>2, <2>3, <2>4
<1>11. Log' = Append(Log, entry[lastI].func)
  <2>1. Log = LogOf(d, entry) /\ Log' = LogOf(Append(d, l), F)
    BY <1>2, <1>5, ViewIs, ViewThen
  <2> HIDE DEF F
  <2>2. LogOf(Append(d, l), F) = Append(LogOf(d, entry), F[l].func)
    BY <1>5, <1>6, <1>9, LogAppended
  <2>3. F[l].func = entry[lastI].func
    BY <1>4, <1>9
  <2> QED
    BY <2>1, <2>2, <2>3
<1>12. Calls' = Calls
  <2> DEFINE f == entry[lastI].func
             t == Elapsed(entry[lastI], [sec |-> now \div Second, usec |-> now % Second])
  <2>1. f \in DOMAIN root /\ root[f] \in [cnt_call : Nat, sec : Nat, usec : Nat]
    <3>1. PICK U \in SUBSET Entries : Open(U)
      BY <1>3 DEF IInv
    <3>2. f \in DOMAIN root
      BY <1>1, <3>1 DEF Open
    <3> QED
      BY <1>3, <3>2 DEF IInv, TypeOK
  <2>2. root \in [DOMAIN root -> [cnt_call : Nat, sec : Nat, usec : Nat]]
    BY <1>3 DEF IInv, TypeOK
  <2>3. root' = [root EXCEPT ![f] = Total(root[f], t)]
    BY <1>1
  <2> HIDE DEF f, t
  <2>4. /\ DOMAIN root' = DOMAIN root /\ root'[f] = Total(root[f], t)
        /\ \A g \in DOMAIN root : g # f => root'[g] = root[g]
    BY <2>1, <2>2, <2>3
  <2>5. root'[f].cnt_call = root[f].cnt_call
    BY <2>1, <2>4, CallsCount
  <2>6. \A g \in Func : Item(g)'.cnt_call = Item(g).cnt_call
    BY <2>1, <2>4, <2>5 DEF Item
  <2> QED
    BY <2>6 DEF Calls
<1>13. T!End
  <2>1. Head(Running).intact /\ Head(Running).func = entry[lastI].func
    BY <1>1, <1>7
  <2>2. Log' = Append(Log, Head(Running).func)
    BY <1>11, <2>1
  <2> HIDE <1>7, <1>11
  <2>3. Running # <<>>
    BY <1>7
  <2> QED
    BY <1>1, <1>10, <1>12, <2>1, <2>2, <2>3 DEF T!End, Calls
<1> QED
  BY <1>1, <1>13 DEF T!Next

(* or loses it. *)
LEMMA TracerLoses ==
  ASSUME LInv, EndLoses
  PROVE  T!Next
<1>1. /\ st = "open" /\ st' = st /\ lost' = TRUE /\ lastI # NULL /\ curL > entry[lastI].level
      /\ curL' = curL /\ root' = root
      /\ entry' = [entry EXCEPT ![lastI] = NoEntry]
  BY DEF EndLoses, Ends, end
<1>2. PICK u, d : Lists(u, d)
  BY <1>1 DEF LInv
<1>3. IInv /\ IInv'
  BY LosesKeeps DEF LInv
<1>4. Lists(Tail(u), d)' /\ lastI \in Of(u) /\ \A x \in Entries \ {lastI} : entry'[x] = entry[x]
  BY <1>2, <1>3, LosesLists
<1>5. /\ entry \in Memory /\ entry' \in Memory /\ curL \in Nat /\ d \in Seq(Entries)
      /\ Of(u) \cup Of(d) = heap /\ Of(u) \cap Of(d) = {} /\ heap \subseteq Entries
      /\ IsList(entry, lastI, u) /\ Falls(entry, u)
  BY <1>2, <1>3, ListsAre DEF IInv, TypeOK, Memory, Links
<1>6. /\ u # <<>> /\ u \in Seq(Entries) /\ u[1] = lastI /\ Running # <<>>
      /\ Head(Running).func = entry[lastI].func
      /\ Head(Running).intact = (entry[lastI].level = curL)
  BY <1>1, <1>2, <1>3, HeadIs
<1> DEFINE q == Tail(u)
           F == entry'
<1>7. /\ q \in Seq(Entries) /\ Of(q) = Of(u) \ {lastI} /\ IsList(entry, entry[lastI].next, q)
  BY <1>1, <1>5, <1>6, Popped, TailIs
<1> HIDE DEF q
<1>8. F \in Memory /\ SameLook(entry, F, Of(q)) /\ SameFunc(entry, F, Of(d))
  BY <1>4, <1>5, <1>7 DEF SameLook, SameLevel, SameFunc
<1>9. Running' = T!Spoilt(Tail(Running))
  <2>1. Running = RunOf(u, entry, curL)
    BY <1>2, ViewIs
  <2>2. Running' = RunOf(q, F, curL)
    BY <1>1, <1>4, ViewThen DEF q
  <2> DEFINE b == entry[lastI].level - 1
  <2>3. RunOf(q, entry, b) = Tail(RunOf(u, entry, curL))
    <3>1. RunOf(Tail(u), entry, entry[u[1]].level - 1) = Tail(RunOf(u, entry, curL))
      BY <1>5, <1>6, RunTail
    <3> QED
      BY <1>6, <3>1 DEF q
  <2> HIDE DEF F, b
  <2>4. q # <<>> => F[q[1]].level # curL
    <3> SUFFICES ASSUME q # <<>> PROVE F[q[1]].level # curL
      OBVIOUS
    <3>1. entry[lastI].next # NULL /\ entry[lastI].next = q[1] /\ q[1] \in Of(q) /\ q[1] \in Entries
      BY <1>7, FirstOf
    <3>2. entry[q[1]].level < entry[lastI].level
      BY <1>1, <1>5, <3>1, TailFalls
    <3>3. F[q[1]].level = entry[q[1]].level
      BY <1>8, <3>1 DEF SameLook, SameLevel
    <3>4. entry[q[1]].level \in Nat /\ entry[lastI].level \in Nat
      <4>1. lastI \in Entries
        BY <1>4, <1>5
      <4> QED
        BY <1>5, <3>1, <4>1 DEF Memory, Links
    <3> QED
      BY <1>1, <1>5, <3>2, <3>3, <3>4
  <2>5. RunOf(q, F, curL) = T!Spoilt(RunOf(q, entry, b))
    <3>1. entry \in Memory /\ F \in Memory /\ q \in Seq(Entries) /\ SameLook(entry, F, Of(q))
      BY <1>5, <1>7, <1>8
    <3> QED
      BY <2>4, <3>1, RunSpoilt
  <2> QED
    BY <2>1, <2>2, <2>3, <2>5
<1>10. Log' = Log
  <2>1. Log = LogOf(d, entry) /\ Log' = LogOf(d, F)
    BY <1>2, <1>4, ViewIs, ViewThen
  <2> HIDE DEF F
  <2>2. LogOf(d, F) = LogOf(d, entry)
    BY <1>5, <1>8, LogStays
  <2> QED
    BY <2>1, <2>2
<1>11. Calls' = Calls
  BY <1>1, CallsSame
<1>12. T!Lose
  <2>1. ~ Head(Running).intact
    <3>1. entry[lastI].level \in Nat
      <4>1. lastI \in Entries
        BY <1>4, <1>5
      <4> QED
        BY <1>5, <4>1 DEF Memory, Links
    <3>2. ~ (entry[lastI].level = curL)
      BY <1>1, <1>5, <3>1
    <3> QED
      BY <1>6, <3>2
  <2>2. Running # <<>>
    BY <1>6
  <2> QED
    BY <1>1, <1>9, <1>10, <1>11, <2>1, <2>2 DEF T!Lose, Calls
<1> QED
  BY <1>1, <1>12 DEF T!Next

\* A start that is ignored: the depth of the calls is no longer that of the innermost.
LEMMA TracerMiss ==
  ASSUME LInv, StartIgnored
  PROVE  T!Next
<1>1. /\ st = "open" /\ curL' = curL + 1
      /\ UNCHANGED <<root, first, lastI, lastE, entry, heap, st, lost>>
  BY DEF StartIgnored, Starts
<1>2. PICK u, d : Lists(u, d)
  BY <1>1 DEF LInv
<1>3. /\ entry \in Memory /\ curL \in Nat /\ u \in Seq(Entries) /\ lastI \in Entries \cup {NULL}
      /\ IsList(entry, lastI, u) /\ (lastI # NULL => entry[lastI].level <= curL)
  BY <1>2, ListsAre DEF LInv
<1>4. Lists(u, d)'
  <2>1. Under(entry, lastI, curL + 1, u)
    <3>1. Under(entry, lastI, curL, u) /\ curL + 1 \in Nat /\ curL + 1 >= curL
      BY <1>2, <1>3 DEF Lists
    <3> QED
      BY <1>3, <3>1, UnderRaised
  <2>2. Done(entry, first, lastE, d) /\ Of(u) \cap Of(d) = {} /\ Of(u) \cup Of(d) = heap
    BY <1>2 DEF Lists
  <2> QED
    BY <1>1, <2>1, <2>2 DEF Lists
<1>5. Running = RunOf(u, entry, curL) /\ Log = LogOf(d, entry)
  BY <1>2, ViewIs
<1>6. Running' = RunOf(u, entry, curL + 1) /\ Log' = LogOf(d, entry)
  BY <1>1, <1>4, ViewThen
<1>7. RunOf(u, entry, curL + 1) = T!Spoilt(RunOf(u, entry, curL))
  <2>1. SameLook(entry, entry, Of(u))
    BY DEF SameLook, SameLevel, SameFunc
  <2>2. u # <<>> => entry[u[1]].level # curL + 1
    <3> SUFFICES ASSUME u # <<>> PROVE entry[u[1]].level # curL + 1
      OBVIOUS
    <3>1. lastI # NULL /\ lastI = u[1]
      BY <1>3, FirstOf
    <3>2. entry[lastI].level \in Nat
      BY <1>3, <3>1 DEF Memory, Links
    <3> QED
      BY <1>3, <3>1, <3>2
  <2> QED
    BY <1>3, <2>1, <2>2, RunSpoilt
<1>8. Calls' = Calls
  BY <1>1, CallsSame
<1>9. T!Miss
  BY <1>1, <1>5, <1>6, <1>7, <1>8 DEF T!Miss, Calls
<1> QED
  BY <1>1, <1>9 DEF T!Next

\* tl_profile_destroy leaves nothing to be seen.
LEMMA TracerDestroy ==
  ASSUME LInv, Destroy
  PROVE  T!Next
<1>1. /\ st = "open" /\ st' = "none" /\ lastI' = NULL /\ lastE' = NULL /\ lost' = FALSE /\ root' = NoItems
  BY DEF Destroy
<1>2. IsList(entry', NULL, <<>>)
  BY DEF IsList
<1>3. Chain(lastI)' = ListFrom(entry', lastI')
  BY DEF Chain, ListFrom, Chains, Longer
<1>4. Chain(lastI)' = <<>>
  <2>1. ListFrom(entry', NULL) = <<>>
    BY <1>2, ListFromIs
  <2> QED
    BY <1>1, <1>3, <2>1
<1>5. Running' = <<>>
  BY <1>4 DEF Running
<1>6. Log' = <<>>
  BY <1>1 DEF Log
<1>7. Calls' = [f \in Func |-> 0]
  BY <1>1 DEF Calls, Item, NoItems
<1>8. T!Close
  BY <1>1, <1>5, <1>6, <1>7 DEF T!Close, T!Nothing, Calls
<1> QED
  BY <1>1, <1>8 DEF T!Next

\* The process goes: the first start of a name finds no memory, or what is read is gone.
LEMMA TracerBreaks ==
  ASSUME LInv, InitCrashes \/ StartCrashes \/ DestroyCrashes
  PROVE  T!Next
<1>1. /\ UNCHANGED <<curL, root, first, lastI, lastE, entry, lost>> /\ st' = "over"
  BY DEF InitCrashes, StartCrashes, DestroyCrashes
<1>2. Running' = Running /\ Log' = Log /\ Calls' = Calls
  BY <1>1, ViewSame
<1>3. (\E f \in Func : Calls[f] = 0) \/ (lost /\ Log = <<>>)
  <2>1. CASE InitCrashes
    <3>1. root = NoItems
      BY <2>1 DEF InitCrashes, LInv, Clear
    <3>2. \A f \in Func : Calls[f] = 0
      BY <3>1 DEF Calls, Item, NoItems
    <3> QED
      BY <3>2, ProfileAssumption
  <2>2. CASE StartCrashes
    <3>1. PICK f \in Func : f \notin DOMAIN root
      BY <2>2 DEF StartCrashes
    <3>2. Calls[f] = 0
      BY <3>1 DEF Calls, Item
    <3> QED
      BY <3>2
  <2>3. CASE DestroyCrashes
    <3>1. first # NULL /\ first \notin heap /\ st = "open"
      BY <2>3 DEF DestroyCrashes, Dangling
    <3>2. PICK u, d : Lists(u, d)
      BY <3>1 DEF LInv
    <3>3. lastE = NULL
      <4> SUFFICES ASSUME lastE # NULL PROVE FALSE
        OBVIOUS
      <4>1. IsList(entry, first, d) /\ Of(d) \subseteq heap
        BY <3>2 DEF Lists, Done
      <4> QED
        BY <3>1, <4>1, FirstOf
    <3>4. lost
      BY <3>1, <3>3 DEF LInv
    <3> QED
      BY <3>3, <3>4 DEF Log
  <2> QED
    BY <2>1, <2>2, <2>3
<1>4. T!Break
  BY <1>1, <1>2, <1>3 DEF T!Break, Calls
<1> QED
  BY <1>4 DEF T!Next

(* Every step of the profile is one of the tracer. *)
LEMMA TracerNext == LInv /\ [Next]_vars => [T!Next]_T!tracerVars
<1> SUFFICES ASSUME LInv, [Next]_vars PROVE T!Next \/ UNCHANGED T!tracerVars
  OBVIOUS
<1>1. ASSUME NEW f \in Func, NEW e \in Entries, Start(f, e) PROVE T!Next
  BY <1>1, TracerStart
<1>2. CASE End
  BY <1>2, TracerEnd
<1>3. CASE EndLoses
  BY <1>3, TracerLoses
<1>4. CASE StartIgnored
  BY <1>4, TracerMiss
<1>5. CASE Destroy
  BY <1>5, TracerDestroy
<1>6. CASE InitCrashes \/ StartCrashes \/ DestroyCrashes
  BY <1>6, TracerBreaks
<1>7. CASE ProfileInit
  <2>1. UNCHANGED <<curL, root, first, lastI, lastE, entry, lost>> /\ st = "none" /\ st' = "open"
    BY <1>7 DEF ProfileInit
  <2>2. Running' = Running /\ Log' = Log /\ Calls' = Calls
    BY <2>1, ViewSame
  <2>3. T!Open
    BY <2>1, <2>2 DEF T!Open, Calls
  <2> QED
    BY <2>3 DEF T!Next
<1>8. CASE Tick \/ EndOfNothing \/ UNCHANGED vars
  <2>1. UNCHANGED <<curL, root, first, lastI, lastE, entry, lost, st>>
    BY <1>8 DEF Tick, EndOfNothing, vars
  <2>2. Running' = Running /\ Log' = Log /\ Calls' = Calls
    BY <2>1, ViewSame
  <2>3. UNCHANGED T!tracerVars
    BY <2>1, <2>2 DEF T!tracerVars, Calls
  <2> QED
    BY <2>3
<1> QED
  BY <1>1, <1>2, <1>3, <1>4, <1>5, <1>6, <1>7, <1>8 DEF Next

(* ImplementsTracer: the measurements end in the opposite order of their starts, each
   one in the log, but for those around one whose start was ignored. *)
THEOREM TracerImplemented == Spec => ImplementsTracer
<1>1. Init => T!Init
  BY TracerInit
<1>2. LInv /\ [Next]_vars => [T!Next]_T!tracerVars
  BY TracerNext
<1> QED
  BY <1>1, <1>2, ListsInvariant, PTL DEF Spec, ImplementsTracer, T!Spec
=============================================================================
