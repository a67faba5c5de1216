------------------------- MODULE SignalQuotaProofs -------------------------
(***************************************************************************)
(* Proofs about SignalQuota, for all subjects, signals, threads and limits *)
(* and for an unbounded clock reading within ClockLag.  The inductive      *)
(* invariant says that no entry leaves the file while its window lasts     *)
(* (Recent), that the file itself holds at most Limit signals per subject  *)
(* (Slots), and that a waiting call's reading is not older than ClockLag   *)
(* (Readings); the quota over windows of the history follows from the      *)
(* three when an entry is written.                                         *)
(***************************************************************************)
EXTENDS SignalQuota, FiniteSetTheorems, TLAPS

Readings ==
  \A p \in Threads : call[p].step = "waiting" =>
    call[p].current <= now /\ now <= call[p].current + ClockLag
Past == \A e \in granted : e.time <= now
Recent == \A e \in granted : now - e.time < Window => e \in ledger
Slots == \A s \in Subjects : Cardinality(SignalsOf(ledger, s)) <= Limit

IInv == /\ TypeOK /\ Readings /\ Past /\ Recent /\ Slots
        /\ QuotaWithinWindow /\ ShownIsCounted

-----------------------------------------------------------------------------
(* Counting.                                                               *)

\* A finite set of numbers that is not empty has a largest element.
LEMMA LargestElement ==
  ASSUME NEW S, S \subseteq Nat, IsFiniteSet(S), S # {}
  PROVE  \E m \in S : \A x \in S : x <= m
<1> DEFINE Above(i) == {j \in S : j > i}
<1> DEFINE Family == {Above(i) : i \in S}
<1>1. Family \subseteq FiniteSubsetsOf(S)
  BY FS_Subset DEF FiniteSubsetsOf
<1>2. Family # {}
  OBVIOUS
<1>3. PICK A \in Family : \A B \in Family : ~(<<B, A>> \in StrictSubsetOrdering(S))
  <2> HIDE DEF Family
  <2> QED BY <1>1, <1>2, FS_StrictSubsetOrderingWellFounded, WFMin, Zenon
<1>4. PICK m \in S : A = Above(m)
  OBVIOUS
<1>5. ASSUME NEW x \in S, x > m PROVE FALSE
  <2>1. Above(x) \in Family
    OBVIOUS
  <2>2. Above(x) \subseteq A /\ Above(x) # A
    <3>1. x \in A /\ x \notin Above(x)
      BY <1>4, <1>5
    <3>2. ASSUME NEW y \in Above(x) PROVE y \in A
      BY <1>4, <1>5
    <3> QED BY <3>1, <3>2
  <2>3. <<Above(x), A>> \in StrictSubsetOrdering(S)
    BY <2>2, <1>4 DEF StrictSubsetOrdering
  <2> QED BY <2>1, <2>3, <1>3
<1> QED BY <1>5

\* The positions with fewer than R members of U before them are at most R.
LEMMA FirstFew ==
  ASSUME NEW U, U \subseteq Nat, IsFiniteSet(U), NEW R \in Nat
  PROVE  LET N == {n \in U : Cardinality({m \in U : m < n}) < R}
         IN IsFiniteSet(N) /\ Cardinality(N) <= R
<1> DEFINE Before(n) == {m \in U : m < n}
<1> DEFINE N == {n \in U : Cardinality(Before(n)) < R}
<1> SUFFICES IsFiniteSet(N) /\ Cardinality(N) <= R
  OBVIOUS
<1>1. IsFiniteSet(N)
  BY FS_Subset
<1>2. CASE N = {}
  <2> HIDE DEF N
  <2> QED BY <1>2, FS_EmptySet
<1>3. CASE N # {}
  <2>1. PICK n \in N : \A x \in N : x <= n
    <3> HIDE DEF N
    <3>1. N \subseteq Nat
      BY DEF N
    <3> QED BY <1>1, <1>3, <3>1, LargestElement
  <2>2. IsFiniteSet(Before(n)) /\ Cardinality(Before(n)) \in Nat
    BY FS_Subset, FS_CardinalityType
  <2>3. n \notin Before(n)
    OBVIOUS
  <2>4. IsFiniteSet(Before(n) \cup {n})
        /\ Cardinality(Before(n) \cup {n}) = Cardinality(Before(n)) + 1
    <3> HIDE DEF Before
    <3> QED BY <2>2, <2>3, FS_AddElement
  <2>5. N \subseteq Before(n) \cup {n}
    <3>1. ASSUME NEW x \in N PROVE x \in U /\ x \in Nat /\ x <= n
      BY <2>1
    <3>2. ASSUME NEW x \in N PROVE x \in Before(n) \cup {n}
      <4>1. x < n \/ x = n
        BY <3>1
      <4> QED BY <3>1, <4>1
    <3> QED BY <3>2
  <2>6. Cardinality(Before(n)) < R
    OBVIOUS
  <2>7. Cardinality(N) <= Cardinality(Before(n) \cup {n})
    <3> HIDE DEF N, Before
    <3> QED BY <2>4, <2>5, FS_Subset
  <2>8. Cardinality(N) \in Nat
    BY <1>1, FS_CardinalityType
  <2> HIDE DEF N, Before
  <2> QED BY <1>1, <2>2, <2>4, <2>6, <2>7, <2>8
<1> HIDE DEF N
<1> QED BY <1>2, <1>3

\* What a page takes is unknown so far and fits into the slots left.
LEMMA TakenFits ==
  ASSUME NEW known, known \subseteq Signals, Cardinality(known) <= Limit,
         NEW page \in Pages
  PROVE  /\ Taken(known, page) \subseteq Signals
         /\ Taken(known, page) \cap known = {}
         /\ Cardinality(known \cup Taken(known, page)) <= Limit
<1> DEFINE U == {i \in DOMAIN page : page[i] \notin known}
<1> DEFINE N == {n \in U : Cardinality({m \in U : m < n}) < Room(known, page)}
<1>1. PICK len \in Nat : page \in [1..len -> Signals]
  <2>1. Cardinality(Signals) \in Nat
    BY QuotaAssumption, FS_CardinalityType
  <2> QED BY <2>1 DEF Pages
<1>2. IsFiniteSet(known) /\ Cardinality(known) \in Nat
  BY QuotaAssumption, FS_Subset, FS_CardinalityType
<1>3. Room(known, page) \in Nat
  BY <1>2, QuotaAssumption DEF Room
<1>4. U \subseteq Nat /\ IsFiniteSet(U)
  BY <1>1, FS_Interval, FS_Subset
<1>5. IsFiniteSet(N) /\ Cardinality(N) <= Room(known, page)
  <2> HIDE DEF U
  <2> QED BY <1>3, <1>4, FirstFew
<1>6. Taken(known, page) = {page[i] : i \in N}
  BY DEF Taken
<1>7. Taken(known, page) \subseteq Signals /\ Taken(known, page) \cap known = {}
  BY <1>1, <1>6
<1>8. IsFiniteSet(Taken(known, page)) /\ Cardinality(Taken(known, page)) <= Cardinality(N)
  <2> DEFINE f == [i \in N |-> page[i]]
  <2> HIDE DEF N
  <2>1. f \in Surjection(N, Taken(known, page))
    BY <1>6 DEF Surjection
  <2> HIDE DEF f
  <2> QED BY <1>5, <2>1, FS_Surjection
<1>9. /\ Cardinality(N) \in Nat
      /\ Cardinality(Taken(known, page)) \in Nat
      /\ Cardinality(known \cap Taken(known, page)) = 0
      /\ Cardinality(known \cup Taken(known, page))
           = Cardinality(known) + Cardinality(Taken(known, page))
               - Cardinality(known \cap Taken(known, page))
  BY <1>2, <1>5, <1>7, <1>8, FS_CardinalityType, FS_Union, FS_EmptySet
<1>10. Cardinality(known) + Room(known, page) = Limit
  BY <1>2, QuotaAssumption DEF Room
<1> HIDE DEF N
<1> QED BY <1>2, <1>3, <1>5, <1>7, <1>8, <1>9, <1>10

\* A set of numbers that has a member and is finite has a smallest one.
LEMMA SmallestElement ==
  ASSUME NEW S, S \subseteq Nat, IsFiniteSet(S), S # {}
  PROVE  \E m \in S : \A x \in S : m <= x
<1> DEFINE Below(i) == {j \in S : j < i}
<1> DEFINE Family == {Below(i) : i \in S}
<1>1. Family \subseteq FiniteSubsetsOf(S)
  BY FS_Subset DEF FiniteSubsetsOf
<1>2. Family # {}
  OBVIOUS
<1>3. PICK A \in Family : \A B \in Family : ~(<<B, A>> \in StrictSubsetOrdering(S))
  <2> HIDE DEF Family
  <2> QED BY <1>1, <1>2, FS_StrictSubsetOrderingWellFounded, WFMin, Zenon
<1>4. PICK m \in S : A = Below(m)
  OBVIOUS
<1>5. ASSUME NEW x \in S, x < m PROVE FALSE
  <2>1. Below(x) \in Family
    OBVIOUS
  <2>2. Below(x) \subseteq A /\ Below(x) # A
    <3>1. x \in A /\ x \notin Below(x)
      BY <1>4, <1>5
    <3>2. ASSUME NEW y \in Below(x) PROVE y \in A
      BY <1>4, <1>5
    <3> QED BY <3>1, <3>2
  <2>3. <<Below(x), A>> \in StrictSubsetOrdering(S)
    BY <2>2, <1>4 DEF StrictSubsetOrdering
  <2> QED BY <2>1, <2>3, <1>3
<1> QED BY <1>5

\* If a member of U has R others before it, the positions with fewer are R
\* at least: those before the smallest such member are among them.
LEMMA FirstFill ==
  ASSUME NEW U, U \subseteq Nat, IsFiniteSet(U), NEW R \in Nat,
         NEW i \in U, ~ (Cardinality({m \in U : m < i}) < R)
  PROVE  R <= Cardinality({n \in U : Cardinality({m \in U : m < n}) < R})
<1> DEFINE Before(n) == {m \in U : m < n}
<1> DEFINE N == {n \in U : Cardinality(Before(n)) < R}
<1> DEFINE Full == {n \in U : ~ (Cardinality(Before(n)) < R)}
<1>1. PICK s \in Full : \A x \in Full : s <= x
  <2>1. IsFiniteSet(Full) /\ Full \subseteq Nat /\ Full # {}
    BY FS_Subset
  <2> HIDE DEF Full
  <2> QED BY <2>1, SmallestElement
<1>2. Before(s) \subseteq N
  <2> SUFFICES ASSUME NEW x \in Before(s), x \notin N PROVE FALSE
    OBVIOUS
  <2>1. x \in Full /\ x < s /\ x \in Nat /\ s \in Nat
    OBVIOUS
  <2> QED BY <1>1, <2>1
<1>3. IsFiniteSet(N)
  BY FS_Subset
<1>4. ~ (Cardinality(Before(s)) < R)
  BY <1>1
<1> HIDE DEF N, Before
<1>5. /\ Cardinality(Before(s)) \in Nat /\ Cardinality(N) \in Nat
      /\ Cardinality(Before(s)) <= Cardinality(N)
  BY <1>2, <1>3, FS_Subset, FS_CardinalityType
<1>6. R <= Cardinality(N)
  BY <1>4, <1>5
<1> QED BY <1>6 DEF N, Before

\* A page with a signal that is neither known nor taken leaves no slot, and
\* takes none of the unknown signals after it.
LEMMA HiddenFills ==
  ASSUME NEW known, known \subseteq Signals, Cardinality(known) <= Limit,
         NEW page \in Pages, NEW i \in DOMAIN page,
         page[i] \notin known \cup Taken(known, page)
  PROVE  /\ Cardinality(known \cup Taken(known, page)) = Limit
         /\ \A j \in DOMAIN page :
              i < j /\ page[j] \notin known => page[j] \notin Taken(known, page)
<1> DEFINE U == {n \in DOMAIN page : page[n] \notin known}
<1> DEFINE N == {n \in U : Cardinality({m \in U : m < n}) < Room(known, page)}
<1>1. PICK len \in Nat : page \in [1..len -> Signals]
  <2>1. Cardinality(Signals) \in Nat
    BY QuotaAssumption, FS_CardinalityType
  <2> QED BY <2>1 DEF Pages
<1>2. \A m, n \in DOMAIN page : page[m] = page[n] => m = n
  BY DEF Pages
<1>3. IsFiniteSet(known) /\ Cardinality(known) \in Nat
  BY QuotaAssumption, FS_Subset, FS_CardinalityType
<1>4. Room(known, page) \in Nat /\ Cardinality(known) + Room(known, page) = Limit
  BY <1>3, QuotaAssumption DEF Room
<1>5. U \subseteq Nat /\ IsFiniteSet(U) /\ N \subseteq U /\ U \subseteq DOMAIN page
  BY <1>1, FS_Interval, FS_Subset
<1>6. IsFiniteSet(N)
  BY <1>5, FS_Subset
<1>7. Taken(known, page) = {page[n] : n \in N}
  BY DEF Taken
<1>8. i \in U /\ i \notin N
  BY <1>7
<1>9. ~ (Cardinality({m \in U : m < i}) < Room(known, page))
  BY <1>8
<1>10. Room(known, page) <= Cardinality(N)
  <2> HIDE DEF U
  <2> QED BY <1>4, <1>5, <1>8, <1>9, FirstFill
<1>11. Cardinality(Taken(known, page)) = Cardinality(N) /\ IsFiniteSet(Taken(known, page))
  <2> DEFINE f == [n \in N |-> page[n]]
  <2>1. f \in [N -> Taken(known, page)] /\ \A m, n \in N : f[m] = f[n] => m = n
    <3> HIDE DEF N, U
    <3> QED BY <1>2, <1>5, <1>7
  <2>2. \A t \in Taken(known, page) : \E n \in N : f[n] = t
    <3> HIDE DEF N, U
    <3> QED BY <1>7
  <2> HIDE DEF f, N
  <2>3. f \in Injection(N, Taken(known, page))
    BY <2>1 DEF Injection, IsInjective
  <2>4. f \in Surjection(N, Taken(known, page))
    BY <2>1, <2>2 DEF Surjection
  <2> QED BY <1>6, <2>3, <2>4, FS_Surjection
<1>12. known \cap Taken(known, page) = {}
  <2> HIDE DEF N
  <2> QED BY <1>5, <1>7 DEF U
<1>13. Cardinality(known \cup Taken(known, page)) = Limit
  <2> HIDE DEF N
  <2>1. /\ Cardinality(known \cap Taken(known, page)) = 0
        /\ Cardinality(known \cup Taken(known, page))
             = Cardinality(known) + Cardinality(Taken(known, page))
                 - Cardinality(known \cap Taken(known, page))
        /\ Cardinality(N) \in Nat
    BY <1>3, <1>6, <1>11, <1>12, FS_CardinalityType, FS_Union, FS_EmptySet
  <2>2. Cardinality(known \cup Taken(known, page)) <= Limit
    BY TakenFits
  <2> QED BY <1>3, <1>4, <1>10, <1>11, <2>1, <2>2, QuotaAssumption
<1>14. ASSUME NEW j \in DOMAIN page, i < j, page[j] \notin known,
              page[j] \in Taken(known, page)
       PROVE  FALSE
  <2>1. j \in N
    <3> HIDE DEF N, U
    <3>1. PICK n \in N : page[n] = page[j]
      BY <1>7, <1>14
    <3> QED BY <1>2, <1>5, <3>1
  <2>2. Cardinality({m \in U : m < j}) < Room(known, page)
    BY <2>1
  <2>3. {m \in U : m < i} \subseteq {m \in U : m < j}
    BY <1>5, <1>8, <1>14, <1>1
  <2> HIDE DEF U, N
  <2>4. IsFiniteSet({m \in U : m < j})
    BY <1>5, FS_Subset
  <2>5. /\ Cardinality({m \in U : m < i}) <= Cardinality({m \in U : m < j})
        /\ Cardinality({m \in U : m < i}) \in Nat
        /\ Cardinality({m \in U : m < j}) \in Nat
    BY <2>3, <2>4, FS_Subset, FS_CardinalityType
  <2> QED BY <1>4, <1>9, <2>2, <2>5
<1> QED BY <1>13, <1>14

-----------------------------------------------------------------------------
(* The file under the lock.                                                *)

\* An ended call that shows nothing is a call.
LEMMA EmptyTyped ==
  ASSUME NEW step \in {"idle", "waiting", "served", "unavailable", "future"}
  PROVE  Empty(step) \in Call
<1>1. (CHOOSE s \in Subjects : TRUE) \in Subjects
  BY QuotaAssumption
<1>2. << >> \in Pages
  <2>1. Cardinality(Signals) \in Nat
    BY QuotaAssumption, FS_CardinalityType
  <2>2. << >> \in [1..0 -> Signals] /\ 0 \in 0..Cardinality(Signals)
    BY <2>1
  <2> QED BY <2>2 DEF Pages
<1> QED BY <1>1, <1>2 DEF Empty, Call

\* What Serve writes: of every subject what was kept, and of the call's own
\* subject also new entries, of unknown signals, at the call's reading.
LEMMA UpdatedFile ==
  ASSUME ledger \subseteq Entry, Slots,
         \A e, f \in ledger : e.subject = f.subject /\ e.signal = f.signal => e = f,
         NEW c \in Call
  PROVE  /\ Updated(c) \subseteq Entry
         /\ \A e, f \in Updated(c) :
              e.subject = f.subject /\ e.signal = f.signal => e = f
         /\ \A e \in Updated(c) :
              \/ e \in ledger /\ c.current - e.time < Window
              \/ e.subject = c.subject /\ e.time = c.current
         /\ \A e \in ledger : c.current - e.time < Window => e \in Updated(c)
         /\ \A s \in Subjects : Cardinality(SignalsOf(Updated(c), s)) <= Limit
         /\ LET known == SignalsOf(Kept(ledger, c.current), c.subject)
            IN  /\ known \subseteq Signals /\ Cardinality(known) <= Limit
                /\ SignalsOf(Updated(c), c.subject) = known \cup Taken(known, c.page)
<1> DEFINE kept == Kept(ledger, c.current)
<1> DEFINE known == SignalsOf(kept, c.subject)
<1> DEFINE taken == Taken(known, c.page)
<1> DEFINE new == {[subject |-> c.subject, signal |-> k, time |-> c.current] : k \in taken}
<1>1. Updated(c) = kept \cup new
  BY DEF Updated, Admitted
<1>2. kept \subseteq ledger /\ \A e \in ledger : e \in kept <=> c.current - e.time < Window
  BY DEF Kept
<1>3. c.subject \in Subjects /\ c.current \in Nat /\ c.page \in Pages
  BY DEF Call
<1>4. \A s : SignalsOf(kept, s) \subseteq SignalsOf(ledger, s)
  BY <1>2 DEF SignalsOf
<1>5. \A s : SignalsOf(ledger, s) \subseteq Signals
  BY DEF SignalsOf, Entry
<1>6. \A s \in Subjects : Cardinality(SignalsOf(kept, s)) <= Limit
  <2> TAKE s \in Subjects
  <2>1. IsFiniteSet(SignalsOf(ledger, s)) /\ IsFiniteSet(SignalsOf(kept, s))
    <3> HIDE DEF kept
    <3> QED BY <1>4, <1>5, FS_Subset, QuotaAssumption
  <2>2. Cardinality(SignalsOf(kept, s)) <= Cardinality(SignalsOf(ledger, s))
    <3> HIDE DEF kept
    <3> QED BY <2>1, <1>4, FS_Subset
  <2>3. /\ Cardinality(SignalsOf(kept, s)) \in Nat
        /\ Cardinality(SignalsOf(ledger, s)) \in Nat
        /\ Cardinality(SignalsOf(ledger, s)) <= Limit
    <3> HIDE DEF kept
    <3> QED BY <2>1, FS_CardinalityType DEF Slots
  <2> QED BY <2>2, <2>3, QuotaAssumption
<1>7. /\ taken \subseteq Signals /\ taken \cap known = {}
      /\ Cardinality(known \cup taken) <= Limit
  <2>1. known \subseteq Signals /\ Cardinality(known) <= Limit
    BY <1>3, <1>4, <1>5, <1>6
  <2> HIDE DEF known
  <2> QED BY <1>3, <2>1, TakenFits
<1> HIDE DEF kept, taken
<1>8. \A e \in new : /\ e \in Entry /\ e.subject = c.subject
                     /\ e.time = c.current /\ e.signal \in taken
  BY <1>3, <1>7 DEF Entry
<1>9. \A e, f \in new : e.signal = f.signal => e = f
  OBVIOUS
<1>10. \A e \in kept, f \in new : ~(e.subject = f.subject /\ e.signal = f.signal)
  BY <1>7, <1>8 DEF SignalsOf
<1>11. \A s \in Subjects : SignalsOf(Updated(c), s)
         = IF s = c.subject THEN known \cup taken ELSE SignalsOf(kept, s)
  <2> TAKE s \in Subjects
  <2>1. CASE s = c.subject
    <3>1. SignalsOf(new, s) = taken
      <4>1. ASSUME NEW k \in taken PROVE k \in SignalsOf(new, s)
        <5>1. PICK e \in new : e.signal = k
          <6> DEFINE e == [subject |-> c.subject, signal |-> k, time |-> c.current]
          <6>1. e \in new /\ e.signal = k
            OBVIOUS
          <6> HIDE DEF e, new
          <6> QED BY <6>1
        <5> QED BY <1>8, <2>1, <5>1 DEF SignalsOf
      <4>2. SignalsOf(new, s) \subseteq taken
        BY <1>8 DEF SignalsOf
      <4> QED BY <4>1, <4>2
    <3>2. SignalsOf(kept \cup new, s) = SignalsOf(kept, s) \cup SignalsOf(new, s)
      BY DEF SignalsOf
    <3> QED BY <1>1, <2>1, <3>1, <3>2
  <2>2. CASE s # c.subject
    BY <1>1, <1>8, <2>2 DEF SignalsOf
  <2> QED BY <2>1, <2>2
<1>14. /\ known \subseteq Signals /\ Cardinality(known) <= Limit
       /\ SignalsOf(Updated(c), c.subject) = known \cup taken
  BY <1>3, <1>4, <1>5, <1>6, <1>11
<1> HIDE DEF new
<1>12. \A s \in Subjects : Cardinality(SignalsOf(Updated(c), s)) <= Limit
  BY <1>6, <1>7, <1>11
<1>13. \A e, f \in Updated(c) :
         e.subject = f.subject /\ e.signal = f.signal => e = f
  BY <1>1, <1>2, <1>8, <1>9, <1>10
<1> QED BY <1>1, <1>2, <1>8, <1>12, <1>13, <1>14 DEF kept, taken

-----------------------------------------------------------------------------
(* The inductive invariant.                                                *)

LEMMA InitHolds == Init => IInv
<1> SUFFICES ASSUME Init PROVE IInv
  OBVIOUS
<1>1. TypeOK
  BY EmptyTyped DEF Init, TypeOK, Entry
<1>2. Readings /\ ShownIsCounted
  BY DEF Init, Empty, Readings, ShownIsCounted
<1>3. Past /\ Recent
  BY DEF Init, Past, Recent
<1>4. Slots
  <2>1. \A s : SignalsOf(ledger, s) = {}
    BY DEF Init, SignalsOf
  <2> QED BY <2>1, FS_EmptySet, QuotaAssumption DEF Slots
<1>5. QuotaWithinWindow
  <2>1. \A s, from, to : GrantedIn(s, from, to) = {}
    BY DEF Init, GrantedIn
  <2> QED BY <2>1, FS_EmptySet, QuotaAssumption DEF QuotaWithinWindow
<1> QED BY <1>1, <1>2, <1>3, <1>4, <1>5 DEF IInv

\* Whatever leaves the file, the history and the clock alone, keeps the
\* invariant if the calls stay calls with fresh readings and sound pages.
LEMMA CallsOnly ==
  ASSUME IInv, UNCHANGED <<now, ledger, granted>>, call' \in [Threads -> Call],
         NEW q \in Threads, \A p \in Threads \ {q} : call'[p] = call[p],
         call'[q].step = "waiting" => call'[q].current = now,
         call'[q].allowed = {}
  PROVE  IInv'
<1>1. TypeOK'
  BY DEF IInv, TypeOK
<1>2. Readings'
  BY QuotaAssumption DEF IInv, TypeOK, Readings
<1>3. (Past /\ Recent /\ Slots /\ QuotaWithinWindow)'
  BY DEF IInv, Past, Recent, Slots, SignalsOf, QuotaWithinWindow, GrantedIn
<1>4. ShownIsCounted'
  BY DEF IInv, ShownIsCounted
<1> QED BY <1>1, <1>2, <1>3, <1>4 DEF IInv

LEMMA ServeHolds ==
  ASSUME IInv, NEW p \in Threads, Serve(p)
  PROVE  IInv'
<1> DEFINE c == call[p]
<1> DEFINE file == Updated(c)
<1> DEFINE shown == {c.page[i] : i \in DOMAIN c.page} \cap SignalsOf(file, c.subject)
<1>1. /\ c \in Call /\ c.step = "waiting" /\ now \in Nat
      /\ c.subject \in Subjects /\ c.current \in Nat /\ c.page \in Pages
      /\ c.current <= now /\ now <= c.current + ClockLag
  BY DEF IInv, TypeOK, Serve, Readings, Call
<1>2. /\ ledger' = file /\ granted' = granted \cup file /\ now' = now
      /\ call' = [call EXCEPT ![p].step = "served", ![p].page = << >>,
                              ![p].allowed = shown]
  BY DEF Serve, Shows
<1>3. /\ file \subseteq Entry
      /\ \A e, f \in file : e.subject = f.subject /\ e.signal = f.signal => e = f
      /\ \A e \in file : \/ e \in ledger /\ c.current - e.time < Window
                         \/ e.subject = c.subject /\ e.time = c.current
      /\ \A e \in ledger : c.current - e.time < Window => e \in file
      /\ \A s \in Subjects : Cardinality(SignalsOf(file, s)) <= Limit
  <2>1. /\ ledger \subseteq Entry /\ Slots
        /\ \A e, f \in ledger : e.subject = f.subject /\ e.signal = f.signal => e = f
    BY DEF IInv, TypeOK
  <2> HIDE DEF c
  <2> QED BY <1>1, <2>1, UpdatedFile
<1> HIDE DEF file
<1>4. /\ granted \subseteq Entry /\ ledger \subseteq granted
      /\ \A e \in granted : e.time \in Nat /\ e.time <= now
      /\ \A e \in granted : now - e.time < Window => e \in ledger
      /\ \A e \in file : e.time \in Nat /\ e.time <= now
  BY <1>1, <1>3 DEF IInv, TypeOK, Past, Recent, Entry
\* An entry of the history that is no older than the window is in the file.
<1>5. \A e \in granted \cup file : now - e.time < Window => e \in file
  <2> SUFFICES ASSUME NEW e \in granted, now - e.time < Window PROVE e \in file
    BY <1>4
  <2>1. e \in ledger /\ e.time \in Nat
    BY <1>4
  <2>2. c.current - e.time < Window
    BY <1>1, <2>1, QuotaAssumption
  <2> QED BY <1>3, <2>1, <2>2
<1>6. TypeOK'
  <2>1. shown \in SUBSET Signals /\ << >> \in Pages
    <3>1. SignalsOf(file, c.subject) \subseteq Signals
      BY <1>3 DEF SignalsOf, Entry
    <3>2. << >> \in Pages
      BY EmptyTyped DEF Empty, Call
    <3> QED BY <3>1, <3>2
  <2>2. call' \in [Threads -> Call]
    <3> HIDE DEF shown
    <3>1. call \in [Threads -> Call]
      BY DEF IInv, TypeOK
    <3>2. [call[p] EXCEPT !.step = "served", !.page = << >>, !.allowed = shown] \in Call
      BY <1>1, <2>1 DEF Call
    <3> QED BY <1>2, <3>1, <3>2
  <2> QED BY <1>1, <1>2, <1>3, <1>4, <2>2 DEF TypeOK
<1>7. /\ \A q \in Threads \ {p} : call'[q] = call[q]
      /\ call'[p].step = "served" /\ call'[p].subject = c.subject
      /\ call'[p].current = c.current /\ call'[p].allowed = shown
  <2> HIDE DEF shown
  <2> QED BY <1>1, <1>2 DEF IInv, TypeOK, Call
<1>8. Readings'
  BY <1>2, <1>7 DEF IInv, Readings
<1>9. Past' /\ Recent'
  BY <1>2, <1>4, <1>5 DEF Past, Recent
<1>10. Slots'
  BY <1>2, <1>3 DEF Slots
<1>11. QuotaWithinWindow'
  <2> SUFFICES ASSUME NEW s \in Subjects, NEW t \in 0..now
               PROVE  Cardinality(GrantedIn(s, t - (Window - ClockLag), t)') <= Limit
    BY <1>2 DEF QuotaWithinWindow
  <2> DEFINE from == t - (Window - ClockLag)
  <2>1. CASE s # c.subject \/ t < c.current
    <3>1. GrantedIn(s, from, t)' = GrantedIn(s, from, t)
      <4>1. \A e \in file : e \in granted \/ (e.subject = c.subject /\ e.time = c.current)
        BY <1>3, <1>4
      <4>2. \A e \in granted' : e.subject = s /\ e.time <= t => e \in granted
        BY <1>1, <1>2, <2>1, <4>1
      <4> QED BY <1>2, <4>2 DEF GrantedIn
    <3>2. Cardinality(GrantedIn(s, from, t)) <= Limit
      BY DEF IInv, QuotaWithinWindow
    <3> QED BY <3>1, <3>2
  <2>2. CASE s = c.subject /\ t >= c.current
    <3>1. ASSUME NEW e \in granted', from < e.time PROVE e \in file
      <4>1. e.time \in Nat
        BY <1>2, <1>4
      <4>2. now - e.time < Window
        BY <1>1, <2>2, <3>1, <4>1, QuotaAssumption
      <4> QED BY <1>2, <1>5, <4>2
    <3>2. GrantedIn(s, from, t)' \subseteq SignalsOf(file, s)
      BY <3>1 DEF GrantedIn, SignalsOf
    <3>3. SignalsOf(file, s) \subseteq Signals
      BY <1>3 DEF SignalsOf, Entry
    <3>4. IsFiniteSet(SignalsOf(file, s)) /\ Cardinality(SignalsOf(file, s)) <= Limit
      BY <1>3, <3>3, FS_Subset, QuotaAssumption
    <3> DEFINE G == GrantedIn(s, from, t)'
    <3>5. IsFiniteSet(G) /\ Cardinality(G) <= Cardinality(SignalsOf(file, s))
      <4>1. G \subseteq SignalsOf(file, s)
        BY <3>2
      <4> HIDE DEF G
      <4> QED BY <4>1, <3>4, FS_Subset
    <3>6. Cardinality(G) \in Nat /\ Cardinality(SignalsOf(file, s)) \in Nat
      <4> HIDE DEF G
      <4> QED BY <3>4, <3>5, FS_CardinalityType
    <3> HIDE DEF G
    <3>7. Cardinality(G) <= Limit
      BY <3>4, <3>5, <3>6, QuotaAssumption
    <3> QED BY <3>7 DEF G
  <2> QED BY <1>1, <2>1, <2>2
<1>12. ShownIsCounted'
  <2> SUFFICES ASSUME NEW q \in Threads, NEW k \in call'[q].allowed
               PROVE  \E e \in granted' :
                        /\ e.subject = call'[q].subject /\ e.signal = k
                        /\ call'[q].current - e.time < Window
                        /\ now' - e.time < Window => e \in ledger'
    BY DEF ShownIsCounted
  <2>1. CASE q = p
    <3>1. k \in SignalsOf(file, c.subject)
      BY <1>7, <2>1
    <3>2. PICK e \in file : e.subject = c.subject /\ e.signal = k
      BY <3>1 DEF SignalsOf
    <3>3. c.current - e.time < Window
      BY <1>1, <1>3, QuotaAssumption
    <3> QED BY <1>2, <1>7, <2>1, <3>2, <3>3
  <2>2. CASE q # p
    <3>1. PICK e \in granted : /\ e.subject = call[q].subject /\ e.signal = k
                               /\ call[q].current - e.time < Window
      BY <1>7, <2>2 DEF IInv, ShownIsCounted
    <3> QED BY <1>2, <1>5, <1>7, <2>2, <3>1
  <2> QED BY <2>1, <2>2
<1> QED BY <1>6, <1>8, <1>9, <1>10, <1>11, <1>12 DEF IInv

LEMMA TickHolds ==
  ASSUME IInv, Tick
  PROVE  IInv'
<1>1. now \in Nat /\ now' = now + 1 /\ UNCHANGED <<ledger, call, granted>>
  BY DEF IInv, TypeOK, Tick
<1>2. \A e \in granted : e.time \in Nat /\ e.time <= now
  BY DEF IInv, TypeOK, Entry, Past
<1>3. TypeOK'
  BY <1>1 DEF IInv, TypeOK
<1>4. Readings'
  BY <1>1, QuotaAssumption DEF IInv, TypeOK, Call, Readings, Tick
<1>5. Past' /\ Recent'
  BY <1>1, <1>2, QuotaAssumption DEF IInv, Past, Recent
<1>6. Slots'
  BY <1>1 DEF IInv, Slots, SignalsOf
<1>7. QuotaWithinWindow'
  <2> SUFFICES ASSUME NEW s \in Subjects, NEW t \in 0..(now + 1)
               PROVE  Cardinality(GrantedIn(s, t - (Window - ClockLag), t)') <= Limit
    BY <1>1 DEF QuotaWithinWindow
  <2>1. CASE t <= now
    <3>1. GrantedIn(s, t - (Window - ClockLag), t)'
            = GrantedIn(s, t - (Window - ClockLag), t)
      BY <1>1 DEF GrantedIn
    <3> QED BY <1>1, <2>1, <3>1 DEF IInv, QuotaWithinWindow
  \* The newest window holds no more than the one before it.
  <2>2. CASE t = now + 1
    <3> DEFINE G == GrantedIn(s, t - (Window - ClockLag), t)'
    <3> DEFINE H == GrantedIn(s, now - (Window - ClockLag), now)
    <3>1. G \subseteq H /\ H \subseteq Signals
      BY <1>1, <1>2, <2>2, QuotaAssumption DEF GrantedIn
    <3>2. Cardinality(H) <= Limit
      BY <1>1 DEF IInv, QuotaWithinWindow
    <3> HIDE DEF G, H
    <3>3. IsFiniteSet(H) /\ IsFiniteSet(G) /\ Cardinality(G) <= Cardinality(H)
      BY <3>1, FS_Subset, QuotaAssumption
    <3>4. Cardinality(G) \in Nat /\ Cardinality(H) \in Nat
      BY <3>3, FS_CardinalityType
    <3>5. Cardinality(G) <= Limit
      BY <3>2, <3>3, <3>4, QuotaAssumption
    <3> QED BY <3>5 DEF G
  <2> QED BY <1>1, <2>1, <2>2
<1>8. ShownIsCounted'
  BY <1>1, <1>2, QuotaAssumption DEF IInv, ShownIsCounted
<1> QED BY <1>3, <1>4, <1>5, <1>6, <1>7, <1>8 DEF IInv

LEMMA NextHolds ==
  ASSUME IInv, Next
  PROVE  IInv'
<1>1. ASSUME NEW p \in Threads, Begin(p) PROVE IInv'
  <2>1. PICK s \in Subjects, page \in Pages :
          call' = [call EXCEPT ![p] = [step |-> "waiting", subject |-> s,
                     page |-> page, current |-> now, allowed |-> {}]]
    BY <1>1 DEF Begin
  <2>2. call \in [Threads -> Call] /\ now \in Nat
    BY DEF IInv, TypeOK
  <2>3. call' \in [Threads -> Call]
    BY <2>1, <2>2 DEF Call
  <2> QED BY <1>1, <2>1, <2>2, <2>3, CallsOnly DEF Begin
<1>2. ASSUME NEW p \in Threads, NEW step \in {"idle", "unavailable", "future"},
             ShowsNothing(p, step), UNCHANGED <<now, ledger, granted>>
      PROVE  IInv'
  <2>1. call \in [Threads -> Call] /\ call' = [call EXCEPT ![p] = Empty(step)]
    BY <1>2 DEF IInv, TypeOK, ShowsNothing
  <2>2. Empty(step) \in Call
    BY EmptyTyped
  <2>3. call' \in [Threads -> Call]
    BY <2>1, <2>2
  <2>4. call'[p].step # "waiting" /\ call'[p].allowed = {}
    BY <2>1 DEF Empty
  <2> QED BY <1>2, <2>1, <2>3, <2>4, CallsOnly
<1>3. ASSUME NEW p \in Threads, FutureEntry(p) \/ LoadFails(p) \/ PersistFails(p)
      PROVE  IInv'
  BY <1>2, <1>3 DEF FutureEntry, LoadFails, PersistFails
<1>4. ASSUME Restart PROVE IInv'
  <2>1. Empty("idle") \in Call /\ Empty("idle").step = "idle"
        /\ Empty("idle").allowed = {}
    BY EmptyTyped DEF Empty
  <2>2. call' = [p \in Threads |-> Empty("idle")] /\ UNCHANGED <<now, ledger, granted>>
    BY <1>4 DEF Restart
  <2>3. TypeOK' /\ Readings' /\ ShownIsCounted'
    BY <2>1, <2>2 DEF IInv, TypeOK, Readings, ShownIsCounted
  <2>4. (Past /\ Recent /\ Slots /\ QuotaWithinWindow)'
    BY <2>2 DEF IInv, Past, Recent, Slots, SignalsOf, QuotaWithinWindow, GrantedIn
  <2> QED BY <2>3, <2>4 DEF IInv
<1> QED BY <1>1, <1>3, <1>4, ServeHolds, TickHolds DEF Next

LEMMA Inductive == Spec => []IInv
<1>1. IInv /\ UNCHANGED vars => IInv'
  BY DEF vars, IInv, TypeOK, Readings, Past, Recent, Slots, SignalsOf,
         QuotaWithinWindow, GrantedIn, ShownIsCounted
<1> QED BY <1>1, InitHolds, NextHolds, PTL DEF Spec

-----------------------------------------------------------------------------
(* Every state is of its type, and the file has one entry per subject and  *)
(* signal (_load_unlocked relies on the object it reads).                  *)
THEOREM TypeCorrect == Spec => []TypeOK
<1> QED BY Inductive, PTL DEF IInv

(* admit keeps the quota: over any window less the age a clock reading may *)
(* have, at most Limit distinct signals are admitted for a subject.        *)
THEOREM QuotaHolds == Spec => []QuotaWithinWindow
<1> QED BY Inductive, PTL DEF IInv

(* What a page was shown is on disk until its window is over, although     *)
(* admit of other pages and restarts rewrite the file in between.          *)
THEOREM ShownCounted == Spec => []ShownIsCounted
<1> QED BY Inductive, PTL DEF IInv

(* _prune_expired and admit drop or renew an entry only when its window is *)
(* over, by the real clock and not only by the call's older reading.       *)
THEOREM SlotHeld == Spec => SlotHeldForWindow
<1>1. ASSUME IInv, [Next]_vars
      PROVE  \A e \in ledger \ ledger' : now - e.time >= Window
  <2>1. CASE UNCHANGED ledger
    BY <2>1
  <2>2. ASSUME NEW p \in Threads, Serve(p)
        PROVE  \A e \in ledger \ ledger' : now - e.time >= Window
    <3>1. call[p] \in Call /\ now \in Nat /\ call[p].current <= now /\ Slots
          /\ ledger \subseteq Entry /\ ledger' = Updated(call[p])
          /\ \A e, f \in ledger :
               e.subject = f.subject /\ e.signal = f.signal => e = f
      BY <1>1, <2>2 DEF IInv, TypeOK, Readings, Serve
    <3>2. \A e \in ledger : call[p].current - e.time < Window => e \in ledger'
      BY <3>1, UpdatedFile
    <3> QED BY <3>1, <3>2, QuotaAssumption DEF Entry, Call
  <2> QED BY <1>1, <2>1, <2>2
           DEF Next, vars, Begin, FutureEntry, LoadFails, PersistFails, Restart, Tick
<1> QED BY <1>1, Inductive, PTL DEF Spec, SlotHeldForWindow

(* A page hides a signal only when admit has no slot left, and then none   *)
(* that comes before one it newly admits.                                  *)
THEOREM HiddenWhenFull == Spec => HiddenOnlyWhenFull
<1> DEFINE Hidden(p) == {i \in DOMAIN call[p].page : call[p].page[i] \notin call'[p].allowed}
<1> DEFINE Known(p) == SignalsOf(Kept(ledger, call[p].current), call[p].subject)
<1>1. ASSUME IInv, [Next]_vars, NEW p \in Threads,
             call[p].step = "waiting", call'[p].step = "served"
      PROVE  Serve(p)
  <2>1. ASSUME NEW q \in Threads, Begin(q) PROVE FALSE
    <3>1. call'[q].step = "waiting" /\ \A r \in Threads \ {q} : call'[r] = call[r]
      BY <1>1, <2>1 DEF Begin, IInv, TypeOK
    <3> QED BY <1>1, <3>1
  <2>2. ASSUME NEW q \in Threads, FutureEntry(q) \/ LoadFails(q) \/ PersistFails(q)
        PROVE  FALSE
    <3>1. \A r \in Threads \ {q} : call'[r] = call[r]
      BY <1>1, <2>2 DEF FutureEntry, LoadFails, PersistFails, ShowsNothing, IInv, TypeOK
    <3>2. call'[q].step \in {"unavailable", "future"}
      BY <1>1, <2>2 DEF FutureEntry, LoadFails, PersistFails, ShowsNothing, Empty, IInv, TypeOK
    <3> QED BY <1>1, <3>1, <3>2
  <2>3. ASSUME NEW q \in Threads, Serve(q) PROVE q = p
    BY <1>1, <2>3 DEF Serve, Shows, IInv, TypeOK
  <2>4. ASSUME Restart \/ Tick \/ UNCHANGED vars PROVE FALSE
    BY <1>1, <2>4 DEF Restart, Tick, vars, Empty
  <2> QED BY <1>1, <2>1, <2>2, <2>3, <2>4 DEF Next
<1>2. ASSUME IInv, NEW p \in Threads, Serve(p), NEW i \in Hidden(p)
      PROVE  /\ Cardinality(SignalsOf(ledger', call[p].subject)) = Limit
             /\ \A j \in DOMAIN call[p].page :
                  i < j => call[p].page[j] \in Known(p) \/ j \in Hidden(p)
  <2> DEFINE page == call[p].page
  <2>1. call[p] \in Call /\ page \in Pages
    BY <1>2 DEF IInv, TypeOK, Call
  <2>2. /\ Known(p) \subseteq Signals /\ Cardinality(Known(p)) <= Limit
        /\ SignalsOf(Updated(call[p]), call[p].subject) = Known(p) \cup Taken(Known(p), page)
    <3>1. /\ ledger \subseteq Entry /\ Slots
          /\ \A e, f \in ledger : e.subject = f.subject /\ e.signal = f.signal => e = f
      BY <1>2 DEF IInv, TypeOK
    <3> QED BY <2>1, <3>1, UpdatedFile
  <2>3. /\ ledger' = Updated(call[p])
        /\ call'[p].allowed = {page[j] : j \in DOMAIN page}
                                \cap SignalsOf(Updated(call[p]), call[p].subject)
    BY <1>2 DEF Serve, Shows, IInv, TypeOK, Call
  <2>4. \A j \in DOMAIN page :
          page[j] \in call'[p].allowed <=> page[j] \in Known(p) \cup Taken(Known(p), page)
    <3> HIDE DEF Known
    <3> QED BY <2>2, <2>3
  <2>5. i \in DOMAIN page /\ page[i] \notin Known(p) \cup Taken(Known(p), page)
    <3> HIDE DEF Known
    <3> QED BY <1>2, <2>4
  <2> HIDE DEF Known
  <2>6. /\ Cardinality(Known(p) \cup Taken(Known(p), page)) = Limit
        /\ \A j \in DOMAIN page :
             i < j /\ page[j] \notin Known(p) => page[j] \notin Taken(Known(p), page)
    <3> HIDE DEF page
    <3> QED BY <2>1, <2>2, <2>5, HiddenFills
  <2> QED BY <2>2, <2>3, <2>4, <2>6
<1>3. ASSUME IInv, [Next]_vars PROVE \A p \in Threads : HidesWhenFull(p)
  BY <1>1, <1>2, <1>3 DEF HidesWhenFull
<1> QED BY <1>3, Inductive, PTL DEF Spec, HiddenOnlyWhenFull
=============================================================================
