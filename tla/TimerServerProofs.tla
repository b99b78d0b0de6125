-------------------------- MODULE TimerServerProofs --------------------------
(***************************************************************************)
(* Machine-checked safety of the timer server, for any number of timers,   *)
(* any timeouts and any delay of the interrupt.                            *)
(***************************************************************************)
EXTENDS TimerServer, FiniteSetTheorems, WellFoundedInduction, TLAPS

-----------------------------------------------------------------------------
(* The list.                                                               *)

\* The variables of the list have their types.
ListType ==
  /\ status \in [Timers -> {"free", "created", "running"}]
  /\ mode \in [Timers -> {"single", "repeated"}]
  /\ counterInit \in [Timers -> Nat]
  /\ countLeft \in [Timers -> Nat]
  /\ previousID \in [Timers -> Timers \cup {None}]
  /\ nextID \in [Timers -> Timers \cup {None}]
  /\ current \in Timers \cup {None}
  /\ previous \in Timers \cup {None}

ListInv == ListType /\ ListIsSound /\ HeadTestSeesChanges

LEMMA Numbers ==
  /\ IsFiniteSet(Timers) /\ None \notin Timers
  /\ \A t \in Timers : t \in Nat
<1>1. N \in Nat \ {0}
  BY TimerAssumption
<1>2. IsFiniteSet(0 .. N - 1)
  BY <1>1, FS_Interval
<1>3. None \notin Timers /\ \A t \in Timers : t \in Nat
  BY <1>1 DEF None, Timers
<1> QED BY <1>2, <1>3 DEF Timers

LEMMA Sizes ==
  ASSUME NEW R, R \subseteq Timers
  PROVE  /\ Cardinality(R) \in Nat
         /\ \A t \in R : Cardinality(R \ {t}) = Cardinality(R) - 1
         /\ \A t \in Timers \ R : Cardinality(R \cup {t}) = Cardinality(R) + 1
         /\ Cardinality(R) = 0 <=> R = {}
<1>1. IsFiniteSet(R)
  BY Numbers, FS_Subset
<1>2. Cardinality(R) \in Nat /\ (Cardinality(R) = 0 <=> R = {})
  BY <1>1, FS_CardinalityType, FS_EmptySet
<1>3. \A t \in R : Cardinality(R \ {t}) = Cardinality(R) - 1
  BY <1>1, FS_RemoveElement
<1>4. \A t \in Timers \ R : Cardinality(R \cup {t}) = Cardinality(R) + 1
  BY <1>1, FS_AddElement
<1> QED BY <1>2, <1>3, <1>4

\* A nonempty set of naturals has a least element.
LEMMA LeastNatural ==
  ASSUME NEW S \in SUBSET Nat, S # {}
  PROVE  \E m \in S : \A x \in S : m <= x
<1> DEFINE Less == {p \in Nat \X Nat : p[1] < p[2]}
<1>1. OpToRel(<, Nat) = Less
  BY Zenon DEF OpToRel
<1>2. IsWellFoundedOn(Less, Nat)
  BY <1>1, NatLessThanWellFounded, Zenon
<1>3. PICK m \in S : \A x \in S : ~(<<x, m>> \in Less)
  BY <1>2, WFMin, Zenon
<1>4. ASSUME NEW x \in S PROVE m <= x
  <2>1. x \in Nat /\ m \in Nat /\ <<x, m>> \notin Less
    BY <1>3
  <2> QED BY <2>1
<1> QED BY <1>4

\* UnlinkTimer takes a running timer out of the list, which stays one, and the
\* timers behind it move up by one place.
LEMMA UnlinkedFrom ==
  ASSUME ListInv, NEW t \in Running, UnlinkTimer(t),
         NEW at \in [Running -> 1 .. Cardinality(Running)], InOrder(at)
  PROVE  /\ ListInv'
         /\ Running' = Running \ {t}
         /\ current' # None <=> Running' # {}
         /\ \A u \in Timers : u # t => countLeft'[u] = countLeft[u]
         /\ \E bt \in [Running' -> 1 .. Cardinality(Running')] :
              /\ InOrder(bt)'
              /\ \A u \in Running' : bt[u] = IF at[u] > at[t] THEN at[u] - 1 ELSE at[u]
<1> DEFINE p == previousID[t]
           n == nextID[t]
           size == Cardinality(Running)
           size2 == Cardinality(Running')
<1> USE DEF ListInv
<1>1. Running \subseteq Timers /\ t \in Timers /\ None \notin Timers
  BY Numbers DEF Running
<1>2. /\ status' = [status EXCEPT ![t] = "created"]
      /\ counterInit' = [counterInit EXCEPT ![t] = 0] /\ countLeft' = [countLeft EXCEPT ![t] = 0] /\ mode' = mode
  BY DEF UnlinkTimer
<1>3. Running' = Running \ {t}
  BY <1>1, <1>2 DEF Running, ListType
<1>4. size \in Nat /\ size2 = size - 1 /\ size # 0 /\ (size2 = 0 <=> Running' = {})
  BY <1>1, <1>3, Sizes
<1>5. at \in [Running -> 1 .. size] /\ InOrder(at)
  OBVIOUS
<1>6. /\ \A u, v \in Running : at[u] = at[v] => u = v
      /\ current \in Running /\ at[current] = 1
      /\ \A u \in Running \ {current} :
            /\ previousID[u] \in Running /\ at[previousID[u]] = at[u] - 1 /\ nextID[previousID[u]] = u
            /\ countLeft[previousID[u]] <= countLeft[u]
      /\ \A u \in Running : IF at[u] = size THEN nextID[u] = None
                            ELSE nextID[u] \in Running /\ at[nextID[u]] = at[u] + 1 /\ previousID[nextID[u]] = u
      /\ \A u \in Running : at[u] \in Nat /\ at[u] >= 1 /\ at[u] <= size
  BY <1>4, <1>5 DEF InOrder
<1>7. \A u \in Timers : u # t => countLeft'[u] = countLeft[u]
  BY <1>2 DEF ListType
<1>8. \A u \in Timers : countLeft[u] \in Nat
  BY DEF ListType
<1> HIDE DEF size, size2
<1>9. CASE t = current
  <2>1. /\ previous' = current /\ current' = n
        /\ nextID' = [nextID EXCEPT ![t] = None] /\ previousID' = [previousID EXCEPT ![t] = None]
    BY <1>9 DEF UnlinkTimer
  <2>2. ListType'
    BY <1>1, <1>2, <2>1 DEF ListType
  <2>3. n # t /\ IF size = 1 THEN n = None ELSE n \in Running /\ at[n] = 2
    BY <1>1, <1>4, <1>6, <1>9
  <2>4. /\ \A u \in Running' : u \in Running /\ u # t /\ at[u] > 1
        /\ \A u \in Running' : nextID'[u] = nextID[u] /\ previousID'[u] = previousID[u] /\ countLeft'[u] = countLeft[u]
    BY <1>1, <1>3, <1>6, <1>7, <1>9, <2>1 DEF ListType
  <2>a. PICK at2 : at2 = [u \in Running' |-> at[u] - 1]
    OBVIOUS
  <2>5. \A u \in Running' : at2[u] = at[u] - 1
    BY <2>a
  <2>6. at2 \in [Running' -> 1 .. size2]
    BY <1>4, <1>6, <2>4, <2>a
  <2>7. \A u, v \in Running' : at2[u] = at2[v] => u = v
    BY <1>6, <2>4, <2>5
  <2>8. IF Running' = {} THEN current' = None ELSE current' \in Running' /\ at2[current'] = 1
    BY <1>3, <1>4, <2>1, <2>3, <2>5
  <2>9. ASSUME NEW u \in Running' \ {current'}
        PROVE  /\ previousID'[u] \in Running' /\ at2[previousID'[u]] = at2[u] - 1
               /\ nextID'[previousID'[u]] = u /\ countLeft'[previousID'[u]] <= countLeft'[u]
    <3>1. u \in Running \ {current} /\ u # n /\ previousID[u] # t
      BY <1>6, <1>9, <2>1, <2>4
    <3> QED BY <1>3, <1>6, <2>4, <2>5, <3>1
  <2>10. ASSUME NEW u \in Running'
         PROVE  IF at2[u] = size2 THEN nextID'[u] = None
                ELSE nextID'[u] \in Running' /\ at2[nextID'[u]] = at2[u] + 1 /\ previousID'[nextID'[u]] = u
    <3>1. u \in Running /\ at[u] > 1 /\ at2[u] = at[u] - 1 /\ nextID'[u] = nextID[u]
      BY <2>4, <2>5
    <3>2. CASE at[u] = size
      BY <1>4, <1>6, <3>1, <3>2
    <3>3. CASE at[u] # size
      <4>1. nextID[u] \in Running /\ at[nextID[u]] = at[u] + 1 /\ previousID[nextID[u]] = u /\ nextID[u] # t
        BY <1>6, <1>9, <3>1, <3>3
      <4> QED BY <1>3, <1>4, <1>6, <2>4, <2>5, <3>1, <3>3, <4>1
    <3> QED BY <3>2, <3>3
  <2>11. InOrder(at2)'
    BY <2>7, <2>8, <2>9, <2>10 DEF InOrder, size2
  <2>12. ListIsSound'
    BY <2>6, <2>11 DEF ListIsSound, size2
  <2>13. previous' # current'
    BY <1>9, <2>1, <2>3
  <2>14. ListInv' /\ (current' # None <=> Running' # {})
    BY <1>1, <1>3, <2>2, <2>8, <2>12, <2>13 DEF HeadTestSeesChanges
  <2>15. \A u \in Running' : at2[u] = IF at[u] > at[t] THEN at[u] - 1 ELSE at[u]
    BY <1>6, <1>9, <2>4, <2>5
  <2> QED BY <1>3, <1>7, <2>6, <2>11, <2>14, <2>15 DEF size2
<1>10. CASE t # current
  <2>1. /\ nextID' = [nextID EXCEPT ![p] = n, ![t] = None]
        /\ previousID' = [u \in Timers |-> IF u = t THEN None ELSE IF u = n THEN p ELSE previousID[u]]
        /\ previous' = previous /\ current' = current
    BY <1>10 DEF UnlinkTimer
  <2>2. /\ p \in Running /\ p # t /\ at[p] = at[t] - 1 /\ nextID[p] = t /\ countLeft[p] <= countLeft[t]
        /\ at[t] > 1
    BY <1>6, <1>10
  <2>3. /\ n # t /\ n # p
        /\ IF at[t] = size THEN n = None
           ELSE n \in Running \ {current} /\ at[n] = at[t] + 1 /\ previousID[n] = t /\ countLeft[t] <= countLeft[n]
    BY <1>1, <1>6, <2>2
  <2>4. n \in Timers \cup {None}
    BY <1>1 DEF ListType
  <2> HIDE DEF p, n
  <2>5. ListType'
    BY <1>1, <1>2, <2>1, <2>2, <2>4 DEF ListType
  <2>6. \A u \in Running' : /\ u \in Running /\ u # t /\ at[u] # at[t]
                            /\ nextID'[u] = IF u = p THEN n ELSE nextID[u]
                            /\ previousID'[u] = IF u = n THEN p ELSE previousID[u]
                            /\ countLeft'[u] = countLeft[u]
    BY <1>1, <1>3, <1>6, <1>7, <2>1, <2>2 DEF ListType
  <2>a. PICK at2 : at2 = [u \in Running' |-> IF at[u] > at[t] THEN at[u] - 1 ELSE at[u]]
    OBVIOUS
  <2>7. \A u \in Running' : at2[u] = IF at[u] > at[t] THEN at[u] - 1 ELSE at[u]
    BY <2>a
  <2>8. at2 \in [Running' -> 1 .. size2]
    <3>1. ASSUME NEW u \in Running' PROVE at2[u] \in 1 .. size2
      BY <1>4, <1>6, <2>6, <2>7
    <3> QED BY <2>a, <3>1
  <2>9. ASSUME NEW u \in Running', NEW v \in Running', at2[u] = at2[v] PROVE u = v
    <3>1. at[u] = at[v]
      BY <1>6, <2>6, <2>7, <2>9
    <3> QED BY <1>6, <2>6, <3>1
  <2>10. current' \in Running' /\ at2[current'] = 1
    BY <1>3, <1>6, <1>10, <2>1, <2>2, <2>7
  <2>11. ASSUME NEW u \in Running' \ {current'}
         PROVE  /\ previousID'[u] \in Running' /\ at2[previousID'[u]] = at2[u] - 1
                /\ nextID'[previousID'[u]] = u /\ countLeft'[previousID'[u]] <= countLeft'[u]
    <3>1. u \in Running \ {current} /\ u # t
      BY <2>1, <2>6
    <3>2. CASE u = n
      BY <1>1, <1>3, <1>6, <1>8, <2>2, <2>3, <2>6, <2>7, <3>1, <3>2
    <3>3. CASE u # n
      <4> DEFINE q == previousID[u]
      <4>1. q \in Running /\ at[q] = at[u] - 1 /\ nextID[q] = u /\ countLeft[q] <= countLeft[u] /\ previousID'[u] = q
        BY <1>6, <2>6, <3>1, <3>3
      <4>2. q # t /\ q # p
        BY <2>2, <3>1, <3>3, <4>1 DEF n
      <4> HIDE DEF q
      <4>3. q \in Running' /\ nextID'[q] = u /\ countLeft'[q] <= countLeft'[u]
        BY <1>3, <2>6, <4>1, <4>2
      <4>4. at2[q] = at2[u] - 1
        BY <1>6, <2>6, <2>7, <4>1, <4>3
      <4> QED BY <4>1, <4>3, <4>4
    <3> QED BY <3>2, <3>3
  <2>12. ASSUME NEW u \in Running'
         PROVE  IF at2[u] = size2 THEN nextID'[u] = None
                ELSE nextID'[u] \in Running' /\ at2[nextID'[u]] = at2[u] + 1 /\ previousID'[nextID'[u]] = u
    <3>1. CASE u = p
      BY <1>3, <1>4, <1>6, <2>2, <2>3, <2>6, <2>7, <3>1
    <3>2. CASE u # p
      <4>1. u \in Running /\ u # t /\ nextID'[u] = nextID[u]
        BY <2>6, <3>2
      <4>2. CASE at[u] = size
        <5>1. at[u] > at[t]
          BY <1>6, <4>1, <4>2
        <5> QED BY <1>4, <1>6, <2>7, <4>1, <4>2, <5>1
      <4>3. CASE at[u] # size
        <5> DEFINE m == nextID[u]
        <5>1. m \in Running /\ at[m] = at[u] + 1 /\ previousID[m] = u
          BY <1>6, <4>1, <4>3
        <5>2. m # t /\ m # n
          BY <1>1, <1>6, <2>3, <3>2, <4>1, <5>1 DEF p
        <5> HIDE DEF m
        <5>3. m \in Running' /\ previousID'[m] = u
          BY <1>3, <2>6, <5>1, <5>2
        <5>4. at2[m] = at2[u] + 1
          BY <1>6, <2>6, <2>7, <5>1, <5>3
        <5>5. at2[u] # size2
          <6>1. at[m] <= size /\ at[m] # at[t]
            BY <1>6, <5>1, <5>2
          <6> QED BY <1>4, <1>6, <2>7, <4>1, <5>1, <6>1
        <5> QED BY <4>1, <5>3, <5>4, <5>5 DEF m
      <4> QED BY <4>2, <4>3
    <3> QED BY <3>1, <3>2
  <2>13. InOrder(at2)'
    BY <2>9, <2>10, <2>11, <2>12 DEF InOrder, size2
  <2>14. ListIsSound'
    BY <2>8, <2>13 DEF ListIsSound, size2
  <2>15. ListInv' /\ (current' # None <=> Running' # {})
    BY <1>1, <1>3, <1>6, <1>10, <2>1, <2>5, <2>10, <2>14 DEF HeadTestSeesChanges
  <2> QED BY <1>3, <1>7, <2>7, <2>8, <2>13, <2>15 DEF size2
<1> QED BY <1>9, <1>10

LEMMA Unlinked ==
  ASSUME ListInv, NEW t \in Running, UnlinkTimer(t)
  PROVE  /\ ListInv'
         /\ Running' = Running \ {t}
         /\ current' # None <=> Running' # {}
         /\ \A u \in Timers : u # t => countLeft'[u] = countLeft[u]
<1>1. PICK at \in [Running -> 1 .. Cardinality(Running)] : InOrder(at)
  BY DEF ListInv, ListIsSound
<1> QED BY <1>1, UnlinkedFrom

\* The counts rise along the list, not only from one timer to the next.
LEMMA Sorted ==
  ASSUME ListType, NEW at \in [Running -> 1 .. Cardinality(Running)], InOrder(at),
         NEW v \in Running, NEW u \in Running, at[v] <= at[u]
  PROVE  countLeft[v] <= countLeft[u]
<1> DEFINE bad == {w \in Running : at[v] <= at[w] /\ ~ (countLeft[v] <= countLeft[w])}
<1>1. Running \subseteq Timers /\ \A w \in Running : countLeft[w] \in Nat /\ at[w] \in Nat /\ at[w] >= 1
  <2>1. Running \subseteq Timers
    BY DEF Running
  <2>2. Cardinality(Running) \in Nat
    BY <2>1, Sizes
  <2> QED BY <2>1, <2>2 DEF ListType
<1>2. SUFFICES ASSUME bad # {} PROVE FALSE
  OBVIOUS
<1>3. PICK w \in bad : \A x \in bad : ~ (at[x] < at[w])
  <2> DEFINE places == {at[x] : x \in bad}
  <2>1. places \subseteq Nat /\ places # {}
    BY <1>1, <1>2
  <2> HIDE DEF bad, places
  <2>2. PICK k \in places : \A l \in places : k <= l
    BY <2>1, LeastNatural
  <2>3. \A l \in places : ~ (l < k)
    BY <2>1, <2>2
  <2> QED BY <2>2, <2>3 DEF places
<1>4. w \in Running /\ at[v] <= at[w] /\ countLeft[w] < countLeft[v] /\ w # v
  BY <1>1, <1>3
<1>5. w # current
  <2>1. at[current] = 1
    BY <1>4 DEF InOrder
  <2>2. at[v] = at[w] => v = w
    BY <1>4 DEF InOrder
  <2> QED BY <1>1, <1>4, <2>1, <2>2
<1>6. PICK p : p = previousID[w]
  OBVIOUS
<1>7. p \in Running /\ at[p] = at[w] - 1 /\ countLeft[p] <= countLeft[w]
  BY <1>4, <1>5, <1>6 DEF InOrder
<1>8. at[v] # at[w]
  BY <1>4 DEF InOrder
<1>9. p \in bad
  BY <1>1, <1>4, <1>7, <1>8
<1> HIDE DEF bad
<1> QED BY <1>1, <1>3, <1>4, <1>7, <1>9

\* What linkTimer counts from.
Elapsed == IF current = None THEN 0 ELSE ReturnTimeElapsed

\* linkTimer puts a timer that does not run in its place, before those with more
\* left, and the test of the head always sees a change.
LEMMA LinkedInto ==
  ASSUME ListInv, since \in Nat \cup {Never}, NEW c \in Contexts, Link(c),
         NEW t \in Timers \ Running, t = call[c].id, NEW ticks \in Nat, ticks = call[c].ticks,
         NEW at \in [Running -> 1 .. Cardinality(Running)], InOrder(at)
  PROVE  /\ ListInv'
         /\ Running' = Running \cup {t} /\ current' # None
         /\ Elapsed \in Nat
         /\ countLeft' = [countLeft EXCEPT ![t] = ticks + Elapsed]
         /\ due' = [due EXCEPT ![t] = ticks]
         /\ call' = [call EXCEPT ![c].pc = "resched", ![c].op = "started"]
         /\ \E bt \in [Running' -> 1 .. Cardinality(Running')] :
              /\ InOrder(bt)'
              /\ \A u \in Running : \/ bt[u] < bt[t] /\ bt[u] = at[u]
                                    \/ bt[u] > bt[t] /\ countLeft[u] > ticks + Elapsed
<1> DEFINE left == ticks + Elapsed
           size == Cardinality(Running)
           size2 == Cardinality(Running')
<1> USE DEF ListInv
<1>1. Running \subseteq Timers /\ t \in Timers /\ t \notin Running /\ None \notin Timers /\ t # None
  BY Numbers DEF Running
<1>2. Elapsed \in Nat /\ left \in Nat
  BY DEF Elapsed, ReturnTimeElapsed, Never
<1>3. /\ status' = [status EXCEPT ![t] = "running"] /\ mode' = mode
      /\ counterInit' = [counterInit EXCEPT ![t] = IF mode[t] = "repeated" THEN ticks ELSE 0]
      /\ due' = [due EXCEPT ![t] = ticks]
  BY DEF Link
<1>4. IF GoesFirst(left)
      THEN /\ nextID' = [nextID EXCEPT ![t] = current]
           /\ previousID' = IF current = None THEN previousID ELSE [previousID EXCEPT ![current] = t]
           /\ previous' = current /\ current' = t
      ELSE /\ previous' = previous /\ current' = current
           /\ \E r \in Running :
                /\ EndsAt(r, left)
                /\ nextID' = [nextID EXCEPT ![t] = nextID[r], ![r] = t]
                /\ previousID' = [u \in Timers |-> IF u = t THEN r ELSE IF u = nextID[r] THEN t ELSE previousID[u]]
  BY DEF Link, Elapsed
<1>5. Running' = Running \cup {t}
  BY <1>1, <1>3 DEF Running, ListType
<1>6. size \in Nat /\ size2 = size + 1 /\ (size = 0 <=> Running = {})
  BY <1>1, <1>5, Sizes
<1>7. at \in [Running -> 1 .. size] /\ InOrder(at)
  OBVIOUS
<1>8. /\ \A u, v \in Running : at[u] = at[v] => u = v
      /\ IF Running = {} THEN current = None ELSE current \in Running /\ at[current] = 1
      /\ \A u \in Running \ {current} :
            /\ previousID[u] \in Running /\ at[previousID[u]] = at[u] - 1 /\ nextID[previousID[u]] = u
            /\ countLeft[previousID[u]] <= countLeft[u]
      /\ \A u \in Running : IF at[u] = size THEN nextID[u] = None
                            ELSE nextID[u] \in Running /\ at[nextID[u]] = at[u] + 1 /\ previousID[nextID[u]] = u
      /\ \A u \in Running : at[u] \in Nat /\ at[u] >= 1 /\ at[u] <= size
  BY <1>6, <1>7 DEF InOrder
<1>9. previous' # current'
  BY <1>1, <1>4, <1>8 DEF HeadTestSeesChanges
<1>10. /\ countLeft' = [countLeft EXCEPT ![t] = left]
       /\ call' = [call EXCEPT ![c].pc = "resched", ![c].op = "started"]
  BY <1>9 DEF Link, Elapsed
<1>11. \A u \in Timers : countLeft[u] \in Nat
  BY DEF ListType
<1>a. \A u, v \in Running : at[v] <= at[u] => countLeft[v] <= countLeft[u]
  BY Sorted
<1> HIDE DEF size, size2, left
<1>12. CASE GoesFirst(left)
  <2>1. /\ nextID' = [nextID EXCEPT ![t] = current] /\ current' = t /\ previous' = current
        /\ previousID' = IF current = None THEN previousID ELSE [previousID EXCEPT ![current] = t]
    BY <1>4, <1>12
  <2>2. ListType'
    BY <1>1, <1>2, <1>3, <1>10, <2>1 DEF ListType
  <2>3. /\ \A u \in Running : /\ u # t /\ u \in Running' /\ nextID'[u] = nextID[u] /\ countLeft'[u] = countLeft[u]
                              /\ previousID'[u] = IF u = current THEN t ELSE previousID[u]
        /\ nextID'[t] = current /\ countLeft'[t] = left
    BY <1>1, <1>5, <1>8, <1>10, <2>1 DEF ListType
  <2>a. PICK at2 : at2 = [u \in Running' |-> IF u = t THEN 1 ELSE at[u] + 1]
    OBVIOUS
  <2>4. at2[t] = 1 /\ \A u \in Running : at2[u] = at[u] + 1
    BY <1>5, <2>3, <2>a
  <2>5. at2 \in [Running' -> 1 .. size2]
    <3>1. ASSUME NEW u \in Running' PROVE at2[u] \in 1 .. size2
      BY <1>5, <1>6, <1>8, <2>4
    <3> QED BY <2>a, <3>1
  <2>6. ASSUME NEW u \in Running', NEW v \in Running', at2[u] = at2[v] PROVE u = v
    BY <1>5, <1>8, <2>4, <2>6
  <2>7. Running' # {} /\ current' \in Running' /\ at2[current'] = 1
    BY <1>5, <2>1, <2>4
  <2>8. ASSUME NEW u \in Running' \ {current'}
        PROVE  /\ previousID'[u] \in Running' /\ at2[previousID'[u]] = at2[u] - 1
               /\ nextID'[previousID'[u]] = u /\ countLeft'[previousID'[u]] <= countLeft'[u]
    <3>1. u \in Running
      BY <1>5, <2>1
    <3>2. CASE u = current
      <4>1. current # None /\ countLeft[current] > left
        BY <1>1, <1>12, <3>1, <3>2 DEF GoesFirst
      <4> QED BY <1>1, <1>2, <1>5, <1>8, <1>11, <2>3, <2>4, <3>1, <3>2, <4>1
    <3>3. CASE u # current
      BY <1>8, <2>3, <2>4, <3>1, <3>3
    <3> QED BY <3>2, <3>3
  <2>9. ASSUME NEW u \in Running'
        PROVE  IF at2[u] = size2 THEN nextID'[u] = None
               ELSE nextID'[u] \in Running' /\ at2[nextID'[u]] = at2[u] + 1 /\ previousID'[nextID'[u]] = u
    <3>1. CASE u = t
      BY <1>6, <1>8, <2>3, <2>4, <3>1
    <3>2. CASE u # t
      <4>1. u \in Running /\ at2[u] = at[u] + 1 /\ nextID'[u] = nextID[u]
        BY <1>5, <2>3, <2>4, <3>2
      <4>2. CASE at[u] = size
        BY <1>6, <1>8, <4>1, <4>2
      <4>3. CASE at[u] # size
        <5>1. nextID[u] \in Running /\ at[nextID[u]] = at[u] + 1 /\ previousID[nextID[u]] = u /\ nextID[u] # current
          BY <1>8, <4>1, <4>3
        <5> QED BY <1>6, <1>8, <2>3, <2>4, <4>1, <4>3, <5>1
      <4> QED BY <4>2, <4>3
    <3> QED BY <3>1, <3>2
  <2>10. InOrder(at2)'
    BY <2>6, <2>7, <2>8, <2>9 DEF InOrder, size2
  <2>11. ListIsSound'
    BY <2>5, <2>10 DEF ListIsSound, size2
  <2>12. ListInv' /\ current' # None
    BY <1>1, <1>9, <2>1, <2>2, <2>11 DEF HeadTestSeesChanges
  <2>13. ASSUME NEW u \in Running PROVE at2[u] > at2[t] /\ countLeft[u] > left
    <3>1. current \in Running /\ at[current] = 1 /\ current # None /\ at[u] >= 1
      BY <1>1, <1>8
    <3>2. countLeft[current] > left /\ countLeft[current] <= countLeft[u]
      BY <1>a, <1>12, <3>1 DEF GoesFirst
    <3> QED BY <1>1, <1>2, <1>8, <1>11, <2>4, <3>1, <3>2
  <2> QED BY <1>2, <1>3, <1>5, <1>10, <2>5, <2>10, <2>12, <2>13 DEF left, size2
<1>13. CASE ~ GoesFirst(left)
  <2>1. PICK r \in Running :
          /\ EndsAt(r, left)
          /\ nextID' = [nextID EXCEPT ![t] = nextID[r], ![r] = t]
          /\ previousID' = [u \in Timers |-> IF u = t THEN r ELSE IF u = nextID[r] THEN t ELSE previousID[u]]
    BY <1>4, <1>13
  <2>2. previous' = previous /\ current' = current
    BY <1>4, <1>13
  <2> DEFINE n == nextID[r]
  <2>3. /\ n \in Timers \cup {None} /\ n # t /\ n # r
        /\ IF at[r] = size THEN n = None
           ELSE n \in Running \ {current} /\ at[n] = at[r] + 1 /\ previousID[n] = r
        /\ countLeft[r] <= left /\ (n # None => countLeft[n] > left)
    BY <1>1, <1>8, <2>1 DEF EndsAt, ListType
  <2>4. ListType'
    BY <1>1, <1>2, <1>3, <1>10, <2>1, <2>2, <2>3 DEF ListType
  <2>5. /\ \A u \in Running : /\ u # t /\ u \in Running' /\ u \in Timers /\ countLeft'[u] = countLeft[u]
                              /\ nextID'[u] = IF u = r THEN t ELSE nextID[u]
                              /\ previousID'[u] = IF u = n THEN t ELSE previousID[u]
        /\ nextID'[t] = n /\ previousID'[t] = r /\ countLeft'[t] = left
    BY <1>1, <1>5, <1>10, <2>1 DEF ListType
  <2> HIDE DEF n
  <2>a. PICK at2 : at2 = [u \in Running' |-> IF u = t THEN at[r] + 1 ELSE IF at[u] > at[r] THEN at[u] + 1 ELSE at[u]]
    OBVIOUS
  <2>6. at2[t] = at[r] + 1 /\ \A u \in Running : at2[u] = IF at[u] > at[r] THEN at[u] + 1 ELSE at[u]
    BY <1>5, <2>5, <2>a
  <2>7. at2 \in [Running' -> 1 .. size2]
    <3>1. ASSUME NEW u \in Running' PROVE at2[u] \in 1 .. size2
      BY <1>5, <1>6, <1>8, <2>6
    <3> QED BY <2>a, <3>1
  <2>8. ASSUME NEW u \in Running', NEW v \in Running', at2[u] = at2[v] PROVE u = v
    <3>1. CASE u \in Running /\ v \in Running
      <4>1. at[u] = at[v]
        BY <1>8, <2>6, <2>8, <3>1
      <4> QED BY <1>8, <3>1, <4>1
    <3>2. CASE u = t \/ v = t
      BY <1>5, <1>8, <2>6, <2>8, <3>2
    <3> QED BY <1>5, <3>1, <3>2
  <2>9. Running' # {} /\ current' \in Running' /\ at2[current'] = 1
    BY <1>5, <1>8, <2>2, <2>6
  <2>10. ASSUME NEW u \in Running' \ {current'}
         PROVE  /\ previousID'[u] \in Running' /\ at2[previousID'[u]] = at2[u] - 1
                /\ nextID'[previousID'[u]] = u /\ countLeft'[previousID'[u]] <= countLeft'[u]
    <3>1. CASE u = t
      BY <1>5, <1>8, <2>3, <2>5, <2>6, <3>1
    <3>2. CASE u = n
      <4>1. u # t /\ u \in Running /\ at[u] = at[r] + 1 /\ countLeft[u] > left
        BY <1>1, <1>5, <2>3, <3>2
      <4>2. previousID'[u] = t /\ nextID'[t] = u /\ countLeft'[t] <= countLeft'[u]
        BY <1>2, <1>11, <2>5, <3>2, <4>1
      <4> QED BY <1>5, <1>8, <2>6, <4>1, <4>2
    <3>3. CASE u # t /\ u # n
      <4> DEFINE q == previousID[u]
      <4>1. q \in Running /\ at[q] = at[u] - 1 /\ nextID[q] = u /\ countLeft[q] <= countLeft[u] /\ previousID'[u] = q
            /\ u \in Running
        BY <1>5, <1>8, <2>2, <2>5, <3>3
      <4>2. q # r
        BY <3>3, <4>1 DEF n
      <4> HIDE DEF q
      <4>3. q \in Running' /\ nextID'[q] = u /\ countLeft'[q] <= countLeft'[u]
        BY <2>5, <4>1, <4>2
      <4>4. at2[q] = at2[u] - 1
        BY <1>8, <2>6, <4>1, <4>2
      <4> QED BY <4>1, <4>3, <4>4
    <3> QED BY <3>1, <3>2, <3>3
  <2>11. ASSUME NEW u \in Running'
         PROVE  IF at2[u] = size2 THEN nextID'[u] = None
                ELSE nextID'[u] \in Running' /\ at2[nextID'[u]] = at2[u] + 1 /\ previousID'[nextID'[u]] = u
    <3>1. CASE u = t
      <4>1. CASE at[r] = size
        BY <1>6, <2>3, <2>5, <2>6, <3>1, <4>1
      <4>2. CASE at[r] # size
        BY <1>5, <1>6, <1>8, <2>3, <2>5, <2>6, <3>1, <4>2
      <4> QED BY <4>1, <4>2
    <3>2. CASE u = r
      <4>1. nextID'[u] = t /\ previousID'[t] = u /\ t \in Running' /\ at2[u] = at[r] /\ at2[t] = at[r] + 1
        BY <1>5, <1>8, <2>5, <2>6, <3>2
      <4> QED BY <1>6, <1>8, <4>1
    <3>3. CASE u # t /\ u # r
      <4>1. u \in Running /\ nextID'[u] = nextID[u] /\ at[u] # at[r]
        BY <1>5, <1>8, <2>5, <3>3
      <4>2. CASE at[u] = size
        <5>1. at[u] > at[r]
          BY <1>8, <4>1, <4>2
        <5> QED BY <1>6, <1>8, <2>6, <4>1, <4>2, <5>1
      <4>3. CASE at[u] # size
        <5> DEFINE m == nextID[u]
        <5>1. m \in Running /\ at[m] = at[u] + 1 /\ previousID[m] = u
          BY <1>8, <4>1, <4>3
        <5>2. m # n
          BY <1>1, <1>8, <2>3, <3>3, <5>1
        <5> HIDE DEF m
        <5>3. m \in Running' /\ previousID'[m] = u
          BY <2>5, <5>1, <5>2
        <5>4. at2[m] = at2[u] + 1
          BY <1>8, <2>6, <4>1, <5>1
        <5>5. at2[u] # size2
          BY <1>6, <1>8, <2>6, <4>1, <4>3
        <5> QED BY <4>1, <5>3, <5>4, <5>5 DEF m
      <4> QED BY <4>2, <4>3
    <3> QED BY <3>1, <3>2, <3>3
  <2>12. InOrder(at2)'
    BY <2>8, <2>9, <2>10, <2>11 DEF InOrder, size2
  <2>13. ListIsSound'
    BY <2>7, <2>12 DEF ListIsSound, size2
  <2>14. ListInv' /\ current' # None
    BY <1>1, <1>5, <1>8, <1>9, <2>2, <2>4, <2>9, <2>13 DEF HeadTestSeesChanges
  <2>15. ASSUME NEW u \in Running
         PROVE  (at2[u] < at2[t] /\ at2[u] = at[u]) \/ (at2[u] > at2[t] /\ countLeft[u] > left)
    <3>1. CASE at[u] <= at[r]
      BY <1>8, <2>6, <3>1
    <3>2. CASE at[u] > at[r]
      <4>1. n \in Running /\ at[n] = at[r] + 1 /\ countLeft[n] > left
        BY <1>1, <1>8, <2>3, <3>2
      <4>2. countLeft[n] <= countLeft[u]
        BY <1>8, <1>a, <3>2, <4>1
      <4> QED BY <1>1, <1>2, <1>8, <1>11, <2>6, <3>2, <4>1, <4>2
    <3> QED BY <1>8, <3>1, <3>2
  <2> QED BY <1>2, <1>3, <1>5, <1>10, <2>7, <2>12, <2>14, <2>15 DEF left, size2
<1> QED BY <1>12, <1>13

LEMMA Linked ==
  ASSUME ListInv, since \in Nat \cup {Never}, NEW c \in Contexts, Link(c),
         NEW t \in Timers \ Running, t = call[c].id, NEW ticks \in Nat, ticks = call[c].ticks
  PROVE  /\ ListInv'
         /\ Running' = Running \cup {t} /\ current' # None
         /\ Elapsed \in Nat
         /\ countLeft' = [countLeft EXCEPT ![t] = ticks + Elapsed]
         /\ due' = [due EXCEPT ![t] = ticks]
         /\ call' = [call EXCEPT ![c].pc = "resched", ![c].op = "started"]
<1>1. PICK at \in [Running -> 1 .. Cardinality(Running)] : InOrder(at)
  BY DEF ListInv, ListIsSound
<1> QED BY <1>1, LinkedInto

-----------------------------------------------------------------------------
(* The inductive invariant.                                                *)

Calls == [pc : Places, id : Timers \cup {None}, ticks : Nat,
          op : {"none", "start", "started", "stop", "delete"}, then : {"idle", "callback"}]

ClockType ==
  /\ limitation \in {"enough", "overpassed"} /\ since \in Nat \cup {Never}
  /\ armed \in BOOLEAN /\ pending \in BOOLEAN /\ wake \in 0 .. MaxWakeup
  /\ due \in [Timers -> Int] /\ slips \in 0 .. MaxSlips

CallType == call \in [Contexts -> Calls]

\* Who works on which timer.  A timer about to be linked, or freed, is not in
\* the list; nobody else is in a masked section; the handler's timer is not
\* the one the thread is about to link; what it stops still runs.
CallsInv ==
  /\ \A c \in Contexts :
       LET f == call[c]
       IN  /\ f.pc # "idle" => f.id \in Timers
           /\ f.pc \in {"lock", "link", "free"} => status[f.id] # "running"
           /\ f.pc \in {"resched", "restart"} =>
                Running # {} /\ (f.op \in {"start", "delete"} => status[f.id] # "running")
  /\ LET isr == call["isr"]
         thread == call["thread"]
     IN  /\ isr.pc # "idle" => /\ thread.pc \notin MaskedPlaces
                               /\ thread.pc \in {"lock", "free"} => thread.id # isr.id
         /\ isr.pc = "unlink" /\ isr.then = "callback" => status[isr.id] = "running"
         /\ isr.pc \in {"idle", "stop"} => isr.then = "idle"

\* RescheduleTimerList is at work.
Counting == \E c \in Contexts : call[c].pc \in {"resched", "restart"}

\* The handler has taken the head and not got to its call-back.
Firing == call["isr"].then = "callback" /\ call["isr"].pc \in {"lock", "link", "unlink"}

\* The wake-up timer: set up for the head of the list, or the interrupt is on
\* its way, whenever nobody is about to see to it.
AlarmInv ==
  /\ armed \/ pending => Running # {}
  /\ ~ Counting /\ ~ Firing => IF Running = {} THEN ~ armed /\ since = Never ELSE pending \/ (armed /\ since < wake)
  /\ ~ Counting /\ pending => since >= wake
  /\ limitation = "enough" /\ ~ Counting /\ (armed \/ pending) => countLeft[current] <= wake
  /\ limitation = "enough" /\ (\E c \in Contexts : call[c].pc = "restart") => countLeft[current] <= wake

TimerInv == ListInv /\ ClockType /\ CallType /\ CallsInv /\ AlarmInv /\ CountsAreHonest

-----------------------------------------------------------------------------
(* The calls.                                                              *)

LEMMA TwoContexts ==
  /\ "thread" \in Contexts /\ "isr" \in Contexts
  /\ \A c \in Contexts : c = "thread" \/ c = "isr"
BY DEF Contexts

\* Of two contexts only one is in a masked section.
LEMMA Alone ==
  ASSUME CallsInv, NEW c \in Contexts, Turn(c)
  PROVE  \A d \in Contexts : d # c => call[d].pc \notin MaskedPlaces
BY TwoContexts DEF CallsInv, Turn, MaskedPlaces

LEMMA Replaced ==
  ASSUME CallType, NEW c \in Contexts, NEW g \in Calls, call' = [call EXCEPT ![c] = g]
  PROVE  CallType' /\ call'[c] = g /\ \A d \in Contexts : d # c => call'[d] = call[d]
BY DEF CallType

LEMMA Moved ==
  ASSUME CallType, NEW c \in Contexts, NEW pc \in Places, Goto(c, pc)
  PROVE  /\ CallType' /\ \A d \in Contexts : d # c => call'[d] = call[d]
         /\ call'[c].pc = pc /\ call'[c].id = call[c].id /\ call'[c].op = call[c].op
         /\ call'[c].ticks = call[c].ticks /\ call'[c].then = call[c].then
<1> DEFINE g == [call[c] EXCEPT !.pc = pc]
<1>1. call[c] \in Calls
  BY DEF CallType
<1>2. g \in Calls
  BY <1>1 DEF Calls
<1>3. call' = [call EXCEPT ![c] = g]
  BY DEF Goto
<1>4. CallType' /\ call'[c] = g /\ \A d \in Contexts : d # c => call'[d] = call[d]
  BY <1>2, <1>3, Replaced
<1>5. g.pc = pc /\ g.id = call[c].id /\ g.op = call[c].op /\ g.ticks = call[c].ticks /\ g.then = call[c].then
  BY <1>1 DEF Calls
<1> QED BY <1>4, <1>5

LEMMA Began ==
  ASSUME CallType, NEW c \in Contexts, NEW pc \in Places, NEW t \in Timers, NEW ticks \in Nat,
         NEW op \in {"start", "stop", "delete"}, NEW then \in {"idle", "callback"}, Begin(c, pc, t, ticks, op, then)
  PROVE  /\ CallType' /\ \A d \in Contexts : d # c => call'[d] = call[d]
         /\ call'[c].pc = pc /\ call'[c].id = t /\ call'[c].op = op
         /\ call'[c].ticks = ticks /\ call'[c].then = then
<1> DEFINE g == [pc |-> pc, id |-> t, ticks |-> ticks, op |-> op, then |-> then]
<1>1. g \in Calls
  BY DEF Calls
<1>2. call' = [call EXCEPT ![c] = g]
  BY DEF Begin
<1>3. CallType' /\ call'[c] = g /\ \A d \in Contexts : d # c => call'[d] = call[d]
  BY <1>1, <1>2, Replaced
<1> QED BY <1>3

LEMMA IdleIsACall == Idle \in Calls /\ Idle.pc = "idle" /\ Idle.then = "idle" /\ Idle.op = "none"
BY DEF Idle, Calls, Places

\* Where a call goes after it has stopped its timer, or rescheduled.
LEMMA Returned ==
  ASSUME CallType, NEW c \in Contexts, Return(c)
  PROVE  /\ CallType' /\ \A d \in Contexts : d # c => call'[d] = call[d]
         /\ call'[c].pc = IF call[c].op = "start" THEN "lock"
                          ELSE IF call[c].op = "delete" THEN "free" ELSE call[c].then
         /\ call'[c].pc # "idle" => /\ call'[c].id = call[c].id /\ call'[c].then = call[c].then
                                    /\ call'[c].op = call[c].op
         /\ call'[c].pc = "idle" => call'[c].then = "idle" /\ call'[c].op = "none"
<1> DEFINE f == call[c]
           pc == IF f.op = "start" THEN "lock" ELSE IF f.op = "delete" THEN "free" ELSE f.then
           g == [f EXCEPT !.pc = pc]
<1>1. f \in Calls
  BY DEF CallType
<1>2. pc \in Places
  BY <1>1 DEF Calls, Places
<1>3. g \in Calls /\ g.pc = pc /\ g.id = f.id /\ g.then = f.then /\ g.op = f.op
  BY <1>1, <1>2 DEF Calls
<1>4. (CASE f.op = "start" -> "lock" [] f.op = "delete" -> "free" [] OTHER -> f.then) = pc
  OBVIOUS
<1>5. call' = [call EXCEPT ![c] = IF pc = "idle" THEN Idle ELSE g]
  BY <1>4 DEF Return
<1> HIDE DEF pc, g
<1>6. CASE pc = "idle"
  <2>1. CallType' /\ call'[c] = Idle /\ \A d \in Contexts : d # c => call'[d] = call[d]
    BY <1>5, <1>6, Replaced, IdleIsACall
  <2> QED BY <1>6, <2>1, IdleIsACall DEF pc
<1>7. CASE pc # "idle"
  <2>1. CallType' /\ call'[c] = g /\ \A d \in Contexts : d # c => call'[d] = call[d]
    BY <1>3, <1>5, <1>7, Replaced
  <2> QED BY <1>3, <1>7, <2>1 DEF pc
<1> QED BY <1>6, <1>7

LEMMA ListKept ==
  ASSUME ListInv, UNCHANGED list
  PROVE  ListInv' /\ Running' = Running
<1>1. Running' = Running
  BY DEF list, Running
<1>2. ListType' /\ HeadTestSeesChanges'
  BY DEF list, ListInv, ListType, HeadTestSeesChanges
<1>3. PICK at \in [Running -> 1 .. Cardinality(Running)] : InOrder(at)
  BY DEF ListInv, ListIsSound
<1>4. InOrder(at)'
  BY <1>1, <1>3 DEF InOrder, list
<1>5. ListIsSound'
  BY <1>1, <1>3, <1>4 DEF ListIsSound
<1> QED BY <1>1, <1>2, <1>5 DEF ListInv

LEMMA HeadRuns ==
  ASSUME ListInv
  PROVE  Running \subseteq Timers /\ (current \in Running \/ (current = None /\ Running = {}))
<1>1. Running \subseteq Timers
  BY DEF Running
<1>2. PICK at \in [Running -> 1 .. Cardinality(Running)] : InOrder(at)
  BY DEF ListInv, ListIsSound
<1> QED BY <1>1, <1>2 DEF InOrder

-----------------------------------------------------------------------------
(* Each step keeps the invariant.                                          *)

\* The steps between the operations on the list: they change a call only.
LEMMA OnlyTheCall ==
  ASSUME TimerInv, UNCHANGED <<list, rtc, due, slips>>, NEW c \in Contexts, CallType', CallsInv',
         \A d \in Contexts : d # c => call'[d] = call[d],
         call[c].pc \notin {"resched", "restart"}, call'[c].pc \notin {"resched", "restart"},
         c = "isr" => (Firing <=> Firing')
  PROVE  TimerInv'
<1> USE DEF TimerInv
<1>1. ListInv' /\ Running' = Running /\ UNCHANGED <<current, countLeft>>
  BY ListKept DEF list
<1>2. ClockType'
  BY DEF ClockType, rtc
<1>3. /\ Counting' <=> Counting
      /\ (\E d \in Contexts : call'[d].pc = "restart") <=> (\E d \in Contexts : call[d].pc = "restart")
      /\ Firing' <=> Firing
  BY TwoContexts DEF Counting, Firing
<1>4. AlarmInv'
  BY <1>1, <1>3 DEF AlarmInv, rtc
<1>5. CountsAreHonest'
  BY <1>1, <1>3 DEF CountsAreHonest, Counted, rtc
<1> QED BY <1>1, <1>2, <1>4, <1>5

\* A timer that does not run may change its status and its mode.
LEMMA ListStays ==
  ASSUME ListInv, ListType', Running' = Running,
         UNCHANGED <<countLeft, previousID, nextID, current, previous>>
  PROVE  ListInv'
<1>1. PICK at \in [Running -> 1 .. Cardinality(Running)] : InOrder(at)
  BY DEF ListInv, ListIsSound
<1>2. InOrder(at)'
  BY <1>1 DEF InOrder
<1>3. ListIsSound'
  BY <1>1, <1>2 DEF ListIsSound
<1> QED BY <1>3 DEF ListInv, HeadTestSeesChanges

LEMMA CreateStep ==
  ASSUME TimerInv, NEW m \in {"single", "repeated"}, Create(m)
  PROVE  TimerInv'
<1> USE DEF TimerInv
<1>1. PICK t \in Timers : /\ status[t] = "free" /\ status' = [status EXCEPT ![t] = "created"]
                          /\ mode' = [mode EXCEPT ![t] = m]
  BY DEF Create
<1>2. UNCHANGED <<counterInit, countLeft, previousID, nextID, current, previous, rtc, call, due, slips>>
  BY DEF Create
<1>3. Running' = Running /\ \A u \in Timers : status'[u] = "running" <=> status[u] = "running"
  BY <1>1 DEF Running, ListInv, ListType
<1>4. ListInv'
  BY <1>1, <1>2, <1>3, ListStays DEF ListInv, ListType
<1>5. ClockType' /\ CallType'
  BY <1>2 DEF ClockType, CallType, rtc
<1>6. CallsInv'
  BY <1>2, <1>3, TwoContexts DEF CallsInv
<1>7. AlarmInv' /\ CountsAreHonest'
  BY <1>2, <1>3 DEF AlarmInv, Counting, Firing, CountsAreHonest, Counted, rtc
<1> QED BY <1>4, <1>5, <1>6, <1>7

LEMMA FreeStep ==
  ASSUME TimerInv, Free
  PROVE  TimerInv'
<1> USE DEF TimerInv
<1> DEFINE t == call["thread"].id
<1>1. /\ call["thread"].pc = "free" /\ call["isr"].pc = "idle"
      /\ status' = [status EXCEPT ![t] = "free"] /\ mode' = [mode EXCEPT ![t] = "single"]
      /\ call' = [call EXCEPT !["thread"] = Idle]
      /\ UNCHANGED <<counterInit, countLeft, previousID, nextID, current, previous, rtc, due, slips>>
  BY DEF Free, At, Turn
<1>2. t \in Timers /\ status[t] # "running"
  BY <1>1, TwoContexts DEF CallsInv
<1>3. Running' = Running /\ \A u \in Timers : status'[u] = "running" <=> status[u] = "running"
  BY <1>1, <1>2 DEF Running, ListInv, ListType
<1>4. ListInv'
  BY <1>1, <1>2, <1>3, ListStays DEF ListInv, ListType
<1>5. CallType' /\ call'["thread"].pc = "idle" /\ call'["isr"] = call["isr"]
  BY <1>1, Replaced, TwoContexts, IdleIsACall
<1>6. ClockType'
  BY <1>1 DEF ClockType, rtc
<1>7. CallsInv'
  BY <1>1, <1>5, TwoContexts DEF CallsInv
<1>8. /\ Counting' <=> Counting
      /\ (\E d \in Contexts : call'[d].pc = "restart") <=> (\E d \in Contexts : call[d].pc = "restart")
      /\ Firing' <=> Firing
  BY <1>1, <1>5, TwoContexts DEF Counting, Firing
<1>9. AlarmInv' /\ CountsAreHonest'
  BY <1>1, <1>3, <1>8 DEF AlarmInv, CountsAreHonest, Counted, rtc
<1> QED BY <1>4, <1>5, <1>6, <1>7, <1>9

LEMMA CallStartStep ==
  ASSUME TimerInv, NEW t \in Timers, NEW n \in Timeouts, CallStart(t, n)
  PROVE  TimerInv'
<1> USE DEF TimerInv
<1> DEFINE pc == IF status[t] = "running" THEN "stop" ELSE "lock"
<1>1. /\ call["thread"].pc = "idle" /\ call["isr"].pc = "idle" /\ UNCHANGED <<list, rtc, due, slips>>
      /\ Begin("thread", pc, t, n, "start", "idle")
  BY DEF CallStart, BeginStart, At, Turn
<1>2. pc \in Places /\ n \in Nat
  BY TimerAssumption DEF Places
<1>3. /\ CallType' /\ \A d \in Contexts : d # "thread" => call'[d] = call[d]
      /\ call'["thread"].pc = pc /\ call'["thread"].id = t
  BY <1>1, <1>2, Began, TwoContexts
<1>4. status' = status /\ Running' = Running
  BY <1>1, ListKept DEF list
<1>5. CallsInv'
  BY <1>1, <1>3, <1>4, TwoContexts DEF CallsInv
<1> QED BY <1>1, <1>3, <1>5, TwoContexts, OnlyTheCall

LEMMA CallStopStep ==
  ASSUME TimerInv, NEW t \in Timers, CallStop(t)
  PROVE  TimerInv'
<1> USE DEF TimerInv
<1>1. PICK op \in {"stop", "delete"} : Begin("thread", "unlink", t, 0, op, "idle")
  BY DEF CallStop
<1>2. call["thread"].pc = "idle" /\ call["isr"].pc = "idle" /\ UNCHANGED <<list, rtc, due, slips>>
  BY DEF CallStop, At, Turn
<1>3. "unlink" \in Places /\ 0 \in Nat
  BY DEF Places, MaskedPlaces
<1>4. /\ CallType' /\ \A d \in Contexts : d # "thread" => call'[d] = call[d]
      /\ call'["thread"].pc = "unlink" /\ call'["thread"].id = t
  BY <1>1, <1>3, Began, TwoContexts
<1>5. status' = status /\ Running' = Running
  BY <1>2, ListKept DEF list
<1>6. CallsInv'
  BY <1>2, <1>4, <1>5, TwoContexts DEF CallsInv
<1> QED BY <1>2, <1>4, <1>6, TwoContexts, OnlyTheCall

LEMMA CallbackStep ==
  ASSUME TimerInv, Callback
  PROVE  TimerInv'
<1> USE DEF TimerInv
<1> DEFINE t == call["isr"].id
<1>1. call["isr"].pc = "callback" /\ UNCHANGED <<list, rtc, due, slips>>
  BY DEF Callback, At
<1>2. status' = status /\ Running' = Running /\ t \in Timers
  BY <1>1, ListKept, TwoContexts DEF list, CallsInv
<1> SUFFICES /\ CallType' /\ \A d \in Contexts : d # "isr" => call'[d] = call[d]
             /\ call'["isr"].then = "idle"
             /\ \/ call'["isr"].pc = "idle"
                \/ call'["isr"].id = t /\ call'["isr"].pc \in {"stop", "unlink"}
                \/ call'["isr"].id = t /\ call'["isr"].pc = "lock" /\ status[t] # "running"
  <2>1. CallsInv'
    BY <1>1, <1>2, TwoContexts DEF CallsInv
  <2>2. ~ Firing /\ ~ Firing'
    BY <1>1 DEF Firing
  <2> QED BY <1>1, <2>1, <2>2, TwoContexts, OnlyTheCall
<1>3. CASE call' = [call EXCEPT !["isr"] = Idle]
  BY <1>3, Replaced, IdleIsACall, TwoContexts, ZenonT(60)
<1>4. ASSUME NEW n \in Timeouts, BeginStart("isr", t, n)
      PROVE  /\ CallType' /\ \A d \in Contexts : d # "isr" => call'[d] = call[d]
             /\ call'["isr"].then = "idle" /\ call'["isr"].id = t
             /\ call'["isr"].pc = "stop" \/ (call'["isr"].pc = "lock" /\ status[t] # "running")
  <2> DEFINE pc == IF status[t] = "running" THEN "stop" ELSE "lock"
  <2>1. pc \in Places /\ n \in Nat
    BY TimerAssumption DEF Places
  <2>2. Begin("isr", pc, t, n, "start", "idle")
    BY <1>4 DEF BeginStart
  <2> HIDE DEF t
  <2>3. /\ CallType' /\ \A d \in Contexts : d # "isr" => call'[d] = call[d]
        /\ call'["isr"].pc = pc /\ call'["isr"].id = t /\ call'["isr"].then = "idle"
    BY <1>2, <2>1, <2>2, Began, TwoContexts
  <2> QED BY <2>3
<1>5. CASE Begin("isr", "unlink", t, 0, "stop", "idle")
  <2>1. "unlink" \in Places /\ 0 \in Nat
    BY DEF Places, MaskedPlaces
  <2> HIDE DEF t
  <2> QED BY <1>2, <1>5, <2>1, Began, TwoContexts
<1>6. \/ call' = [call EXCEPT !["isr"] = Idle]
      \/ \E n \in Timeouts : BeginStart("isr", t, n)
      \/ Begin("isr", "unlink", t, 0, "stop", "idle")
  BY DEF Callback
<1> HIDE DEF t
<1> QED BY <1>3, <1>4, <1>5, <1>6

LEMMA MaskStep ==
  ASSUME TimerInv, NEW c \in Contexts, Mask(c)
  PROVE  TimerInv'
<1> USE DEF TimerInv
<1>1. /\ Turn(c) /\ UNCHANGED <<list, rtc, due, slips>>
      /\ \/ call[c].pc = "lock" /\ Goto(c, "link")
         \/ call[c].pc = "stop" /\ Goto(c, "unlink")
  BY DEF Mask, At
<1>2. "link" \in Places /\ "unlink" \in Places
  BY DEF Places, MaskedPlaces
<1>3. /\ CallType' /\ \A d \in Contexts : d # c => call'[d] = call[d]
      /\ call'[c].id = call[c].id /\ call'[c].then = call[c].then
      /\ \/ call[c].pc = "lock" /\ call'[c].pc = "link"
         \/ call[c].pc = "stop" /\ call'[c].pc = "unlink"
  BY <1>1, <1>2, Moved
<1>4. status' = status /\ Running' = Running
  BY <1>1, ListKept DEF list
<1>5. CallsInv'
  <2>1. CASE c = "thread"
    BY <1>1, <1>3, <1>4, <2>1, TwoContexts DEF CallsInv, Turn
  <2>2. CASE c = "isr"
    BY <1>1, <1>3, <1>4, <2>2, TwoContexts DEF CallsInv, Turn
  <2> QED BY <2>1, <2>2, TwoContexts
<1>6. c = "isr" => (Firing <=> Firing')
  BY <1>3, TwoContexts DEF CallsInv, Firing
<1> QED BY <1>1, <1>3, <1>5, <1>6, OnlyTheCall

LEMMA LinkStep ==
  ASSUME TimerInv, NEW c \in Contexts, Link(c)
  PROVE  TimerInv'
<1> USE DEF TimerInv
<1> DEFINE t == call[c].id
           ticks == call[c].ticks
<1>1. Turn(c) /\ call[c].pc = "link" /\ call[c] \in Calls
  BY DEF Link, At, CallType
<1>2. t \in Timers \ Running /\ ticks \in Nat
  BY <1>1 DEF CallsInv, Running, Calls
<1>3. since \in Nat \cup {Never}
  BY DEF ClockType
<1>4. /\ UNCHANGED <<mode, limitation, armed, wake, pending, slips>>
      /\ status' = [status EXCEPT ![t] = "running"]
      /\ since' = IF current = None THEN Never ELSE since
  BY DEF Link
<1> HIDE DEF t, ticks
<1>5. /\ ListInv' /\ Running' = Running \cup {t} /\ current' # None /\ Elapsed \in Nat
      /\ countLeft' = [countLeft EXCEPT ![t] = ticks + Elapsed] /\ due' = [due EXCEPT ![t] = ticks]
      /\ call' = [call EXCEPT ![c].pc = "resched", ![c].op = "started"]
  BY <1>2, <1>3, Linked DEF t, ticks
<1>6. /\ CallType' /\ \A d \in Contexts : d # c => call'[d] = call[d]
      /\ call'[c].pc = "resched" /\ call'[c].op = "started" /\ call'[c].id = t /\ call'[c].then = call[c].then
  <2> DEFINE g == [call[c] EXCEPT !.pc = "resched", !.op = "started"]
  <2>1. g \in Calls /\ g.pc = "resched" /\ g.op = "started" /\ g.id = call[c].id /\ g.then = call[c].then
    BY <1>1 DEF Calls, Places, MaskedPlaces
  <2>2. call' = [call EXCEPT ![c] = g]
    BY <1>5
  <2> HIDE DEF g
  <2> QED BY <2>1, <2>2, Replaced DEF t
<1>7. \A d \in Contexts : d # c => call[d].pc \notin MaskedPlaces
  BY <1>1, Alone
<1>8. /\ \A u \in Timers : u # t => (status'[u] = status[u] /\ countLeft'[u] = countLeft[u] /\ due'[u] = due[u])
      /\ countLeft'[t] = ticks + Elapsed /\ due'[t] = ticks
  BY <1>2, <1>4, <1>5 DEF ListInv, ListType, ClockType
<1>9. ClockType'
  BY <1>2, <1>3, <1>4, <1>5 DEF ClockType
<1>10. CallsInv'
  <2>1. CASE c = "thread"
    <3>1. call'["isr"] = call["isr"] /\ call["isr"].pc = "idle" /\ call["isr"].then = "idle"
      BY <1>1, <1>6, <2>1, TwoContexts DEF CallsInv, Turn
    <3>2. Running' # {}
      BY <1>5
    <3> QED BY <1>2, <1>6, <2>1, <3>1, <3>2, TwoContexts DEF CallsInv
  <2>2. CASE c = "isr"
    <3>1. call'["thread"] = call["thread"] /\ call["thread"].pc \notin MaskedPlaces
      BY <1>6, <1>7, <2>2, TwoContexts
    <3>2. /\ call["thread"].pc # "idle" => call["thread"].id \in Timers
          /\ call["thread"].pc \in {"lock", "free"} => call["thread"].id # t /\ status[call["thread"].id] # "running"
      BY <1>1, <2>2, TwoContexts DEF CallsInv, t
    <3>3. Running' # {}
      BY <1>5
    <3>4. call["thread"].pc \in {"lock", "free"} => status'[call["thread"].id] # "running"
      BY <1>8, <3>2
    <3> QED BY <1>2, <1>6, <2>2, <3>1, <3>2, <3>3, <3>4, TwoContexts DEF CallsInv, MaskedPlaces
  <2> QED BY <2>1, <2>2, TwoContexts
<1>11. Counting' /\ ~ \E d \in Contexts : call'[d].pc = "restart"
  BY <1>6, <1>7 DEF Counting, MaskedPlaces
<1>12. AlarmInv'
  BY <1>2, <1>4, <1>5, <1>11 DEF AlarmInv
<1>13. CountsAreHonest'
  <2>1. ~ \E d \in Contexts : call[d].pc = "restart"
    BY <1>1, <1>7 DEF MaskedPlaces
  <2>2. Counted' = Elapsed /\ (current # None => Counted = Elapsed)
    BY <1>4, <1>11, <2>1 DEF Counted, Elapsed, ReturnTimeElapsed
  <2>3. current = None => Running = {}
    BY HeadRuns, Numbers
  <2> QED BY <1>2, <1>4, <1>5, <1>8, <2>2, <2>3, HeadRuns DEF CountsAreHonest, ClockType
<1> QED BY <1>5, <1>6, <1>9, <1>10, <1>12, <1>13

LEMMA UnlinkStep ==
  ASSUME TimerInv, NEW c \in Contexts, Unlink(c)
  PROVE  TimerInv'
<1> USE DEF TimerInv
<1> DEFINE t == call[c].id
<1>1. Turn(c) /\ call[c].pc = "unlink" /\ call[c] \in Calls /\ slips' = slips
  BY DEF Unlink, At, CallType
<1>2. t \in Timers
  BY <1>1 DEF CallsInv
<1>3. \A d \in Contexts : d # c => call[d].pc \notin MaskedPlaces
  BY <1>1, Alone
<1>4. ~ Counting
  BY <1>1, <1>3 DEF Counting, MaskedPlaces
<1>5. CASE status[t] # "running"
  <2>1. Return(c) /\ UNCHANGED <<list, rtc, due, slips>>
    BY <1>1, <1>5 DEF Unlink
  <2>2. /\ CallType' /\ \A d \in Contexts : d # c => call'[d] = call[d]
        /\ call'[c].pc = IF call[c].op = "start" THEN "lock" ELSE IF call[c].op = "delete" THEN "free" ELSE call[c].then
        /\ call'[c].pc # "idle" => call'[c].id = t /\ call'[c].then = call[c].then
        /\ call'[c].pc = "idle" => call'[c].then = "idle"
    BY <2>1, Returned
  <2>3. call'[c].pc \in {"lock", "free", "idle", "callback"}
    BY <1>1, <2>2 DEF Calls
  <2>4. status' = status /\ Running' = Running
    BY <2>1, ListKept DEF list
  <2>5. c = "isr" => call[c].then = "idle"
    BY <1>1, <1>5 DEF CallsInv, Calls
  <2>6. CallsInv'
    <3>1. CASE c = "thread"
      BY <1>1, <1>2, <1>5, <2>2, <2>3, <2>4, <3>1, TwoContexts DEF CallsInv, Turn
    <3>2. CASE c = "isr"
      BY <1>1, <1>2, <1>3, <1>5, <2>2, <2>3, <2>4, <2>5, <3>2, TwoContexts DEF CallsInv, Turn
    <3> QED BY <3>1, <3>2, TwoContexts
  <2>7. c = "isr" => (Firing <=> Firing')
    BY <2>2, <2>3, <2>5 DEF Firing
  <2> QED BY <1>1, <2>1, <2>2, <2>3, <2>6, <2>7, OnlyTheCall
<1>6. CASE status[t] = "running"
  <2> HIDE DEF t
  <2>1. /\ UnlinkTimer(t) /\ due' = [due EXCEPT ![t] = 0] /\ UNCHANGED <<limitation, wake>>
        /\ IF current' = None THEN since' = Never /\ armed' = FALSE /\ pending' = FALSE /\ Return(c)
           ELSE /\ IF previous' # current' THEN Goto(c, "resched") ELSE Return(c)
                /\ UNCHANGED <<since, armed, pending>>
    BY <1>6 DEF Unlink, t
  <2>2. t \in Running
    BY <1>2, <1>6 DEF Running
  <2>3. /\ ListInv' /\ Running' = Running \ {t} /\ (current' # None <=> Running' # {})
        /\ \A u \in Timers : u # t => countLeft'[u] = countLeft[u]
    BY <2>1, <2>2, Unlinked
  <2>4. /\ \A u \in Timers : u # t => status'[u] = status[u] /\ due'[u] = due[u]
        /\ status'[t] = "created"
    BY <1>2, <2>1 DEF UnlinkTimer, ListInv, ListType, ClockType
  <2>5. ClockType'
    <3>1. armed' \in BOOLEAN /\ pending' \in BOOLEAN /\ since' \in Nat \cup {Never}
      BY <2>1 DEF ClockType
    <3>2. due' \in [Timers -> Int]
      BY <1>2, <2>1 DEF ClockType
    <3> QED BY <1>1, <2>1, <3>1, <3>2 DEF ClockType
  <2>6. ~ \E d \in Contexts : call[d].pc = "restart"
    BY <1>4 DEF Counting
  <2>7. CASE current' = None
    <3>1. since' = Never /\ armed' = FALSE /\ pending' = FALSE /\ Return(c) /\ Running' = {}
      BY <2>1, <2>3, <2>7
    <3>2. /\ CallType' /\ \A d \in Contexts : d # c => call'[d] = call[d]
          /\ call'[c].pc = IF call[c].op = "start" THEN "lock" ELSE IF call[c].op = "delete" THEN "free" ELSE call[c].then
          /\ call'[c].pc # "idle" => call'[c].id = t /\ call'[c].then = call[c].then
          /\ call'[c].pc = "idle" => call'[c].then = "idle"
      BY <3>1, Returned DEF t
    <3>3. call'[c].pc \in {"lock", "free", "idle", "callback"}
      BY <1>1, <3>2 DEF Calls
    <3>4. CallsInv'
      <4>1. CASE c = "thread"
        BY <1>1, <1>2, <1>3, <2>4, <3>2, <3>3, <4>1, TwoContexts DEF CallsInv, Turn, MaskedPlaces
      <4>2. CASE c = "isr"
        BY <1>1, <1>2, <1>3, <2>4, <3>2, <3>3, <4>2, TwoContexts DEF CallsInv, Turn, MaskedPlaces, t
      <4> QED BY <4>1, <4>2, TwoContexts
    <3>5. AlarmInv'
      <4>1. ~ \E d \in Contexts : call'[d].pc = "restart"
        BY <2>6, <3>2, <3>3
      <4> QED BY <3>1, <4>1 DEF AlarmInv
    <3>6. CountsAreHonest'
      BY <3>1 DEF CountsAreHonest
    <3> QED BY <2>3, <2>5, <3>2, <3>4, <3>5, <3>6
  <2>8. CASE current' # None
    <3>1. Goto(c, "resched") /\ UNCHANGED <<since, armed, pending>> /\ Running' # {}
      BY <2>1, <2>3, <2>8 DEF ListInv, HeadTestSeesChanges
    <3>2. "resched" \in Places
      BY DEF Places, MaskedPlaces
    <3>3. /\ CallType' /\ \A d \in Contexts : d # c => call'[d] = call[d]
          /\ call'[c].pc = "resched" /\ call'[c].id = t /\ call'[c].then = call[c].then
      BY <3>1, <3>2, Moved DEF t
    <3>4. CallsInv'
      <4>1. CASE c = "thread"
        BY <1>1, <1>2, <1>3, <2>4, <3>1, <3>3, <4>1, TwoContexts DEF CallsInv, Turn, MaskedPlaces
      <4>2. CASE c = "isr"
        BY <1>1, <1>2, <1>3, <2>4, <3>1, <3>3, <4>2, TwoContexts DEF CallsInv, Turn, MaskedPlaces, t
      <4> QED BY <4>1, <4>2, TwoContexts
    <3>5. Counting' /\ ~ \E d \in Contexts : call'[d].pc = "restart"
      BY <2>6, <3>3 DEF Counting
    <3>6. AlarmInv'
      BY <3>1, <3>5 DEF AlarmInv
    <3>7. CountsAreHonest'
      <4>1. Counted' = Counted
        BY <2>6, <3>1, <3>5 DEF Counted
      <4> QED BY <1>1, <2>3, <2>4, <4>1, HeadRuns DEF CountsAreHonest
    <3> QED BY <2>3, <2>5, <3>3, <3>4, <3>6, <3>7
  <2> QED BY <2>7, <2>8
<1> QED BY <1>5, <1>6

LEMMA RescheduleStep ==
  ASSUME TimerInv, NEW c \in Contexts, Reschedule(c)
  PROVE  TimerInv'
<1> USE DEF TimerInv
<1> DEFINE elapsed == ReturnTimeElapsed
           left == countLeft[current]
<1>1. /\ Turn(c) /\ call[c].pc = "resched" /\ Goto(c, "restart") /\ armed' = FALSE
      /\ UNCHANGED <<status, mode, counterInit, previousID, nextID, current, previous, since, pending, due, slips>>
      /\ limitation' = IF left > elapsed + MaxWakeup THEN "overpassed" ELSE "enough"
      /\ wake' = IF left > elapsed + MaxWakeup THEN MaxWakeup ELSE Decrease(left, elapsed)
      /\ countLeft' = [u \in Timers |-> IF u \in Running THEN Decrease(countLeft[u], elapsed) ELSE countLeft[u]]
  BY DEF Reschedule, At
<1>2. Running # {} /\ current \in Running /\ Running \subseteq Timers
  BY <1>1, HeadRuns DEF CallsInv
<1>3. elapsed \in Nat /\ \A u \in Timers : countLeft[u] \in Nat
  BY DEF ReturnTimeElapsed, ClockType, Never, ListInv, ListType
<1>4. \A n \in Nat : Decrease(n, elapsed) \in Nat /\ (\A m \in Nat : m <= n => Decrease(m, elapsed) <= Decrease(n, elapsed))
  BY <1>3 DEF Decrease
<1>5. Running' = Running
  BY <1>1 DEF Running
<1>6. \A u \in Running : countLeft'[u] = Decrease(countLeft[u], elapsed) /\ countLeft'[u] \in Nat
  BY <1>1, <1>2, <1>3, <1>4
<1>7. ListInv'
  <2>1. countLeft' \in [Timers -> Nat]
    BY <1>1, <1>3, <1>4
  <2>2. ListType'
    BY <1>1, <2>1 DEF ListInv, ListType
  <2>3. PICK at \in [Running -> 1 .. Cardinality(Running)] : InOrder(at)
    BY DEF ListInv, ListIsSound
  <2>4. \A u \in Running \ {current} :
           previousID[u] \in Running /\ countLeft'[previousID[u]] <= countLeft'[u]
    BY <1>2, <1>3, <1>4, <1>6, <2>3 DEF InOrder
  <2> HIDE DEF elapsed, left
  <2>5. InOrder(at)'
    BY <1>1, <1>5, <2>3, <2>4 DEF InOrder
  <2>6. ListIsSound'
    BY <1>5, <2>3, <2>5 DEF ListIsSound
  <2> QED BY <1>1, <2>2, <2>6 DEF ListInv, HeadTestSeesChanges
<1>8. "restart" \in Places
  BY DEF Places, MaskedPlaces
<1>9. /\ CallType' /\ \A d \in Contexts : d # c => call'[d] = call[d]
      /\ call'[c].pc = "restart" /\ call'[c].id = call[c].id /\ call'[c].op = call[c].op /\ call'[c].then = call[c].then
  BY <1>1, <1>8, Moved
<1>10. \A d \in Contexts : d # c => call[d].pc \notin MaskedPlaces
  BY <1>1, Alone
<1>11. ClockType'
  <2>1. wake' \in 0 .. MaxWakeup
    BY <1>1, <1>2, <1>3, TimerAssumption DEF Decrease
  <2> QED BY <1>1, <2>1 DEF ClockType
<1>12. CallsInv'
  <2>1. CASE c = "thread"
    BY <1>1, <1>5, <1>9, <1>10, <2>1, TwoContexts DEF CallsInv, Turn, MaskedPlaces
  <2>2. CASE c = "isr"
    BY <1>1, <1>5, <1>9, <1>10, <2>2, TwoContexts DEF CallsInv, Turn, MaskedPlaces
  <2> QED BY <2>1, <2>2, TwoContexts
<1>13. Counting' /\ \E d \in Contexts : call'[d].pc = "restart"
  BY <1>9 DEF Counting
<1>14. AlarmInv'
  <2>1. limitation' = "enough" => countLeft'[current'] <= wake'
    BY <1>1, <1>2, <1>6
  <2> QED BY <1>2, <1>5, <1>13, <2>1 DEF AlarmInv
<1>15. CountsAreHonest'
  <2>1. ~ \E d \in Contexts : call[d].pc = "restart"
    BY <1>1, <1>10 DEF MaskedPlaces
  <2>2. Counted = elapsed /\ Counted' = 0
    BY <1>13, <2>1 DEF Counted, ReturnTimeElapsed
  <2>3. ASSUME NEW u \in Running
        PROVE  countLeft'[u] >= due[u] /\ countLeft'[u] <= slips + IF due[u] > 0 THEN due[u] ELSE 0
    <3>1. /\ countLeft[u] - elapsed >= due[u] /\ countLeft[u] - elapsed <= slips + IF due[u] > 0 THEN due[u] ELSE 0
          /\ countLeft[u] \in Nat /\ due[u] \in Int /\ slips \in Nat
      BY <1>2, <1>3, <2>2, TimerAssumption DEF CountsAreHonest, ClockType
    <3>2. countLeft'[u] = IF countLeft[u] < elapsed THEN 0 ELSE countLeft[u] - elapsed
      BY <1>6 DEF Decrease
    <3>3. due[u] > 0 \/ due[u] <= 0
      BY <3>1
    <3> HIDE DEF elapsed
    <3>4. CASE countLeft[u] < elapsed
      BY <1>3, <3>1, <3>2, <3>4
    <3>5. CASE ~ (countLeft[u] < elapsed)
      BY <1>3, <3>1, <3>2, <3>5
    <3> QED BY <3>4, <3>5
  <2>4. ASSUME NEW u \in Running
        PROVE  countLeft'[u] - 0 >= due[u] /\ countLeft'[u] - 0 <= slips + IF due[u] > 0 THEN due[u] ELSE 0
    <3>1. countLeft'[u] - 0 = countLeft'[u]
      BY <1>6
    <3> QED BY <2>3, <3>1
  <2> QED BY <1>1, <1>5, <2>2, <2>4 DEF CountsAreHonest
<1> QED BY <1>7, <1>9, <1>11, <1>12, <1>14, <1>15

LEMMA RestartStep ==
  ASSUME TimerInv, NEW c \in Contexts, RestartWakeupCounter(c)
  PROVE  TimerInv'
<1> USE DEF TimerInv
<1>1. /\ Turn(c) /\ call[c].pc = "restart" /\ call[c] \in Calls
      /\ since' = 0 /\ armed' = (wake # 0) /\ pending' = (wake = 0) /\ Return(c)
      /\ UNCHANGED <<list, limitation, wake, due, slips>>
  BY DEF RestartWakeupCounter, At, CallType
<1>2. ListInv' /\ Running' = Running /\ UNCHANGED <<status, current, countLeft>>
  BY <1>1, ListKept DEF list
<1>3. Running # {}
  BY <1>1 DEF CallsInv
<1>4. /\ CallType' /\ \A d \in Contexts : d # c => call'[d] = call[d]
      /\ call'[c].pc = IF call[c].op = "start" THEN "lock" ELSE IF call[c].op = "delete" THEN "free" ELSE call[c].then
      /\ call'[c].pc # "idle" => call'[c].id = call[c].id /\ call'[c].then = call[c].then
      /\ call'[c].pc = "idle" => call'[c].then = "idle"
  BY <1>1, Returned
<1>5. call'[c].pc \in {"lock", "free", "idle", "callback"}
  BY <1>1, <1>4 DEF Calls
<1>6. \A d \in Contexts : d # c => call[d].pc \notin MaskedPlaces
  BY <1>1, Alone
<1>7. wake \in Nat /\ armed' \in BOOLEAN /\ pending' \in BOOLEAN
  <2>1. wake \in Nat
    BY TimerAssumption DEF ClockType
  <2>2. (wake # 0) \in BOOLEAN /\ (wake = 0) \in BOOLEAN
    OBVIOUS
  <2> QED BY <1>1, <2>1, <2>2
<1>8. ClockType'
  BY <1>1, <1>7 DEF ClockType
<1>9. CallsInv'
  <2>1. CASE c = "thread"
    <3>1. call'["isr"] = call["isr"] /\ call["isr"].pc = "idle" /\ call["isr"].then = "idle"
      BY <1>1, <1>4, <2>1, TwoContexts DEF CallsInv, Turn
    <3>2. call["thread"].id \in Timers /\ (call["thread"].op \in {"start", "delete"} => status[call["thread"].id] # "running")
      BY <1>1, <2>1, TwoContexts DEF CallsInv
    <3>3. call'["thread"].pc \in {"lock", "free"} => call["thread"].op \in {"start", "delete"}
      BY <1>1, <1>4, <2>1 DEF Calls
    <3> QED BY <1>2, <1>4, <1>5, <2>1, <3>1, <3>2, <3>3, TwoContexts, ZenonT(60) DEF CallsInv
  <2>2. CASE c = "isr"
    <3>1. call'["thread"] = call["thread"] /\ call["thread"].pc \notin MaskedPlaces
      BY <1>4, <1>6, <2>2, TwoContexts
    <3>2. /\ call["thread"].pc # "idle" => call["thread"].id \in Timers
          /\ call["thread"].pc \in {"lock", "free"} =>
               call["thread"].id # call["isr"].id /\ status[call["thread"].id] # "running"
          /\ call["isr"].id \in Timers /\ (call["isr"].op \in {"start", "delete"} => status[call["isr"].id] # "running")
      BY <1>1, <2>2, TwoContexts DEF CallsInv
    <3>3. call'["isr"].pc \in {"lock", "free"} => call["isr"].op \in {"start", "delete"}
      BY <1>1, <1>4, <2>2 DEF Calls
    <3> QED BY <1>2, <1>4, <1>5, <2>2, <3>1, <3>2, <3>3, TwoContexts DEF CallsInv, MaskedPlaces
  <2> QED BY <2>1, <2>2, TwoContexts
<1>10. ~ Counting' /\ ~ \E d \in Contexts : call'[d].pc = "restart"
  BY <1>4, <1>5, <1>6 DEF Counting, MaskedPlaces
<1>11. AlarmInv'
  <2>1. limitation = "enough" => countLeft[current] <= wake
    BY <1>1 DEF AlarmInv
  <2>2. CASE wake = 0
    <3>1. armed' = FALSE /\ pending' = TRUE /\ since' = 0 /\ wake' = 0
      BY <1>1, <2>2
    <3> QED BY <1>1, <1>2, <1>3, <1>10, <2>1, <3>1 DEF AlarmInv
  <2>3. CASE wake # 0
    <3>1. armed' = TRUE /\ pending' = FALSE /\ since' = 0 /\ wake' = wake
      BY <1>1, <2>3
    <3>2. since' < wake'
      BY <1>7, <2>3, <3>1
    <3> QED BY <1>1, <1>2, <1>3, <1>10, <2>1, <3>1, <3>2 DEF AlarmInv
  <2> QED BY <2>2, <2>3
<1>12. CountsAreHonest'
  <2>1. Counted = 0 /\ Counted' = 0
    BY <1>1, <1>10 DEF Counted
  <2> QED BY <1>1, <1>2, <2>1 DEF CountsAreHonest
<1> QED BY <1>2, <1>4, <1>8, <1>9, <1>11, <1>12

LEMMA HandlerStep ==
  ASSUME TimerInv, Handler
  PROVE  TimerInv'
<1> USE DEF TimerInv
<1> DEFINE t == current
<1>1. /\ pending /\ pending' = FALSE /\ armed' = FALSE /\ UNCHANGED <<limitation, since, wake, slips>>
      /\ call["isr"].pc = "idle" /\ call["thread"].pc \notin MaskedPlaces
  BY DEF Handler
<1>2. Running # {} /\ t \in Running /\ t \in Timers /\ status[t] = "running" /\ t # None
  <2>1. Running # {}
    BY <1>1 DEF AlarmInv
  <2> QED BY <2>1, HeadRuns, Numbers DEF Running
<1>3. /\ IF FullCount /\ mode[t] = "repeated" THEN UnlinkTimer(t) /\ due' = [due EXCEPT ![t] = 0]
         ELSE UNCHANGED <<list, due>>
      /\ CASE ~ FullCount -> Begin("isr", "resched", t, 0, "stop", "idle")
           [] FullCount /\ mode[t] = "repeated" -> Begin("isr", "lock", t, counterInit[t], "start", "callback")
           [] OTHER -> Begin("isr", "unlink", t, 0, "stop", "callback")
  BY <1>2 DEF Handler
<1>4. ~ \E d \in Contexts : call[d].pc = "restart"
  BY <1>1, TwoContexts DEF MaskedPlaces
<1>5. 0 \in Nat /\ "resched" \in Places /\ "lock" \in Places /\ "unlink" \in Places
  BY DEF Places, MaskedPlaces
<1>6. /\ call["thread"].pc # "idle" => call["thread"].id \in Timers
      /\ call["thread"].pc \in {"lock", "free"} =>
           call["thread"].id # t /\ status[call["thread"].id] # "running"
  BY <1>2, TwoContexts DEF CallsInv
<1>7. CASE ~ FullCount
  <2>1. UNCHANGED <<list, due>> /\ Begin("isr", "resched", t, 0, "stop", "idle")
    BY <1>3, <1>7
  <2> HIDE DEF t
  <2>2. /\ CallType' /\ call'["thread"] = call["thread"]
        /\ call'["isr"].pc = "resched" /\ call'["isr"].id = t /\ call'["isr"].op = "stop" /\ call'["isr"].then = "idle"
    BY <1>2, <1>5, <2>1, Began, TwoContexts
  <2>3. ListInv' /\ Running' = Running /\ UNCHANGED <<status, current, countLeft>>
    BY <2>1, ListKept DEF list
  <2>4. ClockType'
    BY <1>1, <2>1 DEF ClockType
  <2>5. CallsInv'
    BY <1>1, <1>2, <1>6, <2>2, <2>3, TwoContexts DEF CallsInv, MaskedPlaces
  <2>6. Counting' /\ ~ \E d \in Contexts : call'[d].pc = "restart"
    BY <1>1, <2>2, TwoContexts DEF Counting, MaskedPlaces
  <2>7. AlarmInv'
    BY <1>1, <2>6 DEF AlarmInv
  <2>8. CountsAreHonest'
    BY <1>1, <1>4, <2>1, <2>3, <2>6 DEF CountsAreHonest, Counted
  <2> QED BY <2>2, <2>3, <2>4, <2>5, <2>7, <2>8
<1>8. CASE FullCount /\ mode[t] = "repeated"
  <2>1. /\ UnlinkTimer(t) /\ due' = [due EXCEPT ![t] = 0]
        /\ Begin("isr", "lock", t, counterInit[t], "start", "callback") /\ counterInit[t] \in Nat
    BY <1>2, <1>3, <1>8 DEF ListInv, ListType
  <2> HIDE DEF t
  <2>2. /\ CallType' /\ call'["thread"] = call["thread"]
        /\ call'["isr"].pc = "lock" /\ call'["isr"].id = t /\ call'["isr"].then = "callback"
    BY <1>2, <1>5, <2>1, Began, TwoContexts
  <2>3. /\ ListInv' /\ Running' = Running \ {t}
        /\ \A u \in Timers : u # t => countLeft'[u] = countLeft[u]
    BY <1>2, <2>1, Unlinked
  <2>4. /\ \A u \in Timers : u # t => status'[u] = status[u] /\ due'[u] = due[u]
        /\ status'[t] = "created"
    BY <1>2, <2>1 DEF UnlinkTimer, ListInv, ListType, ClockType
  <2>5. ClockType'
    <3>1. due' \in [Timers -> Int]
      BY <1>2, <2>1 DEF ClockType
    <3> QED BY <1>1, <3>1 DEF ClockType
  <2>6. CallsInv'
    <3>1. call["thread"].pc \in {"lock", "free"} => status'[call["thread"].id] # "running"
      BY <1>6, <2>4
    <3> QED BY <1>1, <1>2, <1>6, <2>2, <2>4, <3>1, TwoContexts DEF CallsInv, MaskedPlaces
  <2>7. Firing' /\ ~ \E d \in Contexts : call'[d].pc = "restart"
    BY <1>1, <2>2, TwoContexts DEF Firing, MaskedPlaces
  <2>8. AlarmInv'
    BY <1>1, <2>7 DEF AlarmInv
  <2>9. CountsAreHonest'
    <3>1. Counted' = Counted
      BY <1>1, <1>4, <2>7 DEF Counted
    <3> QED BY <1>1, <2>3, <2>4, <3>1, HeadRuns DEF CountsAreHonest
  <2> QED BY <2>2, <2>3, <2>5, <2>6, <2>8, <2>9
<1>9. CASE FullCount /\ mode[t] # "repeated"
  <2>1. UNCHANGED <<list, due>> /\ Begin("isr", "unlink", t, 0, "stop", "callback")
    BY <1>3, <1>9
  <2> HIDE DEF t
  <2>2. /\ CallType' /\ call'["thread"] = call["thread"]
        /\ call'["isr"].pc = "unlink" /\ call'["isr"].id = t /\ call'["isr"].then = "callback"
    BY <1>2, <1>5, <2>1, Began, TwoContexts
  <2>3. ListInv' /\ Running' = Running /\ UNCHANGED <<status, current, countLeft>>
    BY <2>1, ListKept DEF list
  <2>4. ClockType'
    BY <1>1, <2>1 DEF ClockType
  <2>5. CallsInv'
    BY <1>1, <1>2, <1>6, <2>2, <2>3, TwoContexts DEF CallsInv, MaskedPlaces
  <2>6. Firing' /\ ~ \E d \in Contexts : call'[d].pc = "restart"
    BY <1>1, <2>2, TwoContexts DEF Firing, MaskedPlaces
  <2>7. AlarmInv'
    BY <1>1, <2>6 DEF AlarmInv
  <2>8. CountsAreHonest'
    BY <1>1, <1>4, <2>1, <2>3, <2>6 DEF CountsAreHonest, Counted
  <2> QED BY <2>2, <2>3, <2>4, <2>5, <2>7, <2>8
<1> HIDE DEF t
<1> QED BY <1>7, <1>8, <1>9

LEMMA TickStep ==
  ASSUME TimerInv, Tick
  PROVE  TimerInv'
<1> USE DEF TimerInv
<1> DEFINE still == since = Never \/ \E c \in Contexts : call[c].pc = "restart"
<1>1. /\ Running # {} /\ UNCHANGED <<list, limitation, armed, wake, call>>
      /\ due' = [u \in Timers |-> IF u \in Running THEN due[u] - 1 ELSE due[u]]
  BY DEF Tick
<1>2. /\ still => slips < MaxSlips /\ slips' = slips + 1 /\ UNCHANGED <<since, pending>>
      /\ ~ still => since' = since + 1 /\ pending' = (pending \/ (armed /\ since + 1 = wake)) /\ slips' = slips
  BY DEF Tick
<1>3. ListInv' /\ Running' = Running /\ UNCHANGED <<status, current, countLeft>>
  BY <1>1, ListKept DEF list
<1>4. MaxSlips \in Nat /\ wake \in Nat /\ slips \in Nat /\ since \in Nat \cup {Never} /\ (~ still => since \in Nat)
  BY TimerAssumption DEF ClockType, Never
<1>5. pending' \in BOOLEAN
  <2>1. CASE still
    BY <1>2, <2>1 DEF ClockType
  <2>2. CASE ~ still
    BY <1>2, <2>2
  <2> QED BY <2>1, <2>2
<1>6. ClockType'
  <2>1. due' \in [Timers -> Int]
    BY <1>1 DEF ClockType
  <2>2. since' \in Nat \cup {Never} /\ slips' \in 0 .. MaxSlips
    BY <1>2, <1>4 DEF ClockType
  <2> QED BY <1>1, <1>5, <2>1, <2>2 DEF ClockType
<1>7. CallsInv' /\ CallType'
  BY <1>1, <1>3 DEF CallsInv, CallType
<1>8. /\ Counting' <=> Counting
      /\ (\E d \in Contexts : call'[d].pc = "restart") <=> (\E d \in Contexts : call[d].pc = "restart")
      /\ Firing' <=> Firing
  BY <1>1 DEF Counting, Firing
<1>9. pending' => pending \/ armed
  <2>1. CASE still
    BY <1>2, <2>1
  <2>2. CASE ~ still
    BY <1>2, <2>2
  <2> QED BY <2>1, <2>2
<1>10. AlarmInv'
  <2>1. ~ Counting => (pending' => since' >= wake)
    <3>1. CASE still
      BY <1>2, <3>1 DEF AlarmInv
    <3>2. CASE ~ still
      <4>1. ASSUME pending', ~ Counting PROVE pending \/ since + 1 = wake
        BY <1>2, <3>2, <4>1
      <4>2. ~ Counting /\ pending => since >= wake
        BY DEF AlarmInv
      <4>3. since' = since + 1 /\ since \in Nat
        BY <1>2, <1>4, <3>2
      <4> QED BY <1>4, <4>1, <4>2, <4>3
    <3> QED BY <3>1, <3>2
  <2>2. ~ Counting /\ ~ Firing => pending' \/ (armed /\ since' < wake)
    <3>1. ~ Counting /\ ~ Firing => pending \/ (armed /\ since < wake)
      BY <1>1 DEF AlarmInv
    <3>2. CASE still
      BY <1>2, <3>1, <3>2
    <3>3. CASE ~ still
      <4>1. CASE pending
        BY <1>2, <3>3, <4>1
      <4>2. CASE armed /\ since < wake
        <5>1. since + 1 = wake \/ since + 1 < wake
          BY <1>4, <3>3, <4>2
        <5>2. since + 1 = wake => pending'
          BY <1>2, <3>3, <4>2
        <5> QED BY <1>2, <3>3, <4>2, <5>1, <5>2
      <4> QED BY <3>1, <4>1, <4>2
    <3> QED BY <3>2, <3>3
  <2> QED BY <1>1, <1>3, <1>8, <1>9, <2>1, <2>2 DEF AlarmInv
<1>11. CountsAreHonest'
  <2>1. still => Counted' = 0 /\ Counted = 0
    BY <1>2, <1>8 DEF Counted
  <2>2. ~ still => Counted = since /\ Counted' = since + 1
    BY <1>2, <1>4, <1>8 DEF Counted, Never
  <2>3. ASSUME NEW u \in Running
        PROVE  /\ countLeft[u] - Counted' >= due'[u]
               /\ countLeft[u] - Counted' <= slips' + IF due'[u] > 0 THEN due'[u] ELSE 0
    <3>1. /\ countLeft[u] - Counted >= due[u] /\ countLeft[u] - Counted <= slips + IF due[u] > 0 THEN due[u] ELSE 0
          /\ due[u] \in Int /\ due'[u] = due[u] - 1 /\ countLeft[u] \in Nat
      BY <1>1 DEF CountsAreHonest, Running, ClockType, ListInv, ListType
    <3> HIDE DEF still
    <3>2. CASE still
      BY <1>2, <1>4, <2>1, <3>1, <3>2
    <3>3. CASE ~ still
      BY <1>2, <1>4, <2>2, <3>1, <3>3
    <3> QED BY <3>2, <3>3
  <2> QED BY <1>3, <2>3 DEF CountsAreHonest
<1> QED BY <1>3, <1>6, <1>7, <1>10, <1>11

LEMMA InitInv ==
  ASSUME Init
  PROVE  TimerInv
<1> USE DEF Init
<1>1. N \in Nat \ {0} /\ MaxWakeup \in Nat \ {0} /\ MaxSlips \in Nat
  BY TimerAssumption
<1>2. Running = {} /\ Timers = 0 .. N - 1 /\ 0 \in Timers /\ None = N
  BY <1>1 DEF Running, Timers, None
<1>3. ListType /\ HeadTestSeesChanges
  BY <1>1, <1>2 DEF ListType, HeadTestSeesChanges
<1>4. ListIsSound
  <2>1. Cardinality(Running) = 0
    BY <1>2, FS_EmptySet
  <2> DEFINE at == [u \in Running |-> 1]
  <2>2. at \in [Running -> 1 .. Cardinality(Running)]
    BY <1>2
  <2>3. InOrder(at)
    BY <1>2 DEF InOrder
  <2> QED BY <2>2, <2>3 DEF ListIsSound
<1>5. ClockType
  <2>1. 0 \in 0 .. MaxWakeup /\ 0 \in 0 .. MaxSlips
    BY <1>1
  <2>2. due \in [Timers -> Int]
    OBVIOUS
  <2> QED BY <2>1, <2>2 DEF ClockType
<1>6. CallType /\ \A c \in Contexts : call[c].pc = "idle" /\ call[c].then = "idle"
  BY IdleIsACall DEF CallType
<1>7. CallsInv
  BY <1>6, TwoContexts DEF CallsInv
<1>8. AlarmInv
  BY <1>2, <1>6 DEF AlarmInv
<1>9. CountsAreHonest
  BY <1>2 DEF CountsAreHonest
<1> QED BY <1>3, <1>4, <1>5, <1>7, <1>8, <1>9, <1>6 DEF TimerInv, ListInv

LEMMA StutterInv ==
  ASSUME TimerInv, UNCHANGED vars
  PROVE  TimerInv'
<1>1. ListInv' /\ Running' = Running /\ UNCHANGED <<list, rtc, call, due, slips>>
  BY ListKept DEF vars, TimerInv
<1>2. UNCHANGED <<status, current, countLeft, limitation, since, armed, wake, pending, call, due, slips>>
  BY <1>1 DEF list, rtc
<1>3. ClockType' /\ CallType' /\ CallsInv'
  BY <1>1, <1>2 DEF TimerInv, ClockType, CallType, CallsInv
<1>4. AlarmInv' /\ CountsAreHonest'
  BY <1>1, <1>2 DEF TimerInv, AlarmInv, Counting, Firing, CountsAreHonest, Counted
<1> QED BY <1>1, <1>3, <1>4 DEF TimerInv

LEMMA AlwaysInv == Spec => []TimerInv
<1>1. ASSUME TimerInv, Next PROVE TimerInv'
  <2>1. CASE \E m \in {"single", "repeated"} : Create(m)
    BY <1>1, <2>1, CreateStep
  <2>2. CASE \E t \in Timers, n \in Timeouts : CallStart(t, n)
    BY <1>1, <2>2, CallStartStep
  <2>3. CASE \E t \in Timers : CallStop(t)
    BY <1>1, <2>3, CallStopStep
  <2>4. ASSUME NEW c \in Contexts, Step(c) PROVE TimerInv'
    BY <1>1, <2>4, MaskStep, LinkStep, UnlinkStep, RescheduleStep, RestartStep DEF Step
  <2>5. CASE Work
    BY <1>1, <2>4, <2>5, TwoContexts, FreeStep, HandlerStep, CallbackStep DEF Work
  <2>6. CASE Tick
    BY <1>1, <2>6, TickStep
  <2> QED BY <1>1, <2>1, <2>2, <2>3, <2>5, <2>6 DEF Next
<1>2. TimerInv /\ [Next]_vars => TimerInv'
  BY <1>1, StutterInv
<1> QED BY <1>2, InitInv, PTL DEF Spec

-----------------------------------------------------------------------------
(* The theorems. *)

\* For any number of timers, the linked list of aTimerContext ends, holds the
\* running timers once each, in the order of their time left, and the test of
\* the head that decides on rescheduling sees every change, whatever the
\* interrupt does between the steps of HW_TS_Start, HW_TS_Stop and
\* HW_TS_Delete.
THEOREM ListAlwaysKept == Spec => []ListIsKept
<1>1. TimerInv => ListIsKept
  BY DEF TimerInv, ListInv, ListType, ClockType, CallType, Calls, ListIsKept, TypeOK
<1> QED BY <1>1, AlwaysInv, PTL

\* HW_TS_RTC_Wakeup_Handler never indexes the array of timers with the value
\* that stands for an empty list.
THEOREM HandlerAlwaysFindsItsTimer == Spec => []HandlerFindsItsTimer
<1>1. TimerInv => HandlerFindsItsTimer
  BY DEF TimerInv, AlarmInv, HandlerFindsItsTimer
<1> QED BY <1>1, AlwaysInv, PTL

\* Between calls the wake-up timer is armed, or its interrupt pending, exactly
\* while a timer runs: none is forgotten.
THEOREM WakeupAlwaysArmed == Spec => []WakeupIsArmed
<1>1. TimerInv => WakeupIsArmed
  <2> SUFFICES ASSUME TimerInv, \A c \in Contexts : call[c].pc = "idle"
               PROVE  IF Running = {} THEN ~ armed /\ since = Never ELSE pending \/ (armed /\ since < wake)
    BY DEF WakeupIsArmed
  <2>1. ~ Counting /\ ~ Firing
    BY TwoContexts DEF Counting, Firing
  <2> QED BY <2>1 DEF TimerInv, AlarmInv
<1> QED BY <1>1, AlwaysInv, PTL

\* What RescheduleTimerList leaves to count is the time left: never less, and
\* more by no more than the ticks lost while the wake-up timer was written.
THEOREM CountsAlwaysHonest == Spec => []CountsAreHonest
<1>1. TimerInv => CountsAreHonest
  BY DEF TimerInv
<1> QED BY <1>1, AlwaysInv, PTL

\* No other step than the handler's takes up the call-back of a timer.
LEMMA OnlyTheHandlerFires ==
  ASSUME TimerInv, Next, ~ Handler, call["isr"].pc = "idle"
  PROVE  call'["isr"].then = "idle"
<1> USE DEF TimerInv
<1>1. call["isr"].then = "idle" /\ call["isr"].pc \notin {"stop", "callback"}
  BY DEF CallsInv
<1>2. ASSUME NEW g, call' = [call EXCEPT !["thread"] = g] PROVE call'["isr"] = call["isr"]
  BY <1>2, TwoContexts DEF CallType
<1>3. ASSUME NEW c \in Contexts, Step(c) PROVE call'["isr"] = call["isr"]
  <2>1. c = "thread"
    BY <1>3, TwoContexts DEF Step, Mask, Link, Unlink, Reschedule, RestartWakeupCounter, At, Turn
  <2>2. CASE Mask(c) \/ Reschedule(c)
    BY <1>2, <2>1, <2>2 DEF Mask, Reschedule, Goto
  <2>3. CASE Unlink(c) \/ RestartWakeupCounter(c)
    <3>1. Return(c) \/ Goto(c, "resched")
      BY <2>3 DEF Unlink, RestartWakeupCounter
    <3> QED BY <1>2, <2>1, <3>1 DEF Return, Goto
  <2>4. CASE Link(c)
    <3>1. call[c].id \in Timers \ Running /\ call[c].ticks \in Nat /\ since \in Nat \cup {Never}
      BY <2>1, <2>4, TwoContexts DEF Link, At, CallsInv, Running, CallType, Calls, ClockType
    <3>2. call' = [call EXCEPT ![c].pc = "resched", ![c].op = "started"]
      BY <2>4, <3>1, Linked
    <3> QED BY <1>2, <2>1, <3>2
  <2> QED BY <1>3, <2>2, <2>3, <2>4 DEF Step
<1>4. ASSUME Callback PROVE FALSE
  BY <1>1, <1>4 DEF Callback, At
<1>5. CASE Free
  BY <1>1, <1>2, <1>5 DEF Free
<1>6. CASE \E m \in {"single", "repeated"} : Create(m)
  BY <1>1, <1>6 DEF Create
<1>7. CASE \E t \in Timers, n \in Timeouts : CallStart(t, n)
  BY <1>1, <1>2, <1>7 DEF CallStart, BeginStart, Begin
<1>8. CASE \E t \in Timers : CallStop(t)
  BY <1>1, <1>2, <1>8 DEF CallStop, Begin
<1>9. CASE Tick
  BY <1>1, <1>9 DEF Tick
<1> QED BY <1>1, <1>3, <1>4, <1>5, <1>6, <1>7, <1>8, <1>9, TwoContexts DEF Next, Work

\* HW_TS_RTC_Wakeup_Handler takes the head of the list for expired without a
\* look at its count: its time is up, even if the head was stopped, started
\* again or replaced since the interrupt was raised.
THEOREM NoTimerFiresEarly == Spec => NeverEarly
<1>1. ASSUME TimerInv, [Next]_vars, NEW t \in Timers, Fires(t) PROVE due[t] <= 0
  <2> USE <1>1 DEF TimerInv
  <2>1. call["isr"].pc = "idle" /\ call'["isr"].then = "callback" /\ call'["isr"].id = t
    BY DEF Fires
  <2>2. call["isr"].then = "idle"
    BY <2>1 DEF CallsInv
  <2>3. Handler
    BY <2>1, <2>2, OnlyTheHandlerFires DEF vars
  <2>4. pending /\ call["thread"].pc \notin MaskedPlaces
    BY <2>3 DEF Handler
  <2>5. Running # {} /\ current \in Running /\ current \in Timers /\ status[current] = "running" /\ current # None
    <3>1. Running # {}
      BY <2>4 DEF AlarmInv
    <3> QED BY <3>1, HeadRuns, Numbers DEF Running
  <2>6. FullCount /\ t = current
    <3>1. CASE ~ FullCount
      <4>1. Begin("isr", "resched", current, 0, "stop", "idle")
        BY <2>3, <2>5, <3>1 DEF Handler
      <4> QED BY <2>1, <4>1, TwoContexts DEF Begin, CallType
    <3>2. CASE FullCount
      <4>1. \/ Begin("isr", "lock", current, counterInit[current], "start", "callback")
            \/ Begin("isr", "unlink", current, 0, "stop", "callback")
        BY <2>3, <2>5, <3>2 DEF Handler
      <4> QED BY <2>1, <3>2, <4>1, TwoContexts DEF Begin, CallType
    <3> QED BY <3>1, <3>2
  <2>7. ~ Counting
    BY <2>1, <2>4, TwoContexts DEF Counting, MaskedPlaces
  <2>8. countLeft[current] <= wake /\ since >= wake /\ wake \in Nat /\ since \in Nat
    <3>1. wake \in Nat
      BY TimerAssumption DEF ClockType
    <3>2. countLeft[current] <= wake /\ since >= wake
      BY <2>4, <2>6, <2>7 DEF AlarmInv, FullCount
    <3> QED BY <3>1, <3>2 DEF ClockType, Never
  <2>9. Counted = since
    BY <2>7, <2>8 DEF Counted, Counting, Never
  <2>10. countLeft[t] - since >= due[t] /\ countLeft[t] \in Nat /\ due[t] \in Int
    BY <2>5, <2>6, <2>9 DEF CountsAreHonest, ListInv, ListType, ClockType
  <2> QED BY <2>6, <2>8, <2>10
<1>2. TimerInv /\ [Next]_vars => [\A t \in Timers : Fires(t) => due[t] <= 0]_vars
  BY <1>1
<1> QED BY <1>2, AlwaysInv, PTL DEF Spec, NeverEarly

-----------------------------------------------------------------------------
(* How late a timer can be.                                                *)

Restarting == \E c \in Contexts : call[c].pc = "restart"

\* The timer that was linked last, until the list is rescheduled.
Fresh(t) == \E c \in Contexts : call[c].pc = "resched" /\ call[c].op = "started" /\ call[c].id = t

\* By how much a timer is late, or its count ahead of the time left to it,
\* beyond the ticks that slipped.
Lag(t) == countLeft[t] - Counted - due[t] - slips

\* The handler has taken a timer out of the list, or is rescheduling.
Taken == LET isr == call["isr"] IN isr.pc # "idle" /\ ~ (isr.pc = "unlink" /\ isr.then = "callback")

\* How often the handler may reschedule before it is done.
ToCome ==
  LET isr == call["isr"]
  IN  IF isr.then = "callback" THEN IF isr.pc \in {"restart", "callback"} THEN 2 ELSE 3
      ELSE IF isr.op = "start" THEN IF isr.pc \in {"stop", "unlink", "resched"} THEN 2 ELSE 1
      ELSE IF isr.pc = "restart" THEN 0 ELSE 1

\* Three times for each timer that went before this one, and once for the
\* rescheduling that found its time up.  What the handler started behind it
\* does not make it wait.
Rounds(at, t) ==
  IF ~ Taken THEN 1 + 3 * (N - at[t])
  ELSE IF call["isr"].id \in Running /\ at[call["isr"].id] <= at[t] THEN 1
  ELSE 1 + 3 * (N - at[t]) - ToCome

Delay(n) == HandlerDelay * n

\* What the calls of the two contexts say of each other.
OpsInv ==
  /\ \A c \in Contexts : call[c].op = "started" => call[c].pc \in {"resched", "restart", "callback"}
  /\ LET isr == call["isr"]
     IN  /\ isr.op # "delete"
         /\ isr.pc = "callback" => isr.then = "callback"
         /\ isr.then = "callback" /\ isr.op = "start" => isr.pc \in {"lock", "link"}
         /\ isr.then = "callback" /\ isr.pc = "unlink" => isr.id = current

\* The wake-up timer is set for the first timer or to its limit, and read again
\* in time.
WakeInv ==
  /\ since # Never /\ ~ Restarting => since <= wake + HandlerDelay
  /\ limitation = "overpassed" => wake = MaxWakeup
  /\ armed => wake > 0
  /\ \A t \in Running : Fresh(t) \/ countLeft[t] >= wake

\* No timer with ticks to count is late.
CountInv ==
  /\ \A t \in Running : Fresh(t) => Lag(t) <= 0 /\ due[t] >= -HandlerDelay
  /\ \A t \in Running : countLeft[t] > 0 => Lag(t) <= 0

\* The thread finds its masked places only while no timer's time is up.
ThreadInv ==
  call["thread"].pc \in {"link", "unlink", "resched"} => \A t \in Running : Fresh(t) \/ countLeft[t] > 0

\* A timer whose time is up waits for the rounds of those before it.
WaitInv(at) ==
  /\ call["isr"].pc = "resched" /\ call["isr"].id \in Running =>
       \A t \in Running : at[call["isr"].id] <= at[t] => Fresh(t) \/ countLeft[t] > 0
  /\ \A t \in Running : countLeft[t] = 0 /\ ~ Fresh(t) => Lag(t) <= Delay(Rounds(at, t))

LateInv ==
  /\ OpsInv /\ WakeInv /\ CountInv /\ ThreadInv
  /\ \E at \in [Running -> 1 .. Cardinality(Running)] : InOrder(at) /\ WaitInv(at)

LEMMA Delays ==
  /\ HandlerDelay \in Nat
  /\ \A n \in Int : Delay(n) \in Int /\ Delay(n + 1) = Delay(n) + HandlerDelay
  /\ \A m, n \in Int : m <= n => Delay(m) <= Delay(n)
  /\ Delay(0) = 0 /\ Delay(1) = HandlerDelay
<1>1. HandlerDelay \in Nat
  BY TimerAssumption
<1>2. ASSUME NEW h \in Nat, NEW n \in Int
      PROVE  h * n \in Int /\ h * (n + 1) = h * n + h
  OBVIOUS
<1>3. ASSUME NEW h \in Nat, NEW m \in Int, NEW n \in Int, m <= n
      PROVE  h * m <= h * n
  <2>1. PICK k \in Nat : n = m + k
    <3>1. n - m \in Nat /\ n = m + (n - m)
      BY <1>3
    <3> QED BY <3>1
  <2>2. h * n = h * m + h * k
    BY <2>1
  <2>3. h * k >= 0 /\ h * k \in Int /\ h * m \in Int
    BY <2>1
  <2> QED BY <2>2, <2>3
<1> QED BY <1>1, <1>2, <1>3 DEF Delay

LEMMA DelayGrows ==
  ASSUME NEW m \in Int, NEW n \in Int, m <= n
  PROVE  Delay(m) <= Delay(n) /\ Delay(m) \in Int /\ Delay(n) \in Int
BY Delays

\* The places in the list.
LEMMA PlaceBounds ==
  ASSUME NEW R, R \subseteq Timers, NEW at \in [R -> 1 .. Cardinality(R)], NEW t \in R
  PROVE  /\ at[t] \in Nat /\ at[t] >= 1 /\ at[t] <= N /\ N \in Nat
         /\ \A u \in Timers \ R : at[t] < N
         /\ \A u \in R : at[u] \in Nat /\ at[u] <= N
<1>1. N \in Nat \ {0} /\ IsFiniteSet(Timers) /\ Cardinality(Timers) = N
  <2>1. N \in Nat \ {0}
    BY TimerAssumption
  <2>2. Cardinality(0 .. N - 1) = N
    <3>1. 0 <= N - 1
      BY <2>1
    <3>2. Cardinality(0 .. N - 1) = (N - 1) - 0 + 1
      BY <2>1, <3>1, FS_Interval
    <3> QED BY <2>1, <3>2
  <2> QED BY <2>1, <2>2, Numbers DEF Timers
<1>2. Cardinality(R) \in Nat /\ Cardinality(R) <= N
  BY <1>1, FS_Subset, FS_CardinalityType
<1>3. ASSUME NEW u \in Timers \ R PROVE Cardinality(R) < N
  <2>1. Cardinality(R \cup {u}) = Cardinality(R) + 1
    BY Sizes
  <2>2. Cardinality(R \cup {u}) <= Cardinality(Timers)
    BY <1>1, FS_Subset
  <2> QED BY <1>1, <1>2, <2>1, <2>2
<1> QED BY <1>1, <1>2, <1>3

LEMMA RoundsType ==
  ASSUME NEW at \in [Running -> 1 .. Cardinality(Running)], NEW t \in Running
  PROVE  ToCome \in 0 .. 3 /\ Rounds(at, t) \in Int
<1>1. Running \subseteq Timers
  BY DEF Running
<1>2. at[t] \in Nat /\ N \in Nat
  BY <1>1, PlaceBounds
<1>3. ToCome \in 0 .. 3
  BY DEF ToCome
<1> QED BY <1>2, <1>3 DEF Rounds

\* A step that leaves the list and the lags as they are.
LEMMA LagsStay ==
  ASSUME TimerInv, LateInv, Running' = Running, UNCHANGED <<countLeft, previousID, nextID, current>>,
         \A t \in Running : Fresh(t)' <=> Fresh(t),
         \A t \in Running : Lag(t)' = Lag(t),
         \A t \in Running : Fresh(t) => due'[t] >= -HandlerDelay,
         call'["thread"].pc \in {"link", "unlink", "resched"} => \A t \in Running : Fresh(t) \/ countLeft[t] > 0,
         call'["isr"].pc = "resched" => call'["isr"] = call["isr"],
         \A at \in [Running -> 1 .. Cardinality(Running)], t \in Running : Rounds(at, t) <= Rounds(at, t)'
  PROVE  CountInv' /\ ThreadInv' /\ \E at \in [Running' -> 1 .. Cardinality(Running')] : InOrder(at)' /\ WaitInv(at)'
<1>1. CountInv'
  BY DEF LateInv, CountInv
<1>2. ThreadInv'
  BY DEF ThreadInv
<1>3. PICK at \in [Running -> 1 .. Cardinality(Running)] : InOrder(at) /\ WaitInv(at)
  BY DEF LateInv
<1>4. InOrder(at)'
  BY <1>3 DEF InOrder
<1>5. ASSUME NEW t \in Running, countLeft[t] = 0, ~ Fresh(t)
      PROVE  Lag(t)' <= Delay(Rounds(at, t)')
  <2>1. Lag(t) <= Delay(Rounds(at, t)) /\ Lag(t)' = Lag(t) /\ Rounds(at, t) <= Rounds(at, t)'
    BY <1>3, <1>5 DEF WaitInv
  <2>2. Rounds(at, t) \in Int /\ Rounds(at, t)' \in Int
    <3>1. Running \subseteq Timers /\ at[t] \in Nat /\ N \in Nat
      BY PlaceBounds DEF Running
    <3>2. ToCome \in 0 .. 3 /\ ToCome' \in 0 .. 3
      BY DEF ToCome
    <3> QED BY <3>1, <3>2 DEF Rounds
  <2>3. Lag(t) \in Int
    <3>1. Counted \in Int /\ due[t] \in Int /\ slips \in Int /\ countLeft[t] \in Int
      BY DEF Counted, TimerInv, ClockType, ListInv, ListType, Running, Never
    <3> QED BY <3>1 DEF Lag
  <2> DEFINE a == Rounds(at, t)  b == Rounds(at, t)'
  <2>4. Delay(a) <= Delay(b) /\ Delay(a) \in Int /\ Delay(b) \in Int
    BY <2>1, <2>2, Delays
  <2> QED BY <2>1, <2>3, <2>4
<1>6. WaitInv(at)'
  <2>1. \A t \in Running : countLeft'[t] = 0 /\ ~ Fresh(t)' => Lag(t)' <= Delay(Rounds(at, t)')
    BY <1>5
  <2>2. call'["isr"].pc = "resched" /\ call'["isr"].id \in Running =>
          \A t \in Running : at[call'["isr"].id] <= at[t] => Fresh(t)' \/ countLeft'[t] > 0
    BY <1>3 DEF WaitInv
  <2> QED BY <2>1, <2>2 DEF WaitInv
<1> QED BY <1>1, <1>2, <1>3, <1>4, <1>6

\* The handler gets on with its round, or the thread is at work.
LEMMA RoundsGrow ==
  ASSUME Running' = Running,
         \/ call'["isr"] = call["isr"]
         \/ Taken /\ call'["isr"].pc = "idle"
         \/ Taken /\ Taken' /\ call'["isr"].id = call["isr"].id /\ ToCome' <= ToCome
  PROVE  \A at \in [Running -> 1 .. Cardinality(Running)], t \in Running : Rounds(at, t) <= Rounds(at, t)'
<1> SUFFICES ASSUME NEW at \in [Running -> 1 .. Cardinality(Running)], NEW t \in Running
             PROVE  Rounds(at, t) <= Rounds(at, t)'
  OBVIOUS
<1>1. at[t] \in Nat /\ at[t] >= 1 /\ at[t] <= N /\ N \in Nat
  BY PlaceBounds DEF Running
<1>2. ToCome \in 0 .. 3 /\ ToCome' \in 0 .. 3
  BY DEF ToCome
<1>3. CASE call'["isr"] = call["isr"]
  BY <1>1, <1>2, <1>3 DEF Rounds, Taken, ToCome
<1>4. CASE Taken /\ call'["isr"].pc = "idle"
  <2>1. Taken /\ ~ Taken'
    BY <1>4 DEF Taken
  <2> QED BY <1>1, <1>2, <2>1 DEF Rounds
<1>5. CASE Taken /\ Taken' /\ call'["isr"].id = call["isr"].id /\ ToCome' <= ToCome
  BY <1>1, <1>2, <1>5 DEF Rounds
<1> QED BY <1>3, <1>4, <1>5

\* The steps that change a call only.
LEMMA LateCall ==
  ASSUME TimerInv, TimerInv', LateInv, OpsInv', Running' = Running,
         UNCHANGED <<countLeft, previousID, nextID, current, rtc, due, slips>>,
         NEW c \in Contexts, \A d \in Contexts : d # c => call'[d] = call[d],
         call[c].pc \notin {"resched", "restart"}, call'[c].pc \notin {"resched", "restart"},
         c = "thread" /\ call'["thread"].pc \in {"link", "unlink"} => \A t \in Running : countLeft[t] > 0,
         c = "isr" => Taken /\ \/ call'["isr"].pc = "idle"
                               \/ Taken' /\ call'["isr"].id = call["isr"].id /\ ToCome' <= ToCome
  PROVE  LateInv'
<1>1. Restarting' <=> Restarting
  BY DEF Restarting
<1>2. \A t \in Running : Fresh(t)' <=> Fresh(t)
  BY DEF Fresh
<1>3. UNCHANGED <<limitation, since, armed, wake, pending>>
  BY DEF rtc
<1>4. Counted' = Counted /\ \A t \in Running : Lag(t)' = Lag(t)
  BY <1>1, <1>3 DEF Counted, Lag, Restarting
<1>5. WakeInv'
  BY <1>1, <1>2, <1>3 DEF LateInv, WakeInv
<1>6. call'["thread"].pc \in {"link", "unlink", "resched"} => \A t \in Running : Fresh(t) \/ countLeft[t] > 0
  BY TwoContexts DEF LateInv, ThreadInv
<1>7. call'["isr"].pc = "resched" => call'["isr"] = call["isr"]
  BY TwoContexts
<1>8. \A at \in [Running -> 1 .. Cardinality(Running)], t \in Running : Rounds(at, t) <= Rounds(at, t)'
  BY TwoContexts, RoundsGrow
<1>9. \A t \in Running : Fresh(t) => due'[t] >= -HandlerDelay
  BY DEF LateInv, CountInv
<1>10. CountInv' /\ ThreadInv' /\ \E at \in [Running' -> 1 .. Cardinality(Running')] : InOrder(at)' /\ WaitInv(at)'
  BY <1>2, <1>4, <1>6, <1>7, <1>8, <1>9, LagsStay
<1> QED BY <1>5, <1>10 DEF LateInv

\* The head has the least left.
LEMMA HeadIsLeast ==
  ASSUME ListInv
  PROVE  \A t \in Running : current \in Running /\ countLeft[current] <= countLeft[t]
<1>1. PICK at \in [Running -> 1 .. Cardinality(Running)] : InOrder(at)
  BY DEF ListInv, ListIsSound
<1> SUFFICES ASSUME NEW t \in Running PROVE current \in Running /\ countLeft[current] <= countLeft[t]
  OBVIOUS
<1>2. current \in Running /\ at[current] = 1
  BY <1>1 DEF InOrder
<1>3. at[current] <= at[t]
  BY <1>2, PlaceBounds DEF Running
<1> QED BY <1>1, <1>2, <1>3, Sorted DEF ListInv

\* While the thread runs with its interrupts on, no timer's time is up.
LEMMA NoneIsUp ==
  ASSUME TimerInv, LateInv, Turn("thread"), call["thread"].pc \notin MaskedPlaces
  PROVE  \A t \in Running : countLeft[t] > 0
<1> USE DEF TimerInv
<1>1. call["isr"].pc = "idle" /\ ~ pending
  BY DEF Turn
<1>2. ~ Counting /\ ~ Firing
  BY <1>1, TwoContexts DEF Counting, Firing, MaskedPlaces
<1> SUFFICES ASSUME NEW t \in Running PROVE countLeft[t] > 0
  OBVIOUS
<1>3. armed
  BY <1>1, <1>2 DEF AlarmInv
<1>4. wake > 0 /\ (Fresh(t) \/ countLeft[t] >= wake)
  BY <1>3 DEF LateInv, WakeInv
<1>5. ~ Fresh(t)
  BY <1>2 DEF Fresh, Counting
<1>6. wake \in Nat /\ countLeft[t] \in Nat
  BY TimerAssumption DEF ClockType, ListInv, ListType, Running
<1> QED BY <1>4, <1>5, <1>6

LEMMA LateCreate ==
  ASSUME TimerInv, TimerInv', LateInv, NEW m \in {"single", "repeated"}, Create(m)
  PROVE  LateInv'
<1>1. PICK t \in Timers : status[t] = "free" /\ status' = [status EXCEPT ![t] = "created"]
  BY DEF Create
<1>2. UNCHANGED <<countLeft, previousID, nextID, current, rtc, call, due, slips>> /\ call["thread"].pc = "idle"
  BY DEF Create, At
<1>3. Running' = Running
  BY <1>1 DEF Running, TimerInv, ListInv, ListType
<1>4. OpsInv'
  BY <1>2 DEF LateInv, OpsInv
<1> QED BY <1>2, <1>3, <1>4, TwoContexts, LateCall

LEMMA LateFree ==
  ASSUME TimerInv, TimerInv', LateInv, Free
  PROVE  LateInv'
<1> USE DEF TimerInv
<1> DEFINE t == call["thread"].id
<1>1. /\ call["thread"].pc = "free" /\ status' = [status EXCEPT ![t] = "free"]
      /\ call' = [call EXCEPT !["thread"] = Idle]
      /\ UNCHANGED <<countLeft, previousID, nextID, current, rtc, due, slips>>
  BY DEF Free, At
<1>2. t \in Timers /\ status[t] # "running"
  BY <1>1, TwoContexts DEF CallsInv
<1>3. Running' = Running
  BY <1>1, <1>2 DEF Running, ListInv, ListType
<1>4. call'["thread"] = Idle /\ \A d \in Contexts : d # "thread" => call'[d] = call[d]
  BY <1>1, Replaced, TwoContexts, IdleIsACall
<1>5. OpsInv'
  BY <1>1, <1>4, TwoContexts, IdleIsACall DEF LateInv, OpsInv
<1> QED BY <1>1, <1>3, <1>4, <1>5, TwoContexts, IdleIsACall, LateCall

LEMMA LateCallStart ==
  ASSUME TimerInv, TimerInv', LateInv, NEW t \in Timers, NEW n \in Timeouts, CallStart(t, n)
  PROVE  LateInv'
<1> USE DEF TimerInv
<1> DEFINE pc == IF status[t] = "running" THEN "stop" ELSE "lock"
<1>1. /\ call["thread"].pc = "idle" /\ UNCHANGED <<list, rtc, due, slips>>
      /\ Begin("thread", pc, t, n, "start", "idle")
  BY DEF CallStart, BeginStart, At
<1>2. pc \in Places /\ n \in Nat
  BY TimerAssumption DEF Places
<1>3. /\ \A d \in Contexts : d # "thread" => call'[d] = call[d]
      /\ call'["thread"].pc = pc /\ call'["thread"].op = "start"
  BY <1>1, <1>2, Began, TwoContexts
<1>4. Running' = Running /\ UNCHANGED <<countLeft, previousID, nextID, current, rtc, due, slips>>
  BY <1>1, ListKept DEF list
<1>5. OpsInv'
  BY <1>3, <1>4, TwoContexts DEF LateInv, OpsInv
<1> QED BY <1>1, <1>3, <1>4, <1>5, TwoContexts, LateCall

LEMMA LateCallStop ==
  ASSUME TimerInv, TimerInv', LateInv, NEW t \in Timers, CallStop(t)
  PROVE  LateInv'
<1> USE DEF TimerInv
<1>1. PICK op \in {"stop", "delete"} : Begin("thread", "unlink", t, 0, op, "idle")
  BY DEF CallStop
<1>2. call["thread"].pc = "idle" /\ Turn("thread") /\ UNCHANGED <<list, rtc, due, slips>>
  BY DEF CallStop, At
<1>3. "unlink" \in Places /\ 0 \in Nat
  BY DEF Places, MaskedPlaces
<1>4. /\ \A d \in Contexts : d # "thread" => call'[d] = call[d]
      /\ call'["thread"].pc = "unlink" /\ call'["thread"].op = op
  BY <1>1, <1>3, Began, TwoContexts
<1>5. Running' = Running /\ UNCHANGED <<countLeft, previousID, nextID, current, rtc, due, slips>>
  BY <1>2, ListKept DEF list
<1>6. OpsInv'
  BY <1>4, <1>5, TwoContexts DEF LateInv, OpsInv
<1>7. \A u \in Running : countLeft[u] > 0
  BY <1>2, NoneIsUp DEF MaskedPlaces
<1> QED BY <1>2, <1>4, <1>5, <1>6, <1>7, TwoContexts, LateCall

LEMMA LateCallback ==
  ASSUME TimerInv, TimerInv', LateInv, Callback
  PROVE  LateInv'
<1> USE DEF TimerInv
<1>1. call["isr"].pc = "callback" /\ UNCHANGED <<list, rtc, due, slips>>
  BY DEF Callback, At
<1>2. PICK t \in Timers : t = call["isr"].id
  BY <1>1, TwoContexts DEF CallsInv
<1>3. Running' = Running /\ UNCHANGED <<countLeft, previousID, nextID, current, rtc, due, slips>>
  BY <1>1, ListKept DEF list
<1>4. Taken /\ ToCome = 2
  BY <1>1 DEF Taken, ToCome, LateInv, OpsInv
<1> SUFFICES /\ \A d \in Contexts : d # "isr" => call'[d] = call[d]
             /\ call'["isr"].op \notin {"started", "delete"} /\ call'["isr"].then = "idle"
             /\ call'["isr"].pc \in {"idle", "stop", "lock", "unlink"}
             /\ call'["isr"].pc # "idle" => call'["isr"].id = t
  <2>1. OpsInv'
    BY <1>3, TwoContexts DEF LateInv, OpsInv
  <2>2. call'["isr"].pc # "idle" => Taken' /\ ToCome' <= 2
    BY DEF Taken, ToCome
  <2> QED BY <1>1, <1>2, <1>3, <1>4, <2>1, <2>2, TwoContexts, LateCall
<1>5. CASE call' = [call EXCEPT !["isr"] = Idle]
  BY <1>5, Replaced, IdleIsACall, TwoContexts, ZenonT(60)
<1>6. ASSUME NEW n \in Timeouts, BeginStart("isr", t, n)
      PROVE  /\ \A d \in Contexts : d # "isr" => call'[d] = call[d]
             /\ call'["isr"].op = "start" /\ call'["isr"].then = "idle" /\ call'["isr"].id = t
             /\ call'["isr"].pc \in {"stop", "lock"}
  <2> DEFINE pc == IF status[t] = "running" THEN "stop" ELSE "lock"
  <2>1. pc \in Places /\ n \in Nat
    BY TimerAssumption DEF Places
  <2>2. Begin("isr", pc, t, n, "start", "idle")
    BY <1>6 DEF BeginStart
  <2>3. /\ \A d \in Contexts : d # "isr" => call'[d] = call[d]
        /\ call'["isr"].pc = pc /\ call'["isr"].id = t /\ call'["isr"].op = "start" /\ call'["isr"].then = "idle"
    BY <2>1, <2>2, Began, TwoContexts
  <2> QED BY <2>3
<1>7. CASE Begin("isr", "unlink", t, 0, "stop", "idle")
  <2>1. "unlink" \in Places /\ 0 \in Nat
    BY DEF Places, MaskedPlaces
  <2>2. /\ \A d \in Contexts : d # "isr" => call'[d] = call[d]
        /\ call'["isr"].pc = "unlink" /\ call'["isr"].id = t /\ call'["isr"].op = "stop" /\ call'["isr"].then = "idle"
    BY <1>7, <2>1, Began, TwoContexts
  <2> QED BY <2>2
<1>8. \/ call' = [call EXCEPT !["isr"] = Idle]
      \/ \E n \in Timeouts : BeginStart("isr", t, n)
      \/ Begin("isr", "unlink", t, 0, "stop", "idle")
  BY <1>2 DEF Callback
<1> QED BY <1>5, <1>6, <1>7, <1>8

LEMMA LateMask ==
  ASSUME TimerInv, TimerInv', LateInv, NEW c \in Contexts, Mask(c)
  PROVE  LateInv'
<1> USE DEF TimerInv
<1>1. /\ Turn(c) /\ UNCHANGED <<list, rtc, due, slips>>
      /\ \/ call[c].pc = "lock" /\ Goto(c, "link")
         \/ call[c].pc = "stop" /\ Goto(c, "unlink")
  BY DEF Mask, At
<1>2. "link" \in Places /\ "unlink" \in Places
  BY DEF Places, MaskedPlaces
<1>3. /\ \A d \in Contexts : d # c => call'[d] = call[d]
      /\ call'[c].id = call[c].id /\ call'[c].then = call[c].then /\ call'[c].op = call[c].op
      /\ \/ call[c].pc = "lock" /\ call'[c].pc = "link"
         \/ call[c].pc = "stop" /\ call'[c].pc = "unlink"
  BY <1>1, <1>2, Moved
<1>4. Running' = Running /\ UNCHANGED <<countLeft, previousID, nextID, current, rtc, due, slips>>
  BY <1>1, ListKept DEF list
<1>5. c = "isr" /\ call[c].pc = "stop" => call["isr"].then = "idle"
  BY TwoContexts DEF CallsInv
<1>6. OpsInv'
  <2>1. CASE c = "thread"
    BY <1>3, <1>4, <2>1, TwoContexts DEF LateInv, OpsInv
  <2>2. CASE c = "isr"
    BY <1>3, <1>4, <1>5, <2>2, TwoContexts DEF LateInv, OpsInv
  <2> QED BY <2>1, <2>2, TwoContexts
<1>7. c = "thread" => \A u \in Running : countLeft[u] > 0
  BY <1>1, NoneIsUp DEF MaskedPlaces
<1>8. c = "isr" => Taken /\ Taken' /\ ToCome' <= ToCome
  BY <1>3, <1>5 DEF Taken, ToCome
<1> QED BY <1>3, <1>4, <1>6, <1>7, <1>8, LateCall

LEMMA LateUnlinkNone ==
  ASSUME TimerInv, TimerInv', LateInv, NEW c \in Contexts, Unlink(c), status[call[c].id] # "running"
  PROVE  LateInv'
<1> USE DEF TimerInv
<1>1. Turn(c) /\ call[c].pc = "unlink" /\ call[c] \in Calls /\ Return(c) /\ UNCHANGED <<list, rtc, due, slips>>
  BY DEF Unlink, At, CallType
<1>2. /\ \A d \in Contexts : d # c => call'[d] = call[d]
      /\ call'[c].pc = IF call[c].op = "start" THEN "lock" ELSE IF call[c].op = "delete" THEN "free" ELSE call[c].then
      /\ call'[c].pc # "idle" => call'[c].id = call[c].id /\ call'[c].then = call[c].then /\ call'[c].op = call[c].op
      /\ call'[c].pc = "idle" => call'[c].then = "idle" /\ call'[c].op = "none"
  BY <1>1, Returned
<1>3. call'[c].pc \in {"lock", "free", "idle", "callback"}
  BY <1>1, <1>2 DEF Calls
<1>4. Running' = Running /\ UNCHANGED <<countLeft, previousID, nextID, current, rtc, due, slips>>
  BY <1>1, ListKept DEF list
<1>5. c = "isr" => call[c].then = "idle"
  BY <1>1 DEF CallsInv, Calls
<1>6. call[c].op # "started"
  BY <1>1 DEF LateInv, OpsInv
<1>7. OpsInv'
  <2>1. CASE c = "thread"
    BY <1>2, <1>3, <1>4, <1>6, <2>1, TwoContexts DEF LateInv, OpsInv
  <2>2. CASE c = "isr"
    BY <1>2, <1>3, <1>4, <1>5, <1>6, <2>2, TwoContexts DEF LateInv, OpsInv
  <2> QED BY <2>1, <2>2, TwoContexts
<1>8. c = "isr" => Taken /\ (call'["isr"].pc = "idle" \/ (Taken' /\ call'["isr"].id = call["isr"].id /\ ToCome' <= ToCome))
  <2> SUFFICES ASSUME c = "isr", call'["isr"].pc # "idle" PROVE Taken' /\ call'["isr"].id = call["isr"].id /\ ToCome' <= ToCome
    BY <1>1, <1>5 DEF Taken
  <2>1. call'["isr"].then = "idle" /\ call'["isr"].op = call["isr"].op /\ call'["isr"].id = call["isr"].id
    BY <1>2, <1>5
  <2>2. call'["isr"].pc \in {"lock", "free"}
    BY <1>2, <1>5
  <2> QED BY <1>1, <1>5, <2>1, <2>2 DEF Taken, ToCome
<1> QED BY <1>1, <1>2, <1>3, <1>4, <1>7, <1>8, LateCall

LEMMA LateTick ==
  ASSUME TimerInv, TimerInv', LateInv, Tick
  PROVE  LateInv'
<1> USE DEF TimerInv
<1> DEFINE still == since = Never \/ Restarting
<1>1. /\ UNCHANGED <<list, limitation, armed, wake, call>>
      /\ due' = [u \in Timers |-> IF u \in Running THEN due[u] - 1 ELSE due[u]]
      /\ \A c \in Contexts : call[c].pc = "resched" /\ call[c].op = "started" =>
                            call[c].ticks < due[call[c].id] + HandlerDelay
  BY DEF Tick
<1>2. /\ still => slips' = slips + 1 /\ since' = since
      /\ ~ still => since' = since + 1 /\ slips' = slips /\ since < wake + HandlerDelay
  BY DEF Tick, Restarting
<1>3. Running' = Running /\ UNCHANGED <<countLeft, previousID, nextID, current>>
  BY <1>1, ListKept DEF list
<1>4. /\ MaxSlips \in Nat /\ wake \in Nat /\ slips \in Nat /\ since \in Nat \cup {Never} /\ HandlerDelay \in Nat
      /\ \A t \in Running : t \in Timers /\ countLeft[t] \in Nat /\ due[t] \in Int
  BY TimerAssumption DEF ClockType, Running, ListInv, ListType
<1>5. (Restarting' <=> Restarting) /\ \A t \in Running : Fresh(t)' <=> Fresh(t)
  BY <1>1 DEF Restarting, Fresh
<1>6. ASSUME NEW t \in Running PROVE Lag(t)' = Lag(t)
  <2>1. due'[t] = due[t] - 1 /\ countLeft'[t] = countLeft[t]
    BY <1>1, <1>3, <1>4
  <2>2. CASE still
    <3>1. Counted = 0 /\ Counted' = 0
      BY <1>2, <1>5, <2>2 DEF Counted, Restarting
    <3>2. Lag(t) = countLeft[t] - 0 - due[t] - slips /\ Lag(t)' = countLeft[t] - 0 - (due[t] - 1) - (slips + 1)
      BY <1>2, <2>1, <2>2, <3>1 DEF Lag
    <3> QED BY <1>4, <3>2
  <2>3. CASE ~ still
    <3>1. Counted = since /\ Counted' = since + 1 /\ since \in Nat
      BY <1>2, <1>4, <1>5, <2>3 DEF Counted, Restarting, Never
    <3>2. Lag(t) = countLeft[t] - since - due[t] - slips /\ Lag(t)' = countLeft[t] - (since + 1) - (due[t] - 1) - slips
      BY <1>2, <2>1, <2>3, <3>1 DEF Lag
    <3> QED BY <1>4, <3>1, <3>2
  <2> QED BY <2>2, <2>3
<1>7. ASSUME NEW t \in Running, Fresh(t) PROVE due'[t] >= -HandlerDelay
  <2>1. PICK c \in Contexts : call[c].pc = "resched" /\ call[c].op = "started" /\ call[c].id = t
    BY <1>7 DEF Fresh
  <2>2. call[c].ticks \in Nat /\ call[c].ticks < due[t] + HandlerDelay
    BY <1>1, <2>1 DEF CallType, Calls
  <2>3. due'[t] = due[t] - 1
    BY <1>1, <1>4
  <2> QED BY <1>4, <2>2, <2>3
<1>8. WakeInv'
  <2>1. since' # Never /\ ~ Restarting' => since' <= wake' + HandlerDelay
    <3>1. CASE still
      BY <1>1, <1>2, <1>5, <3>1 DEF LateInv, WakeInv
    <3>2. CASE ~ still
      <4>1. since \in Nat
        BY <1>4, <3>2
      <4> QED BY <1>1, <1>2, <1>4, <3>2, <4>1
    <3> QED BY <3>1, <3>2
  <2> QED BY <1>1, <1>3, <1>5, <2>1 DEF LateInv, WakeInv
<1>9. \A at \in [Running -> 1 .. Cardinality(Running)], t \in Running : Rounds(at, t) <= Rounds(at, t)'
  BY <1>1, <1>3, RoundsGrow
<1>10. call'["thread"].pc \in {"link", "unlink", "resched"} => \A t \in Running : Fresh(t) \/ countLeft[t] > 0
  BY <1>1 DEF LateInv, ThreadInv
<1>11. OpsInv'
  BY <1>1, <1>3 DEF LateInv, OpsInv
<1> HIDE DEF still
<1>12. CountInv' /\ ThreadInv' /\ \E at \in [Running' -> 1 .. Cardinality(Running')] : InOrder(at)' /\ WaitInv(at)'
  BY <1>1, <1>3, <1>5, <1>6, <1>7, <1>9, <1>10, LagsStay
<1> QED BY <1>8, <1>11, <1>12 DEF LateInv

LEMMA LateRestart ==
  ASSUME TimerInv, TimerInv', LateInv, NEW c \in Contexts, RestartWakeupCounter(c)
  PROVE  LateInv'
<1> USE DEF TimerInv
<1>1. /\ Turn(c) /\ call[c].pc = "restart" /\ call[c] \in Calls
      /\ since' = 0 /\ armed' = (wake # 0) /\ Return(c)
      /\ UNCHANGED <<list, limitation, wake, due, slips>>
  BY DEF RestartWakeupCounter, At, CallType
<1>2. Running' = Running /\ UNCHANGED <<countLeft, previousID, nextID, current, limitation, wake, due, slips>>
  BY <1>1, ListKept DEF list
<1>3. /\ \A d \in Contexts : d # c => call'[d] = call[d]
      /\ call'[c].pc = IF call[c].op = "start" THEN "lock" ELSE IF call[c].op = "delete" THEN "free" ELSE call[c].then
      /\ call'[c].pc # "idle" => call'[c].id = call[c].id /\ call'[c].then = call[c].then /\ call'[c].op = call[c].op
      /\ call'[c].pc = "idle" => call'[c].then = "idle" /\ call'[c].op = "none"
  BY <1>1, Returned
<1>4. call'[c].pc \in {"lock", "free", "idle", "callback"}
  BY <1>1, <1>3 DEF Calls
<1>5. \A d \in Contexts : d # c => call[d].pc \notin MaskedPlaces
  BY <1>1, Alone
<1>6. Restarting /\ ~ Restarting' /\ \A t \in Running : ~ Fresh(t) /\ ~ Fresh(t)'
  BY <1>1, <1>3, <1>4, <1>5 DEF Restarting, Fresh, MaskedPlaces
<1>7. \A t \in Running : Lag(t)' = Lag(t)
  <2>1. Counted = 0 /\ Counted' = 0
    BY <1>1, <1>6 DEF Counted, Restarting
  <2> QED BY <1>2, <2>1 DEF Lag
<1>8. wake \in Nat /\ HandlerDelay \in Nat
  BY TimerAssumption DEF ClockType
<1>9. WakeInv'
  <2>1. wake = 0 => armed' = FALSE
    BY <1>1
  <2>2. armed' => wake' > 0
    BY <1>2, <1>8, <2>1
  <2> QED BY <1>1, <1>2, <1>6, <1>8, <2>2 DEF LateInv, WakeInv
<1>a. call[c].op = "started" => call'[c].pc \in {"idle", "callback"}
  BY <1>1, <1>3, <1>4 DEF Calls
<1>b. c = "isr" => (call["isr"].then = "callback" => call["isr"].op # "start" /\ call'["isr"].pc \in {"callback", "free"})
  BY <1>1, <1>3 DEF LateInv, OpsInv
<1>c. OpsInv'
  <2>1. CASE c = "thread"
    BY <1>2, <1>3, <1>4, <1>a, <2>1, TwoContexts DEF LateInv, OpsInv
  <2>2. CASE c = "isr"
    <3>1. call'["isr"].pc = "callback" => call'["isr"].then = "callback"
      BY <1>1, <1>3, <2>2 DEF Calls
    <3>2. call'["isr"].then = "callback" => call["isr"].then = "callback" /\ call'["isr"].op = call["isr"].op
      BY <1>3, <2>2
    <3> QED BY <1>3, <1>4, <1>a, <1>b, <2>2, <3>1, <3>2, TwoContexts DEF LateInv, OpsInv
  <2> QED BY <2>1, <2>2, TwoContexts
<1>d. \/ call'["isr"] = call["isr"]
      \/ Taken /\ call'["isr"].pc = "idle"
      \/ Taken /\ Taken' /\ call'["isr"].id = call["isr"].id /\ ToCome' <= ToCome
  <2>1. CASE c = "thread"
    BY <1>3, <2>1, TwoContexts
  <2>2. CASE c = "isr" /\ call'["isr"].pc # "idle"
    <3> call["isr"].op # "delete"
      BY DEF LateInv, OpsInv
    <3>1. /\ call'["isr"].id = call["isr"].id /\ call'["isr"].then = call["isr"].then
          /\ call'["isr"].op = call["isr"].op
      BY <1>3, <2>2
    <3>2. Taken /\ Taken'
      BY <1>1, <1>4, <2>2 DEF Taken
    <3>3. CASE call["isr"].then = "callback"
      <4>1. call'["isr"].pc = "callback"
        BY <1>1, <1>3, <1>b, <2>2, <3>3
      <4>2. ToCome = 2 /\ ToCome' = 2
        BY <1>1, <2>2, <3>1, <3>3, <4>1 DEF ToCome
      <4> QED BY <3>1, <3>2, <4>2
    <3>4. CASE call["isr"].then # "callback"
      <4>1. call["isr"].op = "start" /\ call'["isr"].pc = "lock"
        BY <1>1, <1>3, <2>2, <3>4 DEF Calls
      <4>2. ToCome = 1 /\ ToCome' = 1
        BY <1>1, <2>2, <3>1, <3>4, <4>1 DEF ToCome
      <4> QED BY <3>1, <3>2, <4>2
    <3> QED BY <3>3, <3>4
  <2>3. CASE c = "isr" /\ call'["isr"].pc = "idle"
    BY <1>1, <2>3 DEF Taken
  <2> QED BY <2>1, <2>2, <2>3, TwoContexts
<1>e. \A at \in [Running -> 1 .. Cardinality(Running)], t \in Running : Rounds(at, t) <= Rounds(at, t)'
  BY <1>2, <1>d, RoundsGrow
<1>f. call'["thread"].pc \in {"link", "unlink", "resched"} => \A t \in Running : Fresh(t) \/ countLeft[t] > 0
  BY <1>3, <1>4, TwoContexts DEF LateInv, ThreadInv
<1>g. call'["isr"].pc = "resched" => call'["isr"] = call["isr"]
  BY <1>3, <1>4, TwoContexts
<1>h. CountInv' /\ ThreadInv' /\ \E at \in [Running' -> 1 .. Cardinality(Running')] : InOrder(at)' /\ WaitInv(at)'
  BY <1>2, <1>6, <1>7, <1>e, <1>f, <1>g, LagsStay
<1> QED BY <1>9, <1>c, <1>h DEF LateInv

LEMMA LateReschedule ==
  ASSUME TimerInv, TimerInv', LateInv, NEW c \in Contexts, Reschedule(c)
  PROVE  LateInv'
<1> USE DEF TimerInv
<1>1. PICK elapsed : elapsed = ReturnTimeElapsed
  OBVIOUS
<1>2. PICK left : left = countLeft[current]
  OBVIOUS
<1>3. /\ Turn(c) /\ call[c].pc = "resched" /\ Goto(c, "restart") /\ armed' = FALSE
      /\ UNCHANGED <<status, previousID, nextID, current, since, due, slips>>
      /\ limitation' = IF left > elapsed + MaxWakeup THEN "overpassed" ELSE "enough"
      /\ wake' = IF left > elapsed + MaxWakeup THEN MaxWakeup ELSE Decrease(left, elapsed)
      /\ countLeft' = [u \in Timers |-> IF u \in Running THEN Decrease(countLeft[u], elapsed) ELSE countLeft[u]]
  BY <1>1, <1>2 DEF Reschedule, At
<1>4. Running' = Running /\ Running \subseteq Timers /\ Running # {} /\ current \in Running
  BY <1>3, HeadRuns DEF Running, CallsInv
<1>5. "restart" \in Places
  BY DEF Places, MaskedPlaces
<1>6. /\ \A d \in Contexts : d # c => call'[d] = call[d]
      /\ call'[c].pc = "restart" /\ call'[c].id = call[c].id /\ call'[c].op = call[c].op /\ call'[c].then = call[c].then
  BY <1>3, <1>5, Moved
<1>7. \A d \in Contexts : d # c => call[d].pc \notin MaskedPlaces
  BY <1>3, Alone
<1>8. /\ ~ Restarting /\ Restarting' /\ \A t \in Running : ~ Fresh(t)'
      /\ Counted = elapsed /\ Counted' = 0
  <2>1. ~ Restarting /\ Restarting'
    BY <1>3, <1>6, <1>7 DEF Restarting, MaskedPlaces
  <2>2. \A t \in Running : ~ Fresh(t)'
    BY <1>6, <1>7 DEF Fresh, MaskedPlaces
  <2>3. Counted = elapsed /\ Counted' = 0
    BY <1>1, <2>1 DEF Counted, ReturnTimeElapsed, Restarting
  <2> QED BY <2>1, <2>2, <2>3
<1>9. /\ elapsed \in Nat /\ left \in Nat /\ MaxWakeup \in Nat \ {0} /\ wake \in Nat /\ slips \in Int /\ HandlerDelay \in Nat
      /\ elapsed > 0 => elapsed <= wake + HandlerDelay
  <2>1. elapsed \in Nat /\ wake \in Nat /\ HandlerDelay \in Nat /\ slips \in Int /\ MaxWakeup \in Nat \ {0}
    BY <1>1, TimerAssumption DEF ReturnTimeElapsed, ClockType, Never
  <2>2. left \in Nat
    BY <1>2, <1>4 DEF ListInv, ListType
  <2>3. elapsed > 0 => elapsed <= wake + HandlerDelay
    BY <1>1, <1>8 DEF ReturnTimeElapsed, LateInv, WakeInv
  <2> QED BY <2>1, <2>2, <2>3
<1>10. ASSUME NEW t \in Running
       PROVE  /\ countLeft[t] \in Nat /\ due[t] \in Int /\ left <= countLeft[t]
              /\ countLeft'[t] = IF countLeft[t] < elapsed THEN 0 ELSE countLeft[t] - elapsed
              /\ Lag(t) = countLeft[t] - elapsed - due[t] - slips
              /\ Lag(t)' = countLeft'[t] - 0 - due[t] - slips
  <2>1. countLeft[t] \in Nat /\ due[t] \in Int /\ left <= countLeft[t]
    BY <1>2, <1>4, HeadIsLeast DEF ListInv, ListType, ClockType
  <2>2. countLeft'[t] = IF countLeft[t] < elapsed THEN 0 ELSE countLeft[t] - elapsed
    BY <1>3, <1>4 DEF Decrease
  <2> QED BY <1>3, <1>8, <2>1, <2>2 DEF Lag
<1>11. WakeInv'
  <2>1. limitation' = "overpassed" => wake' = MaxWakeup
    BY <1>3
  <2>2. ASSUME NEW t \in Running PROVE countLeft'[t] >= wake'
    <3>1. CASE left > elapsed + MaxWakeup
      BY <1>3, <1>9, <1>10, <3>1
    <3>2. CASE ~ (left > elapsed + MaxWakeup)
      BY <1>3, <1>9, <1>10, <3>2 DEF Decrease
    <3> QED BY <3>1, <3>2
  <2> QED BY <1>3, <1>4, <1>8, <2>1, <2>2 DEF WakeInv
<1>12. CountInv'
  <2>1. ASSUME NEW t \in Running, countLeft'[t] > 0 PROVE Lag(t)' <= 0
    <3>1. countLeft[t] > 0 /\ countLeft'[t] = countLeft[t] - elapsed
      BY <1>9, <1>10, <2>1
    <3>2. Lag(t) <= 0
      BY <3>1 DEF LateInv, CountInv
    <3> QED BY <1>9, <1>10, <3>1, <3>2
  <2> QED BY <1>4, <1>8, <2>1 DEF CountInv
<1>13. ThreadInv'
  BY <1>6, <1>7, TwoContexts DEF ThreadInv, MaskedPlaces
<1>14. OpsInv'
  BY <1>3, <1>6, TwoContexts DEF LateInv, OpsInv
<1>15. PICK at \in [Running -> 1 .. Cardinality(Running)] : InOrder(at) /\ WaitInv(at)
  BY DEF LateInv
<1>16. InOrder(at)'
  <2>1. ASSUME NEW t \in Running \ {current} PROVE countLeft'[previousID[t]] <= countLeft'[t]
    <3>1. previousID[t] \in Running /\ countLeft[previousID[t]] <= countLeft[t]
      BY <1>15 DEF InOrder
    <3> QED BY <1>9, <1>10, <3>1
  <2> QED BY <1>3, <1>4, <1>15, <2>1 DEF InOrder
<1>17. ASSUME NEW t \in Running, countLeft'[t] = 0 PROVE Lag(t)' <= Delay(Rounds(at, t)')
  <2>1. /\ at[t] \in Nat /\ at[t] >= 1 /\ at[t] <= N /\ N \in Nat
        /\ \A u \in Timers \ Running : at[t] < N
        /\ \A u \in Running : at[u] \in Nat /\ at[u] <= N
    BY <1>4, PlaceBounds
  <2>2. PICK r \in Int : r = Rounds(at, t)'
    <3>1. ToCome' \in 0 .. 3
      BY DEF ToCome
    <3> QED BY <2>1, <3>1 DEF Rounds
  <2>3. r >= 1
    <3>1. CASE c = "thread"
      <4>1. ~ Taken'
        BY <1>3, <1>6, <3>1, TwoContexts DEF Turn, Taken
      <4> QED BY <2>1, <2>2, <4>1 DEF Rounds
    <3>2. CASE c = "isr"
      <4>1. call["isr"].id \in Timers
        BY <1>3, <3>2 DEF CallsInv
      <4>2. Taken' /\ ToCome' \in 0 .. 2
        BY <1>6, <3>2 DEF Taken, ToCome
      <4>3. PICK id \in Timers : id = call["isr"].id /\ id = call'["isr"].id
        BY <1>6, <3>2, <4>1
      <4>4. CASE id \in Running /\ at[id] <= at[t]
        BY <1>4, <2>2, <4>2, <4>3, <4>4 DEF Rounds
      <4>5. CASE ~ (id \in Running /\ at[id] <= at[t])
        <5>1. at[t] < N
          BY <2>1, <4>5
        <5>2. r = 1 + 3 * (N - at[t]) - ToCome'
          BY <1>4, <2>2, <4>2, <4>3, <4>5 DEF Rounds
        <5> QED BY <2>1, <4>2, <5>1, <5>2
      <4> QED BY <4>4, <4>5
    <3> QED BY <3>1, <3>2, TwoContexts
  <2>4. Delay(1) <= Delay(r) /\ Delay(1) = HandlerDelay /\ Delay(r) \in Int
    <3>1. 1 \in Int /\ 1 <= r /\ Delay(1) = HandlerDelay
      BY <2>3, Delays
    <3> QED BY <3>1, DelayGrows
  <2>5. CASE Fresh(t)
    <3>1. due[t] >= -HandlerDelay
      BY <2>5 DEF LateInv, CountInv
    <3>2. slips >= 0
      BY TimerAssumption DEF ClockType
    <3> QED BY <1>9, <1>10, <1>17, <2>2, <2>4, <3>1, <3>2
  <2>6. CASE ~ Fresh(t) /\ countLeft[t] > 0
    <3>1. Lag(t) <= 0 /\ countLeft[t] >= wake
      BY <2>6 DEF LateInv, CountInv, WakeInv
    <3>2. elapsed >= countLeft[t] /\ elapsed > 0
      BY <1>9, <1>10, <1>17, <2>6
    <3> QED BY <1>9, <1>10, <1>17, <2>2, <2>4, <3>1, <3>2
  <2>7. CASE ~ Fresh(t) /\ ~ (countLeft[t] > 0)
    <3>1. countLeft[t] = 0
      BY <1>10, <2>7
    <3>2. Lag(t) <= Delay(Rounds(at, t)) /\ wake = 0
      BY <1>9, <1>15, <2>7, <3>1 DEF WaitInv, LateInv, WakeInv
    <3>3. c = "isr"
      BY <1>3, <2>7, TwoContexts DEF LateInv, ThreadInv
    <3>4. call'["isr"].id = call["isr"].id /\ call'["isr"].then = call["isr"].then /\ call'["isr"].op = call["isr"].op
      BY <1>6, <3>3
    <3>5. Taken /\ Taken' /\ ToCome \in 0 .. 3 /\ ToCome' + 1 <= ToCome /\ ToCome' \in 0 .. 3
      BY <1>3, <1>6, <3>3, <3>4 DEF Taken, ToCome
    <3>6. ~ (call["isr"].id \in Running /\ at[call["isr"].id] <= at[t])
      BY <1>3, <1>15, <2>7, <3>3 DEF WaitInv
    <3>7. Rounds(at, t) = 1 + 3 * (N - at[t]) - ToCome /\ r = 1 + 3 * (N - at[t]) - ToCome'
      BY <1>4, <2>2, <3>4, <3>5, <3>6 DEF Rounds
    <3>8. PICK q \in Int : q = Rounds(at, t)
      BY <2>1, <3>5, <3>7
    <3>9. q + 1 \in Int /\ q + 1 <= r
      <4>1. PICK k \in Int : k = ToCome
        BY <3>5
      <4>2. PICK l \in Int : l = ToCome'
        BY <3>5
      <4>3. l + 1 <= k
        BY <3>5, <4>1, <4>2
      <4>4. q = 1 + 3 * (N - at[t]) - k /\ r = 1 + 3 * (N - at[t]) - l
        BY <3>7, <3>8, <4>1, <4>2
      <4> QED BY <2>1, <4>3, <4>4
    <3>10. Delay(q + 1) <= Delay(r) /\ Delay(q + 1) = Delay(q) + HandlerDelay /\ Delay(q) \in Int
      <4>1. Delay(q + 1) <= Delay(r)
        BY <3>9, DelayGrows
      <4> QED BY <4>1, Delays
    <3>11. elapsed <= HandlerDelay
      BY <1>9, <3>2
    <3>12. Lag(t) <= Delay(q)
      BY <3>2, <3>8
    <3>13. Lag(t)' <= Delay(r)
      BY <1>9, <1>10, <1>17, <2>4, <3>1, <3>10, <3>11, <3>12
    <3> QED BY <2>2, <3>13
  <2> QED BY <2>5, <2>6, <2>7
<1>18. WaitInv(at)'
  <2>1. call'["isr"].pc # "resched"
    BY <1>6, <1>7, TwoContexts DEF MaskedPlaces
  <2> QED BY <1>4, <1>17, <2>1 DEF WaitInv
<1> QED BY <1>4, <1>11, <1>12, <1>13, <1>14, <1>15, <1>16, <1>18 DEF LateInv

LEMMA LateLink ==
  ASSUME TimerInv, TimerInv', LateInv, NEW c \in Contexts, Link(c)
  PROVE  LateInv'
<1> USE DEF TimerInv
<1>1. Turn(c) /\ call[c].pc = "link" /\ call[c] \in Calls /\ since \in Nat \cup {Never}
  BY DEF Link, At, CallType, ClockType
<1>2. PICK t \in Timers \ Running : t = call[c].id
  BY <1>1 DEF CallsInv, Running
<1>3. PICK ticks \in Nat : ticks = call[c].ticks
  BY <1>1 DEF Calls
<1>4. UNCHANGED <<limitation, armed, wake, slips>> /\ since' = IF current = None THEN Never ELSE since
  BY DEF Link
<1>5. PICK at \in [Running -> 1 .. Cardinality(Running)] : InOrder(at) /\ WaitInv(at)
  BY DEF LateInv
<1>6. /\ Running' = Running \cup {t} /\ Elapsed \in Nat
      /\ countLeft' = [countLeft EXCEPT ![t] = ticks + Elapsed]
      /\ due' = [due EXCEPT ![t] = ticks]
      /\ call' = [call EXCEPT ![c].pc = "resched", ![c].op = "started"]
      /\ \E bt \in [Running' -> 1 .. Cardinality(Running')] :
           /\ InOrder(bt)'
           /\ \A u \in Running : \/ bt[u] < bt[t] /\ bt[u] = at[u]
                                 \/ bt[u] > bt[t] /\ countLeft[u] > ticks + Elapsed
  BY <1>1, <1>2, <1>3, <1>5, LinkedInto
<1>7. PICK bt \in [Running' -> 1 .. Cardinality(Running')] :
        /\ InOrder(bt)'
        /\ \A u \in Running : \/ bt[u] < bt[t] /\ bt[u] = at[u]
                              \/ bt[u] > bt[t] /\ countLeft[u] > ticks + Elapsed
  BY <1>6
<1>8. /\ \A d \in Contexts : d # c => call'[d] = call[d]
      /\ call'[c].pc = "resched" /\ call'[c].op = "started" /\ call'[c].id = t /\ call'[c].then = call[c].then
  <2> DEFINE g == [call[c] EXCEPT !.pc = "resched", !.op = "started"]
  <2>1. g \in Calls /\ g.pc = "resched" /\ g.op = "started" /\ g.id = call[c].id /\ g.then = call[c].then
    BY <1>1 DEF Calls, Places, MaskedPlaces
  <2>2. call' = [call EXCEPT ![c] = g]
    BY <1>6
  <2> HIDE DEF g
  <2> QED BY <1>2, <2>1, <2>2, Replaced
<1>9. \A d \in Contexts : d # c => call[d].pc \notin MaskedPlaces
  BY <1>1, Alone
<1>10. /\ ~ Restarting /\ ~ Restarting'
       /\ Fresh(t)' /\ \A u \in Running : ~ Fresh(u) /\ ~ Fresh(u)'
  BY <1>1, <1>2, <1>8, <1>9 DEF Restarting, Fresh, MaskedPlaces
<1>11. /\ Counted' = Elapsed /\ \A u \in Running : Counted = Elapsed
       /\ current # None => since' = since
  <2>1. \A u \in Running : current # None
    BY HeadRuns, Numbers
  <2> QED BY <1>4, <1>10, <2>1 DEF Counted, Elapsed, ReturnTimeElapsed, Restarting
<1>12. /\ t \notin Running
       /\ \A u \in Running : u # t /\ u \in Timers /\ countLeft[u] \in Nat
       /\ \A u \in Running : countLeft'[u] = countLeft[u] /\ due'[u] = due[u]
       /\ countLeft'[t] = ticks + Elapsed /\ due'[t] = ticks /\ slips \in Nat
  BY <1>2, <1>6, TimerAssumption DEF Running, ListInv, ListType, ClockType
<1>13. \A u \in Running : Lag(u)' = Lag(u)
  BY <1>4, <1>11, <1>12 DEF Lag
<1>14. Lag(t)' <= 0 /\ due'[t] >= -HandlerDelay
  <2>1. Lag(t)' = (ticks + Elapsed) - Elapsed - ticks - slips
    BY <1>4, <1>11, <1>12 DEF Lag
  <2> QED BY <1>3, <1>6, <1>12, <2>1, Delays
<1>15. CountInv'
  BY <1>6, <1>10, <1>12, <1>13, <1>14 DEF LateInv, CountInv
<1>16. WakeInv'
  BY <1>4, <1>6, <1>10, <1>12 DEF LateInv, WakeInv
<1>17. OpsInv'
  <2>1. c = "isr" => (call'["isr"].then = "callback" => call'["isr"].op = "started" /\ call'["isr"].pc = "resched")
    BY <1>8
  <2> QED BY <1>8, <2>1, <1>9, TwoContexts DEF LateInv, OpsInv, MaskedPlaces
<1>18. CASE c = "thread"
  <2>1. \A u \in Running : countLeft[u] > 0
    BY <1>1, <1>10, <1>18 DEF LateInv, ThreadInv
  <2>2. ThreadInv'
    BY <1>6, <1>10, <1>12, <2>1 DEF ThreadInv
  <2>3. call'["isr"].pc # "resched"
    BY <1>1, <1>8, <1>18, TwoContexts DEF Turn
  <2>4. WaitInv(bt)'
    BY <1>6, <1>10, <1>12, <2>1, <2>3 DEF WaitInv
  <2> QED BY <1>7, <1>15, <1>16, <1>17, <2>2, <2>4 DEF LateInv
<1>19. CASE c = "isr"
  <2>1. ThreadInv'
    BY <1>8, <1>9, <1>19, TwoContexts DEF ThreadInv, MaskedPlaces
  <2>2. /\ bt[t] \in Int /\ \A u \in Running : bt[u] \in Int /\ at[u] \in Nat
        /\ N \in Nat /\ ticks + Elapsed \in Nat
    <3>1. Running \subseteq Timers /\ Running' \subseteq Timers /\ t \in Running' /\ Running \subseteq Running'
      BY <1>2, <1>6 DEF Running
    <3>2. \A u \in Running' : bt[u] \in Nat
      BY <3>1, PlaceBounds
    <3>3. \A u \in Running : at[u] \in Nat
      BY <3>1, PlaceBounds
    <3> QED BY <1>3, <1>6, <3>1, <3>2, <3>3, TimerAssumption
  <2>3. ASSUME NEW u \in Running', bt[t] <= bt[u] PROVE Fresh(u)' \/ countLeft'[u] > 0
    <3>1. CASE u = t
      BY <1>10, <3>1
    <3>2. CASE u \in Running
      BY <1>7, <1>12, <2>2, <2>3, <3>2
    <3> QED BY <1>6, <3>1, <3>2
  <2>4. ASSUME NEW u \in Running', countLeft'[u] = 0, ~ Fresh(u)' PROVE Lag(u)' <= Delay(Rounds(bt, u)')
    <3>1. u \in Running /\ countLeft[u] = 0 /\ ~ Fresh(u)
      BY <1>6, <1>10, <1>12, <2>4
    <3>2. Lag(u) <= Delay(Rounds(at, u)) /\ Lag(u)' = Lag(u)
      BY <1>5, <1>13, <3>1 DEF WaitInv
    <3>3. bt[u] < bt[t] /\ bt[u] = at[u]
      BY <1>7, <2>2, <3>1
    <3>4. Taken /\ Taken' /\ ToCome' = ToCome
      BY <1>1, <1>8, <1>19 DEF Taken, ToCome
    <3>5. Rounds(at, u) = 1 + 3 * (N - at[u]) - ToCome
      BY <1>2, <1>19, <3>4 DEF Rounds
    <3>6. Rounds(bt, u)' = 1 + 3 * (N - bt[u]) - ToCome'
      BY <1>8, <1>19, <2>2, <3>3, <3>4 DEF Rounds
    <3> QED BY <3>2, <3>3, <3>4, <3>5, <3>6
  <2>5. WaitInv(bt)'
    BY <1>8, <1>19, <2>3, <2>4 DEF WaitInv
  <2> QED BY <1>7, <1>15, <1>16, <1>17, <2>1, <2>5 DEF LateInv
<1> QED BY <1>18, <1>19, TwoContexts

LEMMA LateUnlink ==
  ASSUME TimerInv, TimerInv', LateInv, NEW c \in Contexts, Unlink(c)
  PROVE  LateInv'
<1> USE DEF TimerInv
<1>1. Turn(c) /\ call[c].pc = "unlink" /\ call[c] \in Calls /\ slips' = slips
  BY DEF Unlink, At, CallType
<1>2. PICK t \in Timers : t = call[c].id
  BY <1>1 DEF CallsInv
<1> SUFFICES ASSUME status[t] = "running" PROVE LateInv'
  BY <1>2, LateUnlinkNone
<1>3. t \in Running
  BY <1>2 DEF Running
<1>4. /\ UnlinkTimer(t) /\ due' = [due EXCEPT ![t] = 0] /\ UNCHANGED <<limitation, wake>>
      /\ IF current' = None THEN since' = Never /\ armed' = FALSE /\ Return(c)
         ELSE (IF previous' # current' THEN Goto(c, "resched") ELSE Return(c)) /\ UNCHANGED <<since, armed>>
  BY <1>2 DEF Unlink
<1>5. PICK at \in [Running -> 1 .. Cardinality(Running)] : InOrder(at) /\ WaitInv(at)
  BY DEF LateInv
<1>6. /\ Running' = Running \ {t} /\ (current' # None <=> Running' # {})
      /\ \A u \in Timers : u # t => countLeft'[u] = countLeft[u]
      /\ \E bt \in [Running' -> 1 .. Cardinality(Running')] :
              /\ InOrder(bt)'
              /\ \A u \in Running' : bt[u] = IF at[u] > at[t] THEN at[u] - 1 ELSE at[u]
  BY <1>3, <1>4, <1>5, UnlinkedFrom
<1>7. PICK bt \in [Running' -> 1 .. Cardinality(Running')] :
        InOrder(bt)' /\ \A u \in Running' : bt[u] = IF at[u] > at[t] THEN at[u] - 1 ELSE at[u]
  BY <1>6
<1>8. \A d \in Contexts : d # c => call[d].pc \notin MaskedPlaces
  BY <1>1, Alone
<1>9. call[c].op # "started"
  BY <1>1 DEF LateInv, OpsInv
<1>10. ~ Restarting /\ \A u \in Running : ~ Fresh(u)
  BY <1>1, <1>8 DEF Restarting, Fresh, MaskedPlaces
<1>11. CASE current' = None
  <2>1. since' = Never /\ armed' = FALSE /\ Return(c) /\ Running' = {}
    BY <1>4, <1>6, <1>11
  <2>2. /\ \A d \in Contexts : d # c => call'[d] = call[d]
        /\ call'[c].pc = IF call[c].op = "start" THEN "lock" ELSE IF call[c].op = "delete" THEN "free" ELSE call[c].then
        /\ call'[c].pc # "idle" => call'[c].id = call[c].id /\ call'[c].then = call[c].then /\ call'[c].op = call[c].op
        /\ call'[c].pc = "idle" => call'[c].then = "idle" /\ call'[c].op = "none"
    BY <2>1, Returned
  <2>3. call'[c].pc \in {"lock", "free", "idle", "callback"}
    BY <1>1, <2>2 DEF Calls
  <2>4. OpsInv'
    <3>1. CASE c = "thread"
      <4>1. call'["isr"] = call["isr"] /\ call["isr"].pc = "idle" /\ call["isr"].then = "idle"
        BY <1>1, <2>2, <3>1, TwoContexts DEF Turn, CallsInv
      <4> QED BY <1>9, <2>2, <3>1, <4>1, TwoContexts DEF LateInv, OpsInv
    <3>2. CASE c = "isr"
      <4>1. call["isr"].op # "delete" /\ (call["isr"].then = "callback" => call["isr"].op # "start")
        BY <1>1, <3>2 DEF LateInv, OpsInv
      <4>2. call["isr"].then \in {"idle", "callback"}
        BY <1>1, <3>2 DEF Calls
      <4> QED BY <1>9, <2>2, <2>3, <3>2, <4>1, <4>2, TwoContexts DEF LateInv, OpsInv
    <3> QED BY <3>1, <3>2, TwoContexts
  <2>5. WakeInv' /\ CountInv' /\ ThreadInv' /\ WaitInv(bt)'
    <3>1. WakeInv'
      BY <1>4, <2>1 DEF LateInv, WakeInv
    <3> QED BY <2>1, <3>1 DEF CountInv, ThreadInv, WaitInv
  <2> QED BY <1>7, <2>4, <2>5 DEF LateInv
<1>12. CASE current' # None
  <2>1. Goto(c, "resched") /\ UNCHANGED <<since, armed>>
    BY <1>4, <1>12 DEF ListInv, HeadTestSeesChanges
  <2>2. "resched" \in Places
    BY DEF Places, MaskedPlaces
  <2>3. /\ \A d \in Contexts : d # c => call'[d] = call[d]
        /\ call'[c].pc = "resched" /\ call'[c].id = t /\ call'[c].then = call[c].then /\ call'[c].op = call[c].op
    BY <1>2, <2>1, <2>2, Moved
  <2>4. ~ Restarting' /\ \A u \in Running' : ~ Fresh(u)'
    BY <1>8, <1>9, <1>10, <2>3 DEF Restarting, Fresh, MaskedPlaces
  <2>5. \A u \in Running' : /\ u \in Running /\ u # t /\ u \in Timers /\ countLeft[u] \in Nat
                            /\ countLeft'[u] = countLeft[u] /\ due'[u] = due[u]
    BY <1>4, <1>6 DEF Running, ListInv, ListType, ClockType
  <2>6. Counted' = Counted /\ \A u \in Running' : Lag(u)' = Lag(u)
    <3>1. Counted' = Counted
      BY <1>10, <2>1, <2>4 DEF Counted, Restarting
    <3> QED BY <1>1, <2>5, <3>1 DEF Lag
  <2>7. WakeInv'
    BY <1>4, <1>10, <2>1, <2>4, <2>5 DEF LateInv, WakeInv
  <2>8. CountInv'
    BY <2>4, <2>5, <2>6 DEF LateInv, CountInv
  <2>9. OpsInv'
    <3>1. CASE c = "thread"
      <4>1. call'["isr"] = call["isr"] /\ call["isr"].pc = "idle" /\ call["isr"].then = "idle"
        BY <1>1, <2>3, <3>1, TwoContexts DEF Turn, CallsInv
      <4> QED BY <1>9, <2>3, <3>1, <4>1, TwoContexts DEF LateInv, OpsInv
    <3>2. CASE c = "isr"
      <4>1. call["isr"].op # "delete" /\ (call["isr"].then = "callback" => call["isr"].op # "start")
        BY <1>1, <3>2 DEF LateInv, OpsInv
      <4> QED BY <1>9, <2>3, <3>2, <4>1, TwoContexts DEF LateInv, OpsInv
    <3> QED BY <3>1, <3>2, TwoContexts
  <2>10. CASE c = "thread"
    <3>1. \A u \in Running : countLeft[u] > 0
      BY <1>1, <1>10, <2>10 DEF LateInv, ThreadInv
    <3>2. ThreadInv'
      BY <2>5, <3>1 DEF ThreadInv
    <3>3. call'["isr"].pc # "resched"
      BY <1>1, <2>3, <2>10, TwoContexts DEF Turn
    <3>4. WaitInv(bt)'
      BY <2>5, <3>1, <3>3 DEF WaitInv
    <3> QED BY <1>7, <2>7, <2>8, <2>9, <3>2, <3>4 DEF LateInv
  <2>11. CASE c = "isr"
    <3>1. ThreadInv'
      BY <1>8, <2>3, <2>11, TwoContexts DEF ThreadInv, MaskedPlaces
    <3>2. ASSUME NEW u \in Running', countLeft'[u] = 0 PROVE Lag(u)' <= Delay(Rounds(bt, u)')
      <4>1. u \in Running /\ u # t /\ countLeft[u] = 0 /\ Lag(u) <= Delay(Rounds(at, u)) /\ Lag(u)' = Lag(u)
        BY <1>5, <1>10, <2>5, <2>6, <3>2 DEF WaitInv
      <4>2. at[u] \in Nat /\ at[t] \in Nat /\ at[u] <= N /\ N \in Nat /\ at[t] >= 1 /\ at[u] # at[t]
        <5>1. at[u] # at[t]
          BY <1>3, <1>5, <4>1 DEF InOrder
        <5> QED BY <1>3, <4>1, <5>1, PlaceBounds DEF Running
      <4>3. bt[u] = IF at[u] > at[t] THEN at[u] - 1 ELSE at[u]
        BY <1>7
      <4>4. Taken' /\ Rounds(bt, u)' = 1 + 3 * (N - bt[u]) - ToCome'
        BY <1>6, <2>3, <2>11 DEF Taken, Rounds
      <4>5. PICK p \in Int : p = Rounds(at, u)
        BY <4>1, RoundsType
      <4>6. PICK l \in 0 .. 3 : l = ToCome'
        BY DEF ToCome
      <4>7. PICK r \in Int : r = Rounds(bt, u)' /\ r = 1 + 3 * (N - bt[u]) - l
        BY <4>2, <4>3, <4>4, <4>6
      <4>8. p <= r
        <5>1. CASE call["isr"].then = "callback"
          <6>1. t = current /\ at[t] = 1 /\ ~ Taken
            BY <1>1, <1>2, <1>3, <1>5, <2>11, <5>1 DEF LateInv, OpsInv, InOrder, Taken
          <6>2. p = 1 + 3 * (N - at[u]) /\ bt[u] = at[u] - 1
            <7>1. at[u] >= 1
              BY <4>1, PlaceBounds DEF Running
            <7>2. p = 1 + 3 * (N - at[u])
              BY <4>5, <6>1 DEF Rounds
            <7> QED BY <4>2, <4>3, <6>1, <7>1, <7>2
          <6> QED BY <4>2, <4>6, <4>7, <6>2
        <5>2. CASE call["isr"].then # "callback"
          <6>1. Taken /\ ToCome \in 1 .. 2 /\ ToCome' = ToCome
            BY <1>1, <2>3, <2>11, <5>2 DEF Taken, ToCome
          <6>2. CASE at[t] <= at[u]
            <7>1. p = 1
              BY <1>2, <1>3, <2>11, <4>5, <6>1, <6>2 DEF Rounds
            <7>2. l <= 2 /\ bt[u] = at[u] - 1
              BY <4>2, <4>3, <4>6, <6>1, <6>2
            <7> QED BY <4>2, <4>6, <4>7, <7>1, <7>2
          <6>3. CASE ~ (at[t] <= at[u])
            <7>1. p = 1 + 3 * (N - at[u]) - ToCome
              BY <1>2, <2>11, <4>5, <6>1, <6>3 DEF Rounds
            <7>2. bt[u] = at[u]
              BY <4>2, <4>3, <6>3
            <7> QED BY <4>6, <4>7, <6>1, <7>1, <7>2
          <6> QED BY <6>2, <6>3
        <5> QED BY <5>1, <5>2
      <4>9. Delay(p) <= Delay(r) /\ Delay(p) \in Int /\ Delay(r) \in Int
        BY <4>8, DelayGrows
      <4>10. Lag(u) \in Int
        <5>1. Counted \in Int /\ due[u] \in Int /\ slips \in Int /\ countLeft[u] \in Int
          BY <2>5 DEF Counted, ClockType, Never
        <5> QED BY <5>1 DEF Lag
      <4>11. Lag(u)' <= Delay(r)
        BY <4>1, <4>5, <4>9, <4>10
      <4> QED BY <4>7, <4>11
    <3>3. call'["isr"].id \notin Running'
      BY <1>6, <2>3, <2>11
    <3>4. WaitInv(bt)'
      BY <3>2, <3>3 DEF WaitInv
    <3> QED BY <1>7, <2>7, <2>8, <2>9, <3>1, <3>4 DEF LateInv
  <2> QED BY <2>10, <2>11, TwoContexts
<1> QED BY <1>11, <1>12

LEMMA LateHandler ==
  ASSUME TimerInv, TimerInv', LateInv, Handler
  PROVE  LateInv'
<1> USE DEF TimerInv
<1>1. /\ pending /\ armed' = FALSE /\ UNCHANGED <<limitation, since, wake, slips>>
      /\ call["isr"].pc = "idle" /\ call["thread"].pc \notin MaskedPlaces
  BY DEF Handler
<1>2. PICK t \in Running : t = current
  BY <1>1, HeadRuns DEF AlarmInv
<1>3. t \in Timers /\ status[t] = "running" /\ t # None
  BY Numbers DEF Running
<1>4. /\ IF FullCount /\ mode[t] = "repeated" THEN UnlinkTimer(t) /\ due' = [due EXCEPT ![t] = 0]
         ELSE UNCHANGED <<list, due>>
      /\ CASE ~ FullCount -> Begin("isr", "resched", t, 0, "stop", "idle")
           [] FullCount /\ mode[t] = "repeated" -> Begin("isr", "lock", t, counterInit[t], "start", "callback")
           [] OTHER -> Begin("isr", "unlink", t, 0, "stop", "callback")
  BY <1>2, <1>3 DEF Handler
<1>5. 0 \in Nat /\ "resched" \in Places /\ "lock" \in Places /\ "unlink" \in Places
  BY DEF Places, MaskedPlaces
<1>6. ~ Restarting /\ ~ Taken /\ \A u \in Running : ~ Fresh(u)
  BY <1>1, TwoContexts DEF Restarting, Fresh, MaskedPlaces, Taken
<1>7. ASSUME call'["thread"] = call["thread"], call'["isr"].pc # "restart", call'["isr"].op # "started"
      PROVE  ~ Restarting' /\ ThreadInv' /\ Counted' = Counted /\ \A u \in Timers : ~ Fresh(u)'
  <2>1. ~ Restarting' /\ \A u \in Timers : ~ Fresh(u)'
    BY <1>1, <1>7, TwoContexts DEF Restarting, Fresh, MaskedPlaces
  <2>2. ThreadInv'
    BY <1>1, <1>7 DEF ThreadInv, MaskedPlaces
  <2>3. Counted' = Counted
    BY <1>1, <1>6, <2>1 DEF Counted, Restarting
  <2> QED BY <2>1, <2>2, <2>3
<1>8. PICK at \in [Running -> 1 .. Cardinality(Running)] : InOrder(at) /\ WaitInv(at)
  BY DEF LateInv
<1>9. CASE ~ (FullCount /\ mode[t] = "repeated")
  <2>1. UNCHANGED <<list, due>>
    BY <1>4, <1>9
  <2>2. Running' = Running /\ UNCHANGED <<countLeft, previousID, nextID, current>>
    BY <2>1, ListKept DEF list
  <2>3. /\ call'["thread"] = call["thread"] /\ call'["isr"].op = "stop" /\ call'["isr"].id = t
        /\ \/ ~ FullCount /\ call'["isr"].pc = "resched" /\ call'["isr"].then = "idle"
           \/ FullCount /\ call'["isr"].pc = "unlink" /\ call'["isr"].then = "callback"
    <3>1. CASE ~ FullCount
      <4>1. Begin("isr", "resched", t, 0, "stop", "idle")
        BY <1>4, <3>1
      <4> QED BY <1>3, <1>5, <3>1, <4>1, Began, TwoContexts
    <3>2. CASE FullCount
      <4>1. Begin("isr", "unlink", t, 0, "stop", "callback")
        BY <1>4, <1>9, <3>2
      <4> QED BY <1>3, <1>5, <3>2, <4>1, Began, TwoContexts
    <3> QED BY <3>1, <3>2
  <2>4. ~ Restarting' /\ ThreadInv' /\ Counted' = Counted /\ \A u \in Timers : ~ Fresh(u)'
    BY <1>7, <2>3
  <2>5. \A u \in Running : u \in Timers /\ Lag(u)' = Lag(u)
    BY <1>1, <2>1, <2>2, <2>4 DEF Lag, Running
  <2>6. WakeInv'
    BY <1>1, <1>6, <2>2, <2>4, <2>5 DEF LateInv, WakeInv
  <2>7. CountInv'
    BY <2>2, <2>4, <2>5 DEF LateInv, CountInv
  <2>8. OpsInv'
    BY <1>1, <1>2, <2>2, <2>3, TwoContexts DEF LateInv, OpsInv
  <2>9. InOrder(at)'
    BY <1>8, <2>1, <2>2 DEF InOrder, list
  <2>10. WaitInv(at)'
    <3>1. CASE ~ FullCount
      <4>1. \A u \in Running : countLeft[u] > 0
        <5>1. wake = MaxWakeup /\ MaxWakeup > 0 /\ MaxWakeup \in Nat
          BY <3>1, TimerAssumption DEF LateInv, WakeInv, FullCount, ClockType
        <5>2. \A u \in Running : countLeft[u] >= wake /\ countLeft[u] \in Nat
          BY <1>6 DEF LateInv, WakeInv, ListInv, ListType, Running
        <5> QED BY <5>1, <5>2
      <4> QED BY <2>2, <4>1 DEF WaitInv
    <3>2. CASE FullCount
      <4>1. call'["isr"].pc = "unlink" /\ ~ Taken'
        BY <2>3, <3>2 DEF Taken
      <4>2. \A u \in Running : Rounds(at, u)' = Rounds(at, u)
        BY <1>6, <4>1 DEF Rounds
      <4>3. ASSUME NEW u \in Running', countLeft'[u] = 0, ~ Fresh(u)' PROVE Lag(u)' <= Delay(Rounds(at, u)')
        <5>1. Lag(u) <= Delay(Rounds(at, u)) /\ Lag(u)' = Lag(u)
          BY <1>6, <1>8, <2>2, <2>5, <4>3 DEF WaitInv
        <5> QED BY <2>2, <4>2, <5>1
      <4> QED BY <4>1, <4>3 DEF WaitInv
    <3> QED BY <3>1, <3>2
  <2> QED BY <1>8, <2>2, <2>4, <2>6, <2>7, <2>8, <2>9, <2>10 DEF LateInv
<1>10. CASE FullCount /\ mode[t] = "repeated"
  <2>1. /\ UnlinkTimer(t) /\ due' = [due EXCEPT ![t] = 0] /\ counterInit[t] \in Nat
        /\ Begin("isr", "lock", t, counterInit[t], "start", "callback")
    BY <1>3, <1>4, <1>10 DEF ListInv, ListType
  <2>2. /\ call'["thread"] = call["thread"]
        /\ call'["isr"].pc = "lock" /\ call'["isr"].id = t /\ call'["isr"].op = "start" /\ call'["isr"].then = "callback"
    BY <1>3, <1>5, <2>1, Began, TwoContexts
  <2>3. /\ Running' = Running \ {t}
        /\ \A u \in Timers : u # t => countLeft'[u] = countLeft[u]
        /\ \E bt \in [Running' -> 1 .. Cardinality(Running')] :
              InOrder(bt)' /\ \A u \in Running' : bt[u] = IF at[u] > at[t] THEN at[u] - 1 ELSE at[u]
    BY <1>8, <2>1, UnlinkedFrom
  <2>4. PICK bt \in [Running' -> 1 .. Cardinality(Running')] :
          InOrder(bt)' /\ \A u \in Running' : bt[u] = IF at[u] > at[t] THEN at[u] - 1 ELSE at[u]
    BY <2>3
  <2>5. ~ Restarting' /\ ThreadInv' /\ Counted' = Counted /\ \A u \in Timers : ~ Fresh(u)'
    BY <1>7, <2>2
  <2>6. \A u \in Running' : /\ u \in Running /\ u # t /\ u \in Timers /\ countLeft[u] \in Nat
                            /\ countLeft'[u] = countLeft[u] /\ due'[u] = due[u]
    BY <2>1, <2>3 DEF Running, ListInv, ListType, ClockType
  <2>7. \A u \in Running' : Lag(u)' = Lag(u)
    BY <1>1, <2>5, <2>6 DEF Lag
  <2>8. WakeInv'
    BY <1>1, <1>6, <2>5, <2>6 DEF LateInv, WakeInv
  <2>9. CountInv'
    BY <2>5, <2>6, <2>7 DEF LateInv, CountInv
  <2>10. OpsInv'
    BY <1>1, <2>2, TwoContexts DEF LateInv, OpsInv, MaskedPlaces
  <2>11. ASSUME NEW u \in Running', countLeft'[u] = 0 PROVE Lag(u)' <= Delay(Rounds(bt, u)')
    <3>1. Lag(u) <= Delay(Rounds(at, u)) /\ Lag(u)' = Lag(u)
      BY <1>6, <1>8, <2>6, <2>7, <2>11 DEF WaitInv
    <3>2. at[t] = 1 /\ at[u] # at[t] /\ at[u] \in Nat /\ at[u] >= 1 /\ N \in Nat
      <4>1. at[t] = 1 /\ at[u] # at[t]
        BY <1>2, <1>8, <2>6 DEF InOrder
      <4> QED BY <2>6, <4>1, PlaceBounds DEF Running
    <3>3. bt[u] = at[u] - 1
      BY <2>4, <3>2
    <3>4. Taken' /\ ToCome' = 3 /\ call'["isr"].id \notin Running'
      BY <2>2, <2>3 DEF Taken, ToCome
    <3>5. Rounds(at, u) = 1 + 3 * (N - at[u])
      BY <1>6 DEF Rounds
    <3>6. Rounds(bt, u)' = 1 + 3 * (N - bt[u]) - 3
      BY <3>4 DEF Rounds
    <3>7. 1 + 3 * (N - at[u]) = 1 + 3 * (N - bt[u]) - 3
      BY <3>2, <3>3
    <3> QED BY <3>1, <3>5, <3>6, <3>7
  <2>12. WaitInv(bt)'
    BY <2>2, <2>11 DEF WaitInv
  <2> QED BY <2>4, <2>5, <2>8, <2>9, <2>10, <2>12 DEF LateInv
<1> QED BY <1>9, <1>10

LEMMA LateStart ==
  ASSUME Init
  PROVE  LateInv
<1>1. Running = {} /\ ListIsSound /\ MaxWakeup \in Nat
  BY InitInv, TimerAssumption DEF Init, Running, TimerInv, ListInv
<1>2. \A c \in Contexts : call[c] = Idle
  BY DEF Init
<1>3. OpsInv
  BY <1>2, TwoContexts DEF OpsInv, Idle
<1>4. WakeInv
  BY <1>1 DEF Init, WakeInv
<1>5. CountInv /\ ThreadInv
  BY <1>1 DEF CountInv, ThreadInv
<1>6. PICK at \in [Running -> 1 .. Cardinality(Running)] : InOrder(at)
  BY <1>1 DEF ListIsSound
<1>7. WaitInv(at)
  BY <1>1 DEF WaitInv
<1> QED BY <1>3, <1>4, <1>5, <1>6, <1>7 DEF LateInv

LEMMA LateStutter ==
  ASSUME TimerInv, LateInv, UNCHANGED vars
  PROVE  LateInv'
<1>1. UNCHANGED <<status, previousID, nextID, current, countLeft, limitation, since, armed, wake, call, due, slips>>
  BY DEF vars, list, rtc
<1>2. Running' = Running
  BY <1>1 DEF Running
<1>3. OpsInv' /\ WakeInv' /\ CountInv' /\ ThreadInv'
  BY <1>1, <1>2 DEF LateInv, OpsInv, WakeInv, CountInv, ThreadInv, Fresh, Lag, Counted, Restarting
<1>4. PICK at \in [Running -> 1 .. Cardinality(Running)] : InOrder(at) /\ WaitInv(at)
  BY DEF LateInv
<1>5. InOrder(at)'
  BY <1>1, <1>2, <1>4 DEF InOrder
<1>6. WaitInv(at)'
  BY <1>1, <1>2, <1>4 DEF WaitInv, Fresh, Lag, Counted, Rounds, Taken, ToCome
<1> QED BY <1>2, <1>3, <1>4, <1>5, <1>6 DEF LateInv

LEMMA AlwaysLate == Spec => [](TimerInv /\ LateInv)
<1>1. ASSUME TimerInv, TimerInv', LateInv, Next PROVE LateInv'
  <2>1. ASSUME NEW c \in Contexts, Step(c) PROVE LateInv'
    BY <1>1, <2>1, LateMask, LateLink, LateUnlink, LateReschedule, LateRestart DEF Step
  <2>2. CASE Work
    BY <1>1, <2>1, <2>2, TwoContexts, LateFree, LateHandler, LateCallback DEF Work
  <2> QED BY <1>1, <2>2, LateCreate, LateCallStart, LateCallStop, LateTick DEF Next
<1>2. TimerInv /\ TimerInv' /\ LateInv /\ [Next]_vars => LateInv'
  BY <1>1, LateStutter
<1> QED BY <1>2, LateStart, AlwaysInv, PTL DEF Spec

\* However the timers, the calls and the interrupts mix, a timer is overdue by
\* no more than the delays of the interrupts before its own: three times the
\* reschedulings it takes to serve each of the timers, and the ticks lost while
\* the wake-up timer was written.
THEOREM TimesAlwaysHonest == Spec => []TimesAreHonest
<1>1. ASSUME TimerInv, LateInv, NEW t \in Running PROVE due[t] >= -(slips + 3 * N * HandlerDelay)
  <2> USE <1>1 DEF TimerInv
  <2>1. /\ countLeft[t] \in Nat /\ due[t] \in Int /\ slips \in Nat /\ wake \in Nat /\ HandlerDelay \in Nat /\ N \in Nat \ {0}
        /\ Counted \in Int /\ Counted <= wake + HandlerDelay /\ t \in Timers /\ MaxSlips \in Nat
    <3>1. /\ countLeft[t] \in Nat /\ due[t] \in Int /\ slips \in Nat /\ wake \in Nat /\ HandlerDelay \in Nat /\ N \in Nat \ {0}
          /\ MaxSlips \in Nat /\ t \in Timers /\ since \in Int
      BY TimerAssumption DEF ListInv, ListType, ClockType, Running, Never
    <3>2. Counted \in Int /\ Counted <= wake + HandlerDelay
      BY <3>1 DEF LateInv, WakeInv, Counted, Restarting
    <3> QED BY <3>1, <3>2
  <2>2. Delay(3 * N) = 3 * N * HandlerDelay /\ Delay(3 * N) >= HandlerDelay
    <3>1. ASSUME NEW n \in Nat, NEW h \in Nat PROVE h * (3 * n) = 3 * n * h
      OBVIOUS
    <3>2. Delay(3 * N) = 3 * N * HandlerDelay
      BY <2>1, <3>1 DEF Delay
    <3>3. Delay(1) <= Delay(3 * N) /\ Delay(1) = HandlerDelay
      <4>1. 1 \in Int /\ 3 * N \in Int /\ 1 <= 3 * N
        BY <2>1
      <4> QED BY <4>1, DelayGrows, Delays
    <3> QED BY <3>2, <3>3
  <2>3. CASE Fresh(t)
    <3>1. due[t] >= -HandlerDelay
      BY <2>3 DEF LateInv, CountInv
    <3> QED BY <2>1, <2>2, <3>1, DelayGrows
  <2>4. CASE ~ Fresh(t) /\ countLeft[t] > 0
    <3>1. Lag(t) <= 0 /\ countLeft[t] >= wake
      BY <2>4 DEF LateInv, CountInv, WakeInv
    <3>2. due[t] >= -(slips + HandlerDelay)
      BY <2>1, <3>1 DEF Lag
    <3>3. PICK e \in Int : e = Delay(3 * N)
      <4>1. 3 * N \in Int
        BY <2>1
      <4> QED BY <4>1, DelayGrows
    <3>4. due[t] >= -(slips + e)
      BY <2>1, <2>2, <3>2, <3>3
    <3> QED BY <2>2, <3>3, <3>4
  <2>5. CASE ~ Fresh(t) /\ ~ (countLeft[t] > 0)
    <3>1. countLeft[t] = 0 /\ wake = 0
      BY <2>1, <2>5 DEF LateInv, WakeInv
    <3>2. PICK at \in [Running -> 1 .. Cardinality(Running)] : InOrder(at) /\ WaitInv(at)
      BY DEF LateInv
    <3>3. PICK r \in Int : r = Rounds(at, t)
      BY <3>2, RoundsType
    <3>4. Lag(t) <= Delay(r)
      BY <2>5, <3>1, <3>2, <3>3 DEF WaitInv
    <3>5. r + 1 \in Int /\ 3 * N \in Int /\ r + 1 <= 3 * N
      <4>1. at[t] \in Nat /\ at[t] >= 1
        BY <3>2, PlaceBounds DEF Running
      <4>2. ToCome \in 0 .. 3
        BY <3>2, RoundsType
      <4> QED BY <2>1, <3>3, <4>1, <4>2 DEF Rounds
    <3>6. Delay(r + 1) <= Delay(3 * N) /\ Delay(r + 1) = Delay(r) + HandlerDelay /\ Delay(r) \in Int
      <4>1. Delay(r + 1) <= Delay(3 * N)
        BY <3>5, DelayGrows
      <4> QED BY <4>1, Delays
    <3>7. Counted <= HandlerDelay
      BY <2>1, <3>1
    <3>8. PICK d \in Int : d = Delay(r)
      BY <3>6
    <3>9. 0 - Counted - due[t] - slips <= d
      BY <3>1, <3>4, <3>8 DEF Lag
    <3>10. PICK e \in Int : e = Delay(3 * N)
      BY <3>5, DelayGrows
    <3>11. d + HandlerDelay <= e
      BY <3>6, <3>8, <3>10
    <3>12. due[t] >= -(slips + e)
      BY <2>1, <3>7, <3>9, <3>11
    <3> QED BY <2>2, <3>10, <3>12
  <2> QED BY <2>3, <2>4, <2>5
<1>2. TimerInv /\ LateInv => TimesAreHonest
  BY <1>1 DEF TimerInv, TimesAreHonest, OverdueIsBounded
<1> QED BY <1>2, AlwaysLate, PTL
=============================================================================
