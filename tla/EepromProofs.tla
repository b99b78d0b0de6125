---------------------------- MODULE EepromProofs ----------------------------
(***************************************************************************)
(* Machine-checked safety of the EEPROM emulation, for any number of pages *)
(* a pool (two at least), of elements a page and of power losses.          *)
(*                                                                         *)
(* Inv says what the flash holds in each phase of a call: the pool in use  *)
(* (Used), the other one (BlankPool, Marked, Source, Fading), and at a     *)
(* power loss what recovery will make of them (Left, Candidates).  Place,  *)
(* room and reading follow from it.  SeenInv adds what the flash says of   *)
(* the words the caller has seen and of its request: the refinement of     *)
(* NvStore follows.                                                        *)
(***************************************************************************)
EXTENDS EepromStore, FiniteSetTheorems, WellFoundedInduction, TLAPS

-----------------------------------------------------------------------------
(* Where the power may be lost and how large a pool has to be. *)

\* Not while the application erases its data, and not while recovery erases a
\* pool of which more pages than the first left are still to be marked: there
\* the pages of a pool in use may be taken for the ones of another.
Undisturbed ==
  /\ job.op # "format"
  /\ job.pc = "sweep" => \A p, q \in Unerased : p < q => GetState(flash, q) = ERASING

Calm == [][PowerLoss => Undisturbed]_vars

\* As the sizes of app_zigbee_nvm.h are meant: pools of several pages, with room
\* for all addresses and a torn element for each power loss.
Sizes == /\ nb_pages >= 2 /\ RefusedOps = {}
         /\ Addr \subseteq 0 .. Capacity - 1
         /\ Cardinality(Addr) + MaxCrashes <= Capacity

-----------------------------------------------------------------------------
(* Numbers and pages. *)

LEMMA Numbers ==
  /\ nb_pages \in Nat \ {0} /\ EE_NB_MAX_ELT \in Nat \ {0} /\ Capacity \in Nat \ {0}
  /\ MaxCrashes \in Nat /\ Addr \subseteq Nat
  /\ Pages = 0 .. 2 * nb_pages /\ Bank \subseteq Pages
<1>1. nb_pages \in Nat \ {0} /\ EE_NB_MAX_ELT \in Nat \ {0} /\ MaxCrashes \in Nat /\ Addr \subseteq Nat
  BY EepromAssumption
<1>2. \A m, n \in Nat \ {0} : m * n \in Nat \ {0}
  OBVIOUS
<1> QED BY <1>1, <1>2 DEF Capacity, Pages, Bank

LEMMA Words ==
  /\ Blank \in Word /\ Corrupt \in Word /\ Element \subseteq Word
  /\ Blank \notin Element /\ Corrupt \notin Element /\ None \notin Element
  /\ Blank # Corrupt /\ Corrupt # None /\ None \notin Data
  BY EepromAssumption DEF Word, Element

Others(c) == PoolOf(NextPool(c))
LastPage(c) == FirstPage(c) + nb_pages - 1

\* The two pools share the bank.
LEMMA Pools ==
  ASSUME NEW c \in Bank
  PROVE  /\ PoolOf(c) \subseteq Bank /\ Others(c) \subseteq Bank /\ c \in PoolOf(c)
         /\ FirstPage(c) \in PoolOf(c) /\ LastPage(c) \in PoolOf(c)
         /\ NextPool(c) \in Others(c) /\ NextPool(c) \in Bank /\ FirstPage(NextPool(c)) = NextPool(c)
         /\ NextPool(NextPool(c)) = FirstPage(c) /\ Others(NextPool(c)) = PoolOf(c)
         /\ \A p \in Bank : p \in PoolOf(c) \/ p \in Others(c)
         /\ \A p \in PoolOf(c) : p \notin Others(c)
         /\ \A p \in PoolOf(c) : /\ FirstPage(p) = FirstPage(c) /\ PoolOf(p) = PoolOf(c)
                                 /\ Others(p) = Others(c) /\ NextPool(p) = NextPool(c)
                                 /\ FirstPage(c) <= p /\ p <= LastPage(c)
         /\ \A p \in Others(c) : /\ FirstPage(p) = NextPool(c) /\ PoolOf(p) = Others(c)
                                 /\ p + 1 \in Others(c) \/ p = LastPage(NextPool(c))
         /\ \A p \in Int : p \in PoolOf(c) <=> FirstPage(c) <= p /\ p <= LastPage(c)
         /\ c + 1 \in PoolOf(c) <=> c # LastPage(c)
<1>1. nb_pages \in Nat \ {0}
  BY Numbers
<1>2. CASE c < nb_pages
  BY <1>1, <1>2 DEF Bank, FirstPage, NextPool, PoolOf, Others, LastPage
<1>3. CASE ~ (c < nb_pages)
  BY <1>1, <1>3 DEF Bank, FirstPage, NextPool, PoolOf, Others, LastPage
<1> QED BY <1>2, <1>3

\* What has been written into the pool up to slot o of page c.
Placed(c, o) == o + EE_NB_MAX_ELT * (c - FirstPage(c))

LEMMA Places ==
  ASSUME NEW c \in Bank, NEW o \in 0 .. EE_NB_MAX_ELT
  PROVE  /\ Placed(c, o) \in 0 .. Capacity
         /\ Placed(c, o) < Capacity /\ o = EE_NB_MAX_ELT => c + 1 \in PoolOf(c)
         /\ Placed(c, o) >= Capacity => o = EE_NB_MAX_ELT /\ c = LastPage(c)
         /\ c + 1 \in PoolOf(c) => Placed(c + 1, 0) = Placed(c, EE_NB_MAX_ELT)
         /\ o < EE_NB_MAX_ELT => Placed(c, o + 1) = Placed(c, o) + 1
<1> DEFINE k == c - FirstPage(c)
           E == EE_NB_MAX_ELT
<1>1. /\ nb_pages \in Nat \ {0} /\ E \in Nat \ {0} /\ c \in Int
      /\ Capacity = E * nb_pages
  BY Numbers DEF Capacity, Bank
<1>2. k \in Nat /\ k <= nb_pages - 1 /\ FirstPage(c) \in Int
  BY <1>1 DEF Bank, FirstPage
<1>3. c = LastPage(c) <=> k = nb_pages - 1
  BY <1>1, <1>2 DEF LastPage
<1> HIDE DEF k, E
<1>4. \A x \in Nat : x <= nb_pages - 1 => E * x + E <= E * nb_pages /\ E * x \in Nat
  <2> SUFFICES ASSUME NEW x \in Nat, x <= nb_pages - 1
               PROVE  E * x + E <= E * nb_pages /\ E * x \in Nat
    OBVIOUS
  <2>1. E * (nb_pages - (x + 1)) \in Nat
    BY <1>1
  <2>2. E * nb_pages = E * (nb_pages - (x + 1)) + E * (x + 1)
    BY <1>1
  <2>3. E * (x + 1) = E * x + E /\ E * x \in Nat
    BY <1>1
  <2> QED BY <1>1, <2>1, <2>2, <2>3
<1>5. E * k \in Nat /\ E * k + E <= Capacity /\ (k + 1 <= nb_pages - 1 => E * (k + 1) + E <= Capacity)
  BY <1>1, <1>2, <1>4
<1>6. E * (k + 1) = E * k + E
  BY <1>1, <1>2
<1>7. k = nb_pages - 1 => E * k + E = Capacity
  <2>1. E * ((nb_pages - 1) + 1) = E * (nb_pages - 1) + E
    BY <1>1
  <2> QED BY <1>1, <2>1
<1>8. Placed(c, o) = o + E * k /\ Placed(c, EE_NB_MAX_ELT) = E + E * k
  BY DEF Placed, k, E
<1>9. o \in Nat /\ o <= E
  BY <1>1 DEF E
<1>a. Placed(c, o) \in 0 .. Capacity
  BY <1>1, <1>5, <1>8, <1>9
<1>b. ASSUME Placed(c, o) < Capacity, o = E PROVE k # nb_pages - 1
  BY <1>b, <1>5, <1>7, <1>8
<1>c. ASSUME Placed(c, o) >= Capacity PROVE o = E /\ k = nb_pages - 1
  <2>1. o = E /\ E * k + E = Capacity
    BY <1>c, <1>1, <1>5, <1>8, <1>9
  <2>2. CASE k + 1 <= nb_pages - 1
    BY <1>1, <1>5, <1>6, <2>1, <2>2
  <2> QED BY <1>1, <1>2, <2>1, <2>2
<1>d. ASSUME c + 1 \in PoolOf(c) PROVE Placed(c + 1, 0) = E + E * k
  <2>1. FirstPage(c + 1) = FirstPage(c)
    BY <1>d, Pools
  <2>2. (c + 1) - FirstPage(c) = k + 1
    BY <1>1, <1>2 DEF k
  <2>3. Placed(c + 1, 0) = 0 + E * (k + 1)
    BY <2>1, <2>2 DEF Placed, E
  <2> QED BY <1>1, <1>5, <1>6, <2>3
<1>e. o < E => Placed(c, o + 1) = Placed(c, o) + 1
  <2>1. Placed(c, o + 1) = (o + 1) + E * k
    BY DEF Placed, k, E
  <2> QED BY <1>5, <1>8, <1>9, <2>1
<1> QED BY <1>3, <1>8, <1>a, <1>b, <1>c, <1>d, <1>e, Pools DEF E

(* A nonempty set of naturals has a least element, a bounded one a greatest. *)
LEMMA LeastNatural ==
  ASSUME NEW S \in SUBSET Nat, S # {}
  PROVE  \E m \in S : \A x \in S : m <= x
<1> DEFINE Less == {p \in Nat \X Nat : p[1] < p[2]}
<1>1. OpToRel(<, Nat) = Less
  BY Zenon DEF OpToRel
<1>2. IsWellFoundedOn(Less, Nat)
  BY <1>1, NatLessThanWellFounded, Zenon
<1>3. PICK m \in S : \A x \in S : ~(<<x, m>> \in Less)
  BY <1>2, WFMin, Zenon
<1>4. ASSUME NEW x \in S PROVE m <= x
  <2>1. x \in Nat /\ m \in Nat /\ <<x, m>> \notin Less
    BY <1>3
  <2> QED BY <2>1
<1> QED BY <1>4

LEMMA GreatestNatural ==
  ASSUME NEW n \in Nat, NEW S \in SUBSET (0 .. n), S # {}
  PROVE  \E m \in S : \A x \in S : x <= m
<1> DEFINE T == {x \in Nat : \E y \in S : x = n - y}
<1>1. T \in SUBSET Nat /\ T # {}
  <2>1. PICK y \in S : y \in 0 .. n
    OBVIOUS
  <2>2. n - y \in T
    BY <2>1
  <2> QED BY <2>2
<1> HIDE DEF T
<1>2. PICK t \in T : \A x \in T : t <= x
  BY <1>1, LeastNatural
<1>3. PICK m \in S : t = n - m
  BY <1>2 DEF T
<1>4. ASSUME NEW x \in S PROVE x <= m
  <2>1. n - x \in T
    BY DEF T
  <2> QED BY <1>2, <1>3, <2>1
<1> QED BY <1>4

LEMMA LowestHighest ==
  ASSUME NEW S \in SUBSET Pages, S # {}
  PROVE  /\ Lowest(S) \in S /\ \A x \in S : Lowest(S) <= x
         /\ Highest(S) \in S /\ \A x \in S : Highest(S) >= x
<1>1. 2 * nb_pages \in Nat /\ S \in SUBSET (0 .. 2 * nb_pages) /\ S \in SUBSET Nat
  BY Numbers
<1>2. \E m \in S : \A x \in S : m <= x
  BY <1>1, LeastNatural
<1>3. \E m \in S : \A x \in S : m >= x
  <2>1. PICK m \in S : \A x \in S : x <= m
    BY <1>1, GreatestNatural
  <2> QED BY <1>1, <2>1
<1> QED BY <1>2, <1>3, Zenon DEF Lowest, Highest

-----------------------------------------------------------------------------
(* The flash and what changes it. *)

FlashType == [Pages -> Page]

\* The state of a page is the greatest word of its header.
LEMMA States ==
  ASSUME NEW fl \in FlashType, NEW p \in Pages
  PROVE  /\ GetState(fl, p) \in ERASED .. ERASING
         /\ GetState(fl, p) = ERASED <=> fl[p].hdr = {}
         /\ \A s \in RECEIVE .. ERASING :
              GetState(fl, p) = s <=> s \in fl[p].hdr /\ \A t \in fl[p].hdr : t <= s
<1> DEFINE H == fl[p].hdr
           P(s) == /\ s = ERASED \/ s \in H
                   /\ \A t \in H : t <= s
<1>1. H \subseteq RECEIVE .. ERASING
  BY DEF FlashType, Page
<1>2. GetState(fl, p) = CHOOSE s \in ERASED .. ERASING : P(s)
  BY DEF GetState
<1> HIDE DEF H
<1>3. \E s \in ERASED .. ERASING : P(s)
  <2>1. CASE H = {}
    BY <2>1 DEF ERASED, ERASING
  <2>2. CASE H # {}
    <3>1. H \in SUBSET (0 .. 4) /\ 4 \in Nat
      BY <1>1 DEF RECEIVE, ERASING
    <3>2. PICK m \in H : \A x \in H : x <= m
      BY <2>2, <3>1, GreatestNatural
    <3> QED BY <1>1, <3>2 DEF ERASED, RECEIVE, ERASING
  <2> QED BY <2>1, <2>2
<1> HIDE DEF P
<1>4. GetState(fl, p) \in ERASED .. ERASING /\ P(GetState(fl, p))
  BY <1>2, <1>3, Zenon
<1> QED BY <1>1, <1>4 DEF P, H, ERASED, RECEIVE, ERASING

LEMMA SameState ==
  ASSUME NEW fl \in FlashType, NEW g \in FlashType, NEW p \in Pages, fl[p].hdr = g[p].hdr
  PROVE  GetState(fl, p) = GetState(g, p)
<1>1. CASE GetState(fl, p) = ERASED
  BY <1>1, States
<1>2. CASE GetState(fl, p) # ERASED
  <2>1. GetState(fl, p) \in RECEIVE .. ERASING
    BY <1>2, States DEF ERASED, RECEIVE, ERASING
  <2> QED BY <2>1, States
<1> QED BY <1>1, <1>2

LEMMA BlankPageIs ==
  /\ BlankPage \in Page /\ BlankPage.hdr = {} /\ \A i \in Slots : BlankPage.el[i] = Blank
  BY DEF BlankPage, Page, Word

WithHeader(fl, p, h) == [fl EXCEPT ![p].hdr = h]

LEMMA HeaderReplaced ==
  ASSUME NEW fl \in FlashType, NEW p \in Pages, NEW h \in SUBSET (RECEIVE .. ERASING),
         NEW g, g = WithHeader(fl, p, h)
  PROVE  /\ g \in FlashType /\ g[p].hdr = h
         /\ \A q \in Pages : g[q].el = fl[q].el
         /\ \A q \in Pages \ {p} : g[q] = fl[q] /\ GetState(g, q) = GetState(fl, q)
<1>1. fl[p] \in Page
  BY DEF FlashType
<1>2. [fl[p] EXCEPT !.hdr = h] \in Page /\ [fl[p] EXCEPT !.hdr = h].hdr = h
      /\ [fl[p] EXCEPT !.hdr = h].el = fl[p].el
  BY <1>1 DEF Page
<1>3. g \in FlashType /\ g[p] = [fl[p] EXCEPT !.hdr = h] /\ \A q \in Pages \ {p} : g[q] = fl[q]
  BY <1>2 DEF FlashType, WithHeader
<1> QED BY <1>2, <1>3, SameState

LEMMA SetStateIs ==
  ASSUME NEW fl \in FlashType, NEW p \in Pages, NEW s \in RECEIVE .. ERASING,
         NEW g, g = SetState(fl, p, s)
  PROVE  /\ g \in FlashType /\ g[p].hdr = fl[p].hdr \cup {s}
         /\ \A q \in Pages : g[q].el = fl[q].el
         /\ \A q \in Pages \ {p} : g[q] = fl[q] /\ GetState(g, q) = GetState(fl, q)
         /\ GetState(g, p) = IF GetState(fl, p) <= s THEN s ELSE GetState(fl, p)
<1>1. fl[p].hdr \subseteq RECEIVE .. ERASING
  BY DEF FlashType, Page
<1>2. PICK h \in SUBSET (RECEIVE .. ERASING) : h = fl[p].hdr \cup {s}
  BY <1>1
<1>a. g = WithHeader(fl, p, h)
  BY <1>2 DEF SetState, WithHeader
<1>3. /\ g \in FlashType /\ g[p].hdr = h
      /\ \A q \in Pages : g[q].el = fl[q].el
      /\ \A q \in Pages \ {p} : g[q] = fl[q] /\ GetState(g, q) = GetState(fl, q)
  BY <1>a, HeaderReplaced
<1>4. GetState(g, p) = IF GetState(fl, p) <= s THEN s ELSE GetState(fl, p)
  <2> DEFINE x == GetState(fl, p)
  <2>1. x \in ERASED .. ERASING /\ (x = ERASED <=> fl[p].hdr = {})
        /\ (x # ERASED => x \in fl[p].hdr /\ \A t \in fl[p].hdr : t <= x)
    BY States DEF ERASED, RECEIVE, ERASING
  <2> HIDE DEF x
  <2>2. CASE x <= s
    <3>1. s \in g[p].hdr /\ \A t \in g[p].hdr : t <= s
      BY <1>1, <1>2, <1>3, <2>1, <2>2 DEF ERASED, RECEIVE, ERASING
    <3> QED BY <1>3, <2>2, <3>1, States DEF x
  <2>3. CASE ~ (x <= s)
    <3>1. x \in RECEIVE .. ERASING /\ x \in g[p].hdr /\ \A t \in g[p].hdr : t <= x
      BY <1>1, <1>2, <1>3, <2>1, <2>3 DEF ERASED, RECEIVE, ERASING
    <3> QED BY <1>3, <2>3, <3>1, States DEF x
  <2> QED BY <2>2, <2>3
<1> QED BY <1>2, <1>3, <1>4

LEMMA ProgramIs ==
  ASSUME NEW fl \in FlashType, NEW p \in Pages, NEW i \in Slots, NEW w \in Word,
         fl[p].el[i] = Blank, NEW g, g = Program(fl, p, i, w)
  PROVE  /\ g \in FlashType
         /\ \A q \in Pages : g[q].hdr = fl[q].hdr /\ GetState(g, q) = GetState(fl, q)
         /\ \A q \in Pages \ {p} : g[q] = fl[q]
         /\ \A j \in Slots : g[p].el[j] = IF j = i THEN w ELSE fl[p].el[j]
<1> DEFINE e == [fl[p].el EXCEPT ![i] = w]
<1>1. fl[p] \in Page /\ fl[p].el \in [Slots -> Word]
  BY DEF FlashType, Page
<1>2. e \in [Slots -> Word] /\ \A j \in Slots : e[j] = IF j = i THEN w ELSE fl[p].el[j]
  BY <1>1
<1>3. g = [fl EXCEPT ![p] = [fl[p] EXCEPT !.el = e]]
  BY DEF Program, FlashType
<1> HIDE DEF e
<1>4. [fl[p] EXCEPT !.el = e] \in Page /\ [fl[p] EXCEPT !.el = e].el = e
      /\ [fl[p] EXCEPT !.el = e].hdr = fl[p].hdr
  BY <1>1, <1>2 DEF Page
<1>5. g \in FlashType /\ g[p] = [fl[p] EXCEPT !.el = e] /\ \A q \in Pages \ {p} : g[q] = fl[q]
  BY <1>3, <1>4 DEF FlashType
<1>6. \A q \in Pages : g[q].hdr = fl[q].hdr
  BY <1>4, <1>5
<1> QED BY <1>2, <1>4, <1>5, <1>6, SameState

LEMMA EraseIs ==
  ASSUME NEW fl \in FlashType, NEW p \in Pages, NEW g, g = Erase(fl, p)
  PROVE  /\ g \in FlashType /\ g[p] = BlankPage /\ GetState(g, p) = ERASED
         /\ \A q \in Pages \ {p} : g[q] = fl[q] /\ GetState(g, q) = GetState(fl, q)
<1>1. g \in FlashType /\ g[p] = BlankPage /\ \A q \in Pages \ {p} : g[q] = fl[q]
  BY BlankPageIs DEF Erase, FlashType
<1> QED BY <1>1, States, SameState, BlankPageIs

LEMMA BlankState ==
  ASSUME NEW fl \in FlashType, NEW p \in Pages, fl[p] = BlankPage
  PROVE  GetState(fl, p) = ERASED /\ fl[p].hdr = {} /\ \A i \in Slots : fl[p].el[i] = Blank
  BY States, BlankPageIs

-----------------------------------------------------------------------------
(* What is read. *)

LEMMA YoungestIs ==
  ASSUME NEW fl \in FlashType, NEW c \in Bank, NEW a, Hits(fl, a, c) # {}
  PROVE  \E h \in Hits(fl, a, c) :
           /\ \A g \in Hits(fl, a, c) : Later(h, g)
           /\ ReadEl(fl, a, c) = fl[h[1]].el[h[2]].data
<1> DEFINE F == Hits(fl, a, c)
           P == {x \in Pages : \E i \in Slots : <<x, i>> \in F}
<1>1. nb_pages \in Nat \ {0} /\ EE_NB_MAX_ELT \in Nat \ {0} /\ Pages = 0 .. 2 * nb_pages
  BY Numbers
<1>2. FirstPage(c) .. c \subseteq Pages
  BY <1>1 DEF FirstPage, Bank
<1>3. \A h \in F : h \in Pages \X Slots /\ h = <<h[1], h[2]>>
  BY <1>2 DEF Hits
<1>4. P # {} /\ P \in SUBSET (0 .. 2 * nb_pages) /\ 2 * nb_pages \in Nat
  <2>1. PICK h \in F : TRUE
    OBVIOUS
  <2>2. h[1] \in Pages /\ h[2] \in Slots /\ <<h[1], h[2]>> \in F
    BY <1>3
  <2> QED BY <1>1, <2>2
<1> HIDE DEF F
<1>5. PICK m \in P : \A x \in P : x <= m
  <2> HIDE DEF P
  <2> QED BY <1>4, GreatestNatural
<1> DEFINE Q == {i \in Slots : <<m, i>> \in F}
<1>6. Q # {} /\ Q \in SUBSET (0 .. EE_NB_MAX_ELT - 1) /\ EE_NB_MAX_ELT - 1 \in Nat
  <2>1. PICK i \in Slots : <<m, i>> \in F
    BY <1>5
  <2> QED BY <1>1, <2>1 DEF Slots
<1>7. PICK n \in Q : \A x \in Q : x <= n
  <2> HIDE DEF Q
  <2> QED BY <1>6, GreatestNatural
<1>8. <<m, n>> \in F
  BY <1>7
<1>9. ASSUME NEW g \in F PROVE Later(<<m, n>>, g)
  <2>1. g[1] \in P /\ g[1] <= m
    BY <1>3, <1>5
  <2>2. g[1] = m => g[2] \in Q /\ g[2] <= n
    BY <1>3, <1>7
  <2>3. m \in Int /\ n \in Int /\ g[1] \in Int /\ g[2] \in Int
    BY <1>1, <1>3, <1>5, <1>7 DEF Slots
  <2> QED BY <2>1, <2>2, <2>3 DEF Later
<1>10. \E h \in F : \A g \in F : Later(h, g)
  BY <1>8, <1>9
<1> DEFINE y == CHOOSE h \in F : \A g \in F : Later(h, g)
<1>11. y \in F /\ \A g \in F : Later(y, g)
  BY <1>10, Zenon
<1>12. ReadEl(fl, a, c) = fl[y[1]].el[y[2]].data
  BY <1>8 DEF ReadEl, F
<1> QED BY <1>11, <1>12 DEF F

\* Only what was never written reads as not found.
LEMMA ReadIs ==
  ASSUME NEW fl \in FlashType, NEW c \in Bank, NEW a
  PROVE  /\ ReadEl(fl, a, c) = None <=> Hits(fl, a, c) = {}
         /\ Hits(fl, a, c) # {} => a \in Addr /\ ReadEl(fl, a, c) \in Data
<1>1. Hits(fl, a, c) = {} => ReadEl(fl, a, c) = None
  BY DEF ReadEl
<1>2. ASSUME Hits(fl, a, c) # {} PROVE a \in Addr /\ ReadEl(fl, a, c) \in Data
  <2>1. PICK h \in Hits(fl, a, c) : ReadEl(fl, a, c) = fl[h[1]].el[h[2]].data
    BY <1>2, YoungestIs
  <2>2. fl[h[1]].el[h[2]] \in Element /\ fl[h[1]].el[h[2]].addr = a
    BY DEF Hits
  <2> QED BY <2>1, <2>2 DEF Element
<1> QED BY <1>1, <1>2, Words

\* What is read depends on the elements up to the page, and not on blank ones.
LEMMA ReadSame ==
  ASSUME NEW fl \in FlashType, NEW g \in FlashType, NEW c \in Bank, NEW d \in PoolOf(c), c <= d,
         \A p \in FirstPage(c) .. c : g[p].el = fl[p].el,
         \A p \in c + 1 .. d : \A i \in Slots : g[p].el[i] = Blank, NEW a
  PROVE  Hits(g, a, d) = Hits(fl, a, c) /\ ReadEl(g, a, d) = ReadEl(fl, a, c)
<1>1. FirstPage(d) = FirstPage(c) /\ d \in Bank /\ FirstPage(c) <= c
  BY Pools
<1>2. c \in Int /\ d \in Int /\ FirstPage(c) \in Int
  BY <1>1, Numbers DEF Bank, FirstPage
<1>3. ASSUME NEW p \in FirstPage(c) .. d, NEW i \in Slots
      PROVE  /\ <<p, i>> \in Hits(g, a, d) <=> g[p].el[i] \in Element /\ g[p].el[i].addr = a
             /\ <<p, i>> \in Hits(fl, a, c) <=> p <= c /\ fl[p].el[i] \in Element /\ fl[p].el[i].addr = a
             /\ p > c => g[p].el[i] \notin Element
  BY <1>1, <1>2, <1>3, Words DEF Hits
<1>4. \A h : /\ h \in Hits(g, a, d) => h = <<h[1], h[2]>> /\ h[1] \in FirstPage(c) .. d /\ h[2] \in Slots
             /\ h \in Hits(fl, a, c) => h = <<h[1], h[2]>> /\ h[1] \in FirstPage(c) .. c /\ h[2] \in Slots
  BY <1>1 DEF Hits
<1>5. ASSUME NEW h PROVE h \in Hits(g, a, d) <=> h \in Hits(fl, a, c)
  <2>1. ASSUME h \in Hits(g, a, d) PROVE h \in Hits(fl, a, c)
    <3>1. h = <<h[1], h[2]>> /\ h[1] \in FirstPage(c) .. d /\ h[2] \in Slots
      BY <1>4, <2>1
    <3>2. g[h[1]].el[h[2]] \in Element /\ g[h[1]].el[h[2]].addr = a /\ h[1] <= c
      BY <1>2, <1>3, <2>1, <3>1
    <3> QED BY <1>2, <1>3, <3>1, <3>2
  <2>2. ASSUME h \in Hits(fl, a, c) PROVE h \in Hits(g, a, d)
    <3>1. h = <<h[1], h[2]>> /\ h[1] \in FirstPage(c) .. d /\ h[2] \in Slots /\ h[1] <= c
      BY <1>2, <1>4, <2>2
    <3>2. fl[h[1]].el[h[2]] \in Element /\ fl[h[1]].el[h[2]].addr = a
      BY <1>3, <2>2, <3>1
    <3> QED BY <1>2, <1>3, <3>1, <3>2
  <2> QED BY <2>1, <2>2
<1>6. Hits(g, a, d) = Hits(fl, a, c)
  BY <1>5
<1>7. CASE Hits(fl, a, c) = {}
  BY <1>6, <1>7 DEF ReadEl
<1>8. CASE Hits(fl, a, c) # {}
  <2>1. PICK h \in Hits(fl, a, c) : (\A x \in Hits(fl, a, c) : Later(h, x)) /\ ReadEl(fl, a, c) = fl[h[1]].el[h[2]].data
    BY <1>8, YoungestIs
  <2>2. PICK k \in Hits(g, a, d) : (\A x \in Hits(g, a, d) : Later(k, x)) /\ ReadEl(g, a, d) = g[k[1]].el[k[2]].data
    BY <1>1, <1>6, <1>8, YoungestIs
  <2>3. h[1] \in FirstPage(c) .. c /\ k[1] \in FirstPage(c) .. c /\ h[2] \in Int /\ k[2] \in Int
    BY <1>4, <1>6, <2>1, <2>2 DEF Slots
  <2>4. Later(h, k) /\ Later(k, h)
    BY <1>6, <2>1, <2>2
  <2>5. h[1] = k[1] /\ h[2] = k[2]
    BY <1>2, <2>3, <2>4 DEF Later
  <2>6. g[h[1]].el = fl[h[1]].el
    BY <2>3
  <2>7. ReadEl(g, a, d) = g[h[1]].el[h[2]].data
    BY <2>2, <2>5
  <2> QED BY <1>6, <2>1, <2>6, <2>7
<1> QED BY <1>6, <1>7, <1>8

\* An element programmed behind all others is the one its address reads.
LEMMA ReadAppended ==
  ASSUME NEW fl \in FlashType, NEW c \in Bank, NEW o \in Slots, NEW w \in Word,
         \A i \in Slots : i >= o => fl[c].el[i] = Blank,
         NEW g, g = Program(fl, c, o, w), NEW a
  PROVE  /\ w \in Element /\ w.addr = a => ReadEl(g, a, c) = w.data /\ Hits(g, a, c) # {}
         /\ ~ (w \in Element /\ w.addr = a) => Hits(g, a, c) = Hits(fl, a, c) /\ ReadEl(g, a, c) = ReadEl(fl, a, c)
<1>1. o \in Int /\ c \in Pages /\ c \in FirstPage(c) .. c /\ FirstPage(c) .. c \subseteq Pages
  BY Numbers DEF Bank, FirstPage, Slots
<1>2. fl[c].el[o] = Blank
  BY <1>1
<1>3. /\ g \in FlashType /\ \A q \in Pages \ {c} : g[q] = fl[q]
      /\ \A j \in Slots : g[c].el[j] = IF j = o THEN w ELSE fl[c].el[j]
  BY <1>1, <1>2, ProgramIs
<1>4. \A h : /\ h \in Hits(g, a, c) => h = <<h[1], h[2]>> /\ h[1] \in FirstPage(c) .. c /\ h[2] \in Slots
             /\ h \in Hits(fl, a, c) => h = <<h[1], h[2]>> /\ h[1] \in FirstPage(c) .. c /\ h[2] \in Slots
  BY DEF Hits
<1>5. ASSUME NEW p \in FirstPage(c) .. c, NEW i \in Slots
      PROVE  /\ <<p, i>> \in Hits(g, a, c) <=> g[p].el[i] \in Element /\ g[p].el[i].addr = a
             /\ <<p, i>> \in Hits(fl, a, c) <=> fl[p].el[i] \in Element /\ fl[p].el[i].addr = a
             /\ p # c \/ i # o => g[p].el[i] = fl[p].el[i]
             /\ p = c /\ i > o => g[p].el[i] \notin Element
             /\ p = c /\ i = o => g[p].el[i] = w /\ fl[p].el[i] \notin Element
  <2>1. /\ <<p, i>> \in Hits(g, a, c) <=> g[p].el[i] \in Element /\ g[p].el[i].addr = a
        /\ <<p, i>> \in Hits(fl, a, c) <=> fl[p].el[i] \in Element /\ fl[p].el[i].addr = a
    BY DEF Hits
  <2>2. p # c => g[p] = fl[p]
    BY <1>1, <1>3
  <2>3. i \in Int
    BY Numbers DEF Slots
  <2> QED BY <1>1, <1>2, <1>3, <2>1, <2>2, <2>3, Words
<1>6. ASSUME w \in Element, w.addr = a PROVE ReadEl(g, a, c) = w.data /\ Hits(g, a, c) # {}
  <2>1. <<c, o>> \in Hits(g, a, c)
    BY <1>1, <1>5, <1>6
  <2>2. PICK h \in Hits(g, a, c) : (\A x \in Hits(g, a, c) : Later(h, x)) /\ ReadEl(g, a, c) = g[h[1]].el[h[2]].data
    BY <1>3, <2>1, YoungestIs
  <2>3. h = <<h[1], h[2]>> /\ h[1] \in FirstPage(c) .. c /\ h[2] \in Slots
    BY <1>4
  <2>4. Later(h, <<c, o>>)
    BY <2>1, <2>2
  <2>5. c \in Int /\ h[1] \in Int /\ h[2] \in Int /\ h[1] <= c
    BY <2>3, Numbers DEF Bank, FirstPage, Slots
  <2>6. h[1] = c /\ h[2] >= o
    BY <1>1, <2>4, <2>5 DEF Later
  <2>7. g[h[1]].el[h[2]] \in Element
    BY <2>2 DEF Hits
  <2>8. ~ (h[2] > o)
    BY <1>5, <2>3, <2>6, <2>7
  <2>9. h[2] = o
    BY <1>1, <2>5, <2>6, <2>8
  <2> QED BY <1>1, <1>3, <2>1, <2>2, <2>6, <2>9
<1>7. ASSUME ~ (w \in Element /\ w.addr = a)
      PROVE  Hits(g, a, c) = Hits(fl, a, c) /\ ReadEl(g, a, c) = ReadEl(fl, a, c)
  <2>1. ASSUME NEW h PROVE h \in Hits(g, a, c) <=> h \in Hits(fl, a, c)
    <3>1. ASSUME h = <<h[1], h[2]>>, h[1] \in FirstPage(c) .. c, h[2] \in Slots
          PROVE  h \in Hits(g, a, c) <=> h \in Hits(fl, a, c)
      <4>1. CASE h[1] # c \/ h[2] # o
        BY <1>5, <3>1, <4>1
      <4>2. CASE h[1] = c /\ h[2] = o
        BY <1>5, <1>7, <3>1, <4>2
      <4> QED BY <4>1, <4>2
    <3> QED BY <1>4, <3>1
  <2>2. Hits(g, a, c) = Hits(fl, a, c)
    BY <2>1
  <2>3. CASE Hits(fl, a, c) = {}
    BY <2>2, <2>3 DEF ReadEl
  <2>4. CASE Hits(fl, a, c) # {}
    <3>1. PICK h \in Hits(fl, a, c) : (\A x \in Hits(fl, a, c) : Later(h, x)) /\ ReadEl(fl, a, c) = fl[h[1]].el[h[2]].data
      BY <2>4, YoungestIs
    <3>2. PICK k \in Hits(g, a, c) : (\A x \in Hits(g, a, c) : Later(k, x)) /\ ReadEl(g, a, c) = g[k[1]].el[k[2]].data
      BY <1>3, <2>2, <2>4, YoungestIs
    <3>3. h[1] \in FirstPage(c) .. c /\ k[1] \in FirstPage(c) .. c /\ h[2] \in Slots /\ k[2] \in Slots
      BY <1>4, <3>1, <3>2
    <3>4. h[1] \in Int /\ k[1] \in Int /\ h[2] \in Int /\ k[2] \in Int
      BY <1>1, <3>3, Numbers DEF Slots, Bank, FirstPage
    <3>5. Later(h, k) /\ Later(k, h)
      BY <2>2, <3>1, <3>2
    <3>6. h[1] = k[1] /\ h[2] = k[2]
      BY <3>4, <3>5 DEF Later
    <3>7. fl[h[1]].el[h[2]] \in Element
      BY <3>1 DEF Hits
    <3>8. h[1] # c \/ h[2] # o
      BY <1>1, <1>5, <3>3, <3>7
    <3>9. g[h[1]].el[h[2]] = fl[h[1]].el[h[2]]
      BY <1>5, <3>3, <3>8
    <3>10. ReadEl(g, a, c) = g[h[1]].el[h[2]].data
      BY <3>2, <3>6
    <3> QED BY <2>2, <3>1, <3>9, <3>10
  <2> QED BY <2>2, <2>3, <2>4
<1> QED BY <1>6, <1>7

-----------------------------------------------------------------------------
(* The pools. *)

Filled(fl, p) == \A i \in Slots : fl[p].el[i] # Blank

\* The pool in use, written up to slot o of page c, the first that is in state
\* s: the pages before are full, the ones behind are blank but for the header of
\* the next, which may be there already.
Used(fl, c, o, s) ==
  /\ s \in {RECEIVE, ACTIVE}
  /\ \A p \in PoolOf(c) : p < c => GetState(fl, p) = VALID /\ Filled(fl, p)
  /\ GetState(fl, c) = s
  /\ \A i \in Slots : fl[c].el[i] = Blank <=> i >= o
  /\ \A p \in PoolOf(c) : p > c =>
       /\ \A i \in Slots : fl[p].el[i] = Blank
       /\ fl[p].hdr \subseteq IF p # c + 1 \/ o < EE_NB_MAX_ELT THEN {}
                              ELSE IF s = RECEIVE \/ c = FirstPage(c) THEN {s}
                              ELSE {RECEIVE, ACTIVE}

\* A power-up would not go on to the next page.
Unopened(fl, c) == c = FirstPage(c) => fl[c + 1].hdr = {}

\* The pool not in use: blank, marked for erasing, the source of a transfer, or
\* erased from its first page on, one page perhaps in part.
BlankPool(fl, P) == \A p \in P : fl[p] = BlankPage
Marked(fl, P) == \A p \in P : GetState(fl, p) = ERASING
Source(fl, P) == \A p \in P : Filled(fl, p) /\ GetState(fl, p) \in {ACTIVE, VALID, ERASING}
ErasedTo(fl, P, at) ==
  \A p \in P : IF p < at THEN fl[p] = BlankPage ELSE GetState(fl, p) = ERASING
Fading(fl, P) == \E at \in P : \A p \in P :
  /\ p < at => fl[p] = BlankPage
  /\ p > at => GetState(fl, p) = ERASING
FromTheFirst(fl, P) ==
  \A p, q \in P : p < q /\ GetState(fl, p) # ERASED => GetState(fl, q) # ERASED

\* A page without a header is blank.
Unheaded(fl) == \A p \in Pages : fl[p].hdr = {} => fl[p] = BlankPage

\* The addresses the pool has an element of.
Has(fl, c) == {a \in Addr : Hits(fl, a, c) # {}}

Agree(fl, g, P) == \A p \in P : g[p] = fl[p] /\ GetState(g, p) = GetState(fl, p)

LEMMA NextInPool ==
  ASSUME Sizes, NEW c \in Bank, c = FirstPage(c)
  PROVE  c + 1 \in PoolOf(c) /\ c + 1 \in Pages
  BY Numbers DEF Sizes, Bank, FirstPage, PoolOf

LEMMA BankPages ==
  ASSUME NEW c \in Bank
  PROVE  /\ c \in Pages /\ c \in Int /\ PoolOf(c) \subseteq Pages /\ Others(c) \subseteq Pages
         /\ \A p \in PoolOf(c) \cup Others(c) : p \in Int
         /\ \A p \in PoolOf(c) : p < c \/ p > c => p \in Pages \ {c}
         /\ FirstPage(c) .. c \subseteq PoolOf(c)
<1>1. PoolOf(c) \subseteq Bank /\ Others(c) \subseteq Bank /\ Bank \subseteq Pages
  BY Pools, Numbers
<1>2. \A p \in Bank : p \in Int
  BY Numbers DEF Bank
<1>3. \A p \in FirstPage(c) .. c : p \in Int /\ FirstPage(c) <= p /\ p <= c
  BY <1>2 DEF FirstPage
<1>4. c <= LastPage(c) /\ LastPage(c) \in Int
  BY <1>2, Pools, Numbers DEF LastPage, FirstPage
<1>5. \A p \in FirstPage(c) .. c : p \in PoolOf(c)
  BY <1>2, <1>3, <1>4, Pools
<1>6. \A p \in PoolOf(c) : p < c \/ p > c => p # c
  BY <1>1, <1>2
<1> QED BY <1>1, <1>2, <1>5, <1>6

LEMMA UsedSame ==
  ASSUME Sizes, NEW fl \in FlashType, NEW g \in FlashType, NEW c \in Bank, Agree(fl, g, PoolOf(c))
  PROVE  /\ \A o, s : Used(fl, c, o, s) => Used(g, c, o, s)
         /\ Unopened(fl, c) => Unopened(g, c)
         /\ \A a : Hits(g, a, c) = Hits(fl, a, c) /\ ReadEl(g, a, c) = ReadEl(fl, a, c)
         /\ Has(g, c) = Has(fl, c)
<1>1. c \in PoolOf(c) /\ c \in Int
  BY Pools, BankPages
<1>2. \A o, s : Used(fl, c, o, s) => Used(g, c, o, s)
  BY <1>1 DEF Used, Agree, Filled
<1>3. Unopened(fl, c) => Unopened(g, c)
  BY NextInPool DEF Unopened, Agree
<1>4. \A p \in FirstPage(c) .. c : g[p].el = fl[p].el
  BY BankPages DEF Agree
<1>5. \A p \in c + 1 .. c : FALSE
  BY <1>1
<1>6. \A a : Hits(g, a, c) = Hits(fl, a, c) /\ ReadEl(g, a, c) = ReadEl(fl, a, c)
  BY <1>1, <1>4, <1>5, ReadSame
<1> QED BY <1>2, <1>3, <1>6 DEF Has

LEMMA PoolSame ==
  ASSUME NEW fl \in FlashType, NEW g \in FlashType, NEW P, Agree(fl, g, P)
  PROVE  /\ BlankPool(fl, P) => BlankPool(g, P)
         /\ Marked(fl, P) => Marked(g, P)
         /\ Source(fl, P) => Source(g, P)
         /\ \A at : ErasedTo(fl, P, at) => ErasedTo(g, P, at)
         /\ Fading(fl, P) => Fading(g, P)
         /\ FromTheFirst(fl, P) => FromTheFirst(g, P)
  BY DEF Agree, BlankPool, Marked, Source, ErasedTo, Fading, FromTheFirst, Filled

LEMMA UsedTypes ==
  ASSUME NEW fl \in FlashType, NEW c \in Bank, NEW o \in 0 .. EE_NB_MAX_ELT, NEW s, Used(fl, c, o, s)
  PROVE  Written(fl, c) = o
<1>1. EE_NB_MAX_ELT \in Nat \ {0} /\ o \in Nat /\ o <= EE_NB_MAX_ELT
  BY Numbers
<1>2. {i \in Slots : \A j \in 0 .. i : fl[c].el[j] # Blank} = 0 .. o - 1
  <2>1. ASSUME NEW i PROVE i \in Slots /\ (\A j \in 0 .. i : fl[c].el[j] # Blank) <=> i \in 0 .. o - 1
    <3>1. \A j \in Slots : fl[c].el[j] = Blank <=> j >= o
      BY DEF Used
    <3>2. ASSUME i \in Slots, \A j \in 0 .. i : fl[c].el[j] # Blank PROVE i \in 0 .. o - 1
      <4>1. i \in 0 .. i /\ i \in Nat
        BY <3>2 DEF Slots
      <4>2. ~ (i >= o)
        BY <3>1, <3>2, <4>1
      <4> QED BY <1>1, <4>1, <4>2
    <3>3. ASSUME i \in 0 .. o - 1 PROVE i \in Slots /\ \A j \in 0 .. i : fl[c].el[j] # Blank
      <4>1. i \in Slots /\ \A j \in 0 .. i : j \in Slots /\ ~ (j >= o)
        BY <1>1, <3>3 DEF Slots
      <4> QED BY <3>1, <4>1
    <3> QED BY <3>2, <3>3
  <2> QED BY <2>1
<1>3. Cardinality(0 .. o - 1) = o
  BY <1>1, FS_Interval
<1> QED BY <1>2, <1>3 DEF Written

LEMMA Counting ==
  ASSUME Sizes, NEW fl, NEW c
  PROVE  /\ Cardinality(Has(fl, c)) \in Nat /\ Cardinality(Addr) \in Nat
         /\ \A a \in Addr \ Has(fl, c) :
              /\ Cardinality(Has(fl, c) \cup {a}) = Cardinality(Has(fl, c)) + 1
              /\ Cardinality(Has(fl, c)) + 1 <= Cardinality(Addr)
         /\ Has(fl, c) = {} => Cardinality(Has(fl, c)) = 0
<1>1. Capacity \in Nat
  BY Numbers
<1>2. IsFiniteSet(Addr)
  <2>1. IsFiniteSet(0 .. Capacity - 1)
    BY <1>1, FS_Interval
  <2> QED BY <2>1, FS_Subset DEF Sizes
<1>3. Has(fl, c) \in SUBSET Addr
  BY DEF Has
<1>4. IsFiniteSet(Has(fl, c)) /\ Cardinality(Has(fl, c)) \in Nat /\ Cardinality(Addr) \in Nat
  BY <1>2, <1>3, FS_Subset, FS_CardinalityType
<1>5. ASSUME NEW a \in Addr \ Has(fl, c)
      PROVE  /\ Cardinality(Has(fl, c) \cup {a}) = Cardinality(Has(fl, c)) + 1
             /\ Cardinality(Has(fl, c)) + 1 <= Cardinality(Addr)
  <2>1. Cardinality(Has(fl, c) \cup {a}) = Cardinality(Has(fl, c)) + 1
    BY <1>4, FS_AddElement
  <2>2. Has(fl, c) \cup {a} \in SUBSET Addr
    BY <1>3
  <2>3. Cardinality(Has(fl, c) \cup {a}) <= Cardinality(Addr)
    BY <1>2, <2>2, FS_Subset
  <2> QED BY <2>1, <2>3
<1> QED BY <1>4, <1>5, FS_EmptySet

-----------------------------------------------------------------------------
(* What the steps of a call do to the pool in use. *)

LEMMA SetStateElsewhere ==
  ASSUME NEW fl \in FlashType, NEW c \in Bank, NEW p \in PoolOf(c), NEW s \in RECEIVE .. ERASING,
         Unheaded(fl), NEW g, g = SetState(fl, p, s)
  PROVE  g \in FlashType /\ Unheaded(g) /\ Agree(fl, g, Others(c)) /\ \A a : Hits(g, a, c) = Hits(fl, a, c)
<1>1. p \in Pages /\ p \notin Others(c) /\ Others(c) \subseteq Pages /\ c \in PoolOf(c) /\ c \in Int
  BY Pools, BankPages
<1>2. /\ g \in FlashType /\ g[p].hdr # {} /\ \A q \in Pages : g[q].el = fl[q].el
      /\ \A q \in Pages \ {p} : g[q] = fl[q] /\ GetState(g, q) = GetState(fl, q)
  BY <1>1, SetStateIs
<1>3. Unheaded(g) /\ Agree(fl, g, Others(c))
  BY <1>1, <1>2 DEF Unheaded, Agree
<1>4. \A q \in FirstPage(c) .. c : g[q].el = fl[q].el
  BY <1>2, BankPages
<1>5. \A q \in c + 1 .. c : FALSE
  BY <1>1
<1> QED BY <1>1, <1>2, <1>3, <1>4, <1>5, ReadSame

LEMMA UsedAppended ==
  ASSUME Sizes, NEW fl \in FlashType, NEW c \in Bank, NEW o \in 0 .. EE_NB_MAX_ELT - 1, NEW s,
         Used(fl, c, o, s), Unheaded(fl), NEW w \in Word, w # Blank, NEW g, g = Program(fl, c, o, w)
  PROVE  /\ g \in FlashType /\ Used(g, c, o + 1, s) /\ Unheaded(g) /\ Agree(fl, g, Others(c))
         /\ Unopened(fl, c) => Unopened(g, c)
<1>1. c \in Pages /\ c \in Int /\ o \in Slots /\ o \in Nat /\ EE_NB_MAX_ELT \in Nat
  BY BankPages, Numbers DEF Slots
<1>2. c \in PoolOf(c) /\ PoolOf(c) \subseteq Pages /\ Others(c) \subseteq Pages /\ c \notin Others(c)
  BY Pools, BankPages
<1>3. fl[c].el[o] = Blank
  BY <1>1 DEF Used
<1>4. /\ g \in FlashType
      /\ \A q \in Pages : g[q].hdr = fl[q].hdr /\ GetState(g, q) = GetState(fl, q)
      /\ \A q \in Pages \ {c} : g[q] = fl[q]
      /\ \A j \in Slots : g[c].el[j] = IF j = o THEN w ELSE fl[c].el[j]
  BY <1>1, <1>3, ProgramIs
<1>5. \A i \in Slots : g[c].el[i] = Blank <=> i >= o + 1
  <2>1. \A i \in Slots : i \in Int /\ (fl[c].el[i] = Blank <=> i >= o)
    BY Numbers DEF Used, Slots
  <2> QED BY <1>1, <1>4, <2>1
<1>6. \A p \in PoolOf(c) : p > c => fl[p].hdr = {}
  BY <1>1 DEF Used
<1>7. Used(g, c, o + 1, s)
  <2>1. s \in {RECEIVE, ACTIVE} /\ GetState(g, c) = s
    BY <1>2, <1>4 DEF Used
  <2>2. ASSUME NEW p \in PoolOf(c), p < c PROVE GetState(g, p) = VALID /\ Filled(g, p)
    <3>1. p \in Pages \ {c} /\ GetState(fl, p) = VALID /\ Filled(fl, p)
      BY <2>2, BankPages DEF Used
    <3> QED BY <1>4, <3>1 DEF Filled
  <2>3. ASSUME NEW p \in PoolOf(c), p > c PROVE g[p].hdr = {} /\ \A i \in Slots : g[p].el[i] = Blank
    <3>1. p \in Pages \ {c} /\ \A i \in Slots : fl[p].el[i] = Blank
      BY <2>3, BankPages DEF Used
    <3> QED BY <1>4, <1>6, <2>3, <3>1
  <2> QED BY <1>5, <2>1, <2>2, <2>3 DEF Used
<1>8. Unheaded(g)
  <2>1. fl[c].hdr # {}
    BY <1>1, States DEF Used, ERASED, RECEIVE, ACTIVE
  <2> QED BY <1>4, <2>1 DEF Unheaded
<1>9. Agree(fl, g, Others(c))
  BY <1>2, <1>4 DEF Agree
<1>10. Unopened(fl, c) => Unopened(g, c)
  BY <1>4, NextInPool DEF Unopened
<1> QED BY <1>4, <1>7, <1>8, <1>9, <1>10

\* OpenNextPage: the next page gets the state of the full one.
LEMMA UsedOpened ==
  ASSUME Sizes, NEW fl \in FlashType, NEW c \in Bank, NEW s, Used(fl, c, EE_NB_MAX_ELT, s),
         Unheaded(fl), c + 1 \in PoolOf(c), NEW g, g = SetState(fl, c + 1, s)
  PROVE  /\ g \in FlashType /\ Used(g, c, EE_NB_MAX_ELT, s) /\ Unheaded(g) /\ Agree(fl, g, Others(c))
         /\ GetState(g, c + 1) = s /\ \A a : Hits(g, a, c) = Hits(fl, a, c)
<1>1. c \in Pages /\ c \in Int /\ c \in PoolOf(c) /\ PoolOf(c) \subseteq Pages
      /\ s \in {RECEIVE, ACTIVE} /\ s \in RECEIVE .. ERASING
  BY BankPages, Pools DEF Used, RECEIVE, ACTIVE, ERASING
<1>2. g \in FlashType /\ Unheaded(g) /\ Agree(fl, g, Others(c)) /\ \A a : Hits(g, a, c) = Hits(fl, a, c)
  BY <1>1, SetStateElsewhere
<1>3. /\ g[c + 1].hdr = fl[c + 1].hdr \cup {s} /\ \A q \in Pages : g[q].el = fl[q].el
      /\ \A q \in Pages \ {c + 1} : g[q] = fl[q] /\ GetState(g, q) = GetState(fl, q)
  <2>1. PICK n \in Pages : n = c + 1 /\ g = SetState(fl, n, s)
    BY <1>1
  <2>2. ASSUME NEW p \in Pages, NEW t \in RECEIVE .. ERASING, NEW h, h = SetState(fl, p, t)
        PROVE  /\ h[p].hdr = fl[p].hdr \cup {t} /\ \A q \in Pages : h[q].el = fl[q].el
               /\ \A q \in Pages \ {p} : h[q] = fl[q] /\ GetState(h, q) = GetState(fl, q)
    BY <2>2, SetStateIs
  <2>3. s \in RECEIVE .. ERASING
    BY <1>1
  <2>4. /\ g[n].hdr = fl[n].hdr \cup {s} /\ \A q \in Pages : g[q].el = fl[q].el
        /\ \A q \in Pages \ {n} : g[q] = fl[q] /\ GetState(g, q) = GetState(fl, q)
    BY <2>1, <2>2, <2>3
  <2> QED BY <2>1, <2>4
<1>4. fl[c + 1].hdr \subseteq IF s = RECEIVE \/ c = FirstPage(c) THEN {s} ELSE {RECEIVE, ACTIVE}
  BY <1>1, Numbers DEF Used
<1>5. GetState(g, c + 1) = s
  BY <1>1, <1>2, <1>3, <1>4, States DEF RECEIVE, ACTIVE, ERASING
<1>6. Used(g, c, EE_NB_MAX_ELT, s)
  <2>1. s \in {RECEIVE, ACTIVE} /\ GetState(g, c) = s
    BY <1>1, <1>3 DEF Used
  <2>2. ASSUME NEW p \in PoolOf(c), p < c PROVE GetState(g, p) = VALID /\ Filled(g, p)
    <3>1. p \in Pages \ {c + 1} /\ GetState(fl, p) = VALID /\ Filled(fl, p)
      BY <1>1, <2>2, BankPages DEF Used
    <3> QED BY <1>3, <3>1 DEF Filled
  <2>3. \A i \in Slots : g[c].el[i] = Blank <=> i >= EE_NB_MAX_ELT
    BY <1>1, <1>3 DEF Used
  <2>4. ASSUME NEW p \in PoolOf(c), p > c
        PROVE  /\ \A i \in Slots : g[p].el[i] = Blank
               /\ g[p].hdr \subseteq IF p # c + 1 \/ EE_NB_MAX_ELT < EE_NB_MAX_ELT THEN {}
                                     ELSE IF s = RECEIVE \/ c = FirstPage(c) THEN {s}
                                     ELSE {RECEIVE, ACTIVE}
    <3>1. \A i \in Slots : g[p].el[i] = Blank
      BY <1>1, <1>3, <2>4 DEF Used
    <3>2. CASE p = c + 1
      BY <1>1, <1>3, <1>4, <3>1, <3>2, Numbers
    <3>3. CASE p # c + 1
      BY <1>1, <1>3, <2>4, <3>1, <3>3 DEF Used
    <3> QED BY <3>2, <3>3
  <2> QED BY <2>1, <2>2, <2>3, <2>4 DEF Used
<1> QED BY <1>2, <1>5, <1>6

\* ClosePage, FixPrevious: the full page is VALID, the next one is written.
LEMMA UsedClosed ==
  ASSUME Sizes, NEW fl \in FlashType, NEW c \in Bank, NEW s, Used(fl, c, EE_NB_MAX_ELT, s),
         Unheaded(fl), c + 1 \in PoolOf(c), GetState(fl, c + 1) = s,
         NEW g, g = SetState(fl, c, VALID)
  PROVE  /\ g \in FlashType /\ Used(g, c + 1, 0, s) /\ Unheaded(g) /\ Agree(fl, g, Others(c))
         /\ Unopened(g, c + 1) /\ c + 1 \in Bank
         /\ \A a : Hits(g, a, c + 1) = Hits(fl, a, c) /\ ReadEl(g, a, c + 1) = ReadEl(fl, a, c)
<1>1. c \in Pages /\ c \in Int /\ c \in PoolOf(c) /\ PoolOf(c) \subseteq Pages /\ PoolOf(c) \subseteq Bank
      /\ s \in {RECEIVE, ACTIVE} /\ VALID \in RECEIVE .. ERASING
  BY BankPages, Pools DEF Used, RECEIVE, ACTIVE, VALID, ERASING
<1>2. g \in FlashType /\ Unheaded(g) /\ Agree(fl, g, Others(c))
  BY <1>1, SetStateElsewhere
<1>3. /\ \A q \in Pages : g[q].el = fl[q].el
      /\ \A q \in Pages \ {c} : g[q] = fl[q] /\ GetState(g, q) = GetState(fl, q)
      /\ GetState(g, c) = VALID
  <2>1. GetState(fl, c) <= VALID
    BY <1>1 DEF Used, RECEIVE, ACTIVE, VALID
  <2>2. GetState(g, c) = VALID
    BY <1>1, <2>1, SetStateIs
  <2>3. \A q \in Pages : g[q].el = fl[q].el
    BY <1>1, SetStateIs
  <2>4. \A q \in Pages \ {c} : g[q] = fl[q] /\ GetState(g, q) = GetState(fl, q)
    BY <1>1, SetStateIs
  <2> QED BY <2>2, <2>3, <2>4
<1>4. FirstPage(c + 1) = FirstPage(c) /\ PoolOf(c + 1) = PoolOf(c) /\ FirstPage(c) <= c /\ FirstPage(c) \in Int
  <2>1. FirstPage(c) \in Int
    BY Numbers DEF FirstPage
  <2> QED BY Pools, <1>1, <2>1
<1>5. Used(g, c + 1, 0, s)
  <2>1. GetState(g, c + 1) = s
    BY <1>1, <1>3
  <2>2. ASSUME NEW p \in PoolOf(c), p < c + 1 PROVE GetState(g, p) = VALID /\ Filled(g, p)
    <3>1. CASE p = c
      <4>1. \A i \in Slots : ~ (i >= EE_NB_MAX_ELT)
        BY Numbers DEF Slots
      <4> QED BY <1>1, <1>3, <3>1, <4>1 DEF Used, Filled
    <3>2. CASE p # c
      <4>1. p < c /\ p \in Pages
        BY <1>1, <2>2, <3>2, BankPages
      <4> QED BY <1>3, <3>2, <4>1 DEF Used, Filled
    <3> QED BY <3>1, <3>2
  <2>3. \A i \in Slots : g[c + 1].el[i] = Blank <=> i >= 0
    BY <1>1, <1>3, Numbers DEF Used, Slots
  <2>4. ASSUME NEW p \in PoolOf(c), p > c + 1
        PROVE  g[p].hdr = {} /\ \A i \in Slots : g[p].el[i] = Blank
    <3>1. p \in Int /\ p > c /\ p # c + 1 /\ p # c
      BY <1>1, <2>4, BankPages
    <3> QED BY <1>1, <1>3, <3>1 DEF Used
  <2> QED BY <1>1, <1>4, <2>1, <2>2, <2>3, <2>4 DEF Used
<1>6. Unopened(g, c + 1)
  BY <1>1, <1>4 DEF Unopened
<1>7. ASSUME NEW a PROVE Hits(g, a, c + 1) = Hits(fl, a, c) /\ ReadEl(g, a, c + 1) = ReadEl(fl, a, c)
  <2>1. \A p \in FirstPage(c) .. c : g[p].el = fl[p].el
    BY <1>1, <1>3, BankPages
  <2>2. PICK d \in PoolOf(c) : d = c + 1
    OBVIOUS
  <2>3. c <= d /\ d > c /\ \A p \in c + 1 .. d : p = d
    BY <1>1, <2>2
  <2>4. \A p \in c + 1 .. d : \A i \in Slots : g[p].el[i] = Blank
    BY <1>1, <1>3, <2>3 DEF Used
  <2>5. g \in FlashType
    BY <1>2
  <2>6. Hits(g, a, d) = Hits(fl, a, c) /\ ReadEl(g, a, d) = ReadEl(fl, a, c)
    BY <2>1, <2>3, <2>4, <2>5, ReadSame
  <2> QED BY <2>2, <2>6
<1> QED BY <1>1, <1>2, <1>5, <1>6, <1>7

\* Activate: the pool that received is complete.
LEMMA UsedActivated ==
  ASSUME Sizes, NEW fl \in FlashType, NEW c \in Bank, NEW o \in 0 .. EE_NB_MAX_ELT,
         Used(fl, c, o, RECEIVE), Unopened(fl, c), Unheaded(fl), NEW g, g = SetState(fl, c, ACTIVE)
  PROVE  /\ g \in FlashType /\ Used(g, c, o, ACTIVE) /\ Unheaded(g) /\ Agree(fl, g, Others(c))
         /\ Unopened(g, c)
<1>1. c \in Pages /\ c \in Int /\ c \in PoolOf(c) /\ PoolOf(c) \subseteq Pages
      /\ ACTIVE \in RECEIVE .. ERASING
  BY BankPages, Pools DEF RECEIVE, ACTIVE, ERASING
<1>2. g \in FlashType /\ Unheaded(g) /\ Agree(fl, g, Others(c))
  BY <1>1, SetStateElsewhere
<1>3. /\ \A q \in Pages : g[q].el = fl[q].el
      /\ \A q \in Pages \ {c} : g[q] = fl[q] /\ GetState(g, q) = GetState(fl, q)
      /\ GetState(g, c) = ACTIVE
  <2>1. GetState(fl, c) <= ACTIVE
    BY <1>1 DEF Used, RECEIVE, ACTIVE
  <2> QED BY <1>1, <2>1, SetStateIs
<1>4. Unopened(g, c)
  BY <1>1, <1>3, NextInPool DEF Unopened
<1>5. ASSUME NEW p \in PoolOf(c), p > c
      PROVE  /\ \A i \in Slots : g[p].el[i] = Blank
             /\ g[p].hdr \subseteq IF p # c + 1 \/ o < EE_NB_MAX_ELT THEN {}
                                   ELSE IF ACTIVE = RECEIVE \/ c = FirstPage(c) THEN {ACTIVE}
                                   ELSE {RECEIVE, ACTIVE}
  <2>1. g[p] = fl[p] /\ \A i \in Slots : fl[p].el[i] = Blank
    BY <1>3, <1>5, BankPages DEF Used
  <2>2. fl[p].hdr \subseteq IF p # c + 1 \/ o < EE_NB_MAX_ELT THEN {} ELSE {RECEIVE}
    BY <1>5 DEF Used
  <2>3. c = FirstPage(c) /\ p = c + 1 => fl[p].hdr = {}
    BY DEF Unopened
  <2> QED BY <2>1, <2>2, <2>3
<1>6. \A i \in Slots : g[c].el[i] = Blank <=> i >= o
  BY <1>1, <1>3 DEF Used
<1>7. ASSUME NEW p \in PoolOf(c), p < c PROVE GetState(g, p) = VALID /\ Filled(g, p)
  <2>1. p \in Pages \ {c} /\ GetState(fl, p) = VALID /\ Filled(fl, p)
    BY <1>7, BankPages DEF Used
  <2> QED BY <1>3, <2>1 DEF Filled
<1> QED BY <1>2, <1>3, <1>4, <1>5, <1>6, <1>7 DEF Used

\* StartReceive, SetFirstActive: the first page of a blank pool gets a state.
LEMMA UsedStarted ==
  ASSUME Sizes, NEW fl \in FlashType, NEW c \in Bank, c = FirstPage(c), BlankPool(fl, PoolOf(c)),
         Unheaded(fl), NEW s \in {RECEIVE, ACTIVE}, NEW g, g = SetState(fl, c, s)
  PROVE  /\ g \in FlashType /\ Used(g, c, 0, s) /\ Unheaded(g) /\ Agree(fl, g, Others(c))
         /\ Unopened(g, c) /\ \A a : Hits(g, a, c) = {}
<1>1. c \in Pages /\ c \in Int /\ c \in PoolOf(c) /\ PoolOf(c) \subseteq Pages
      /\ s \in RECEIVE .. ERASING
  BY BankPages, Pools DEF RECEIVE, ACTIVE, ERASING
<1>2. g \in FlashType /\ Unheaded(g) /\ Agree(fl, g, Others(c)) /\ \A a : Hits(g, a, c) = Hits(fl, a, c)
  BY <1>1, SetStateElsewhere
<1>3. \A p \in PoolOf(c) : fl[p].hdr = {} /\ GetState(fl, p) = ERASED /\ \A i \in Slots : fl[p].el[i] = Blank
  BY <1>1, BlankState DEF BlankPool
<1>4. /\ \A q \in Pages : g[q].el = fl[q].el
      /\ \A q \in Pages \ {c} : g[q] = fl[q] /\ GetState(g, q) = GetState(fl, q)
      /\ GetState(g, c) = s
  <2>1. GetState(fl, c) <= s
    BY <1>1, <1>3 DEF ERASED, RECEIVE, ACTIVE
  <2> QED BY <1>1, <2>1, SetStateIs
<1>5. ASSUME NEW a PROVE Hits(fl, a, c) = {}
  <2>1. \A p \in FirstPage(c) .. c : \A i \in Slots : fl[p].el[i] \notin Element
    BY <1>3, BankPages, Words
  <2> QED BY <2>1 DEF Hits
<1>6. ASSUME NEW p \in PoolOf(c), p > c PROVE g[p].hdr = {} /\ \A i \in Slots : g[p].el[i] = Blank
  <2>1. p \in Pages \ {c}
    BY <1>6, BankPages
  <2> QED BY <1>3, <1>4, <2>1
<1>7. ASSUME NEW p \in PoolOf(c) PROVE ~ (p < c)
  BY <1>1, Pools, BankPages
<1>8. \A i \in Slots : g[c].el[i] = Blank <=> i >= 0
  BY <1>1, <1>3, <1>4, Numbers DEF Slots
<1>9. Used(g, c, 0, s)
  BY <1>4, <1>6, <1>7, <1>8 DEF Used
<1>10. Unopened(g, c)
  BY <1>1, <1>6, NextInPool DEF Unopened
<1> QED BY <1>2, <1>5, <1>9, <1>10

-----------------------------------------------------------------------------
(* What a power-up finds. *)

\* The flash a power loss may leave: a pool in use and, while it still receives,
\* the source of the transfer; n bounds its torn elements.
Left(fl, c, o, s, n) ==
  /\ Used(fl, c, o, s)
  /\ s = RECEIVE => Source(fl, Others(c)) /\ Placed(c, o) <= Cardinality(Has(fl, c)) + n
  /\ s = ACTIVE => Fading(fl, Others(c))

LEMMA NothingFound ==
  ASSUME NEW fl \in FlashType, BlankPool(fl, Bank)
  PROVE  Found(fl) = {}
<1>1. ASSUME NEW f \in Found(fl) PROVE FALSE
  <2>1. f[1] \in {RECEIVE, ACTIVE} /\ f[2] \in Bank /\ GetState(fl, f[2]) = f[1]
    BY <1>1 DEF Found, Reliable
  <2>2. GetState(fl, f[2]) = ERASED
    BY <2>1, BankPages, BlankState DEF BlankPool
  <2> QED BY <2>1, <2>2 DEF ERASED, RECEIVE, ACTIVE
<1> QED BY <1>1

\* The pool not in use offers no page in state s or below.
LEMMA OthersUnreliable ==
  ASSUME Sizes, NEW fl \in FlashType, NEW c \in Bank, NEW s \in {RECEIVE, ACTIVE},
         s = RECEIVE => Source(fl, Others(c)), s = ACTIVE => Fading(fl, Others(c)),
         NEW t \in {RECEIVE, ACTIVE}, t <= s, NEW q \in Others(c)
  PROVE  ~ Reliable(fl, t, q)
<1>1. CASE s = RECEIVE
  <2>1. t = RECEIVE
    BY <1>1 DEF RECEIVE, ACTIVE
  <2> QED BY <1>1, <2>1 DEF Reliable, Source, RECEIVE, ACTIVE, VALID, ERASING
<1>2. CASE s = ACTIVE
  <2> SUFFICES ASSUME Reliable(fl, t, q) PROVE FALSE
    OBVIOUS
  <2>1. PICK at \in Others(c) : \A p \in Others(c) :
          (p < at => fl[p] = BlankPage) /\ (p > at => GetState(fl, p) = ERASING)
    BY <1>2 DEF Fading
  <2>2. \A p \in Others(c) : p \in Pages /\ p \in Int
    BY BankPages
  <2>3. \A p \in Others(c) : p < at => GetState(fl, p) = ERASED
    BY <2>1, <2>2, BlankState
  <2>4. q = at
    <3>1. GetState(fl, q) \in {RECEIVE, ACTIVE}
      BY DEF Reliable
    <3>2. ~ (q < at) /\ ~ (q > at)
      BY <2>1, <2>3, <3>1 DEF ERASED, RECEIVE, ACTIVE, ERASING
    <3> QED BY <2>2, <3>2
  <2>5. NextPool(c) \in Bank /\ FirstPage(NextPool(c)) = NextPool(c) /\ FirstPage(q) = NextPool(c) /\ q \in Bank
    BY Pools
  <2>6. CASE q = FirstPage(q)
    <3>1. q + 1 \in Others(c)
      BY <2>5, <2>6, NextInPool DEF Others
    <3>2. q + 1 > at
      BY <2>2, <2>4
    <3> QED BY <2>1, <2>6, <3>1, <3>2 DEF Reliable, ERASED, ERASING
  <2>7. CASE q # FirstPage(q)
    <3>1. q - 1 \in Others(c)
      BY <2>5, <2>7, Numbers DEF Others, PoolOf, Bank, FirstPage, NextPool
    <3>2. GetState(fl, q - 1) = ERASED
      BY <2>2, <2>3, <2>4, <3>1
    <3> QED BY <2>7, <3>2 DEF Reliable, ERASED, RECEIVE, ACTIVE, VALID
  <2> QED BY <2>6, <2>7
<1> QED BY <1>1, <1>2

\* EE_Recovery takes the page in use, or the next one when both are marked and
\* no page before confirms the first.
LEMMA Candidates ==
  ASSUME Sizes, NEW fl \in FlashType, NEW c \in Bank, NEW o \in 0 .. EE_NB_MAX_ELT, NEW s, NEW n,
         Left(fl, c, o, s, n)
  PROVE  /\ Found(fl) # {}
         /\ Unopened(fl, c) => Candidate(fl) = <<s, c>>
         /\ ~ Unopened(fl, c) => /\ Candidate(fl) = <<s, c + 1>> /\ c = FirstPage(c)
                                 /\ o = EE_NB_MAX_ELT /\ GetState(fl, c + 1) = s
         /\ c # FirstPage(c) => GetState(fl, c - 1) = VALID
<1>1. /\ c \in Pages /\ c \in Int /\ c \in PoolOf(c) /\ PoolOf(c) \subseteq Pages /\ PoolOf(c) \subseteq Bank
      /\ \A p \in PoolOf(c) : FirstPage(p) = FirstPage(c)
      /\ \A p \in Bank : p \in PoolOf(c) \/ p \in Others(c)
      /\ \A p \in Bank : p \in Int
  BY BankPages, Pools
<1>2. /\ Used(fl, c, o, s) /\ s \in {RECEIVE, ACTIVE} /\ GetState(fl, c) = s
  BY DEF Left, Used
<1>3. c # FirstPage(c) => c - 1 \in PoolOf(c) /\ GetState(fl, c - 1) = VALID
  <2>1. c # FirstPage(c) => c - 1 \in PoolOf(c) /\ c - 1 < c
    BY Numbers DEF PoolOf, Bank, FirstPage
  <2> QED BY <1>2, <2>1 DEF Used
<1>4. c = FirstPage(c) => c + 1 \in PoolOf(c)
  BY NextInPool
<1>5. ~ Unopened(fl, c) => c = FirstPage(c) /\ o = EE_NB_MAX_ELT /\ fl[c + 1].hdr = {s} /\ GetState(fl, c + 1) = s
  <2> SUFFICES ASSUME ~ Unopened(fl, c)
               PROVE  c = FirstPage(c) /\ o = EE_NB_MAX_ELT /\ fl[c + 1].hdr = {s} /\ GetState(fl, c + 1) = s
    OBVIOUS
  <2>1. c = FirstPage(c) /\ fl[c + 1].hdr # {}
    BY DEF Unopened
  <2>2. c + 1 > c /\ c + 1 \in PoolOf(c) /\ c + 1 \in Pages
    BY <1>1, <1>4, <2>1
  <2>3. fl[c + 1].hdr \subseteq IF o < EE_NB_MAX_ELT THEN {} ELSE {s}
    BY <1>2, <2>1, <2>2 DEF Used
  <2>4. o = EE_NB_MAX_ELT /\ fl[c + 1].hdr = {s}
    BY <2>1, <2>3, Numbers
  <2>5. s \in RECEIVE .. ERASING
    BY <1>2 DEF RECEIVE, ACTIVE, ERASING
  <2>6. s <= s
    BY <1>2 DEF RECEIVE, ACTIVE
  <2> QED BY <2>1, <2>2, <2>4, <2>5, <2>6, States
<1> DEFINE m == IF Unopened(fl, c) THEN c ELSE c + 1
<1>6. m \in PoolOf(c) /\ m \in Bank /\ m \in Int /\ Reliable(fl, s, m)
  <2>1. CASE Unopened(fl, c)
    <3>1. c = FirstPage(c) => GetState(fl, c + 1) = ERASED
      BY <1>1, <1>4, <2>1, States DEF Unopened
    <3> QED BY <1>1, <1>2, <1>3, <2>1, <3>1 DEF Reliable
  <2>2. CASE ~ Unopened(fl, c)
    <3>1. m = c + 1 /\ c + 1 \in PoolOf(c) /\ c + 1 # FirstPage(c) /\ (c + 1) - 1 = c
      BY <1>1, <1>4, <1>5, <2>2
    <3> QED BY <1>1, <1>2, <1>5, <2>2, <3>1 DEF Reliable
  <2> QED BY <2>1, <2>2
<1>7. ASSUME NEW t \in {RECEIVE, ACTIVE}, NEW q \in Bank, Reliable(fl, t, q)
      PROVE  t > s \/ (t = s /\ q >= m)
  <2>1. GetState(fl, q) = t
    BY <1>7 DEF Reliable
  <2> SUFFICES ASSUME ~ (t > s) PROVE t = s /\ q >= m
    OBVIOUS
  <2>2. t <= s
    BY <1>2 DEF RECEIVE, ACTIVE
  <2>3. q \in PoolOf(c)
    BY <1>1, <1>2, <1>7, <2>2, OthersUnreliable DEF Left
  <2>4. q >= c
    <3>1. q < c => GetState(fl, q) = VALID
      BY <1>2, <2>3 DEF Used
    <3> QED BY <1>1, <2>1, <3>1 DEF RECEIVE, ACTIVE, VALID
  <2>5. CASE q = c
    <3>1. Unopened(fl, c)
      <4>1. c = FirstPage(c) => GetState(fl, c + 1) = ERASED
        BY <1>7, <2>5 DEF Reliable
      <4> QED BY <1>1, <1>4, <4>1, States DEF Unopened
    <3> QED BY <1>1, <1>2, <2>1, <2>5, <3>1
  <2>6. CASE q # c
    <3>1. q > c /\ q \in Pages
      BY <1>1, <2>3, <2>4, <2>6
    <3>2. fl[q].hdr # {}
      BY <2>1, <3>1, States DEF ERASED, RECEIVE, ACTIVE
    <3>3. q = c + 1
      BY <1>2, <2>3, <3>1, <3>2 DEF Used
    <3>4. q # FirstPage(q) /\ q - 1 = c
      BY <1>1, <2>3, <3>3, Numbers DEF FirstPage, Bank
    <3>5. s \in {t, VALID}
      BY <1>2, <1>7, <3>4 DEF Reliable
    <3> QED BY <1>1, <1>2, <2>4, <3>3, <3>5 DEF RECEIVE, ACTIVE, VALID
  <2> QED BY <2>5, <2>6
<1> HIDE DEF m
<1>8. <<s, m>> \in Found(fl)
  BY <1>2, <1>6 DEF Found
<1>9. ASSUME NEW b \in Found(fl) PROVE Later(b, <<s, m>>) /\ (Later(<<s, m>>, b) => b = <<s, m>>)
  <2>1. b[1] \in {RECEIVE, ACTIVE} /\ b[2] \in Bank /\ Reliable(fl, b[1], b[2]) /\ b = <<b[1], b[2]>>
    BY <1>9 DEF Found
  <2>2. b[1] > s \/ (b[1] = s /\ b[2] >= m)
    BY <1>7, <2>1
  <2>3. b[2] \in Int /\ b[1] \in Int /\ s \in Int
    BY <1>1, <1>2, <2>1 DEF RECEIVE, ACTIVE
  <2> QED BY <1>6, <2>1, <2>2, <2>3 DEF Later
<1>10. Candidate(fl) = <<s, m>>
  <2>1. \E x \in Found(fl) : \A b \in Found(fl) : Later(b, x)
    BY <1>8, <1>9
  <2> DEFINE y == CHOOSE x \in Found(fl) : \A b \in Found(fl) : Later(b, x)
  <2>2. y \in Found(fl) /\ \A b \in Found(fl) : Later(b, y)
    BY <2>1, Zenon
  <2>3. y = Candidate(fl)
    BY DEF Candidate
  <2> HIDE DEF y
  <2> QED BY <1>8, <1>9, <2>2, <2>3
<1> QED BY <1>3, <1>5, <1>8, <1>10 DEF m

-----------------------------------------------------------------------------
(* The invariant: what holds in each phase of a call. *)

Here(s) == /\ Used(flash, Current, pv.next_write_offset, s)
           /\ job.pc # "valid" => Unopened(flash, Current)

\* A transfer under way: the pool in use has room for what is still to copy.
Receiving ==
  /\ Here(RECEIVE) /\ Source(flash, Others(Current))
  /\ pv.nb_written_elements <= Cardinality(Has(flash, Current)) + crashes
  /\ job.op = "write" /\ job.then = "copy" =>
       /\ Marked(flash, Others(Current))
       /\ Has(flash, Current) \subseteq {job.asked.addr} \cup 0 .. job.var - 1

Down ==
  /\ job = Off /\ status = "OFF" /\ pv = FreshVars
  /\ \/ BlankPool(flash, Bank)
     \/ \E c \in Bank, o \in 0 .. EE_NB_MAX_ELT, s \in {RECEIVE, ACTIVE} : Left(flash, c, o, s, crashes)

Idle ==
  /\ job = NoJob /\ status \in {"OK", "CLEAN_NEEDED"} /\ Here(ACTIVE)
  /\ IF status = "CLEAN_NEEDED" THEN Marked(flash, Others(Current))
                                ELSE BlankPool(flash, Others(Current))

Fixing ==
  /\ job.pc = "fix" /\ job.op = "recover" /\ pv = FreshVars
  /\ \E c \in Bank, s \in {RECEIVE, ACTIVE} :
       /\ c = FirstPage(c) /\ job.at = c + 1
       /\ Left(flash, c, EE_NB_MAX_ELT, s, crashes) /\ GetState(flash, c + 1) = s

Erasing ==
  /\ job.pc = "erase"
  /\ \/ /\ job.op = "clean" /\ Here(ACTIVE)
        /\ job.at \in Others(Current) /\ ErasedTo(flash, Others(Current), job.at)
     \/ job.op = "reformat" /\ pv = FreshVars /\ BlankPool(flash, Bank)
     \/ job.op = "format" /\ pv = FreshVars /\ \A p \in Bank : p < job.at => flash[p] = BlankPage

Formatted ==
  /\ job.pc = "first" /\ job.op \in {"format", "reformat"} /\ job.at = 0 /\ pv = FreshVars
  /\ BlankPool(flash, Bank)

Sweeping ==
  /\ job.pc = "sweep" /\ job.op = "recover" /\ Here(ACTIVE) /\ FromTheFirst(flash, Others(Current))

Pending ==
  /\ job.pc \in {"el", "valid"} /\ job.op \in {"write", "recover"} /\ job.el \in Element
  /\ IF job.then = "done"
       THEN /\ Here(ACTIVE) /\ BlankPool(flash, Others(Current)) /\ pv.nb_written_elements < Capacity
       ELSE /\ Receiving /\ Hits(flash, job.el.addr, Current) = {}
            /\ job.then = "mark" => Has(flash, Current) = {}
  /\ job.op = "recover" => job.then = "copy"
  /\ job.op = "write" =>
       /\ job.asked \in Element
       /\ job.then # "copy" => job.el = job.asked
       /\ job.then = "copy" => job.el.addr < job.var /\ job.el.addr # job.asked.addr
  /\ job.pc = "valid" => /\ Full /\ Current + 1 \in PoolOf(Current)
                         /\ GetState(flash, Current + 1) = GetState(flash, Current)

Starting ==
  /\ job.pc = "receive" /\ job.op = "write" /\ job.then = "done"
  /\ job.el \in Element /\ job.asked = job.el
  /\ Here(ACTIVE) /\ BlankPool(flash, Others(Current)) /\ pv.nb_written_elements >= Capacity

Moving ==
  /\ job.pc \in {"mark", "copy", "activate"} /\ Receiving /\ job.op \in {"write", "recover"}
  /\ job.op = "write" => /\ job.asked \in Element
                         /\ job.then = IF job.pc = "mark" THEN "mark" ELSE "copy"
  /\ job.pc = "mark" => job.op = "write" /\ Has(flash, Current) = {job.asked.addr}

Global ==
  /\ TypeOK /\ Unheaded(flash) /\ Current \in Bank
  /\ pv.nb_written_elements = Placed(Current, pv.next_write_offset)

Inv == /\ Global
       /\ \/ Down \/ Idle \/ Fixing \/ Erasing \/ Formatted \/ Sweeping
          \/ Pending \/ Starting \/ Moving

LEMMA Phases ==
  ASSUME Inv
  PROVE  /\ Global
         /\ job.pc = "off" => Down
         /\ job.pc = "idle" => Idle
         /\ job.pc = "fix" => Fixing
         /\ job.pc = "erase" => Erasing
         /\ job.pc = "first" => Formatted
         /\ job.pc = "sweep" => Sweeping
         /\ job.pc \in {"el", "valid"} => Pending
         /\ job.pc = "receive" => Starting
         /\ job.pc \in {"mark", "copy", "activate"} => Moving
<1>1. /\ Down => job.pc = "off"
      /\ Idle => job.pc = "idle"
  BY DEF Down, Idle, Off, NoJob
<1>2. /\ Fixing => job.pc = "fix"
      /\ Erasing => job.pc = "erase"
      /\ Formatted => job.pc = "first"
      /\ Sweeping => job.pc = "sweep"
      /\ Pending => job.pc \in {"el", "valid"}
      /\ Starting => job.pc = "receive"
      /\ Moving => job.pc \in {"mark", "copy", "activate"}
  BY DEF Fixing, Erasing, Formatted, Sweeping, Pending, Starting, Moving
<1> QED BY <1>1, <1>2 DEF Inv

JobType ==
  [pc : {"off", "idle", "el", "valid", "receive", "mark", "copy",
         "activate", "fix", "sweep", "erase", "first"},
   op : {"none", "write", "clean", "recover", "reformat", "format"},
   asked : Element \cup {None}, el : Element \cup {None},
   then : {"done", "mark", "copy"}, var : 0 .. Capacity, at : Bank]

PvType ==
  [current_write_page : Pages, nb_written_elements : 0 .. Capacity,
   next_write_offset : 0 .. EE_NB_MAX_ELT]

PlaceOf(v) ==
  /\ v \in PvType /\ v.current_write_page \in Bank
  /\ v.nb_written_elements = Placed(v.current_write_page, v.next_write_offset)

LEMMA GlobalIs ==
  Global <=> /\ flash \in FlashType /\ Unheaded(flash) /\ PlaceOf(pv) /\ job \in JobType
             /\ status \in {"OFF", "OK", "CLEAN_NEEDED", "ERROR", "STATE_ERROR"}
             /\ crashes \in 0 .. MaxCrashes
<1>1. TypeOK <=> /\ flash \in FlashType /\ pv \in PvType /\ job \in JobType
                 /\ status \in {"OFF", "OK", "CLEAN_NEEDED", "ERROR", "STATE_ERROR"}
                 /\ crashes \in 0 .. MaxCrashes
  BY Zenon DEF TypeOK, FlashType, PvType, JobType
<1> QED BY <1>1, Zenon DEF Global, PlaceOf, Current

LEMMA GlobalNext ==
  ASSUME flash' \in FlashType, Unheaded(flash'), PlaceOf(pv'), job' \in JobType,
         status' \in {"OFF", "OK", "CLEAN_NEEDED", "ERROR", "STATE_ERROR"},
         crashes' \in 0 .. MaxCrashes
  PROVE  Global'
<1>1. TypeOK'
  BY DEF PlaceOf, TypeOK, FlashType, PvType, JobType
<1> QED BY <1>1 DEF Global, PlaceOf, Current

\* What the steps use of the invariant's common part.
LEMMA Known ==
  ASSUME Global
  PROVE  /\ flash \in FlashType /\ Unheaded(flash) /\ PlaceOf(pv) /\ job \in JobType
         /\ status \in {"OFF", "OK", "CLEAN_NEEDED", "ERROR", "STATE_ERROR"}
         /\ crashes \in 0 .. MaxCrashes /\ crashes \in Nat
         /\ Current \in Bank /\ pv.next_write_offset \in 0 .. EE_NB_MAX_ELT
         /\ pv.nb_written_elements \in 0 .. Capacity
         /\ pv.nb_written_elements = Placed(Current, pv.next_write_offset)
         /\ job.at \in Bank /\ job.var \in 0 .. Capacity
<1>1. crashes \in 0 .. MaxCrashes => crashes \in Nat
  BY Numbers
<1>2. PlaceOf(pv) => /\ Current \in Bank /\ pv.next_write_offset \in 0 .. EE_NB_MAX_ELT
                     /\ pv.nb_written_elements \in 0 .. Capacity
                     /\ pv.nb_written_elements = Placed(Current, pv.next_write_offset)
  BY DEF PlaceOf, PvType, Current
<1>3. job \in JobType => job.at \in Bank /\ job.var \in 0 .. Capacity
  BY DEF JobType
<1> QED BY <1>1, <1>2, <1>3, GlobalIs

LEMMA ZeroIs ==
  /\ 0 \in Bank /\ FirstPage(0) = 0 /\ PlaceOf(FreshVars)
  /\ FreshVars.current_write_page = 0 /\ FreshVars.next_write_offset = 0
  /\ FreshVars.nb_written_elements = 0
<1>1. 0 \in Bank /\ FirstPage(0) = 0
  BY Numbers DEF Bank, FirstPage
<1>2. /\ FreshVars.current_write_page = 0 /\ FreshVars.next_write_offset = 0
      /\ FreshVars.nb_written_elements = 0
  BY DEF FreshVars
<1>3. EE_NB_MAX_ELT * (0 - 0) = 0
  BY Numbers
<1>4. Placed(0, 0) = 0
  BY <1>1, <1>3 DEF Placed
<1>5. FreshVars \in PvType
  BY <1>1, Numbers DEF FreshVars, PvType
<1> QED BY <1>1, <1>2, <1>4, <1>5 DEF PlaceOf

LEMMA CallTypes ==
  /\ NoJob \in JobType /\ Off \in JobType /\ Reformat \in JobType
  /\ NoJob.pc = "idle" /\ Off.pc = "off"
  /\ Reformat.pc = "erase" /\ Reformat.op = "reformat" /\ Reformat.at = 0
<1>1. 0 \in Bank /\ 0 \in 0 .. Capacity
  BY ZeroIs, Numbers
<1> QED BY <1>1 DEF NoJob, Off, Reformat, JobType

LEMMA InvAtStart == Init => Inv
<1> SUFFICES ASSUME Init PROVE Inv
  OBVIOUS
<1>1. flash \in FlashType /\ BlankPool(flash, Bank) /\ Unheaded(flash)
  BY BlankPageIs, Numbers DEF Init, FlashType, BlankPool, Unheaded
<1>2. /\ PlaceOf(pv) /\ job \in JobType /\ crashes \in 0 .. MaxCrashes
      /\ status = "OFF" /\ job = Off /\ pv = FreshVars
  BY ZeroIs, CallTypes, Numbers DEF Init
<1>3. Global
  BY <1>1, <1>2, GlobalIs
<1> QED BY <1>1, <1>2, <1>3 DEF Inv, Down

\* When the step leaves flash and place alone and says where it goes on.
LEMMA SameFlash ==
  ASSUME Global, UNCHANGED <<flash, pv, crashes>>, job' \in JobType,
         status' \in {"OFF", "OK", "CLEAN_NEEDED", "ERROR", "STATE_ERROR"}
  PROVE  Global'
<1>1. /\ flash' \in FlashType /\ Unheaded(flash') /\ PlaceOf(pv') /\ crashes' \in 0 .. MaxCrashes
  BY Known
<1> QED BY <1>1, GlobalNext

-----------------------------------------------------------------------------
(* Power-up. *)

\* EE_Recovery sets the place by the page it takes.
LEMMA Adopting ==
  ASSUME NEW fl \in FlashType, NEW c \in Bank, NEW o \in 0 .. EE_NB_MAX_ELT, NEW s,
         Used(fl, c, o, s), NEW v,
         v = [current_write_page |-> c,
              nb_written_elements |-> Written(fl, c) + EE_NB_MAX_ELT * (c - FirstPage(c)),
              next_write_offset |-> Written(fl, c)]
  PROVE  PlaceOf(v) /\ v.current_write_page = c /\ v.next_write_offset = o
         /\ v.nb_written_elements = Placed(c, o)
<1>1. Written(fl, c) = o
  BY UsedTypes
<1>2. Placed(c, o) = o + EE_NB_MAX_ELT * (c - FirstPage(c)) /\ Placed(c, o) \in 0 .. Capacity
  BY Places DEF Placed
<1>3. /\ v.current_write_page = c /\ v.next_write_offset = o /\ v.nb_written_elements = Placed(c, o)
      /\ v = [current_write_page |-> c, nb_written_elements |-> Placed(c, o), next_write_offset |-> o]
  BY <1>1, <1>2
<1>4. c \in Pages
  BY BankPages
<1> QED BY <1>2, <1>3, <1>4 DEF PlaceOf, PvType

\* What follows the adoption of page p: the transfer or the sweep.
Adopted(p, s) ==
  [NoJob EXCEPT !.op = "recover", !.pc = IF s = RECEIVE THEN "copy" ELSE "sweep"]

LEMMA AdoptedIs ==
  ASSUME NEW p, NEW s
  PROVE  /\ Adopted(p, s) \in JobType /\ Adopted(p, s).op = "recover"
         /\ Adopted(p, s).pc = IF s = RECEIVE THEN "copy" ELSE "sweep"
<1>1. NoJob \in JobType
  BY CallTypes
<1> QED BY <1>1 DEF Adopted, JobType

LEMMA FadingIs ==
  ASSUME NEW fl \in FlashType, NEW c \in Bank
  PROVE  /\ BlankPool(fl, Others(c)) => Fading(fl, Others(c))
         /\ Marked(fl, Others(c)) => Fading(fl, Others(c))
         /\ \A at \in Others(c) : ErasedTo(fl, Others(c), at) => Fading(fl, Others(c))
         /\ Fading(fl, Others(c)) => FromTheFirst(fl, Others(c))
         /\ Source(fl, Others(c)) => FromTheFirst(fl, Others(c))
<1>1. /\ Others(c) \subseteq Pages /\ \A p \in Others(c) : p \in Int
      /\ NextPool(c) \in Others(c) /\ LastPage(NextPool(c)) \in Others(c)
      /\ \A p \in Others(c) : p <= LastPage(NextPool(c)) /\ NextPool(c) <= p
  <2>1. NextPool(c) \in Bank /\ FirstPage(NextPool(c)) = NextPool(c)
    BY Pools
  <2> QED BY <2>1, Pools, BankPages DEF Others
<1>2. BlankPool(fl, Others(c)) => Fading(fl, Others(c))
  <2>1. \A p \in Others(c) : ~ (p > LastPage(NextPool(c)))
    BY <1>1
  <2> QED BY <1>1, <2>1 DEF BlankPool, Fading
<1>3. Marked(fl, Others(c)) => Fading(fl, Others(c))
  <2>1. \A p \in Others(c) : ~ (p < NextPool(c))
    BY <1>1
  <2> QED BY <1>1, <2>1 DEF Marked, Fading
<1>4. ASSUME NEW at \in Others(c), ErasedTo(fl, Others(c), at) PROVE Fading(fl, Others(c))
  <2>1. \A p \in Others(c) : p > at => ~ (p < at)
    BY <1>1
  <2> QED BY <1>4, <2>1 DEF ErasedTo, Fading
<1>5. ASSUME Fading(fl, Others(c)) PROVE FromTheFirst(fl, Others(c))
  <2>1. PICK at \in Others(c) : \A p \in Others(c) :
          (p < at => fl[p] = BlankPage) /\ (p > at => GetState(fl, p) = ERASING)
    BY <1>5 DEF Fading
  <2>2. ASSUME NEW p \in Others(c), NEW q \in Others(c), p < q, GetState(fl, p) # ERASED
        PROVE  GetState(fl, q) # ERASED
    <3>1. ~ (p < at)
      BY <1>1, <2>1, <2>2, BlankState
    <3>2. q > at
      BY <1>1, <2>2, <3>1
    <3> QED BY <2>1, <3>2 DEF ERASED, ERASING
  <2> QED BY <2>2 DEF FromTheFirst
<1>6. Source(fl, Others(c)) => FromTheFirst(fl, Others(c))
  BY DEF Source, FromTheFirst, ERASED, ACTIVE, VALID, ERASING
<1> QED BY <1>2, <1>3, <1>4, <1>5, <1>6

\* The call that recovery continues with, from the flash as it is then.
LEMMA Recovering ==
  ASSUME Sizes, Global, NEW c \in Bank, NEW o \in 0 .. EE_NB_MAX_ELT, NEW s,
         flash' \in FlashType, Unheaded(flash'), Left(flash', c, o, s, crashes), Unopened(flash', c),
         job' = Adopted(c, s), pv'.current_write_page = c, pv'.next_write_offset = o,
         pv'.nb_written_elements = Placed(c, o), PlaceOf(pv'), UNCHANGED <<status, crashes>>
  PROVE  Inv'
<1>1. job' \in JobType /\ job'.op = "recover" /\ job'.pc = IF s = RECEIVE THEN "copy" ELSE "sweep"
  BY AdoptedIs
<1>2. Global'
  BY <1>1, Known, GlobalNext
<1>3. Used(flash', c, o, s) /\ s \in {RECEIVE, ACTIVE} /\ Here(s)'
  BY DEF Left, Used, Here, Current
<1>4. CASE s = RECEIVE
  <2>1. Receiving'
    BY <1>1, <1>3, <1>4 DEF Left, Receiving, Current
  <2>2. Moving'
    BY <1>1, <1>4, <2>1 DEF Moving
  <2> QED BY <1>2, <2>2 DEF Inv
<1>5. CASE s = ACTIVE
  <2>1. job'.pc = "sweep"
    BY <1>1, <1>5 DEF RECEIVE, ACTIVE
  <2>2. FromTheFirst(flash', Others(c))
    BY <1>5, FadingIs DEF Left
  <2>3. Sweeping'
    BY <1>1, <1>3, <1>5, <2>1, <2>2 DEF Sweeping, Current
  <2> QED BY <1>2, <2>3 DEF Inv
<1> QED BY <1>3, <1>4, <1>5

LEMMA PowerUpTakes ==
  ASSUME Sizes, Global, PowerUp, NEW c \in Bank, NEW o \in 0 .. EE_NB_MAX_ELT, NEW s,
         Left(flash, c, o, s, crashes)
  PROVE  /\ Unopened(flash, c) =>
              /\ job' = Adopted(c, s) /\ PlaceOf(pv') /\ pv'.current_write_page = c
              /\ pv'.next_write_offset = o /\ pv'.nb_written_elements = Placed(c, o)
         /\ ~ Unopened(flash, c) =>
              /\ job' = [NoJob EXCEPT !.pc = "fix", !.op = "recover", !.at = c + 1] /\ pv' = pv
              /\ c = FirstPage(c) /\ o = EE_NB_MAX_ELT /\ GetState(flash, c + 1) = s
<1>1. flash \in FlashType
  BY Known
<1>2. /\ Found(flash) # {}
      /\ Unopened(flash, c) => Candidate(flash) = <<s, c>>
      /\ ~ Unopened(flash, c) => /\ Candidate(flash) = <<s, c + 1>> /\ c = FirstPage(c)
                                 /\ o = EE_NB_MAX_ELT /\ GetState(flash, c + 1) = s
      /\ c # FirstPage(c) => GetState(flash, c - 1) = VALID
  BY <1>1, Candidates
<1>3. /\ Used(flash, c, o, s) /\ GetState(flash, c) = s /\ s # VALID
  BY DEF Left, Used, RECEIVE, ACTIVE, VALID
<1>4. CASE Unopened(flash, c)
  <2>1. Adopt(c)
    <3>1. Candidate(flash)[1] = s /\ Candidate(flash)[2] = c
      BY <1>2, <1>4
    <3>2. ~ (c # FirstPage(c) /\ GetState(flash, c - 1) = s)
      BY <1>2, <1>3
    <3> QED BY <1>2, <3>1, <3>2 DEF PowerUp
  <2>2. job' = Adopted(c, s)
    BY <1>3, <2>1 DEF Adopt, Adopted
  <2>3. PlaceOf(pv') /\ pv'.current_write_page = c /\ pv'.next_write_offset = o
        /\ pv'.nb_written_elements = Placed(c, o)
    BY <1>1, <1>3, <2>1, Adopting DEF Adopt
  <2> QED BY <1>4, <2>2, <2>3
<1>5. CASE ~ Unopened(flash, c)
  <2>1. Candidate(flash)[1] = s /\ Candidate(flash)[2] = c + 1 /\ c = FirstPage(c) /\ o = EE_NB_MAX_ELT
        /\ GetState(flash, c + 1) = s
    BY <1>2, <1>5
  <2>2. c + 1 \in PoolOf(c) /\ c \in Int /\ FirstPage(c + 1) = c
    BY <2>1, NextInPool, BankPages, Pools
  <2>3. (c + 1) - 1 = c /\ c + 1 # FirstPage(c + 1)
    BY <2>2
  <2>4. job' = [NoJob EXCEPT !.pc = "fix", !.op = "recover", !.at = c + 1] /\ pv' = pv
    BY <1>2, <1>3, <2>1, <2>3 DEF PowerUp
  <2> QED BY <1>5, <2>1, <2>4
<1> QED BY <1>4, <1>5

LEMMA PowerUpKeeps == ASSUME Sizes, Inv, PowerUp PROVE Inv'
<1>1. /\ Down /\ Global /\ UNCHANGED <<flash, status, crashes>> /\ flash \in FlashType /\ Unheaded(flash)
      /\ status \in {"OFF", "OK", "CLEAN_NEEDED", "ERROR", "STATE_ERROR"}
  BY Phases, Known DEF PowerUp
<1>2. CASE BlankPool(flash, Bank)
  <2>1. job' = Reformat /\ pv' = pv
    BY <1>1, <1>2, NothingFound DEF PowerUp
  <2>2. Global'
    BY <1>1, <2>1, CallTypes, SameFlash
  <2>3. Erasing'
    BY <1>1, <1>2, <2>1, CallTypes DEF Erasing, Down
  <2> QED BY <2>2, <2>3 DEF Inv
<1>3. CASE ~ BlankPool(flash, Bank)
  <2>1. PICK c \in Bank, o \in 0 .. EE_NB_MAX_ELT, s \in {RECEIVE, ACTIVE} : Left(flash, c, o, s, crashes)
    BY <1>1, <1>3 DEF Down
  <2>2. CASE Unopened(flash, c)
    <3>1. job' = Adopted(c, s) /\ PlaceOf(pv') /\ pv'.current_write_page = c
          /\ pv'.next_write_offset = o /\ pv'.nb_written_elements = Placed(c, o)
      BY <1>1, <2>1, <2>2, PowerUpTakes
    <3> QED BY <1>1, <2>1, <2>2, <3>1, Recovering
  <2>3. CASE ~ Unopened(flash, c)
    <3>1. /\ job' = [NoJob EXCEPT !.pc = "fix", !.op = "recover", !.at = c + 1] /\ pv' = pv
          /\ c = FirstPage(c) /\ o = EE_NB_MAX_ELT /\ GetState(flash, c + 1) = s
      BY <1>1, <2>1, <2>3, PowerUpTakes
    <3>2. c + 1 \in Bank
      BY <3>1, NextInPool, Pools
    <3>3. job' \in JobType /\ job'.pc = "fix" /\ job'.op = "recover" /\ job'.at = c + 1
      BY <3>1, <3>2, CallTypes DEF JobType
    <3>4. Global'
      BY <1>1, <3>1, <3>3, SameFlash
    <3>5. Fixing'
      BY <1>1, <2>1, <3>1, <3>3 DEF Fixing, Down
    <3> QED BY <3>4, <3>5 DEF Inv
  <2> QED BY <2>2, <2>3
<1> QED BY <1>2, <1>3

LEMMA FixKeeps == ASSUME Sizes, Inv, FixPrevious PROVE Inv'
<1>1. /\ Fixing /\ Global /\ UNCHANGED <<status, crashes>> /\ flash \in FlashType /\ Unheaded(flash)
      /\ flash' = SetState(flash, job.at - 1, VALID) /\ Adopt(job.at)
  BY Phases, Known DEF FixPrevious
<1>2. PICK c \in Bank, s \in {RECEIVE, ACTIVE} :
        /\ c = FirstPage(c) /\ job.at = c + 1
        /\ Left(flash, c, EE_NB_MAX_ELT, s, crashes) /\ GetState(flash, c + 1) = s
  BY <1>1 DEF Fixing
<1>3. Used(flash, c, EE_NB_MAX_ELT, s) /\ c + 1 \in PoolOf(c) /\ c \in Int /\ job.at - 1 = c
      /\ GetState(flash, job.at) = s /\ 0 \in 0 .. EE_NB_MAX_ELT
  BY <1>2, NextInPool, BankPages, Numbers DEF Left
<1>4. PICK d \in Bank : d = c + 1 /\ d \in PoolOf(c) /\ Others(d) = Others(c) /\ d # c
  BY <1>3, Pools
<1>5. /\ flash' \in FlashType /\ Used(flash', c + 1, 0, s) /\ Unheaded(flash')
      /\ Agree(flash, flash', Others(c)) /\ Unopened(flash', c + 1)
      /\ \A a : Hits(flash', a, c + 1) = Hits(flash, a, c)
  BY <1>1, <1>2, <1>3, UsedClosed
<1>6. GetState(flash', d) = s
  BY <1>4, <1>5 DEF Used
<1>7. Placed(d, 0) = Placed(c, EE_NB_MAX_ELT)
  BY <1>3, <1>4, Places
<1>8. Left(flash', d, 0, s, crashes)
  <2>1. Has(flash', d) = Has(flash, c)
    BY <1>4, <1>5 DEF Has
  <2>2. s = RECEIVE => Source(flash', Others(c))
    BY <1>1, <1>2, <1>5, PoolSame DEF Left
  <2>3. s = ACTIVE => Fading(flash', Others(c))
    BY <1>1, <1>2, <1>5, PoolSame DEF Left
  <2> QED BY <1>2, <1>4, <1>5, <1>7, <2>1, <2>2, <2>3 DEF Left
<1>9. GetState(flash, d) = s
  BY <1>2, <1>4
<1>10. job' = Adopted(d, s)
  BY <1>1, <1>2, <1>4, <1>9 DEF Adopt, Adopted
<1>11. Written(flash, d) = 0
  <2>1. flash[d].el = flash'[d].el
    <3>1. d \in Pages /\ c \in Pages /\ VALID \in RECEIVE .. ERASING
      BY <1>4, BankPages DEF VALID, RECEIVE, ERASING
    <3> QED BY <1>1, <1>3, <3>1, SetStateIs
  <2>2. Written(flash', d) = 0
    BY <1>3, <1>4, <1>5, UsedTypes
  <2> QED BY <2>1, <2>2 DEF Written
<1>12. Written(flash', d) = 0
  BY <1>3, <1>4, <1>5, UsedTypes
<1>13. PlaceOf(pv') /\ pv'.current_write_page = d /\ pv'.next_write_offset = 0
       /\ pv'.nb_written_elements = Placed(d, 0)
  <2>1. pv' = [current_write_page |-> d,
               nb_written_elements |-> Written(flash', d) + EE_NB_MAX_ELT * (d - FirstPage(d)),
               next_write_offset |-> Written(flash', d)]
    BY <1>1, <1>2, <1>4, <1>11, <1>12 DEF Adopt
  <2> QED BY <1>3, <1>4, <1>5, <2>1, Adopting
<1> QED BY <1>1, <1>3, <1>4, <1>5, <1>8, <1>10, <1>13, Recovering

-----------------------------------------------------------------------------
(* Erasing: the sweep of recovery, a clean, a format. *)

LEMMA ErasedElsewhere ==
  ASSUME NEW fl \in FlashType, NEW c \in Bank, NEW p \in Others(c), Unheaded(fl),
         NEW g, g = Erase(fl, p)
  PROVE  /\ g \in FlashType /\ Unheaded(g) /\ Agree(fl, g, PoolOf(c))
         /\ g[p] = BlankPage /\ GetState(g, p) = ERASED
         /\ \A q \in Others(c) \ {p} : g[q] = fl[q] /\ GetState(g, q) = GetState(fl, q)
<1>1. p \in Pages /\ p \notin PoolOf(c) /\ PoolOf(c) \subseteq Pages /\ Others(c) \subseteq Pages
  BY Pools, BankPages
<1>2. /\ g \in FlashType /\ g[p] = BlankPage /\ GetState(g, p) = ERASED
      /\ \A q \in Pages \ {p} : g[q] = fl[q] /\ GetState(g, q) = GetState(fl, q)
  BY <1>1, EraseIs
<1>3. Unheaded(g)
  BY <1>2 DEF Unheaded
<1>4. Agree(fl, g, PoolOf(c))
  BY <1>1, <1>2 DEF Agree
<1> QED BY <1>1, <1>2, <1>3, <1>4

\* The pool in use is as it was.
LEMMA StillHere ==
  ASSUME Sizes, Global, NEW s, Here(s), flash' \in FlashType, Agree(flash, flash', PoolOf(Current)),
         UNCHANGED pv, job.pc # "valid"
  PROVE  /\ Here(s)' /\ Has(flash', Current) = Has(flash, Current)
         /\ \A a : Hits(flash', a, Current) = Hits(flash, a, Current)
<1>1. Current \in Bank /\ flash \in FlashType /\ Current' = Current
  BY Known DEF Current
<1>2. Used(flash', Current, pv.next_write_offset, s)
  BY <1>1, UsedSame DEF Here
<1>3. Unopened(flash', Current)
  BY <1>1, UsedSame DEF Here
<1>4. Has(flash', Current) = Has(flash, Current) /\ \A a : Hits(flash', a, Current) = Hits(flash, a, Current)
  BY <1>1, UsedSame
<1> QED BY <1>1, <1>2, <1>3, <1>4 DEF Here

LEMMA SweepPageKeeps == ASSUME Sizes, Inv, SweepPage PROVE Inv'
<1>1. /\ Sweeping /\ Global /\ UNCHANGED <<pv, job, status, crashes>> /\ Unerased # {} /\ job.pc = "sweep"
      /\ flash' = Erase(flash, Lowest(Unerased)) /\ flash \in FlashType /\ Unheaded(flash)
      /\ PlaceOf(pv) /\ job \in JobType /\ Current \in Bank /\ crashes \in 0 .. MaxCrashes
      /\ status \in {"OFF", "OK", "CLEAN_NEEDED", "ERROR", "STATE_ERROR"}
  BY Phases, Known DEF SweepPage
<1>2. Unerased = {p \in Others(Current) : GetState(flash, p) # ERASED}
  BY DEF Unerased, Others
<1>3. Others(Current) \subseteq Pages /\ \A p \in Others(Current) : p \in Int
  BY <1>1, BankPages
<1>4. PICK p : p = Lowest(Unerased)
  OBVIOUS
<1>5. p \in Others(Current) /\ GetState(flash, p) # ERASED /\ \A q \in Unerased : p <= q
  <2>1. Unerased \in SUBSET Pages
    BY <1>2, <1>3
  <2>2. p \in Unerased /\ \A q \in Unerased : p <= q
    BY <1>1, <1>4, <2>1, LowestHighest
  <2> QED BY <1>2, <2>2
<1>6. /\ flash' \in FlashType /\ Unheaded(flash') /\ Agree(flash, flash', PoolOf(Current))
      /\ GetState(flash', p) = ERASED
      /\ \A q \in Others(Current) \ {p} : GetState(flash', q) = GetState(flash, q)
  BY <1>1, <1>4, <1>5, ErasedElsewhere
<1>7. Global'
  BY <1>1, <1>6, GlobalNext
<1>8. Here(ACTIVE)'
  BY <1>1, <1>6, StillHere DEF Sweeping
<1>9. FromTheFirst(flash', Others(Current))
  <2>1. ASSUME NEW x \in Others(Current), NEW y \in Others(Current), x < y, GetState(flash', x) # ERASED
        PROVE  GetState(flash', y) # ERASED
    <3>1. x # p /\ GetState(flash, x) # ERASED
      BY <1>6, <2>1
    <3>2. x \in Unerased /\ p <= x
      BY <1>2, <1>5, <3>1
    <3>3. y # p
      BY <1>3, <1>5, <2>1, <3>2
    <3>4. GetState(flash, y) # ERASED
      BY <1>1, <2>1, <3>1 DEF Sweeping, FromTheFirst
    <3> QED BY <1>6, <3>3, <3>4
  <2> QED BY <2>1 DEF FromTheFirst
<1>10. Sweeping'
  BY <1>1, <1>8, <1>9 DEF Sweeping, Current
<1> QED BY <1>7, <1>10 DEF Inv

LEMMA SweepDoneKeeps == ASSUME Sizes, Inv, SweepDone PROVE Inv'
<1>1. /\ Sweeping /\ Global /\ UNCHANGED <<flash, pv, crashes>> /\ Unerased = {} /\ job.pc = "sweep"
      /\ flash \in FlashType /\ Unheaded(flash) /\ Current \in Bank
      /\ job' = NoJob /\ status' = "OK" /\ job'.pc = "idle" /\ job' \in JobType
  BY Phases, Known, CallTypes DEF SweepDone, Done
<1>2. BlankPool(flash, Others(Current))
  <2>1. ASSUME NEW p \in Others(Current) PROVE flash[p] = BlankPage
    <3>1. p \in Pages /\ GetState(flash, p) = ERASED
      BY <1>1, BankPages DEF Unerased, Others
    <3> QED BY <1>1, <3>1, States DEF Unheaded
  <2> QED BY <2>1 DEF BlankPool
<1>3. Global'
  BY <1>1, SameFlash
<1>4. Idle'
  BY <1>1, <1>2 DEF Idle, Sweeping, Here, Current
<1> QED BY <1>3, <1>4 DEF Inv

LEMMA CleanKeeps ==
  ASSUME Sizes, Inv, ErasePage, job.op = "clean"
  PROVE  Inv'
<1>1. /\ Erasing /\ Global /\ UNCHANGED <<pv, crashes>> /\ job.pc = "erase"
      /\ flash' = Erase(flash, job.at) /\ flash \in FlashType /\ Unheaded(flash)
      /\ PlaceOf(pv) /\ job \in JobType /\ Current \in Bank /\ crashes \in 0 .. MaxCrashes
      /\ status \in {"OFF", "OK", "CLEAN_NEEDED", "ERROR", "STATE_ERROR"}
  BY Phases, Known DEF ErasePage
<1>2. Here(ACTIVE) /\ job.at \in Others(Current) /\ ErasedTo(flash, Others(Current), job.at)
  BY <1>1 DEF Erasing
<1>3. /\ flash' \in FlashType /\ Unheaded(flash') /\ Agree(flash, flash', PoolOf(Current))
      /\ flash'[job.at] = BlankPage
      /\ \A q \in Others(Current) \ {job.at} : flash'[q] = flash[q] /\ GetState(flash', q) = GetState(flash, q)
  BY <1>1, <1>2, ErasedElsewhere
<1>4. Here(ACTIVE)' /\ Current' = Current
  BY <1>1, <1>2, <1>3, StillHere DEF Current
<1>5. /\ LastErased = LastPage(NextPool(Current)) /\ \A p \in Others(Current) : p \in Int /\ p <= LastErased
      /\ job.at # LastErased => job.at + 1 \in Others(Current) /\ job.at + 1 \in Bank
  <2>1. FirstPage(job.at) = NextPool(Current) /\ FirstPage(NextPool(Current)) = NextPool(Current)
        /\ NextPool(Current) \in Bank
    BY <1>1, <1>2, Pools
  <2>2. LastErased = LastPage(NextPool(Current))
    BY <2>1 DEF LastErased, LastPage
  <2>3. \A p \in Others(Current) : p \in Int /\ p <= LastErased
    BY <1>1, <2>1, <2>2, Pools, BankPages DEF Others
  <2>4. job.at # LastErased => job.at + 1 \in Others(Current) /\ job.at + 1 \in Bank
    BY <1>1, <1>2, <2>2, Pools
  <2> QED BY <2>2, <2>3, <2>4
<1>6. CASE job.at # LastErased
  <2>1. job' = [job EXCEPT !.at = @ + 1] /\ UNCHANGED status
    BY <1>6 DEF ErasePage
  <2>2. job' \in JobType /\ job'.pc = "erase" /\ job'.op = "clean" /\ job'.at = job.at + 1
    BY <1>1, <1>5, <1>6, <2>1 DEF JobType
  <2>3. Global'
    BY <1>1, <1>3, <2>1, <2>2, GlobalNext
  <2>4. ErasedTo(flash', Others(Current), job.at + 1)
    <3>1. ASSUME NEW p \in Others(Current)
          PROVE  IF p < job.at + 1 THEN flash'[p] = BlankPage ELSE GetState(flash', p) = ERASING
      <4>1. p \in Int /\ job.at \in Int
        BY <1>2, <1>5
      <4>2. CASE p = job.at
        BY <1>3, <4>1, <4>2
      <4>3. CASE p # job.at
        <5>1. p < job.at + 1 <=> p < job.at
          BY <4>1, <4>3
        <5> QED BY <1>2, <1>3, <4>3, <5>1 DEF ErasedTo
      <4> QED BY <4>2, <4>3
    <3> QED BY <3>1 DEF ErasedTo
  <2>5. Erasing'
    BY <1>4, <1>5, <1>6, <2>2, <2>4 DEF Erasing
  <2> QED BY <2>3, <2>5 DEF Inv
<1>7. CASE job.at = LastErased
  <2>1. job' = NoJob /\ status' = "OK" /\ job' \in JobType
    BY <1>7, CallTypes DEF ErasePage, Done
  <2>2. Global'
    BY <1>1, <1>3, <2>1, GlobalNext
  <2>3. BlankPool(flash', Others(Current))
    <3>1. ASSUME NEW p \in Others(Current) PROVE flash'[p] = BlankPage
      <4>1. CASE p = job.at
        BY <1>3, <4>1
      <4>2. CASE p # job.at
        <5>1. p < job.at
          BY <1>2, <1>5, <1>7, <4>2
        <5> QED BY <1>2, <1>3, <4>2, <5>1 DEF ErasedTo
      <4> QED BY <4>1, <4>2
    <3> QED BY <3>1 DEF BlankPool
  <2>4. Idle'
    BY <1>4, <2>1, <2>3 DEF Idle
  <2> QED BY <2>2, <2>4 DEF Inv
<1> QED BY <1>6, <1>7

LEMMA FormatKeeps ==
  ASSUME Sizes, Inv, ErasePage, job.op # "clean"
  PROVE  Inv'
<1>1. /\ Erasing /\ Global /\ UNCHANGED <<pv, crashes>> /\ job.pc = "erase"
      /\ flash' = Erase(flash, job.at) /\ flash \in FlashType /\ Unheaded(flash)
      /\ PlaceOf(pv) /\ job \in JobType /\ job.at \in Bank /\ crashes \in 0 .. MaxCrashes
      /\ status \in {"OFF", "OK", "CLEAN_NEEDED", "ERROR", "STATE_ERROR"}
  BY Phases, Known DEF ErasePage
<1>2. /\ job.op \in {"reformat", "format"} /\ pv = FreshVars
      /\ job.op = "reformat" => BlankPool(flash, Bank)
      /\ job.op = "format" => \A p \in Bank : p < job.at => flash[p] = BlankPage
  BY <1>1 DEF Erasing
<1>3. /\ flash' \in FlashType /\ flash'[job.at] = BlankPage
      /\ \A q \in Pages \ {job.at} : flash'[q] = flash[q]
      /\ \A q \in Bank : q \in Pages /\ q \in Int
  BY <1>1, EraseIs, BankPages
<1>4. Unheaded(flash')
  BY <1>1, <1>3 DEF Unheaded
<1>5. LastErased = 2 * nb_pages - 1 /\ \A q \in Bank : q <= LastErased
  BY Numbers DEF LastErased, Bank
<1>6. job.op = "reformat" => BlankPool(flash', Bank)
  BY <1>2, <1>3 DEF BlankPool
<1>7. job.op = "format" => \A p \in Bank : p < job.at + 1 => flash'[p] = BlankPage
  <2>1. ASSUME job.op = "format", NEW p \in Bank, p < job.at + 1 PROVE flash'[p] = BlankPage
    <3>1. p = job.at \/ p < job.at
      BY <1>1, <1>3, <2>1
    <3>2. p # job.at => p \in Pages \ {job.at}
      BY <1>3
    <3> QED BY <1>2, <1>3, <2>1, <3>1, <3>2
  <2> QED BY <2>1
<1>8. CASE job.at # LastErased
  <2>1. job' = [job EXCEPT !.at = @ + 1] /\ UNCHANGED status
    BY <1>8 DEF ErasePage
  <2>2. job.at + 1 \in Bank
    BY <1>1, <1>5, <1>8, Numbers DEF Bank
  <2>3. job' \in JobType /\ job'.pc = "erase" /\ job'.op = job.op /\ job'.at = job.at + 1
    BY <1>1, <2>1, <2>2 DEF JobType
  <2>4. Global'
    BY <1>1, <1>3, <1>4, <2>1, <2>3, GlobalNext
  <2>5. Erasing'
    BY <1>1, <1>2, <1>6, <1>7, <2>3 DEF Erasing
  <2> QED BY <2>4, <2>5 DEF Inv
<1>9. CASE job.at = LastErased
  <2>1. job' = [job EXCEPT !.pc = "first", !.at = 0] /\ UNCHANGED status
    BY <1>9 DEF ErasePage
  <2>2. job' \in JobType /\ job'.pc = "first" /\ job'.op = job.op /\ job'.at = 0
    BY <1>1, <2>1, ZeroIs DEF JobType
  <2>3. Global'
    BY <1>1, <1>3, <1>4, <2>1, <2>2, GlobalNext
  <2>4. BlankPool(flash', Bank)
    <3>1. \A p \in Bank : p < job.at + 1
      BY <1>3, <1>5, <1>9
    <3>2. job.op = "format" => BlankPool(flash', Bank)
      BY <1>7, <3>1 DEF BlankPool
    <3> QED BY <1>2, <1>6, <3>2
  <2>5. Formatted'
    BY <1>1, <1>2, <2>2, <2>4 DEF Formatted
  <2> QED BY <2>3, <2>5 DEF Inv
<1> QED BY <1>8, <1>9

LEMMA SetFirstKeeps == ASSUME Sizes, Inv, SetFirstActive PROVE Inv'
<1>1. /\ Formatted /\ Global /\ UNCHANGED <<pv, crashes>>
      /\ flash' = SetState(flash, 0, ACTIVE) /\ flash \in FlashType /\ Unheaded(flash)
      /\ crashes \in 0 .. MaxCrashes
      /\ job' = NoJob /\ status' = "OK" /\ job'.pc = "idle" /\ job' \in JobType
  BY Phases, Known, CallTypes DEF SetFirstActive, Done
<1>2. PICK c \in Bank : c = 0 /\ c = FirstPage(c)
  BY ZeroIs
<1>3. PoolOf(c) \subseteq Bank /\ Others(c) \subseteq Bank
  BY Pools
<1>4. BlankPool(flash, PoolOf(c)) /\ BlankPool(flash, Others(c))
  BY <1>1, <1>3 DEF Formatted, BlankPool
<1>5. /\ flash' \in FlashType /\ Used(flash', c, 0, ACTIVE) /\ Unheaded(flash')
      /\ Agree(flash, flash', Others(c)) /\ Unopened(flash', c)
  BY <1>1, <1>2, <1>4, UsedStarted
<1>6. BlankPool(flash', Others(c))
  BY <1>1, <1>4, <1>5, PoolSame
<1>7. PlaceOf(pv') /\ Current' = c /\ pv'.next_write_offset = 0
  BY <1>1, <1>2, ZeroIs DEF Formatted, Current
<1>8. Global'
  BY <1>1, <1>5, <1>7, GlobalNext
<1>9. Idle'
  BY <1>1, <1>5, <1>6, <1>7 DEF Idle, Here
<1> QED BY <1>8, <1>9 DEF Inv

-----------------------------------------------------------------------------
(* A call starts. *)

LEMMA WriteKeeps ==
  ASSUME Sizes, Inv, NEW a \in Addr, NEW d \in Data, EEE_Write(a, d)
  PROVE  Inv'
<1>1. /\ Idle /\ Global /\ UNCHANGED <<flash, pv, crashes>> /\ status # "CLEAN_NEEDED"
      /\ flash \in FlashType /\ Current \in Bank /\ NoJob \in JobType
      /\ pv.nb_written_elements \in 0 .. Capacity
      /\ status \in {"OFF", "OK", "CLEAN_NEEDED", "ERROR", "STATE_ERROR"}
  BY Phases, Known, CallTypes DEF EEE_Write, Ready
<1>2. Here(ACTIVE) /\ BlankPool(flash, Others(Current)) /\ Unopened(flash, Current)
  BY <1>1 DEF Idle, Here, NoJob
<1>3. GetState(flash, NextPool(Current)) = ERASED
  <2>1. NextPool(Current) \in Others(Current) /\ NextPool(Current) \in Pages
    BY <1>1, Pools, BankPages
  <2> QED BY <1>1, <1>2, <2>1, BlankState DEF BlankPool
<1> DEFINE e == [addr |-> a, data |-> d]
           appending == [NoJob EXCEPT !.pc = "el", !.op = "write", !.asked = e, !.el = e]
<1>4. e \in Element
  BY DEF Element
<1>5. /\ appending \in JobType /\ appending.pc = "el" /\ appending.op = "write"
      /\ appending.asked = e /\ appending.el = e /\ appending.then = "done"
  BY <1>1, <1>4 DEF JobType, NoJob
<1>6. UNCHANGED status /\ \/ job' = appending /\ pv.nb_written_elements < Capacity
                          \/ job' = [appending EXCEPT !.pc = "receive"] /\ pv.nb_written_elements >= Capacity
  BY <1>3 DEF EEE_Write
<1> HIDE DEF e, appending
<1>7. CASE job' = appending /\ pv.nb_written_elements < Capacity
  <2>1. Global'
    BY <1>1, <1>5, <1>6, <1>7, SameFlash
  <2>2. Pending'
    BY <1>1, <1>2, <1>4, <1>5, <1>7 DEF Pending, Here, Current
  <2> QED BY <2>1, <2>2 DEF Inv
<1>8. CASE job' = [appending EXCEPT !.pc = "receive"] /\ pv.nb_written_elements >= Capacity
  <2>1. /\ job' \in JobType /\ job'.pc = "receive" /\ job'.op = "write"
        /\ job'.asked = e /\ job'.el = e /\ job'.then = "done"
    BY <1>5, <1>8 DEF JobType
  <2>2. Global'
    BY <1>1, <1>6, <2>1, SameFlash
  <2>3. Starting'
    BY <1>1, <1>2, <1>4, <1>8, <2>1 DEF Starting, Here, Current
  <2> QED BY <2>2, <2>3 DEF Inv
<1> QED BY <1>6, <1>7, <1>8

LEMMA CleanStarts == ASSUME Sizes, Inv, EEE_Clean PROVE Inv'
<1>1. /\ Idle /\ Global /\ UNCHANGED <<flash, pv, crashes>> /\ status = "CLEAN_NEEDED"
      /\ flash \in FlashType /\ Current \in Bank /\ NoJob \in JobType
      /\ status \in {"OFF", "OK", "CLEAN_NEEDED", "ERROR", "STATE_ERROR"}
  BY Phases, Known, CallTypes DEF EEE_Clean
<1>2. Here(ACTIVE) /\ Marked(flash, Others(Current)) /\ Unopened(flash, Current)
  BY <1>1 DEF Idle, Here, NoJob
<1>3. /\ NextPool(Current) \in Others(Current) /\ NextPool(Current) \in Bank
      /\ \A p \in Others(Current) : p \in Int /\ NextPool(Current) <= p
  <2>1. NextPool(Current) \in Bank /\ FirstPage(NextPool(Current)) = NextPool(Current)
    BY <1>1, Pools
  <2> QED BY <1>1, <2>1, Pools, BankPages DEF Others
<1>4. job' = [NoJob EXCEPT !.pc = "erase", !.op = "clean", !.at = NextPool(Current)] /\ UNCHANGED status
  BY <1>2, <1>3 DEF EEE_Clean, Marked
<1>5. job' \in JobType /\ job'.pc = "erase" /\ job'.op = "clean" /\ job'.at = NextPool(Current)
  BY <1>1, <1>3, <1>4 DEF JobType
<1>6. Global'
  BY <1>1, <1>4, <1>5, SameFlash
<1>7. ErasedTo(flash, Others(Current), NextPool(Current))
  <2>1. \A p \in Others(Current) : ~ (p < NextPool(Current))
    BY <1>1, <1>3, BankPages
  <2> QED BY <1>2, <2>1 DEF ErasedTo, Marked
<1>8. Erasing'
  BY <1>1, <1>2, <1>3, <1>5, <1>7 DEF Erasing, Here, Current
<1> QED BY <1>6, <1>8 DEF Inv

LEMMA EraseStarts == ASSUME Sizes, Inv, NVM_Erase PROVE Inv'
<1>1. /\ Global /\ UNCHANGED <<flash, status, crashes>> /\ pv' = FreshVars
      /\ flash \in FlashType /\ Unheaded(flash) /\ crashes \in 0 .. MaxCrashes
      /\ status \in {"OFF", "OK", "CLEAN_NEEDED", "ERROR", "STATE_ERROR"}
      /\ job' = [Reformat EXCEPT !.op = "format"]
  BY Phases, Known DEF NVM_Erase
<1>2. job' \in JobType /\ job'.pc = "erase" /\ job'.op = "format" /\ job'.at = 0
  BY <1>1, CallTypes DEF JobType
<1>3. Global'
  BY <1>1, <1>2, ZeroIs, GlobalNext
<1>4. \A p \in Bank : ~ (p < 0)
  BY Numbers DEF Bank
<1>5. Erasing'
  BY <1>1, <1>2, <1>4 DEF Erasing
<1> QED BY <1>3, <1>5 DEF Inv

-----------------------------------------------------------------------------
(* An element is appended. *)

\* The next page is there when the one in use is full.
LEMMA RoomFor ==
  ASSUME Sizes, Global, Pending
  PROVE  /\ pv.nb_written_elements < Capacity
         /\ Full => pv.next_write_offset = EE_NB_MAX_ELT /\ Current + 1 \in PoolOf(Current)
<1>1. /\ Current \in Bank /\ pv.next_write_offset \in 0 .. EE_NB_MAX_ELT /\ crashes \in 0 .. MaxCrashes
      /\ pv.nb_written_elements = Placed(Current, pv.next_write_offset)
      /\ pv.nb_written_elements \in 0 .. Capacity
  BY Known
<1>2. pv.nb_written_elements < Capacity
  <2>1. CASE job.then = "done"
    BY <2>1 DEF Pending
  <2>2. CASE job.then # "done"
    <3>1. /\ pv.nb_written_elements <= Cardinality(Has(flash, Current)) + crashes
          /\ job.el.addr \in Addr \ Has(flash, Current)
      BY <2>2 DEF Pending, Receiving, Has, Element
    <3>2. /\ Cardinality(Has(flash, Current)) + 1 <= Cardinality(Addr)
          /\ Cardinality(Has(flash, Current)) \in Nat /\ Cardinality(Addr) \in Nat
      BY <3>1, Counting
    <3>3. Cardinality(Addr) + MaxCrashes <= Capacity
      BY DEF Sizes
    <3> QED BY <1>1, <3>1, <3>2, <3>3, Numbers
  <2> QED BY <2>1, <2>2
<1>3. Full => pv.next_write_offset = EE_NB_MAX_ELT
  BY <1>1, Numbers DEF Full
<1> QED BY <1>1, <1>2, <1>3, Places

LEMMA PendingPlace ==
  ASSUME Sizes, Global, Pending
  PROVE  /\ Used(flash, Current, pv.next_write_offset, GetState(flash, Current))
         /\ GetState(flash, Current) = IF job.then = "done" THEN ACTIVE ELSE RECEIVE
         /\ job.pc = "el" => Unopened(flash, Current)
  BY DEF Pending, Receiving, Here, Used

\* A step of an append that keeps the pools as they are but for the pages written.
LEMMA PendingOn ==
  ASSUME Sizes, Global, Pending, flash' \in FlashType, Agree(flash, flash', Others(Current)),
         pv'.nb_written_elements = pv.nb_written_elements, crashes' = crashes,
         job' \in JobType, job'.pc \in {"el", "valid"}, job'.op = job.op, job'.el = job.el,
         job'.then = job.then, job'.asked = job.asked, job'.var = job.var,
         Others(Current') = Others(Current),
         Used(flash', Current', pv'.next_write_offset, GetState(flash, Current)),
         job'.pc = "el" => Unopened(flash', Current'),
         \A a : Hits(flash', a, Current') = Hits(flash, a, Current),
         job'.pc = "valid" => /\ Full' /\ Current' + 1 \in PoolOf(Current')
                              /\ GetState(flash', Current' + 1) = GetState(flash', Current')
  PROVE  Pending'
<1>1. flash \in FlashType /\ Current \in Bank
  BY Known
<1>2. Has(flash', Current') = Has(flash, Current)
  BY DEF Has
<1>3. job.then = "done" => Here(ACTIVE)'
  BY PendingPlace DEF Here, Current
<1>4. job.then # "done" => Here(RECEIVE)'
  BY PendingPlace DEF Here, Current
<1>5. CASE job.then = "done"
  <2>1. BlankPool(flash, Others(Current))
    BY <1>5 DEF Pending
  <2>2. BlankPool(flash', Others(Current'))
    BY <1>1, <2>1, PoolSame
  <2> QED BY <1>3, <1>5, <2>2 DEF Pending
<1>6. CASE job.then # "done"
  <2>1. Receiving
    BY <1>6 DEF Pending
  <2>2. Source(flash', Others(Current'))
    <3>1. Source(flash, Others(Current))
      BY <2>1 DEF Receiving
    <3> QED BY <1>1, <3>1, PoolSame
  <2>3. Marked(flash, Others(Current)) => Marked(flash', Others(Current'))
    BY <1>1, PoolSame
  <2>4. Receiving'
    BY <1>2, <1>4, <1>6, <2>1, <2>2, <2>3 DEF Receiving
  <2> QED BY <1>2, <1>6, <2>4 DEF Pending
<1> QED BY <1>5, <1>6

LEMMA OpenKeeps == ASSUME Sizes, Inv, OpenNextPage PROVE Inv'
<1>1. /\ Pending /\ Global /\ UNCHANGED <<pv, status, crashes>> /\ Full /\ job.pc = "el"
      /\ flash' = SetState(flash, Current + 1, GetState(flash, Current)) /\ flash \in FlashType
      /\ Unheaded(flash) /\ PlaceOf(pv) /\ job \in JobType /\ Current \in Bank /\ crashes \in 0 .. MaxCrashes
      /\ status \in {"OFF", "OK", "CLEAN_NEEDED", "ERROR", "STATE_ERROR"}
      /\ job' = [job EXCEPT !.pc = "valid"]
  BY Phases, Known DEF OpenNextPage
<1>2. /\ pv.next_write_offset = EE_NB_MAX_ELT /\ Current + 1 \in PoolOf(Current)
  BY <1>1, RoomFor
<1>3. PICK s : s = GetState(flash, Current)
  OBVIOUS
<1>4. Used(flash, Current, EE_NB_MAX_ELT, s)
  BY <1>1, <1>2, <1>3, PendingPlace
<1>5. /\ flash' \in FlashType /\ Used(flash', Current, EE_NB_MAX_ELT, s) /\ Unheaded(flash')
      /\ Agree(flash, flash', Others(Current)) /\ GetState(flash', Current + 1) = s
      /\ \A a : Hits(flash', a, Current) = Hits(flash, a, Current)
  BY <1>1, <1>2, <1>3, <1>4, UsedOpened
<1>6. /\ job' \in JobType /\ job'.pc = "valid" /\ job'.op = job.op /\ job'.el = job.el
      /\ job'.then = job.then /\ job'.asked = job.asked /\ job'.var = job.var
  BY <1>1 DEF JobType
<1>7. Global'
  BY <1>1, <1>5, <1>6, GlobalNext
<1>8. Current' = Current /\ Full' /\ GetState(flash', Current) = s
  BY <1>1, <1>5 DEF Current, Full, Used
<1>9. Pending'
  BY <1>1, <1>2, <1>3, <1>5, <1>6, <1>8, PendingOn
<1> QED BY <1>7, <1>9 DEF Inv

LEMMA CloseKeeps == ASSUME Sizes, Inv, ClosePage PROVE Inv'
<1>1. /\ Pending /\ Global /\ UNCHANGED <<status, crashes>> /\ job.pc = "valid"
      /\ flash' = SetState(flash, Current, VALID) /\ flash \in FlashType
      /\ Unheaded(flash) /\ PlaceOf(pv) /\ job \in JobType /\ Current \in Bank /\ crashes \in 0 .. MaxCrashes
      /\ status \in {"OFF", "OK", "CLEAN_NEEDED", "ERROR", "STATE_ERROR"}
      /\ job' = [job EXCEPT !.pc = "el"]
      /\ pv' = [pv EXCEPT !.current_write_page = @ + 1, !.next_write_offset = 0]
      /\ pv.nb_written_elements = Placed(Current, pv.next_write_offset)
  BY Phases, Known DEF ClosePage
<1>2. Full /\ GetState(flash, Current + 1) = GetState(flash, Current)
  BY <1>1 DEF Pending
<1>3. /\ pv.next_write_offset = EE_NB_MAX_ELT /\ Current + 1 \in PoolOf(Current)
  BY <1>1, <1>2, RoomFor
<1>4. PICK s : s = GetState(flash, Current)
  OBVIOUS
<1>5. Used(flash, Current, EE_NB_MAX_ELT, s)
  BY <1>1, <1>3, <1>4, PendingPlace
<1>6. /\ flash' \in FlashType /\ Used(flash', Current + 1, 0, s) /\ Unheaded(flash')
      /\ Agree(flash, flash', Others(Current)) /\ Unopened(flash', Current + 1) /\ Current + 1 \in Bank
      /\ \A a : Hits(flash', a, Current + 1) = Hits(flash, a, Current)
  BY <1>1, <1>2, <1>3, <1>4, <1>5, UsedClosed
<1>7. /\ job' \in JobType /\ job'.pc = "el" /\ job'.op = job.op /\ job'.el = job.el
      /\ job'.then = job.then /\ job'.asked = job.asked /\ job'.var = job.var
  BY <1>1 DEF JobType
<1>8. /\ pv' \in PvType /\ pv'.current_write_page = Current + 1 /\ pv'.next_write_offset = 0
      /\ pv'.nb_written_elements = pv.nb_written_elements /\ Current' = Current + 1
  <2>1. Current + 1 \in Pages
    BY <1>6, BankPages
  <2>2. 0 \in 0 .. EE_NB_MAX_ELT
    BY Numbers
  <2> QED BY <1>1, <2>1, <2>2 DEF PlaceOf, PvType, Current
<1>9. Placed(Current + 1, 0) = Placed(Current, EE_NB_MAX_ELT)
  <2>1. 0 \in 0 .. EE_NB_MAX_ELT
    BY Numbers
  <2> QED BY <1>1, <1>3, <2>1, Places
<1>10. PlaceOf(pv')
  BY <1>1, <1>3, <1>6, <1>8, <1>9 DEF PlaceOf
<1>11. Global'
  BY <1>1, <1>6, <1>7, <1>10, GlobalNext
<1>12. Others(Current') = Others(Current)
  BY <1>1, <1>3, <1>8, Pools
<1>13. Pending'
  BY <1>1, <1>4, <1>6, <1>7, <1>8, <1>12, PendingOn
<1> QED BY <1>11, <1>13 DEF Inv

LEMMA AppendKeeps == ASSUME Sizes, Inv, AppendElement PROVE Inv'
<1>1. /\ Pending /\ Global /\ UNCHANGED crashes /\ ~ Full /\ job.pc = "el"
      /\ flash' = Program(flash, Current, pv.next_write_offset, job.el) /\ flash \in FlashType
      /\ Unheaded(flash) /\ PlaceOf(pv) /\ job \in JobType /\ Current \in Bank
      /\ crashes \in 0 .. MaxCrashes /\ crashes \in Nat
      /\ status \in {"OFF", "OK", "CLEAN_NEEDED", "ERROR", "STATE_ERROR"}
      /\ pv' = [pv EXCEPT !.next_write_offset = @ + 1, !.nb_written_elements = @ + 1]
      /\ pv.nb_written_elements = Placed(Current, pv.next_write_offset)
      /\ pv.next_write_offset \in 0 .. EE_NB_MAX_ELT /\ pv.nb_written_elements \in 0 .. Capacity
  BY Phases, Known DEF AppendElement
<1>2. PICK o \in 0 .. EE_NB_MAX_ELT - 1 : o = pv.next_write_offset
  BY <1>1, Numbers DEF Full
<1>3. o \in Slots /\ o \in 0 .. EE_NB_MAX_ELT /\ o + 1 \in 0 .. EE_NB_MAX_ELT /\ o < EE_NB_MAX_ELT
  BY Numbers DEF Slots
<1>4. PICK s : s = GetState(flash, Current)
  OBVIOUS
<1>5. Used(flash, Current, o, s) /\ Unopened(flash, Current)
  BY <1>1, <1>2, <1>4, PendingPlace
<1>6. job.el \in Element /\ job.el \in Word /\ job.el # Blank
  BY <1>1, Words DEF Pending
<1>7. /\ flash' \in FlashType /\ Used(flash', Current, o + 1, s) /\ Unheaded(flash')
      /\ Agree(flash, flash', Others(Current)) /\ Unopened(flash', Current)
  BY <1>1, <1>2, <1>5, <1>6, UsedAppended
<1>8. \A a : /\ a = job.el.addr => Hits(flash', a, Current) # {}
             /\ a # job.el.addr => Hits(flash', a, Current) = Hits(flash, a, Current)
  <2>1. \A i \in Slots : i >= o => flash[Current].el[i] = Blank
    BY <1>5 DEF Used
  <2> QED BY <1>1, <1>2, <1>3, <1>6, <2>1, ReadAppended
<1>9. /\ pv' \in PvType /\ Current' = Current /\ pv'.next_write_offset = o + 1
      /\ pv'.nb_written_elements = pv.nb_written_elements + 1
      /\ pv'.nb_written_elements = Placed(Current, o + 1)
  <2>1. pv.nb_written_elements < Capacity
    BY <1>1, RoomFor
  <2>2. pv.nb_written_elements + 1 \in 0 .. Capacity
    BY <1>1, <2>1, Numbers
  <2>3. Placed(Current, o + 1) = pv.nb_written_elements + 1
    BY <1>1, <1>2, <1>3, Places
  <2> QED BY <1>1, <1>2, <1>3, <2>2, <2>3 DEF PlaceOf, PvType, Current
<1>10. PlaceOf(pv')
  BY <1>1, <1>9 DEF PlaceOf, Current
<1>11. CASE job.then = "done"
  <2>1. job' = NoJob /\ status' = "OK" /\ job' \in JobType /\ job'.pc = "idle"
    BY <1>11, CallTypes DEF AppendElement, Done
  <2>2. Global'
    BY <1>1, <1>7, <1>10, <2>1, GlobalNext
  <2>3. BlankPool(flash', Others(Current)) /\ s = ACTIVE
    BY <1>1, <1>4, <1>7, <1>11, PendingPlace, PoolSame DEF Pending
  <2>4. Idle'
    BY <1>7, <1>9, <2>1, <2>3 DEF Idle, Here
  <2> QED BY <2>2, <2>4 DEF Inv
<1>12. CASE job.then # "done"
  <2>1. job' = [job EXCEPT !.pc = job.then, !.el = None] /\ UNCHANGED status
    BY <1>12 DEF AppendElement
  <2>2. /\ job' \in JobType /\ job'.pc = job.then /\ job'.then = job.then /\ job.then \in {"mark", "copy"}
        /\ job'.op = job.op /\ job'.asked = job.asked /\ job'.var = job.var
    BY <1>1, <1>12, <2>1 DEF JobType
  <2>3. Global'
    BY <1>1, <1>7, <1>10, <2>1, <2>2, GlobalNext
  <2>4. /\ Receiving /\ job.el.addr \in Addr \ Has(flash, Current) /\ s = RECEIVE
        /\ job.then = "mark" => Has(flash, Current) = {}
    BY <1>1, <1>4, <1>12, PendingPlace DEF Pending, Has, Element
  <2>5. Has(flash', Current) = Has(flash, Current) \cup {job.el.addr}
    BY <1>8, <2>4 DEF Has
  <2>6. pv'.nb_written_elements <= Cardinality(Has(flash', Current)) + crashes'
    <3>1. Cardinality(Has(flash', Current)) = Cardinality(Has(flash, Current)) + 1
          /\ Cardinality(Has(flash, Current)) \in Nat
      BY <2>4, <2>5, Counting
    <3>2. pv.nb_written_elements <= Cardinality(Has(flash, Current)) + crashes
      BY <2>4 DEF Receiving
    <3> QED BY <1>1, <1>9, <3>1, <3>2
  <2>7. Source(flash', Others(Current)) /\ (Marked(flash, Others(Current)) => Marked(flash', Others(Current)))
    <3>1. Source(flash, Others(Current))
      BY <2>4 DEF Receiving
    <3> QED BY <1>1, <1>7, <3>1, PoolSame
  <2>8. ASSUME job.op = "write", job.then = "copy"
        PROVE  /\ Marked(flash', Others(Current))
               /\ Has(flash', Current) \subseteq {job.asked.addr} \cup 0 .. job.var - 1
    <3>1. /\ Marked(flash, Others(Current))
          /\ Has(flash, Current) \subseteq {job.asked.addr} \cup 0 .. job.var - 1
      BY <2>4, <2>8 DEF Receiving
    <3>2. job.el.addr < job.var /\ job.var \in Int /\ job.el.addr \in Nat
      BY <1>1, <2>8, <2>4, Numbers DEF Pending, JobType
    <3>3. job.el.addr \in 0 .. job.var - 1
      BY <3>2
    <3> QED BY <2>5, <2>7, <3>1, <3>3
  <2>9. Here(RECEIVE)'
    BY <1>7, <1>9, <2>4 DEF Here
  <2>10. Receiving'
    BY <1>9, <2>2, <2>6, <2>7, <2>8, <2>9 DEF Receiving
  <2>11. Moving'
    BY <1>1, <1>9, <2>2, <2>4, <2>5, <2>10 DEF Moving, Pending
  <2> QED BY <2>3, <2>11 DEF Inv
<1> QED BY <1>11, <1>12

-----------------------------------------------------------------------------
(* A transfer. *)

LEMMA FullPool ==
  ASSUME NEW fl \in FlashType, NEW c \in Bank, Used(fl, c, EE_NB_MAX_ELT, ACTIVE), c = LastPage(c)
  PROVE  Source(fl, PoolOf(c))
<1>1. \A p \in PoolOf(c) : p = c \/ p < c
  BY Pools, BankPages
<1>2. Filled(fl, c)
  <2>1. \A i \in Slots : ~ (i >= EE_NB_MAX_ELT)
    BY Numbers DEF Slots
  <2> QED BY <2>1 DEF Used, Filled
<1> QED BY <1>1, <1>2 DEF Used, Source

LEMMA ReceiveKeeps == ASSUME Sizes, Inv, StartReceive PROVE Inv'
<1>1. /\ Starting /\ Global /\ UNCHANGED <<status, crashes>>
      /\ flash' = SetState(flash, NextPool(Current), RECEIVE) /\ flash \in FlashType
      /\ Unheaded(flash) /\ PlaceOf(pv) /\ job \in JobType /\ Current \in Bank
      /\ crashes \in 0 .. MaxCrashes /\ crashes \in Nat
      /\ status \in {"OFF", "OK", "CLEAN_NEEDED", "ERROR", "STATE_ERROR"}
      /\ pv' = [FreshVars EXCEPT !.current_write_page = NextPool(Current)]
      /\ job' = [job EXCEPT !.pc = "el", !.then = "mark"]
      /\ pv.nb_written_elements = Placed(Current, pv.next_write_offset)
      /\ pv.next_write_offset \in 0 .. EE_NB_MAX_ELT
  BY Phases, Known DEF StartReceive
<1>2. /\ Here(ACTIVE) /\ BlankPool(flash, Others(Current)) /\ pv.nb_written_elements >= Capacity
      /\ job.op = "write" /\ job.el \in Element /\ job.asked = job.el
  BY <1>1 DEF Starting
<1>3. pv.next_write_offset = EE_NB_MAX_ELT /\ Current = LastPage(Current)
  BY <1>1, <1>2, Places
<1>4. Source(flash, PoolOf(Current))
  BY <1>1, <1>2, <1>3, FullPool DEF Here
<1>5. PICK c \in Bank : c = NextPool(Current)
  BY <1>1, Pools
<1>6. c = FirstPage(c) /\ PoolOf(c) = Others(Current) /\ Others(c) = PoolOf(Current)
  BY <1>1, <1>5, Pools DEF Others
<1>7. /\ flash' \in FlashType /\ Used(flash', c, 0, RECEIVE) /\ Unheaded(flash')
      /\ Agree(flash, flash', Others(c)) /\ Unopened(flash', c) /\ \A a : Hits(flash', a, c) = {}
  BY <1>1, <1>2, <1>5, <1>6, UsedStarted
<1>8. /\ job' \in JobType /\ job'.pc = "el" /\ job'.op = "write" /\ job'.then = "mark"
      /\ job'.el = job.el /\ job'.asked = job.asked
  BY <1>1, <1>2 DEF JobType
<1>9. /\ PlaceOf(pv') /\ Current' = c /\ pv'.next_write_offset = 0 /\ pv'.nb_written_elements = 0
  <2>1. EE_NB_MAX_ELT * (c - c) = 0 /\ Placed(c, 0) = EE_NB_MAX_ELT * (c - c)
    <3>1. c \in Int /\ EE_NB_MAX_ELT \in Int
      BY BankPages, Numbers
    <3>2. c - c = 0 /\ EE_NB_MAX_ELT * 0 = 0
      BY <3>1
    <3> QED BY <1>6, <3>2 DEF Placed
  <2>2. c \in Pages /\ 0 \in 0 .. Capacity /\ 0 \in 0 .. EE_NB_MAX_ELT
    BY BankPages, Numbers
  <2>3. pv' = [current_write_page |-> c, nb_written_elements |-> 0, next_write_offset |-> 0]
    BY <1>1, <1>5 DEF FreshVars
  <2> QED BY <2>1, <2>2, <2>3 DEF PlaceOf, PvType, Current
<1>10. Global'
  BY <1>1, <1>7, <1>8, <1>9, GlobalNext
<1>11. Has(flash', c) = {} /\ Cardinality(Has(flash', c)) = 0
  <2>1. Has(flash', c) = {}
    BY <1>7 DEF Has
  <2> QED BY <2>1, Counting
<1>12. Source(flash', Others(c))
  BY <1>1, <1>4, <1>6, <1>7, PoolSame
<1>13. Here(RECEIVE)'
  BY <1>7, <1>9 DEF Here
<1>14. Receiving'
  BY <1>1, <1>8, <1>9, <1>11, <1>12, <1>13 DEF Receiving
<1>15. Pending'
  BY <1>2, <1>7, <1>8, <1>9, <1>11, <1>14 DEF Pending
<1> QED BY <1>10, <1>15 DEF Inv

LEMMA MarkKeeps == ASSUME Sizes, Inv, MarkErasing PROVE Inv'
<1>1. /\ Moving /\ Global /\ UNCHANGED <<pv, job, status, crashes>> /\ job.pc = "mark" /\ Unmarked # {}
      /\ flash' = SetState(flash, Highest(Unmarked), ERASING) /\ flash \in FlashType
      /\ Unheaded(flash) /\ PlaceOf(pv) /\ job \in JobType /\ Current \in Bank
      /\ crashes \in 0 .. MaxCrashes
      /\ status \in {"OFF", "OK", "CLEAN_NEEDED", "ERROR", "STATE_ERROR"}
  BY Phases, Known DEF MarkErasing
<1>2. Receiving /\ job.op = "write" /\ job.then = "mark" /\ Has(flash, Current) = {job.asked.addr}
      /\ job.asked \in Element
  BY <1>1 DEF Moving
<1>3. Others(Current) \subseteq Pages
  BY <1>1, BankPages
<1>4. PICK p : p = Highest(Unmarked)
  OBVIOUS
<1>5. p \in Others(Current)
  <2>1. Unmarked \in SUBSET Others(Current) /\ Unmarked \in SUBSET Pages
    BY <1>3 DEF Unmarked, Others
  <2> QED BY <1>1, <1>4, <2>1, LowestHighest
<1>6. PICK c \in Bank : c = NextPool(Current) /\ PoolOf(c) = Others(Current) /\ Others(c) = PoolOf(Current)
  BY <1>1, Pools DEF Others
<1>7. ERASING \in RECEIVE .. ERASING /\ p \in PoolOf(c) /\ p \in Pages
  BY <1>3, <1>5, <1>6 DEF RECEIVE, ERASING
<1>8. flash' \in FlashType /\ Unheaded(flash') /\ Agree(flash, flash', PoolOf(Current))
  BY <1>1, <1>4, <1>6, <1>7, SetStateElsewhere
<1>9. /\ \A q \in Pages : flash'[q].el = flash[q].el
      /\ \A q \in Pages \ {p} : GetState(flash', q) = GetState(flash, q)
      /\ GetState(flash', p) = ERASING
  <2>1. GetState(flash, p) <= ERASING
    BY <1>1, <1>7, States DEF ERASED, ERASING
  <2>2. GetState(flash', p) = ERASING
    BY <1>1, <1>4, <1>7, <2>1, SetStateIs
  <2> QED BY <1>1, <1>4, <1>7, <2>2, SetStateIs
<1>10. Source(flash', Others(Current))
  <2>1. Source(flash, Others(Current))
    BY <1>2 DEF Receiving
  <2>2. ASSUME NEW q \in Others(Current)
        PROVE  Filled(flash', q) /\ GetState(flash', q) \in {ACTIVE, VALID, ERASING}
    <3>1. q \in Pages /\ Filled(flash', q)
      BY <1>3, <1>9, <2>1 DEF Source, Filled
    <3>2. CASE q = p
      BY <1>9, <3>1, <3>2
    <3>3. CASE q # p
      BY <1>9, <2>1, <3>1, <3>3 DEF Source
    <3> QED BY <3>2, <3>3
  <2> QED BY <2>2 DEF Source
<1>11. Global'
  BY <1>1, <1>8, GlobalNext
<1>12. Here(RECEIVE)' /\ Has(flash', Current) = Has(flash, Current) /\ Current' = Current
  BY <1>1, <1>2, <1>8, StillHere DEF Receiving, Current
<1>13. Receiving'
  BY <1>1, <1>2, <1>10, <1>12 DEF Receiving
<1>14. Moving'
  BY <1>1, <1>2, <1>12, <1>13 DEF Moving
<1> QED BY <1>11, <1>14 DEF Inv

LEMMA MarkDoneKeeps == ASSUME Sizes, Inv, MarkDone PROVE Inv'
<1>1. /\ Moving /\ Global /\ UNCHANGED <<flash, pv, status, crashes>> /\ job.pc = "mark" /\ Unmarked = {}
      /\ job' = [job EXCEPT !.pc = "copy", !.then = "copy"] /\ job \in JobType
      /\ status \in {"OFF", "OK", "CLEAN_NEEDED", "ERROR", "STATE_ERROR"}
  BY Phases, Known DEF MarkDone
<1>2. Receiving /\ job.op = "write" /\ job.then = "mark" /\ Has(flash, Current) = {job.asked.addr}
      /\ job.asked \in Element
  BY <1>1 DEF Moving
<1>3. /\ job' \in JobType /\ job'.pc = "copy" /\ job'.op = "write" /\ job'.then = "copy"
      /\ job'.asked = job.asked /\ job'.var = job.var
  BY <1>1, <1>2 DEF JobType
<1>4. Marked(flash, Others(Current))
  BY <1>1, <1>2 DEF Receiving, Source, Unmarked, Others, Marked
<1>5. Global'
  BY <1>1, <1>3, SameFlash
<1>6. Receiving'
  BY <1>1, <1>2, <1>3, <1>4 DEF Receiving, Here, Current
<1>7. Moving'
  BY <1>2, <1>3, <1>6 DEF Moving
<1> QED BY <1>5, <1>7 DEF Inv

LEMMA CopyKeeps == ASSUME Sizes, Inv, CopyNext PROVE Inv'
<1>1. /\ Moving /\ Global /\ UNCHANGED <<flash, pv, status, crashes>> /\ job.pc = "copy" /\ ToCopy # {}
      /\ job \in JobType /\ flash \in FlashType /\ Current \in Bank /\ job.var \in 0 .. Capacity
      /\ status \in {"OFF", "OK", "CLEAN_NEEDED", "ERROR", "STATE_ERROR"}
  BY Phases, Known DEF CopyNext
<1>2. /\ Receiving /\ job.op \in {"write", "recover"}
      /\ job.op = "write" => job.asked \in Element /\ job.then = "copy"
  BY <1>1 DEF Moving
<1>3. PICK v : v = Lowest(ToCopy)
  OBVIOUS
<1>4. v \in ToCopy
  <2>1. ToCopy \in SUBSET Nat
    BY <1>1, Numbers DEF ToCopy
  <2>2. \E m \in ToCopy : \A x \in ToCopy : m <= x
    BY <1>1, <2>1, LeastNatural
  <2> QED BY <1>3, <2>2, Zenon DEF Lowest
<1>5. /\ v \in Nat /\ job.var <= v /\ v + 1 \in 0 .. Capacity
      /\ OldValue(v) # None
      /\ job.op = "recover" => ReadEl(flash, v, Current) = None
      /\ job.op # "recover" => v # job.asked.addr
  BY <1>1, <1>4, Numbers DEF ToCopy
<1>6. v \in Addr /\ OldValue(v) \in Data
  <2>1. PICK q \in Bank : q = NextPool(Current) + nb_pages - 1
    <3>1. NextPool(Current) \in Bank /\ FirstPage(NextPool(Current)) = NextPool(Current)
      BY <1>1, Pools
    <3>2. LastPage(NextPool(Current)) \in Bank
      BY <3>1, Pools
    <3> QED BY <3>1, <3>2 DEF LastPage
  <2> QED BY <1>1, <1>5, <2>1, ReadIs DEF OldValue
<1> DEFINE e == [addr |-> v, data |-> OldValue(v)]
<1>7. e \in Element /\ e.addr = v
  BY <1>6 DEF Element
<1>8. job' = [job EXCEPT !.pc = "el", !.then = "copy", !.var = v + 1, !.el = e]
  BY <1>3 DEF CopyNext
<1> HIDE DEF e
<1>9. /\ job' \in JobType /\ job'.pc = "el" /\ job'.op = job.op /\ job'.then = "copy" /\ job'.el = e
      /\ job'.asked = job.asked /\ job'.var = v + 1
  BY <1>1, <1>5, <1>7, <1>8 DEF JobType
<1>10. Hits(flash, v, Current) = {}
  <2>1. CASE job.op = "recover"
    BY <1>1, <1>5, <2>1, ReadIs
  <2>2. CASE job.op = "write"
    <3>1. Has(flash, Current) \subseteq {job.asked.addr} \cup 0 .. job.var - 1
      BY <1>2, <2>2 DEF Receiving
    <3>2. v \notin 0 .. job.var - 1
      BY <1>1, <1>5
    <3> QED BY <1>5, <1>6, <2>2, <3>1, <3>2 DEF Has
  <2> QED BY <1>2, <2>1, <2>2
<1>11. Global'
  BY <1>1, <1>9, SameFlash
<1>12. 0 .. job.var - 1 \subseteq 0 .. (v + 1) - 1
  BY <1>1, <1>5
<1>13. Receiving'
  BY <1>1, <1>2, <1>9, <1>12 DEF Receiving, Here, Current
<1>14. v < v + 1
  BY <1>5
<1>15. Pending'
  BY <1>1, <1>2, <1>5, <1>7, <1>9, <1>10, <1>13, <1>14 DEF Pending, Current
<1> QED BY <1>11, <1>15 DEF Inv

LEMMA CopyDoneKeeps == ASSUME Sizes, Inv, CopyDone PROVE Inv'
<1>1. /\ Moving /\ Global /\ UNCHANGED <<flash, pv, status, crashes>> /\ job.pc = "copy"
      /\ job' = [job EXCEPT !.pc = "activate"] /\ job \in JobType
      /\ status \in {"OFF", "OK", "CLEAN_NEEDED", "ERROR", "STATE_ERROR"}
  BY Phases, Known DEF CopyDone
<1>2. /\ job' \in JobType /\ job'.pc = "activate" /\ job'.op = job.op /\ job'.then = job.then
      /\ job'.asked = job.asked /\ job'.var = job.var
  BY <1>1 DEF JobType
<1>3. Global'
  BY <1>1, <1>2, SameFlash
<1>4. Receiving'
  BY <1>1, <1>2 DEF Moving, Receiving, Here, Current
<1>5. Moving'
  BY <1>1, <1>2, <1>4 DEF Moving
<1> QED BY <1>3, <1>5 DEF Inv

LEMMA ActivateKeeps == ASSUME Sizes, Inv, Activate PROVE Inv'
<1>1. /\ Moving /\ Global /\ UNCHANGED <<pv, crashes>> /\ job.pc = "activate"
      /\ flash' = SetState(flash, Current, ACTIVE) /\ flash \in FlashType
      /\ Unheaded(flash) /\ PlaceOf(pv) /\ job \in JobType /\ Current \in Bank
      /\ crashes \in 0 .. MaxCrashes /\ pv.next_write_offset \in 0 .. EE_NB_MAX_ELT
      /\ status \in {"OFF", "OK", "CLEAN_NEEDED", "ERROR", "STATE_ERROR"}
  BY Phases, Known DEF Activate
<1>2. /\ Receiving /\ job.op \in {"write", "recover"}
      /\ job.op = "write" => job.then = "copy"
  BY <1>1 DEF Moving
<1>3. /\ Used(flash, Current, pv.next_write_offset, RECEIVE) /\ Unopened(flash, Current)
      /\ Source(flash, Others(Current))
      /\ job.op = "write" => Marked(flash, Others(Current))
  BY <1>1, <1>2 DEF Receiving, Here
<1>4. /\ flash' \in FlashType /\ Used(flash', Current, pv.next_write_offset, ACTIVE) /\ Unheaded(flash')
      /\ Agree(flash, flash', Others(Current)) /\ Unopened(flash', Current)
  BY <1>1, <1>3, UsedActivated
<1>5. /\ FromTheFirst(flash', Others(Current))
      /\ job.op = "write" => Marked(flash', Others(Current))
  <2>1. Source(flash', Others(Current)) /\ (job.op = "write" => Marked(flash', Others(Current)))
    BY <1>1, <1>3, <1>4, PoolSame
  <2> QED BY <1>1, <1>4, <2>1, FadingIs
<1>6. Here(ACTIVE)' /\ Current' = Current
  BY <1>1, <1>4 DEF Here, Current
<1>7. CASE job.op = "write"
  <2>1. job' = NoJob /\ status' = "CLEAN_NEEDED" /\ job' \in JobType
    BY <1>7, CallTypes DEF Activate, Done
  <2>2. Global'
    BY <1>1, <1>4, <2>1, GlobalNext
  <2>3. Idle'
    BY <1>5, <1>6, <1>7, <2>1 DEF Idle
  <2> QED BY <2>2, <2>3 DEF Inv
<1>8. CASE job.op = "recover"
  <2>1. job' = [NoJob EXCEPT !.pc = "sweep", !.op = "recover"] /\ UNCHANGED status
    BY <1>8 DEF Activate
  <2>2. job' \in JobType /\ job'.pc = "sweep" /\ job'.op = "recover"
    BY <2>1, CallTypes DEF JobType
  <2>3. Global'
    BY <1>1, <1>4, <2>1, <2>2, GlobalNext
  <2>4. Sweeping'
    BY <1>5, <1>6, <2>2 DEF Sweeping
  <2> QED BY <2>3, <2>4 DEF Inv
<1> QED BY <1>2, <1>7, <1>8

-----------------------------------------------------------------------------
(* A power loss. *)

\* The flash as it was, as recovery will find it.
LEMMA LeavesPool ==
  ASSUME Sizes, Global, NEW s, Here(s), NEW n \in Nat, crashes <= n,
         \/ s = ACTIVE /\ Fading(flash, Others(Current))
         \/ s = RECEIVE /\ Receiving
  PROVE  Left(flash, Current, pv.next_write_offset, s, n)
<1>1. Used(flash, Current, pv.next_write_offset, s) /\ crashes \in Nat
      /\ pv.nb_written_elements = Placed(Current, pv.next_write_offset) /\ pv.nb_written_elements \in Nat
  <2>1. 0 .. Capacity \subseteq Nat
    BY Numbers
  <2> QED BY <2>1, Known DEF Here
<1>2. CASE s = ACTIVE /\ Fading(flash, Others(Current))
  BY <1>1, <1>2 DEF Left, RECEIVE, ACTIVE
<1>3. CASE s = RECEIVE /\ Receiving
  <2>1. Cardinality(Has(flash, Current)) \in Nat
    BY Counting
  <2> QED BY <1>1, <1>3, <2>1 DEF Left, Receiving, RECEIVE, ACTIVE
<1> QED BY <1>2, <1>3

\* A page of the other pool that has lost header words.
LEMMA LeavesCut ==
  ASSUME Sizes, Global, NEW p \in Others(Current), Here(ACTIVE),
         \A q \in Others(Current) : (q < p => flash[q] = BlankPage) /\ (q > p => GetState(flash, q) = ERASING),
         flash' \in Cut(p), NEW n
  PROVE  /\ flash' \in FlashType /\ Unheaded(flash')
         /\ Left(flash', Current, pv.next_write_offset, ACTIVE, n)
<1>1. /\ flash \in FlashType /\ Unheaded(flash) /\ Current \in Bank
      /\ p \in Pages /\ p \notin PoolOf(Current) /\ PoolOf(Current) \subseteq Pages /\ Others(Current) \subseteq Pages
      /\ \A q \in Others(Current) : q \in Int
  <2>1. flash \in FlashType /\ Unheaded(flash) /\ Current \in Bank
    BY Known
  <2> QED BY <2>1, Pools, BankPages
<1>2. flash[p].hdr \subseteq RECEIVE .. ERASING
  BY <1>1 DEF FlashType, Page
<1>3. PICK h \in SUBSET (RECEIVE .. ERASING) : h # {} /\ flash' = WithHeader(flash, p, h)
  BY <1>2 DEF Cut, WithHeader
<1>4. /\ flash' \in FlashType /\ flash'[p].hdr = h
      /\ \A q \in Pages \ {p} : flash'[q] = flash[q] /\ GetState(flash', q) = GetState(flash, q)
  BY <1>1, <1>3, HeaderReplaced
<1>5. Unheaded(flash')
  BY <1>1, <1>3, <1>4 DEF Unheaded
<1>6. Agree(flash, flash', PoolOf(Current))
  BY <1>1, <1>4 DEF Agree
<1>7. Used(flash', Current, pv.next_write_offset, ACTIVE)
  BY <1>1, <1>4, <1>6, UsedSame DEF Here
<1>8. Fading(flash', Others(Current))
  <2>1. ASSUME NEW q \in Others(Current)
        PROVE  (q < p => flash'[q] = BlankPage) /\ (q > p => GetState(flash', q) = ERASING)
    <3>1. q < p \/ q > p => q \in Pages \ {p}
      BY <1>1
    <3> QED BY <1>4, <3>1
  <2> QED BY <2>1 DEF Fading
<1> QED BY <1>4, <1>5, <1>7, <1>8 DEF Left, RECEIVE, ACTIVE

\* A torn element behind the ones written.
LEMMA LeavesTorn ==
  ASSUME Sizes, Global, Pending, job.pc = "el", ~ Full, NEW n \in Nat, n = crashes + 1,
         flash' = Program(flash, Current, pv.next_write_offset, Corrupt)
  PROVE  /\ flash' \in FlashType /\ Unheaded(flash')
         /\ \E o \in 0 .. EE_NB_MAX_ELT, s \in {RECEIVE, ACTIVE} : Left(flash', Current, o, s, n)
<1>1. /\ flash \in FlashType /\ Unheaded(flash) /\ Current \in Bank /\ crashes \in Nat
      /\ pv.nb_written_elements = Placed(Current, pv.next_write_offset)
      /\ pv.next_write_offset \in 0 .. EE_NB_MAX_ELT /\ pv.nb_written_elements \in 0 .. Capacity
  BY Known
<1>2. PICK o \in 0 .. EE_NB_MAX_ELT - 1 : o = pv.next_write_offset
  BY <1>1, Numbers DEF Full
<1>3. o \in Slots /\ o \in 0 .. EE_NB_MAX_ELT /\ o + 1 \in 0 .. EE_NB_MAX_ELT /\ o < EE_NB_MAX_ELT
  BY Numbers DEF Slots
<1>4. PICK s \in {RECEIVE, ACTIVE} : s = GetState(flash, Current)
  BY PendingPlace
<1>5. Used(flash, Current, o, s)
  BY <1>2, <1>4, PendingPlace
<1>6. Corrupt \in Word /\ Corrupt # Blank /\ Corrupt \notin Element
  BY Words
<1>7. /\ flash' \in FlashType /\ Used(flash', Current, o + 1, s) /\ Unheaded(flash')
      /\ Agree(flash, flash', Others(Current))
  BY <1>1, <1>2, <1>5, <1>6, UsedAppended
<1>8. Has(flash', Current) = Has(flash, Current)
  <2>1. \A i \in Slots : i >= o => flash[Current].el[i] = Blank
    BY <1>5 DEF Used
  <2>2. \A a : Hits(flash', a, Current) = Hits(flash, a, Current)
    BY <1>1, <1>2, <1>3, <1>6, <2>1, ReadAppended
  <2> QED BY <2>2 DEF Has
<1>9. Placed(Current, o + 1) = pv.nb_written_elements + 1
  BY <1>1, <1>2, <1>3, Places
<1>10. CASE job.then = "done"
  <2>1. s = ACTIVE /\ BlankPool(flash, Others(Current))
    BY <1>4, <1>10, PendingPlace DEF Pending
  <2>2. Fading(flash', Others(Current))
    BY <1>1, <1>7, <2>1, PoolSame, FadingIs
  <2>3. Left(flash', Current, o + 1, s, n)
    BY <1>7, <2>1, <2>2 DEF Left, RECEIVE, ACTIVE
  <2> QED BY <1>3, <1>7, <2>3
<1>11. CASE job.then # "done"
  <2>1. s = RECEIVE /\ Source(flash, Others(Current))
        /\ pv.nb_written_elements <= Cardinality(Has(flash, Current)) + crashes
    BY <1>4, <1>11, PendingPlace DEF Pending, Receiving
  <2>2. Source(flash', Others(Current))
    BY <1>1, <1>7, <2>1, PoolSame
  <2>3. Cardinality(Has(flash, Current)) \in Nat
    BY Counting
  <2>4. Placed(Current, o + 1) <= Cardinality(Has(flash', Current)) + n
    BY <1>1, <1>8, <1>9, <2>1, <2>3
  <2>5. Left(flash', Current, o + 1, s, n)
    BY <1>7, <2>1, <2>2, <2>4 DEF Left, RECEIVE, ACTIVE
  <2> QED BY <1>3, <1>7, <2>5
<1> QED BY <1>10, <1>11

\* The page a power-up would go on with.
InUse == IF job.pc = "fix" THEN job.at - 1 ELSE Current
Recoverable(fl, n) ==
  \E c \in Bank, o \in 0 .. EE_NB_MAX_ELT, s \in {RECEIVE, ACTIVE} : c = InUse /\ Left(fl, c, o, s, n)

LEMMA PowerLossLeaves ==
  ASSUME Sizes, Inv, PowerLoss, Undisturbed
  PROVE  /\ flash' \in FlashType /\ Unheaded(flash')
         /\ (BlankPool(flash', Bank) /\ job.op = "reformat") \/ Recoverable(flash', crashes')
<1>1. /\ Global /\ flash \in FlashType /\ Unheaded(flash) /\ Current \in Bank
      /\ crashes \in Nat /\ crashes' \in Nat /\ crashes' = crashes + 1 /\ crashes <= crashes'
      /\ pv.next_write_offset \in 0 .. EE_NB_MAX_ELT /\ job \in JobType
  <2>1. /\ Global /\ flash \in FlashType /\ Unheaded(flash) /\ Current \in Bank /\ crashes \in Nat
        /\ pv.next_write_offset \in 0 .. EE_NB_MAX_ELT /\ job \in JobType
    BY Phases, Known
  <2> QED BY <2>1 DEF PowerLoss
<1>2. PICK n \in Nat : n = crashes'
  BY <1>1
<1>3. flash' \in AfterCut /\ job.pc # "off"
  BY DEF PowerLoss
<1>4. SUFFICES /\ flash' \in FlashType /\ Unheaded(flash')
               /\ (BlankPool(flash', Bank) /\ job.op = "reformat") \/ Recoverable(flash', n)
  BY <1>2
<1>5. ASSUME flash' = flash, job.pc # "fix", NEW s \in {RECEIVE, ACTIVE}, Here(s),
             \/ s = ACTIVE /\ Fading(flash, Others(Current))
             \/ s = RECEIVE /\ Receiving
      PROVE  /\ flash' \in FlashType /\ Unheaded(flash')
             /\ Recoverable(flash', n)
  <2>1. Left(flash, Current, pv.next_write_offset, s, n)
    BY <1>1, <1>2, <1>5, LeavesPool
  <2> QED BY <1>1, <1>5, <2>1 DEF Recoverable, InUse
<1>6. CASE job.pc = "idle"
  <2>1. Idle /\ flash' = flash
    BY <1>3, <1>6, Phases DEF AfterCut
  <2>2. Here(ACTIVE) /\ Fading(flash, Others(Current))
    BY <1>1, <2>1, FadingIs DEF Idle
  <2> QED BY <1>5, <1>6, <2>1, <2>2
<1>7. CASE job.pc = "fix"
  <2>1. Fixing /\ flash' = flash
    BY <1>3, <1>7, Phases DEF AfterCut
  <2>2. PICK c \in Bank, s \in {RECEIVE, ACTIVE} :
          Left(flash, c, EE_NB_MAX_ELT, s, crashes) /\ job.at = c + 1
    BY <2>1 DEF Fixing
  <2>3. Left(flash, c, EE_NB_MAX_ELT, s, n)
    <3>1. EE_NB_MAX_ELT \in 0 .. EE_NB_MAX_ELT /\ 0 .. Capacity \subseteq Nat
      BY Numbers
    <3>2. Placed(c, EE_NB_MAX_ELT) \in Nat
      BY <3>1, Places
    <3>3. Cardinality(Has(flash, c)) \in Nat
      BY Counting
    <3> QED BY <1>1, <1>2, <2>2, <3>2, <3>3 DEF Left
  <2>4. EE_NB_MAX_ELT \in 0 .. EE_NB_MAX_ELT
    BY Numbers
  <2>5. InUse = c
    BY <1>7, <2>2, BankPages DEF InUse
  <2> QED BY <1>1, <2>1, <2>3, <2>4, <2>5 DEF Recoverable
<1>8. CASE job.pc = "erase"
  <2>1. Erasing /\ (flash' = flash \/ flash' \in Cut(job.at)) /\ job.op # "format"
    BY <1>3, <1>8, Phases DEF AfterCut, Undisturbed
  <2>2. CASE job.op = "clean"
    <3>1. Here(ACTIVE) /\ job.at \in Others(Current) /\ ErasedTo(flash, Others(Current), job.at)
      BY <2>1, <2>2 DEF Erasing
    <3>2. CASE flash' = flash
      BY <1>1, <1>5, <1>8, <3>1, <3>2, FadingIs
    <3>3. CASE flash' \in Cut(job.at)
      <4>1. \A q \in Others(Current) : /\ q < job.at => flash[q] = BlankPage
                                       /\ q > job.at => GetState(flash, q) = ERASING
        <5>1. \A q \in Others(Current) : q \in Int
          BY <1>1, BankPages
        <5>2. \A q \in Others(Current) : q > job.at => ~ (q < job.at)
          BY <3>1, <5>1
        <5> QED BY <3>1, <5>2 DEF ErasedTo
      <4>2. /\ flash' \in FlashType /\ Unheaded(flash')
            /\ Left(flash', Current, pv.next_write_offset, ACTIVE, n)
        BY <1>1, <3>1, <3>3, <4>1, LeavesCut
      <4> QED BY <1>1, <1>8, <4>2 DEF Recoverable, InUse
    <3> QED BY <2>1, <3>2, <3>3
  <2>3. CASE job.op = "reformat"
    <3>1. BlankPool(flash, Bank) /\ job.at \in Bank
      BY <1>1, <2>1, <2>3 DEF Erasing, JobType
    <3>2. flash[job.at].hdr = {}
      BY <3>1, BlankPageIs DEF BlankPool
    <3>3. flash' = flash
      BY <2>1, <3>2 DEF Cut
    <3> QED BY <1>1, <2>3, <3>1, <3>3
  <2> QED BY <2>1, <2>2, <2>3 DEF Erasing
<1>9. CASE job.pc = "first"
  <2>1. Formatted /\ flash' = flash /\ job.op # "format"
    BY <1>3, <1>9, Phases DEF AfterCut, Undisturbed
  <2> QED BY <1>1, <2>1 DEF Formatted
<1>10. CASE job.pc = "sweep"
  <2>1. /\ Sweeping
        /\ flash' = flash \/ (Unerased # {} /\ flash' \in Cut(Lowest(Unerased)))
        /\ \A p, q \in Unerased : p < q => GetState(flash, q) = ERASING
    BY <1>3, <1>10, Phases DEF AfterCut, Undisturbed
  <2>2. Here(ACTIVE) /\ FromTheFirst(flash, Others(Current))
    BY <2>1 DEF Sweeping
  <2>3. Unerased = {p \in Others(Current) : GetState(flash, p) # ERASED}
    BY DEF Unerased, Others
  <2>4. Others(Current) \subseteq Pages /\ \A q \in Others(Current) : q \in Int
    BY <1>1, BankPages
  <2>5. CASE Unerased = {}
    <3>1. BlankPool(flash, Others(Current))
      <4>1. \A q \in Others(Current) : q \in Pages /\ GetState(flash, q) = ERASED
        BY <2>3, <2>4, <2>5
      <4> QED BY <1>1, <4>1, States DEF Unheaded, BlankPool
    <3>2. flash' = flash /\ Fading(flash, Others(Current))
      BY <1>1, <2>1, <2>5, <3>1, FadingIs
    <3> QED BY <1>5, <1>10, <2>2, <3>2
  <2>6. CASE Unerased # {}
    <3>1. PICK p : p = Lowest(Unerased)
      OBVIOUS
    <3>2. p \in Unerased /\ \A q \in Unerased : p <= q
      <4>1. Unerased \in SUBSET Pages
        BY <2>3, <2>4
      <4> QED BY <2>6, <3>1, <4>1, LowestHighest
    <3>3. p \in Others(Current) /\ GetState(flash, p) # ERASED /\ p \in Int
      BY <2>3, <2>4, <3>2
    <3>4. ASSUME NEW q \in Others(Current)
          PROVE  (q < p => flash[q] = BlankPage) /\ (q > p => GetState(flash, q) = ERASING)
      <4>1. q < p => flash[q] = BlankPage
        <5>1. q < p => GetState(flash, q) = ERASED
          BY <2>3, <2>4, <3>2, <3>3
        <5> QED BY <1>1, <2>4, <5>1, States DEF Unheaded
      <4>2. q > p => GetState(flash, q) = ERASING
        <5>1. q > p => p < q
          BY <2>4, <3>3
        <5>2. q > p => q \in Unerased
          BY <2>2, <2>3, <3>3, <5>1 DEF FromTheFirst
        <5> QED BY <2>1, <3>2, <5>1, <5>2
      <4> QED BY <4>1, <4>2
    <3>5. CASE flash' = flash
      <4>1. Fading(flash, Others(Current))
        BY <3>3, <3>4 DEF Fading
      <4> QED BY <1>5, <1>10, <2>2, <3>5, <4>1
    <3>6. CASE flash' \in Cut(p)
      <4>1. /\ flash' \in FlashType /\ Unheaded(flash')
            /\ Left(flash', Current, pv.next_write_offset, ACTIVE, n)
        BY <1>1, <2>2, <3>3, <3>4, <3>6, LeavesCut
      <4> QED BY <1>1, <1>10, <4>1 DEF Recoverable, InUse
    <3> QED BY <2>1, <3>1, <3>5, <3>6
  <2> QED BY <2>5, <2>6
<1>11. CASE job.pc \in {"el", "valid"}
  <2>1. Pending
    BY <1>11, Phases
  <2>2. CASE flash' = flash
    <3>1. CASE job.then = "done"
      <4>1. Here(ACTIVE) /\ Fading(flash, Others(Current))
        BY <1>1, <2>1, <3>1, FadingIs DEF Pending
      <4> QED BY <1>5, <1>11, <2>2, <4>1
    <3>2. CASE job.then # "done"
      <4>1. Here(RECEIVE) /\ Receiving
        BY <2>1, <3>2 DEF Pending, Receiving
      <4> QED BY <1>5, <1>11, <2>2, <4>1
    <3> QED BY <3>1, <3>2
  <2>3. CASE flash' # flash
    <3>1. job.pc = "el" /\ ~ Full /\ flash' = Program(flash, Current, pv.next_write_offset, Corrupt)
      BY <1>3, <1>11, <2>3 DEF AfterCut
    <3>2. n = crashes + 1
      BY <1>1, <1>2
    <3>3. /\ flash' \in FlashType /\ Unheaded(flash')
          /\ \E o \in 0 .. EE_NB_MAX_ELT, s \in {RECEIVE, ACTIVE} : Left(flash', Current, o, s, n)
      BY <1>1, <2>1, <3>1, <3>2, LeavesTorn
    <3> QED BY <1>1, <3>1, <3>3 DEF Recoverable, InUse
  <2> QED BY <2>2, <2>3
<1>12. CASE job.pc = "receive"
  <2>1. Starting /\ flash' = flash
    BY <1>3, <1>12, Phases DEF AfterCut
  <2>2. Here(ACTIVE) /\ Fading(flash, Others(Current))
    BY <1>1, <2>1, FadingIs DEF Starting
  <2> QED BY <1>5, <1>12, <2>1, <2>2
<1>13. CASE job.pc \in {"mark", "copy", "activate"}
  <2>1. Moving /\ flash' = flash
    BY <1>3, <1>13, Phases DEF AfterCut
  <2>2. Here(RECEIVE) /\ Receiving
    BY <2>1 DEF Moving, Receiving
  <2> QED BY <1>5, <1>13, <2>1, <2>2
<1> QED BY <1>1, <1>3, <1>6, <1>7, <1>8, <1>9, <1>10, <1>11, <1>12, <1>13 DEF JobType

LEMMA PowerLossKeeps == ASSUME Sizes, Inv, PowerLoss, Undisturbed PROVE Inv'
<1>1. crashes' \in 0 .. MaxCrashes
  <2>1. Global /\ crashes \in Nat /\ MaxCrashes \in Nat
    BY Phases, Known, Numbers
  <2> QED BY <2>1 DEF PowerLoss
<1>2. PICK n : n = crashes'
  OBVIOUS
<1>3. job' = Off /\ pv' = FreshVars /\ status' = "OFF"
  BY DEF PowerLoss
<1>4. /\ flash' \in FlashType /\ Unheaded(flash')
      /\ \/ BlankPool(flash', Bank)
         \/ \E c \in Bank, o \in 0 .. EE_NB_MAX_ELT, s \in {RECEIVE, ACTIVE} : Left(flash', c, o, s, n)
  BY <1>2, PowerLossLeaves DEF Recoverable
<1>5. Global'
  BY <1>1, <1>3, <1>4, ZeroIs, CallTypes, GlobalNext
<1>6. Down'
  BY <1>2, <1>3, <1>4 DEF Down
<1> QED BY <1>5, <1>6 DEF Inv

-----------------------------------------------------------------------------
(* Every step keeps the invariant. *)

LEMMA InvKept == ASSUME Sizes, Inv, Next, PowerLoss => Undisturbed PROVE Inv'
<1>1. CASE Step
  BY <1>1, PowerUpKeeps, FixKeeps, SweepPageKeeps, SweepDoneKeeps, CleanKeeps, FormatKeeps, SetFirstKeeps,
     OpenKeeps, CloseKeeps, AppendKeeps, ReceiveKeeps, MarkKeeps, MarkDoneKeeps, CopyKeeps, CopyDoneKeeps,
     ActivateKeeps DEF Step
<1>2. CASE Call
  BY <1>2, WriteKeeps, CleanStarts, EraseStarts DEF Call
<1>3. CASE Refused
  BY <1>3 DEF Refused, Sizes
<1>4. CASE PowerLoss
  BY <1>4, PowerLossKeeps
<1> QED BY <1>1, <1>2, <1>3, <1>4 DEF Next

LEMMA InvStutters == ASSUME Inv, UNCHANGED vars PROVE Inv'
<1>1. UNCHANGED <<flash, pv, job, status, crashes>>
  BY DEF vars
<1>2. Global'
  BY <1>1, Phases, Known, GlobalNext
<1>3. Current' = Current /\ (\A s : Here(s) => Here(s)') /\ (Receiving => Receiving') /\ (Full => Full')
  <2>1. Current' = Current
    BY <1>1 DEF Current
  <2>2. \A s : Here(s) => Here(s)'
    BY <1>1, <2>1 DEF Here
  <2>3. Receiving => Receiving'
    BY <1>1, <2>1, <2>2 DEF Receiving
  <2>4. Full => Full'
    BY <1>1 DEF Full
  <2> QED BY <2>1, <2>2, <2>3, <2>4
<1>4. Down => Down'
  BY <1>1 DEF Down
<1>5. Idle => Idle'
  BY <1>1, <1>3 DEF Idle
<1>6. Fixing => Fixing'
  BY <1>1 DEF Fixing
<1>7. Erasing => Erasing'
  BY <1>1, <1>3 DEF Erasing
<1>8. Formatted => Formatted'
  BY <1>1 DEF Formatted
<1>9. Sweeping => Sweeping'
  BY <1>1, <1>3 DEF Sweeping
<1>10. Pending => Pending'
  BY <1>1, <1>3 DEF Pending
<1>11. Starting => Starting'
  BY <1>1, <1>3 DEF Starting
<1>12. Moving => Moving'
  BY <1>1, <1>3 DEF Moving
<1> QED BY <1>2, <1>4, <1>5, <1>6, <1>7, <1>8, <1>9, <1>10, <1>11, <1>12 DEF Inv

\* Whatever a call, a power-up or a power loss does, the flash is in a state that
\* the code that follows can deal with (EEE_Init, EEE_Write, EE_Transfer,
\* EEE_Clean, EE_Recovery).
THEOREM InvIsKept ==
  ASSUME Sizes
  PROVE  Spec /\ Calm => []Inv
<1>1. Init => Inv
  BY InvAtStart
<1>2. Inv /\ [Next]_vars /\ [PowerLoss => Undisturbed]_vars => Inv'
  BY InvKept, InvStutters DEF vars
<1> QED BY <1>1, <1>2, PTL DEF Spec, Calm

-----------------------------------------------------------------------------
(* What the invariant says between calls. *)

\* The place in RAM is where the flash ends, also when recovery has rebuilt it
\* from pages with torn elements (EE_Recovery, EE_WriteEl).
THEOREM PlaceIsKept ==
  ASSUME Sizes
  PROVE  Spec /\ Calm => []PlaceAgreesWithFlash
<1>1. Inv => PlaceAgreesWithFlash
  <2> SUFFICES ASSUME Inv, job.pc = "idle" PROVE PlaceAgreesWithFlash
    BY DEF PlaceAgreesWithFlash
  <2>1. /\ Used(flash, Current, pv.next_write_offset, ACTIVE)
        /\ flash \in FlashType /\ Current \in Bank /\ pv.next_write_offset \in 0 .. EE_NB_MAX_ELT
        /\ pv.nb_written_elements = Placed(Current, pv.next_write_offset)
    BY Phases, Known DEF Idle, Here
  <2>2. Written(flash, Current) = pv.next_write_offset
    BY <2>1, UsedTypes
  <2>3. ASSUME NEW p \in PoolOf(Current), p > Current PROVE flash[p].el = BlankPage.el
    <3>1. p \in Pages
      BY <2>1, BankPages
    <3>2. flash[p].el \in [Slots -> Word] /\ \A i \in Slots : flash[p].el[i] = Blank
      BY <2>1, <2>3, <3>1 DEF Used, FlashType, Page
    <3>3. flash[p].el = [i \in Slots |-> Blank]
      BY <3>2
    <3> QED BY <3>3 DEF BlankPage
  <2>4. \A i \in Slots : i >= pv.next_write_offset => flash[Current].el[i] = Blank
    BY <2>1 DEF Used
  <2> QED BY <2>1, <2>2, <2>3, <2>4 DEF PlaceAgreesWithFlash, Placed
<1> QED BY <1>1, InvIsKept, PTL

\* Every element finds a blank word of a pool that is not full, and a transfer a
\* blank pool: torn elements never take the room of the live ones (EE_WriteEl,
\* EE_Transfer, EEE_Clean).
THEOREM RoomIsKept ==
  ASSUME Sizes
  PROVE  Spec /\ Calm => []TransferHasRoom
<1>1. Inv => PoolHasRoom
  <2> SUFFICES ASSUME Inv, job.pc = "el" PROVE PoolHasRoom
    BY DEF PoolHasRoom
  <2>1. /\ Pending /\ Global /\ flash \in FlashType /\ Current \in Bank
        /\ pv.next_write_offset \in 0 .. EE_NB_MAX_ELT
    BY Phases, Known
  <2>2. /\ pv.nb_written_elements < Capacity
        /\ Full => pv.next_write_offset = EE_NB_MAX_ELT /\ Current + 1 \in PoolOf(Current)
    BY <2>1, RoomFor
  <2>3. PICK s : Used(flash, Current, pv.next_write_offset, s)
    BY <2>1, PendingPlace
  <2>4. CASE Full
    <3>1. 0 \in Slots /\ Current + 1 > Current
      BY <2>1, Numbers, BankPages DEF Slots
    <3>2. flash[Current + 1].el[0] = Blank
      BY <2>2, <2>3, <2>4, <3>1 DEF Used
    <3> QED BY <2>2, <2>4, <3>2 DEF PoolHasRoom
  <2>5. CASE ~ Full
    <3>1. pv.next_write_offset \in Slots /\ pv.next_write_offset >= pv.next_write_offset
      BY <2>1, <2>5, Numbers DEF Full, Slots
    <3>2. flash[Current].el[pv.next_write_offset] = Blank
      BY <2>3, <3>1 DEF Used
    <3>3. Current \in PoolOf(Current)
      BY <2>1, Pools
    <3> QED BY <2>2, <2>5, <3>2, <3>3 DEF PoolHasRoom
  <2> QED BY <2>4, <2>5
<1>2. Inv => OtherPoolReady
  BY Phases DEF OtherPoolReady, Idle, Marked, BlankPool, Others
<1>3. Inv => TransferHasRoom
  BY <1>1, <1>2 DEF TransferHasRoom
<1> QED BY <1>3, InvIsKept, PTL

\* Between calls EEE_Read, EEE_Dump and a power-up agree on every word.
THEOREM ReadingIsKept ==
  ASSUME Sizes
  PROVE  Spec /\ Calm => []ReadingIsSound
<1>1. Inv => TypeOK
  BY DEF Inv, Global
<1>2. Inv => ReadsWhatIsKept
  <2> SUFFICES ASSUME Inv, job.pc = "idle", NEW a \in Addr
               PROVE  ReadEl(flash, a, Current) = Kept(a)
    BY DEF ReadsWhatIsKept
  <2>1. /\ Idle /\ Global /\ Here(ACTIVE) /\ flash \in FlashType /\ Current \in Bank
        /\ pv.next_write_offset \in 0 .. EE_NB_MAX_ELT
    BY Phases, Known DEF Idle
  <2>2. Fading(flash, Others(Current)) /\ Unopened(flash, Current)
    BY <2>1, FadingIs DEF Idle, Here, NoJob
  <2>3. Left(flash, Current, pv.next_write_offset, ACTIVE, 0)
    BY <2>1, <2>2 DEF Left, Here, RECEIVE, ACTIVE
  <2>4. Found(flash) # {} /\ Candidate(flash) = <<ACTIVE, Current>>
    BY <2>1, <2>2, <2>3, Candidates
  <2>5. Candidate(flash)[1] = ACTIVE /\ Candidate(flash)[2] = Current /\ ACTIVE # RECEIVE
    BY <2>4 DEF RECEIVE, ACTIVE
  <2> QED BY <2>4, <2>5 DEF Kept
<1>3. Inv => DumpAgreesWithRead
  <2> SUFFICES ASSUME Inv, job.pc = "idle", NEW a \in Addr
               PROVE  Dump(flash, a, Current) = ReadEl(flash, a, Current)
    BY DEF DumpAgreesWithRead
  <2>1. /\ Used(flash, Current, pv.next_write_offset, ACTIVE)
        /\ flash \in FlashType /\ Current \in Bank
    BY Phases, Known DEF Idle, Here
  <2>2. PICK d \in PoolOf(Current) : d = LastPage(Current)
    BY <2>1, Pools
  <2>3. Current <= d /\ Current \in Int /\ d \in Int
    BY <2>1, <2>2, Pools, BankPages
  <2>4. \A p \in Current + 1 .. d : p \in PoolOf(Current) /\ p > Current
    <3>1. FirstPage(Current) <= Current /\ FirstPage(Current) \in Int
      BY <2>1, Pools, Numbers DEF FirstPage
    <3>2. ASSUME NEW p \in Current + 1 .. d PROVE p \in PoolOf(Current) /\ p > Current
      <4>1. p \in Int /\ FirstPage(Current) <= p /\ p <= LastPage(Current) /\ p > Current
        BY <2>2, <2>3, <3>1
      <4> QED BY <2>1, <4>1, Pools
    <3> QED BY <3>2
  <2>5. \A p \in Current + 1 .. d : \A i \in Slots : flash[p].el[i] = Blank
    BY <2>1, <2>4 DEF Used
  <2>6. ReadEl(flash, a, d) = ReadEl(flash, a, Current)
    BY <2>1, <2>3, <2>5, ReadSame
  <2>7. Dump(flash, a, Current) = ReadEl(flash, a, d)
    BY <2>2 DEF Dump, ReadEl, LastPage
  <2> QED BY <2>6, <2>7
<1>4. Inv => ReadingIsSound
  BY <1>1, <1>2, <1>3 DEF ReadingIsSound
<1> QED BY <1>4, InvIsKept, PTL

-----------------------------------------------------------------------------
(* With one power loss and no erasing by the application every behaviour is *)
(* calm.                                                                    *)

\* Before the first power loss nothing is recovered.
Once ==
  /\ job.op # "format"
  /\ crashes = 0 => /\ job.op # "recover"
                    /\ job.pc = "off" => BlankPool(flash, Bank)

LEMMA OnceKept == ASSUME Sizes, MayErase = FALSE, Inv, Once, Next PROVE Once'
<1>1. /\ flash \in FlashType /\ job \in JobType /\ crashes \in Nat
      /\ NoJob \in JobType /\ NoJob.op = "none" /\ NoJob.pc = "idle"
  BY Phases, Known, CallTypes DEF NoJob
<1>2. CASE PowerUp
  <2>1. CASE crashes = 0
    <3>1. job' = Reformat /\ crashes' = crashes
      BY <1>1, <1>2, <2>1, NothingFound DEF Once, PowerUp
    <3> QED BY <3>1, CallTypes DEF Once
  <2>2. CASE crashes # 0
    <3>1. job'.op # "format" /\ crashes' = crashes
      BY <1>1, <1>2, CallTypes DEF PowerUp, Adopt, JobType
    <3> QED BY <2>2, <3>1 DEF Once
  <2> QED BY <2>1, <2>2
<1>3. CASE FixPrevious
  <2>1. crashes # 0 /\ crashes' = crashes
    BY <1>3, Phases DEF FixPrevious, Fixing, Once
  <2>2. job'.op = "recover"
    BY <1>1, <1>3 DEF FixPrevious, Adopt, JobType
  <2> QED BY <2>1, <2>2 DEF Once
<1>4. CASE Activate
  <2>1. crashes' = crashes /\ (job.op = "write" \/ job.op = "recover")
    BY <1>4, Phases DEF Activate, Moving
  <2>2. IF job.op = "write" THEN job' = NoJob ELSE job'.op = "recover" /\ job'.pc = "sweep"
    BY <1>1, <1>4 DEF Activate, Done, JobType
  <2> QED BY <1>1, <2>1, <2>2 DEF Once
<1>5. CASE SweepPage \/ SweepDone
  BY <1>1, <1>5 DEF Once, SweepPage, SweepDone, Done
<1>6. CASE ErasePage \/ SetFirstActive
  <2>1. crashes' = crashes /\ (job' = NoJob \/ (job'.op = job.op /\ job'.pc # "off"))
    BY <1>1, <1>6 DEF ErasePage, SetFirstActive, Done, JobType
  <2> QED BY <1>1, <2>1 DEF Once
<1>7. CASE OpenNextPage \/ ClosePage \/ AppendElement \/ StartReceive
  <2>1. crashes' = crashes /\ (job' = NoJob \/ (job'.op = job.op /\ job'.pc # "off"))
    BY <1>1, <1>7 DEF OpenNextPage, ClosePage, AppendElement, StartReceive, Done, JobType
  <2> QED BY <1>1, <2>1 DEF Once
<1>8. CASE MarkErasing \/ MarkDone \/ CopyNext \/ CopyDone
  <2>1. crashes' = crashes /\ job'.op = job.op /\ job'.pc # "off"
    BY <1>1, <1>8 DEF MarkErasing, MarkDone, CopyNext, CopyDone, JobType
  <2> QED BY <2>1 DEF Once
<1>9. CASE Call
  <2>1. crashes' = crashes /\ job'.op \in {"none", "write", "clean"} /\ job'.pc # "off"
    <3>1. ASSUME NEW a \in Addr, NEW d \in Data, EEE_Write(a, d)
          PROVE  crashes' = crashes /\ job'.op \in {"none", "write", "clean"} /\ job'.pc # "off"
      BY <1>1, <3>1 DEF EEE_Write, Done, JobType, NoJob
    <3>2. ASSUME EEE_Clean
          PROVE  crashes' = crashes /\ job'.op \in {"none", "write", "clean"} /\ job'.pc # "off"
      BY <1>1, <3>2 DEF EEE_Clean, Done, JobType
    <3> QED BY <1>9, <3>1, <3>2 DEF Call, NVM_Erase
  <2> QED BY <2>1 DEF Once
<1>10. CASE Refused
  BY <1>10 DEF Refused, Sizes
<1>11. CASE PowerLoss
  <2>1. crashes' # 0 /\ job' = Off
    BY <1>1, <1>11 DEF PowerLoss
  <2>2. Off.op = "none"
    BY DEF Off, NoJob
  <2> QED BY <2>1, <2>2 DEF Once
<1> QED BY <1>2, <1>3, <1>4, <1>5, <1>6, <1>7, <1>8, <1>9, <1>10, <1>11 DEF Next, Step

\* Up to the second power loss no recovery is cut.
THEOREM OneLossIsCalm ==
  ASSUME Sizes, MaxCrashes <= 1, MayErase = FALSE
  PROVE  Spec => Calm
<1>1. Init => Inv /\ Once
  <2>1. Init => Once
    BY BankPages DEF Init, Once, Off, NoJob, BlankPool
  <2> QED BY <2>1, InvAtStart
<1>2. ASSUME Inv, Once, PowerLoss PROVE Undisturbed
  <2>1. crashes = 0
    BY <1>2, Phases, Known, Numbers DEF PowerLoss
  <2>2. job.pc # "sweep"
    BY <1>2, <2>1, Phases DEF Once, Sweeping
  <2> QED BY <1>2, <2>2 DEF Once, Undisturbed
<1>3. Inv /\ Once /\ [Next]_vars => (Inv /\ Once)'
  <2>1. ASSUME Inv, Once, Next PROVE Inv' /\ Once'
    BY <1>2, <2>1, InvKept, OnceKept
  <2>2. ASSUME Inv, Once, UNCHANGED vars PROVE Inv' /\ Once'
    BY <2>2, InvStutters DEF Once, vars
  <2> QED BY <2>1, <2>2
<1>4. Inv /\ Once /\ [Next]_vars => [PowerLoss => Undisturbed]_vars
  BY <1>2
<1> QED BY <1>1, <1>3, <1>4, PTL DEF Spec, Calm

\* Without assumption on the behaviour, and for pools of two pages or more that
\* have room for the torn elements (Sizes; the one page a pool that is built is
\* the subject of NvImageProofs): between calls place, room and reading are
\* sound, whatever the flash operation that the one power loss cuts.
THEOREM EmulationIsSound ==
  ASSUME Sizes, MaxCrashes <= 1, MayErase = FALSE
  PROVE  Spec => [](PlaceAgreesWithFlash /\ TransferHasRoom /\ ReadingIsSound)
  BY PlaceIsKept, RoomIsKept, ReadingIsKept, OneLossIsCalm, PTL

-----------------------------------------------------------------------------
(* The emulation implements NvStore: what the flash says of the words seen   *)
(* and of the request in doubt, in each phase of a call.                     *)

\* What a power-up that finds page c in use would recover.
Now(fl, c, a) ==
  IF GetState(fl, c) = RECEIVE /\ ReadEl(fl, a, c) = None
    THEN ReadEl(fl, a, LastPage(NextPool(c))) ELSE ReadEl(fl, a, c)

\* The request has not taken effect, or it has.
Before(fl, c, sn) == \A a \in Addr : Now(fl, c, a) = sn[a]
After(fl, c, sn, r) ==
  r \in Element /\ \A a \in Addr : Now(fl, c, a) = IF a = r.addr THEN r.data ELSE sn[a]
Either(fl, c, sn, r) == Before(fl, c, sn) \/ After(fl, c, sn, r)

Copying == job.pc \in {"mark", "copy", "activate"} \/ (job.pc \in {"el", "valid"} /\ job.then = "copy")

Requested ==
  /\ seen \in [Addr -> Data \cup {None}] /\ doubt \in Element \cup {None, Corrupt}
  /\ job.op = "write" => doubt = job.asked
  /\ doubt = Corrupt <=> job.op = "format"
  /\ job.op = "reformat" => \A a \in Addr : seen[a] = None

\* Between calls and during a clean the words read are the ones seen.
ReadSeen ==
  job.pc = "idle" \/ job.op = "clean" =>
    doubt = None /\ \A a \in Addr : ReadEl(flash, a, Current) = seen[a]

NotYet ==
  job.pc \in {"el", "valid", "receive"} /\ job.then # "copy" =>
    Before(flash, Current, seen) /\ job.var = 0

\* The pool that receives holds the new word, and the ones copied so far as they were.
Transferred ==
  Copying =>
    /\ job.op = "write" => After(flash, Current, seen, doubt) /\ ReadEl(flash, job.asked.addr, Current) # None
    /\ job.op = "recover" => Either(flash, Current, seen, doubt)
    /\ \A a \in Addr :
         (a < job.var /\ (job.pc \in {"el", "valid"} => a # job.el.addr)) \/ job.pc = "activate" =>
           ReadEl(flash, a, Current) # None \/ ReadEl(flash, a, LastPage(NextPool(Current))) = None
    /\ job.pc \in {"el", "valid"} =>
         job.el.data = ReadEl(flash, job.el.addr, LastPage(NextPool(Current)))

Recovered ==
  /\ job.pc = "sweep" => Either(flash, Current, seen, doubt)
  /\ job.pc = "fix" => Either(flash, job.at - 1, seen, doubt)
  /\ job.pc = "off" =>
       \/ BlankPool(flash, Bank) /\ \A a \in Addr : seen[a] = None
       \/ \E c \in Bank, o \in 0 .. EE_NB_MAX_ELT, s \in {RECEIVE, ACTIVE} :
            Left(flash, c, o, s, crashes) /\ Either(flash, c, seen, doubt)

SeenInv == Requested /\ ReadSeen /\ NotYet /\ Transferred /\ Recovered

LEMMA OldSame ==
  ASSUME NEW fl \in FlashType, NEW g \in FlashType, NEW c \in Bank,
         \A q \in Others(c) : g[q].el = fl[q].el, NEW a
  PROVE  ReadEl(g, a, LastPage(NextPool(c))) = ReadEl(fl, a, LastPage(NextPool(c)))
<1>1. PICK x \in Bank : x = NextPool(c) /\ FirstPage(x) = x /\ PoolOf(x) = Others(c)
  BY Pools DEF Others
<1>2. PICK d \in Bank : d = LastPage(NextPool(c)) /\ FirstPage(d) .. d \subseteq Others(c) /\ d \in PoolOf(d)
  <2>1. LastPage(x) \in Bank /\ PoolOf(LastPage(x)) = PoolOf(x)
    BY Pools
  <2> QED BY <1>1, <2>1, BankPages, Pools
<1>3. d <= d /\ \A p \in d + 1 .. d : FALSE
  BY BankPages
<1>4. \A p \in FirstPage(d) .. d : g[p].el = fl[p].el
  BY <1>2
<1>5. ReadEl(g, a, d) = ReadEl(fl, a, d)
  BY <1>2, <1>3, <1>4, ReadSame
<1> QED BY <1>2, <1>5

LEMMA HeadersOnly ==
  ASSUME NEW fl \in FlashType, NEW g \in FlashType, NEW c \in Bank,
         \A q \in Pages : g[q].el = fl[q].el, NEW a
  PROVE  ReadEl(g, a, c) = ReadEl(fl, a, c)
<1>1. c <= c /\ c \in PoolOf(c) /\ \A p \in c + 1 .. c : FALSE
  BY BankPages, Pools
<1>2. \A p \in FirstPage(c) .. c : g[p].el = fl[p].el
  BY BankPages
<1> QED BY <1>1, <1>2, ReadSame

LEMMA NowMoved ==
  ASSUME NEW fl \in FlashType, NEW g \in FlashType, NEW c \in Bank, NEW d \in PoolOf(c),
         \A q \in Others(c) : g[q].el = fl[q].el, GetState(g, d) = GetState(fl, c),
         \A a : ReadEl(g, a, d) = ReadEl(fl, a, c)
  PROVE  /\ \A a : Now(g, d, a) = Now(fl, c, a)
         /\ \A a : ReadEl(g, a, LastPage(NextPool(d))) = ReadEl(fl, a, LastPage(NextPool(c)))
         /\ \A sn : Before(fl, c, sn) => Before(g, d, sn)
         /\ \A sn, r : After(fl, c, sn, r) => After(g, d, sn, r)
         /\ \A sn, r : Either(fl, c, sn, r) => Either(g, d, sn, r)
<1>1. NextPool(d) = NextPool(c)
  BY Pools
<1>2. \A a : ReadEl(g, a, LastPage(NextPool(d))) = ReadEl(fl, a, LastPage(NextPool(c)))
  BY <1>1, OldSame
<1>3. \A a : Now(g, d, a) = Now(fl, c, a)
  BY <1>2 DEF Now
<1>4. \A sn : Before(fl, c, sn) => Before(g, d, sn)
  BY <1>3 DEF Before
<1>5. \A sn, r : After(fl, c, sn, r) => After(g, d, sn, r)
  BY <1>3 DEF After
<1> QED BY <1>2, <1>3, <1>4, <1>5 DEF Either

LEMMA NowActive ==
  ASSUME NEW fl, NEW c, GetState(fl, c) = ACTIVE, NEW a
  PROVE  Now(fl, c, a) = ReadEl(fl, a, c)
  BY DEF Now, RECEIVE, ACTIVE

\* Programming elements and headers of the pool in use leaves the other as it is.
LEMMA AgreeElements ==
  ASSUME NEW fl, NEW g, NEW P, Agree(fl, g, P)
  PROVE  \A q \in P : g[q].el = fl[q].el
  BY DEF Agree

-----------------------------------------------------------------------------
(* How the steps look to the caller. *)

\* A step inside a call, or from one phase of the power-up to the next.
LEMMA Inside ==
  ASSUME SeenInv, Remember, job.pc # "idle", job'.pc \notin {"idle", "off"},
         \/ job.pc # "off" /\ job'.op = job.op /\ (job.op = "write" => job'.asked = job.asked)
         \/ job.pc = "off" /\ job.op = "none" /\ job'.op \in {"recover", "reformat"}
  PROVE  seen' = seen /\ doubt' = doubt /\ Answer' = Answer
<1>1. seen' = seen
  BY DEF Remember
<1>2. doubt' = doubt
  <2>1. CASE job'.op = "write"
    BY <2>1 DEF Remember, SeenInv, Requested
  <2>2. CASE job'.op = "format"
    BY <2>2 DEF Remember, SeenInv, Requested
  <2>3. CASE job'.op \notin {"write", "format"}
    BY <2>3 DEF Remember
  <2> QED BY <2>1, <2>2, <2>3
<1>3. Answer' = Answer
  BY DEF Answer
<1> QED BY <1>1, <1>2, <1>3

\* A call ends.
LEMMA Ends ==
  ASSUME Remember, job' = NoJob
  PROVE  /\ seen' = [a \in Addr |-> ReadEl(flash', a, Current')] /\ doubt' = None
         /\ job'.pc = "idle" /\ job'.op = "none"
         /\ Answer' = IF status' \in {"OK", "CLEAN_NEEDED"} THEN "ok" ELSE "error"
<1>1. NoJob.pc = "idle" /\ NoJob.op = "none"
  BY DEF NoJob
<1>2. seen' = [a \in Addr |-> ReadEl(flash', a, Current')] /\ doubt' = None
  BY <1>1 DEF Remember, Current
<1> QED BY <1>1, <1>2 DEF Answer

\* What the caller sees of a call that ended, by what the flash then holds.
LEMMA SeenAtEnd ==
  ASSUME Inv', Remember, job' = NoJob
  PROVE  SeenInv'
<1>1. /\ seen' = [a \in Addr |-> ReadEl(flash', a, Current')] /\ doubt' = None
      /\ job'.pc = "idle" /\ job'.op = "none"
  BY Ends
<1>2. flash' \in FlashType /\ Current' \in Bank
  BY DEF Inv, Global, TypeOK, FlashType
<1>3. \A a \in Addr : ReadEl(flash', a, Current') \in Data \cup {None}
  BY <1>2, ReadIs
<1>4. Requested'
  BY <1>1, <1>3, Words DEF Requested
<1> QED BY <1>1, <1>4 DEF SeenInv, ReadSeen, NotYet, Transferred, Copying, Recovered

\* A call ends as NvStore allows: what is read then is what was seen before or,
\* with the request, what it asked for.
LEMMA Answers ==
  ASSUME SeenInv, Remember, job' = NoJob, status' \in {"OK", "CLEAN_NEEDED"},
         \/ /\ \A a \in Addr : ReadEl(flash', a, Current') = seen[a]
            /\ doubt = None \/ Answer = "down"
         \/ /\ doubt \in Element
            /\ \A a \in Addr : ReadEl(flash', a, Current') = IF a = doubt.addr THEN doubt.data ELSE seen[a]
         \/ /\ doubt = Corrupt
            /\ \A a \in Addr : ReadEl(flash', a, Current') = None
  PROVE  Promise!StoreNext
<1>1. /\ seen' = [a \in Addr |-> ReadEl(flash', a, Current')] /\ doubt' = None /\ Answer' = "ok"
  BY Ends
<1>2. seen \in [Addr -> Data \cup {None}] /\ doubt \in Element \cup {None, Corrupt}
  BY DEF SeenInv, Requested
<1>3. Promise!WriteRequest = Element
  BY DEF Promise!WriteRequest, Element
<1>4. CASE /\ \A a \in Addr : ReadEl(flash', a, Current') = seen[a]
           /\ doubt = None \/ Answer = "down"
  <2>1. seen' = seen
    BY <1>1, <1>2, <1>4
  <2>2. CASE doubt = None
    BY <1>1, <2>1, <2>2 DEF Promise!StoreNext, Promise!Answer
  <2>3. CASE doubt \in Element /\ Answer = "down"
    BY <1>1, <1>3, <2>1, <2>3 DEF Promise!StoreNext, Promise!Answer
  <2>4. CASE doubt = Corrupt /\ Answer = "down"
    <3>1. DOMAIN seen' = Addr /\ \A a \in Addr : seen'[a] \in {seen[a], None}
      BY <1>2, <2>1
    <3> QED BY <1>1, <2>4, <3>1 DEF Promise!StoreNext, Promise!Answer
  <2> QED BY <1>2, <1>4, <2>2, <2>3, <2>4
<1>5. CASE /\ doubt \in Element
           /\ \A a \in Addr : ReadEl(flash', a, Current') = IF a = doubt.addr THEN doubt.data ELSE seen[a]
  <2>1. seen' = [seen EXCEPT ![doubt.addr] = doubt.data]
    BY <1>1, <1>2, <1>5
  <2> QED BY <1>1, <1>3, <1>5, <2>1 DEF Promise!StoreNext, Promise!Answer, Promise!Written
<1>6. CASE /\ doubt = Corrupt
           /\ \A a \in Addr : ReadEl(flash', a, Current') = None
  <2>1. DOMAIN seen' = Addr /\ \A a \in Addr : seen'[a] = None
    BY <1>1, <1>6
  <2> QED BY <1>1, <1>6, <2>1 DEF Promise!StoreNext, Promise!Answer
<1> QED BY <1>4, <1>5, <1>6

\* A step that the caller does not see.
Unseen == seen' = seen /\ doubt' = doubt /\ Answer' = Answer

LEMMA RequestStays ==
  ASSUME SeenInv, Unseen, job'.op = job.op, job.op = "write" => job'.asked = job.asked
  PROVE  Requested'
  BY DEF Unseen, SeenInv, Requested

LEMMA SeenPowerUp == ASSUME Sizes, Inv, SeenInv, PowerUp, Remember PROVE SeenInv' /\ Unseen
<1>1. /\ Down /\ Global /\ UNCHANGED <<flash, crashes>> /\ flash \in FlashType
      /\ job.pc = "off" /\ job.op = "none"
  BY Phases, Known DEF PowerUp, Down, Off, NoJob
<1>2. \/ BlankPool(flash, Bank) /\ \A a \in Addr : seen[a] = None
      \/ \E c \in Bank, o \in 0 .. EE_NB_MAX_ELT, s \in {RECEIVE, ACTIVE} :
            Left(flash, c, o, s, crashes) /\ Either(flash, c, seen, doubt)
  BY <1>1 DEF SeenInv, Recovered
<1>3. CASE BlankPool(flash, Bank) /\ \A a \in Addr : seen[a] = None
  <2>1. job'.pc = "erase" /\ job'.op = "reformat"
    BY <1>1, <1>3, NothingFound, CallTypes DEF PowerUp
  <2>2. Unseen
    BY <1>1, <2>1, Inside DEF Unseen
  <2>3. Requested'
    BY <1>1, <1>3, <2>1, <2>2 DEF Unseen, SeenInv, Requested
  <2> QED BY <2>1, <2>2, <2>3 DEF SeenInv, ReadSeen, NotYet, Transferred, Copying, Recovered
<1>4. ASSUME NEW c \in Bank, NEW o \in 0 .. EE_NB_MAX_ELT, NEW s \in {RECEIVE, ACTIVE},
             Left(flash, c, o, s, crashes), Either(flash, c, seen, doubt)
      PROVE  SeenInv' /\ Unseen
  <2>1. CASE Unopened(flash, c)
    <3>1. job' = Adopted(c, s) /\ Current' = c
      BY <1>1, <1>4, <2>1, PowerUpTakes DEF Current
    <3>2. job'.pc \in {"copy", "sweep"} /\ job'.op = "recover" /\ job'.var = 0
      BY <3>1 DEF Adopted, NoJob
    <3>3. Unseen
      BY <1>1, <3>2, Inside DEF Unseen
    <3>4. Requested'
      BY <1>1, <3>2, <3>3 DEF Unseen, SeenInv, Requested
    <3>5. Transferred'
      <4>1. \A a \in Addr : ~ (a < 0)
        BY Numbers
      <4> QED BY <1>1, <1>4, <3>1, <3>2, <3>3, <4>1 DEF Transferred, Unseen
    <3>6. Recovered'
      BY <1>1, <1>4, <3>1, <3>2, <3>3 DEF Recovered, Unseen
    <3> QED BY <3>2, <3>3, <3>4, <3>5, <3>6 DEF SeenInv, ReadSeen, NotYet
  <2>2. CASE ~ Unopened(flash, c)
    <3>1. job' = [NoJob EXCEPT !.pc = "fix", !.op = "recover", !.at = c + 1]
      BY <1>1, <1>4, <2>2, PowerUpTakes
    <3>2. job'.pc = "fix" /\ job'.op = "recover" /\ job'.at = c + 1
      BY <3>1 DEF NoJob
    <3>3. Unseen
      BY <1>1, <3>2, Inside DEF Unseen
    <3>4. Requested'
      BY <1>1, <3>2, <3>3 DEF Unseen, SeenInv, Requested
    <3>5. Recovered'
      <4>1. job'.at - 1 = c
        BY <3>2, BankPages
      <4> QED BY <1>1, <1>4, <3>2, <3>3, <4>1 DEF Recovered, Unseen
    <3> QED BY <3>2, <3>3, <3>4, <3>5 DEF SeenInv, ReadSeen, NotYet, Transferred, Copying
  <2> QED BY <2>1, <2>2
<1> QED BY <1>2, <1>3, <1>4

LEMMA SeenFix == ASSUME Sizes, Inv, SeenInv, FixPrevious, Remember PROVE SeenInv' /\ Unseen
<1>1. /\ Fixing /\ Global /\ flash \in FlashType /\ Unheaded(flash) /\ job.pc = "fix" /\ job.op = "recover"
      /\ flash' = SetState(flash, job.at - 1, VALID) /\ Adopt(job.at)
  BY Phases, Known DEF FixPrevious, Fixing
<1>2. PICK c \in Bank, s \in {RECEIVE, ACTIVE} :
        /\ c = FirstPage(c) /\ job.at = c + 1
        /\ Left(flash, c, EE_NB_MAX_ELT, s, crashes) /\ GetState(flash, c + 1) = s
  BY <1>1 DEF Fixing
<1>3. Used(flash, c, EE_NB_MAX_ELT, s) /\ c + 1 \in PoolOf(c) /\ job.at - 1 = c /\ GetState(flash, c) = s
  BY <1>2, NextInPool, BankPages DEF Left, Used
<1>4. PICK d \in PoolOf(c) : d = c + 1
  BY <1>3
<1>5. /\ flash' \in FlashType /\ GetState(flash', d) = s
      /\ \A q \in Others(c) : flash'[q].el = flash[q].el
      /\ \A a : ReadEl(flash', a, d) = ReadEl(flash, a, c)
  <2>1. /\ flash' \in FlashType /\ Used(flash', c + 1, 0, s) /\ Agree(flash, flash', Others(c))
        /\ \A a : ReadEl(flash', a, c + 1) = ReadEl(flash, a, c)
    BY <1>1, <1>2, <1>3, UsedClosed
  <2> QED BY <1>4, <2>1, AgreeElements DEF Used
<1>6. Current' = d /\ job'.pc \in {"copy", "sweep"} /\ job'.op = "recover" /\ job'.var = 0
  BY <1>1, <1>2, <1>4 DEF Adopt, Current, NoJob
<1>7. Unseen
  BY <1>1, <1>6, Inside DEF Unseen
<1>8. Requested'
  BY <1>1, <1>6, <1>7, RequestStays
<1>9. Either(flash', Current', seen', doubt')
  <2>1. Either(flash, c, seen, doubt)
    BY <1>1, <1>3 DEF SeenInv, Recovered
  <2> QED BY <1>1, <1>3, <1>5, <1>6, <1>7, <2>1, NowMoved DEF Unseen
<1>10. Transferred'
  <2>1. \A a \in Addr : ~ (a < 0)
    BY Numbers
  <2> QED BY <1>6, <1>9, <2>1 DEF Transferred
<1>11. Recovered'
  BY <1>6, <1>9 DEF Recovered
<1> QED BY <1>6, <1>7, <1>8, <1>10, <1>11 DEF SeenInv, ReadSeen, NotYet

-----------------------------------------------------------------------------
(* The steps inside a call: what would be recovered stays, or takes the      *)
(* request in.                                                               *)

LEMMA OldIs ==
  ASSUME Current \in Bank
  PROVE  \A a : OldValue(a) = ReadEl(flash, a, LastPage(NextPool(Current)))
<1>1. FirstPage(NextPool(Current)) = NextPool(Current)
  BY Pools
<1> QED BY <1>1 DEF OldValue, LastPage

LEMMA NowSame ==
  ASSUME NEW fl, NEW g, NEW c, NEW d, \A a \in Addr : Now(g, d, a) = Now(fl, c, a)
  PROVE  /\ \A sn : Before(fl, c, sn) => Before(g, d, sn)
         /\ \A sn, r : After(fl, c, sn, r) => After(g, d, sn, r)
         /\ \A sn, r : Either(fl, c, sn, r) => Either(g, d, sn, r)
<1>1. \A sn : Before(fl, c, sn) => Before(g, d, sn)
  BY DEF Before
<1>2. \A sn, r : After(fl, c, sn, r) => After(g, d, sn, r)
  BY DEF After
<1> QED BY <1>1, <1>2 DEF Either

\* A step that programs headers, or goes on to the next page.
LEMMA SeenMoved ==
  ASSUME SeenInv, Unseen, flash \in FlashType, flash' \in FlashType, Current \in Bank,
         Current' \in PoolOf(Current), \A q \in Others(Current) : flash'[q].el = flash[q].el,
         GetState(flash', Current') = GetState(flash, Current),
         \A a : ReadEl(flash', a, Current') = ReadEl(flash, a, Current),
         job'.op = job.op, job'.asked = job.asked, job'.el = job.el, job'.then = job.then,
         job'.var = job.var,
         \/ job.pc \in {"el", "valid"} /\ job'.pc \in {"el", "valid"}
         \/ job.pc = "mark" /\ job'.pc = "mark"
  PROVE  SeenInv'
<1>1. Requested'
  BY RequestStays
<1>2. /\ \A a : ReadEl(flash', a, LastPage(NextPool(Current'))) = ReadEl(flash, a, LastPage(NextPool(Current)))
      /\ \A sn : Before(flash, Current, sn) => Before(flash', Current', sn)
      /\ \A sn, r : After(flash, Current, sn, r) => After(flash', Current', sn, r)
      /\ \A sn, r : Either(flash, Current, sn, r) => Either(flash', Current', sn, r)
  BY NowMoved
<1>3. seen' = seen /\ doubt' = doubt
  BY DEF Unseen
<1>4. ReadSeen'
  BY <1>3 DEF SeenInv, ReadSeen
<1>5. NotYet'
  BY <1>2, <1>3 DEF SeenInv, NotYet
<1>6. Transferred'
  <2>1. SUFFICES ASSUME Copying' PROVE Transferred'
    BY DEF Transferred
  <2>2. Copying
    BY <2>1 DEF Copying
  <2>3. /\ job.op = "write" => After(flash, Current, seen, doubt) /\ ReadEl(flash, job.asked.addr, Current) # None
        /\ job.op = "recover" => Either(flash, Current, seen, doubt)
        /\ \A a \in Addr :
             (a < job.var /\ (job.pc \in {"el", "valid"} => a # job.el.addr)) \/ job.pc = "activate" =>
               ReadEl(flash, a, Current) # None \/ ReadEl(flash, a, LastPage(NextPool(Current))) = None
        /\ job.pc \in {"el", "valid"} =>
             job.el.data = ReadEl(flash, job.el.addr, LastPage(NextPool(Current)))
    BY <2>2 DEF SeenInv, Transferred
  <2>4. job'.op = "write" => After(flash', Current', seen', doubt') /\ ReadEl(flash', job'.asked.addr, Current') # None
    BY <1>2, <1>3, <2>3
  <2>5. job'.op = "recover" => Either(flash', Current', seen', doubt')
    BY <1>2, <1>3, <2>3
  <2>6. \A a \in Addr :
          (a < job'.var /\ (job'.pc \in {"el", "valid"} => a # job'.el.addr)) \/ job'.pc = "activate" =>
            ReadEl(flash', a, Current') # None \/ ReadEl(flash', a, LastPage(NextPool(Current'))) = None
    BY <1>2, <2>3
  <2>7. job'.pc \in {"el", "valid"} =>
          job'.el.data = ReadEl(flash', job'.el.addr, LastPage(NextPool(Current')))
    BY <1>2, <2>3
  <2> QED BY <2>4, <2>5, <2>6, <2>7 DEF Transferred
<1>7. Recovered'
  BY DEF Recovered
<1> QED BY <1>1, <1>4, <1>5, <1>6, <1>7 DEF SeenInv

LEMMA SeenOpen == ASSUME Sizes, Inv, SeenInv, OpenNextPage, Remember PROVE SeenInv' /\ Unseen
<1>1. /\ Pending /\ Global /\ UNCHANGED <<pv, status, crashes>> /\ job.pc = "el" /\ Full
      /\ job' = [job EXCEPT !.pc = "valid"] /\ job \in JobType /\ Unheaded(flash)
      /\ flash' = SetState(flash, Current + 1, GetState(flash, Current))
      /\ flash \in FlashType /\ Current \in Bank
  BY Phases, Known DEF OpenNextPage
<1>2. pv.next_write_offset = EE_NB_MAX_ELT /\ Current + 1 \in PoolOf(Current)
  BY <1>1, RoomFor
<1>3. Used(flash, Current, EE_NB_MAX_ELT, GetState(flash, Current))
  BY <1>1, <1>2, PendingPlace
<1>4. /\ flash' \in FlashType /\ GetState(flash', Current) = GetState(flash, Current)
      /\ \A q \in Others(Current) : flash'[q].el = flash[q].el
  <2>1. /\ flash' \in FlashType /\ Agree(flash, flash', Others(Current))
        /\ Used(flash', Current, EE_NB_MAX_ELT, GetState(flash, Current))
    BY <1>1, <1>2, <1>3, UsedOpened
  <2> QED BY <2>1, AgreeElements DEF Used
<1>5. \A a : ReadEl(flash', a, Current) = ReadEl(flash, a, Current)
  <2>1. Current + 1 \in Pages /\ GetState(flash, Current) \in RECEIVE .. ERASING
    <3>1. GetState(flash, Current) \in {RECEIVE, ACTIVE}
      BY <1>3 DEF Used
    <3> QED BY <1>1, <1>2, <3>1, BankPages DEF RECEIVE, ACTIVE, ERASING
  <2>2. \A q \in Pages : flash'[q].el = flash[q].el
    BY <1>1, <2>1, SetStateIs
  <2> QED BY <1>1, <1>4, <2>2, HeadersOnly
<1>6. /\ job'.pc = "valid" /\ job'.op = job.op /\ job'.asked = job.asked /\ job'.el = job.el
      /\ job'.then = job.then /\ job'.var = job.var
  BY <1>1 DEF JobType
<1>7. Current' = Current /\ Current \in PoolOf(Current)
  BY <1>1, Pools DEF Current
<1>8. Unseen
  BY <1>1, <1>6, Inside DEF Unseen
<1> QED BY <1>1, <1>4, <1>5, <1>6, <1>7, <1>8, SeenMoved

LEMMA SeenClose == ASSUME Sizes, Inv, SeenInv, ClosePage, Remember PROVE SeenInv' /\ Unseen
<1>1. /\ Pending /\ Global /\ UNCHANGED <<status, crashes>> /\ job.pc = "valid"
      /\ job' = [job EXCEPT !.pc = "el"] /\ job \in JobType /\ Unheaded(flash)
      /\ flash' = SetState(flash, Current, VALID)
      /\ pv' = [pv EXCEPT !.current_write_page = @ + 1, !.next_write_offset = 0]
      /\ flash \in FlashType /\ Current \in Bank /\ PlaceOf(pv)
  BY Phases, Known DEF ClosePage
<1>2. /\ pv.next_write_offset = EE_NB_MAX_ELT /\ Current + 1 \in PoolOf(Current)
      /\ GetState(flash, Current + 1) = GetState(flash, Current)
  BY <1>1, RoomFor DEF Pending
<1>3. Used(flash, Current, EE_NB_MAX_ELT, GetState(flash, Current))
  BY <1>1, <1>2, PendingPlace
<1>4. Current' = Current + 1
  BY <1>1 DEF Current, PlaceOf, PvType
<1>5. /\ flash' \in FlashType /\ GetState(flash', Current') = GetState(flash, Current)
      /\ \A q \in Others(Current) : flash'[q].el = flash[q].el
      /\ \A a : ReadEl(flash', a, Current') = ReadEl(flash, a, Current)
  <2>1. /\ flash' \in FlashType /\ Used(flash', Current + 1, 0, GetState(flash, Current))
        /\ Agree(flash, flash', Others(Current))
        /\ \A a : ReadEl(flash', a, Current + 1) = ReadEl(flash, a, Current)
    BY <1>1, <1>2, <1>3, UsedClosed
  <2> QED BY <1>4, <2>1, AgreeElements DEF Used
<1>6. /\ job'.pc = "el" /\ job'.op = job.op /\ job'.asked = job.asked /\ job'.el = job.el
      /\ job'.then = job.then /\ job'.var = job.var
  BY <1>1 DEF JobType
<1>7. Unseen
  BY <1>1, <1>6, Inside DEF Unseen
<1>8. Current' \in PoolOf(Current)
  BY <1>2, <1>4
<1> QED BY <1>1, <1>5, <1>6, <1>7, <1>8, SeenMoved

LEMMA SeenMark == ASSUME Sizes, Inv, SeenInv, MarkErasing, Remember PROVE SeenInv' /\ Unseen
<1>1. /\ Moving /\ Global /\ UNCHANGED <<pv, job, status, crashes>> /\ job.pc = "mark" /\ Unmarked # {}
      /\ flash' = SetState(flash, Highest(Unmarked), ERASING) /\ flash \in FlashType
      /\ Unheaded(flash) /\ Current \in Bank
  BY Phases, Known DEF MarkErasing
<1>2. Others(Current) \subseteq Pages /\ Current \in PoolOf(Current)
  BY <1>1, BankPages, Pools
<1>3. PICK p : p = Highest(Unmarked)
  OBVIOUS
<1>4. p \in Others(Current)
  <2>1. Unmarked \in SUBSET Others(Current) /\ Unmarked \in SUBSET Pages
    BY <1>2 DEF Unmarked, Others
  <2> QED BY <1>1, <1>3, <2>1, LowestHighest
<1>5. /\ flash' \in FlashType /\ \A q \in Pages : flash'[q].el = flash[q].el
      /\ \A q \in Pages \ {p} : GetState(flash', q) = GetState(flash, q)
  <2>1. p \in Pages /\ ERASING \in RECEIVE .. ERASING
    BY <1>2, <1>4 DEF RECEIVE, ERASING
  <2> QED BY <1>1, <1>3, <2>1, SetStateIs
<1>6. GetState(flash', Current) = GetState(flash, Current)
  <2>1. Current \in Pages /\ Current # p
    BY <1>1, <1>4, Pools, BankPages
  <2> QED BY <1>5, <2>1
<1>7. \A a : ReadEl(flash', a, Current) = ReadEl(flash, a, Current)
  BY <1>1, <1>5, HeadersOnly
<1>8. Current' = Current /\ job' = job
  BY <1>1 DEF Current
<1>9. Unseen
  BY <1>1, Inside DEF Unseen
<1> QED BY <1>1, <1>2, <1>5, <1>6, <1>7, <1>8, <1>9, SeenMoved

LEMMA SeenMarkDone == ASSUME Sizes, Inv, SeenInv, MarkDone, Remember PROVE SeenInv' /\ Unseen
<1>1. /\ Moving /\ UNCHANGED <<flash, pv>> /\ job.pc = "mark"
      /\ job' = [job EXCEPT !.pc = "copy", !.then = "copy"] /\ job \in JobType
  BY Phases, Known DEF MarkDone
<1>2. /\ job'.pc = "copy" /\ job'.op = job.op /\ job'.then = "copy"
      /\ job'.asked = job.asked /\ job'.var = job.var
  BY <1>1 DEF JobType
<1>3. Unseen
  BY <1>1, <1>2, Inside DEF Unseen
<1>4. Requested'
  BY <1>2, <1>3, RequestStays
<1>5. Transferred'
  BY <1>1, <1>2, <1>3 DEF Transferred, Copying, Current, Unseen, SeenInv
<1> QED BY <1>1, <1>2, <1>3, <1>4, <1>5 DEF SeenInv, ReadSeen, NotYet, Recovered, Moving

LEMMA SeenCopyNext == ASSUME Sizes, Inv, SeenInv, CopyNext, Remember PROVE SeenInv' /\ Unseen
<1>1. /\ Moving /\ UNCHANGED <<flash, pv>> /\ job.pc = "copy" /\ ToCopy # {} /\ Current \in Bank
      /\ job \in JobType /\ job.var \in 0 .. Capacity
  BY Phases, Known DEF CopyNext
<1>2. PICK v : v = Lowest(ToCopy)
  OBVIOUS
<1>3. v \in ToCopy /\ \A x \in ToCopy : v <= x
  <2>1. ToCopy \in SUBSET Nat
    BY <1>1, Numbers DEF ToCopy
  <2>2. \E m \in ToCopy : \A x \in ToCopy : m <= x
    BY <1>1, <2>1, LeastNatural
  <2> QED BY <1>2, <2>2, Zenon DEF Lowest
<1>4. v \in Nat /\ v < Capacity
  BY <1>1, <1>3, Numbers DEF ToCopy
<1> DEFINE e == [addr |-> v, data |-> OldValue(v)]
<1>5. job' = [job EXCEPT !.pc = "el", !.then = "copy", !.var = v + 1, !.el = e]
  BY <1>2 DEF CopyNext
<1>6. e.addr = v /\ e.data = ReadEl(flash, v, LastPage(NextPool(Current)))
  BY <1>1, OldIs
<1> HIDE DEF e
<1>7. /\ job'.pc = "el" /\ job'.op = job.op /\ job'.then = "copy" /\ job'.el = e
      /\ job'.asked = job.asked /\ job'.var = v + 1
  BY <1>1, <1>5 DEF JobType
<1>8. Unseen /\ Current' = Current
  BY <1>1, <1>7, Inside DEF Unseen, Current
<1>9. Requested'
  BY <1>7, <1>8, RequestStays
<1>10. /\ job.op = "write" => After(flash, Current, seen, doubt) /\ ReadEl(flash, job.asked.addr, Current) # None
       /\ job.op = "recover" => Either(flash, Current, seen, doubt)
       /\ \A a \in Addr : a < job.var =>
            ReadEl(flash, a, Current) # None \/ ReadEl(flash, a, LastPage(NextPool(Current))) = None
  BY <1>1 DEF SeenInv, Transferred, Copying
<1>11. ASSUME NEW a \in Addr, a < v + 1, a # v
       PROVE  ReadEl(flash, a, Current) # None \/ ReadEl(flash, a, LastPage(NextPool(Current))) = None
  <2>1. a \in Nat /\ a < v
    BY <1>4, <1>11, Numbers
  <2>2. CASE a < job.var
    BY <1>10, <2>2
  <2>3. CASE job.var <= a
    <3>1. a \notin ToCopy /\ a \in job.var .. Capacity - 1
      BY <1>1, <1>3, <1>4, <2>1, <2>3, Numbers
    <3>2. CASE OldValue(a) = None
      BY <1>1, <3>2, OldIs
    <3>3. CASE OldValue(a) # None
      <4>1. IF job.op = "recover" THEN ReadEl(flash, a, Current) # None ELSE a = job.asked.addr
        BY <3>1, <3>3 DEF ToCopy
      <4> QED BY <1>1, <1>10, <4>1 DEF Moving
    <3> QED BY <3>2, <3>3
  <2> QED BY <1>1, <2>1, <2>2, <2>3
<1>12. Transferred'
  BY <1>1, <1>6, <1>7, <1>8, <1>10, <1>11 DEF Transferred, Unseen
<1> QED BY <1>1, <1>7, <1>8, <1>9, <1>12 DEF SeenInv, ReadSeen, NotYet, Recovered, Moving

LEMMA SeenCopyDone == ASSUME Sizes, Inv, SeenInv, CopyDone, Remember PROVE SeenInv' /\ Unseen
<1>1. /\ Moving /\ UNCHANGED <<flash, pv>> /\ job.pc = "copy" /\ ToCopy = {} /\ Current \in Bank
      /\ job' = [job EXCEPT !.pc = "activate"] /\ job \in JobType /\ job.var \in 0 .. Capacity
  BY Phases, Known DEF CopyDone
<1>2. /\ job'.pc = "activate" /\ job'.op = job.op /\ job'.then = job.then
      /\ job'.asked = job.asked /\ job'.var = job.var
  BY <1>1 DEF JobType
<1>3. Unseen /\ Current' = Current
  BY <1>1, <1>2, Inside DEF Unseen, Current
<1>4. Requested'
  BY <1>2, <1>3, RequestStays
<1>5. /\ job.op = "write" => After(flash, Current, seen, doubt) /\ ReadEl(flash, job.asked.addr, Current) # None
      /\ job.op = "recover" => Either(flash, Current, seen, doubt)
      /\ \A a \in Addr : a < job.var =>
           ReadEl(flash, a, Current) # None \/ ReadEl(flash, a, LastPage(NextPool(Current))) = None
  BY <1>1 DEF SeenInv, Transferred, Copying
<1>6. ASSUME NEW a \in Addr
      PROVE  ReadEl(flash, a, Current) # None \/ ReadEl(flash, a, LastPage(NextPool(Current))) = None
  <2>1. a \in Nat /\ a \in 0 .. Capacity - 1
    BY Numbers DEF Sizes
  <2>2. CASE a < job.var
    BY <1>5, <2>2
  <2>3. CASE job.var <= a
    <3>1. a \in job.var .. Capacity - 1
      BY <1>1, <2>1, <2>3, Numbers
    <3>2. CASE OldValue(a) = None
      BY <1>1, <3>2, OldIs
    <3>3. CASE OldValue(a) # None
      <4>1. IF job.op = "recover" THEN ReadEl(flash, a, Current) # None ELSE a = job.asked.addr
        BY <1>1, <3>1, <3>3 DEF ToCopy
      <4> QED BY <1>1, <1>5, <4>1 DEF Moving
    <3> QED BY <3>2, <3>3
  <2> QED BY <1>1, <2>1, <2>2, <2>3
<1>7. Transferred'
  BY <1>1, <1>2, <1>3, <1>5, <1>6 DEF Transferred, Unseen
<1> QED BY <1>1, <1>2, <1>3, <1>4, <1>7 DEF SeenInv, ReadSeen, NotYet, Recovered, Moving

LEMMA SeenReceive == ASSUME Sizes, Inv, SeenInv, StartReceive, Remember PROVE SeenInv' /\ Unseen
<1>1. /\ Starting /\ Global /\ flash' = SetState(flash, NextPool(Current), RECEIVE)
      /\ flash \in FlashType /\ Unheaded(flash) /\ Current \in Bank /\ job \in JobType
      /\ pv' = [FreshVars EXCEPT !.current_write_page = NextPool(Current)]
      /\ job' = [job EXCEPT !.pc = "el", !.then = "mark"]
      /\ pv.nb_written_elements = Placed(Current, pv.next_write_offset)
      /\ pv.next_write_offset \in 0 .. EE_NB_MAX_ELT
  BY Phases, Known DEF StartReceive
<1>2. /\ Here(ACTIVE) /\ BlankPool(flash, Others(Current)) /\ pv.nb_written_elements >= Capacity
      /\ job.pc = "receive" /\ job.op = "write" /\ job.then = "done"
  BY <1>1 DEF Starting
<1>3. Current = LastPage(Current) /\ GetState(flash, Current) = ACTIVE
  BY <1>1, <1>2, Places DEF Here, Used
<1>4. PICK c \in Bank : c = NextPool(Current)
  BY <1>1, Pools
<1>5. c = FirstPage(c) /\ PoolOf(c) = Others(Current) /\ Others(c) = PoolOf(Current)
      /\ NextPool(c) = FirstPage(Current)
  BY <1>1, <1>4, Pools DEF Others
<1>6. LastPage(NextPool(c)) = Current
  <2>1. FirstPage(FirstPage(Current)) = FirstPage(Current)
    BY <1>1, Pools
  <2> QED BY <1>3, <1>5, <2>1 DEF LastPage
<1>7. /\ flash' \in FlashType /\ Used(flash', c, 0, RECEIVE) /\ Agree(flash, flash', PoolOf(Current))
      /\ \A a : Hits(flash', a, c) = {}
  BY <1>1, <1>2, <1>4, <1>5, UsedStarted
<1>8. \A a : ReadEl(flash', a, Current) = ReadEl(flash, a, Current) /\ ReadEl(flash', a, c) = None
  BY <1>1, <1>7, UsedSame, ReadIs
<1>9. \A a \in Addr : Now(flash', c, a) = Now(flash, Current, a)
  <2>1. GetState(flash', c) = RECEIVE
    BY <1>7 DEF Used
  <2>2. \A a : Now(flash', c, a) = ReadEl(flash, a, Current)
    BY <1>6, <1>8, <2>1 DEF Now
  <2> QED BY <1>3, <2>2, NowActive
<1>10. /\ job'.pc = "el" /\ job'.op = job.op /\ job'.then = "mark"
       /\ job'.asked = job.asked /\ job'.var = job.var
  BY <1>1, <1>2 DEF JobType
<1>11. Current' = c
  BY <1>1, <1>4 DEF FreshVars, Current
<1>12. Unseen
  BY <1>2, <1>10, Inside DEF Unseen
<1>13. Requested'
  BY <1>10, <1>12, RequestStays
<1>14. NotYet'
  <2>1. Before(flash, Current, seen) /\ job.var = 0
    BY <1>2 DEF SeenInv, NotYet
  <2>2. Before(flash', Current', seen)
    BY <1>9, <1>11, <2>1, NowSame
  <2> QED BY <1>10, <1>12, <2>1, <2>2 DEF NotYet, Unseen
<1> QED BY <1>2, <1>10, <1>12, <1>13, <1>14 DEF SeenInv, ReadSeen, Transferred, Copying, Recovered

LEMMA SeenAppend ==
  ASSUME Sizes, Inv, Inv', SeenInv, AppendElement, Remember
  PROVE  SeenInv' /\ (Unseen \/ Promise!StoreNext)
<1>1. /\ Pending /\ Global /\ ~ Full /\ job.pc = "el"
      /\ flash' = Program(flash, Current, pv.next_write_offset, job.el) /\ flash \in FlashType
      /\ Unheaded(flash) /\ PlaceOf(pv) /\ job \in JobType /\ Current \in Bank
      /\ pv' = [pv EXCEPT !.next_write_offset = @ + 1, !.nb_written_elements = @ + 1]
      /\ pv.next_write_offset \in 0 .. EE_NB_MAX_ELT
  BY Phases, Known DEF AppendElement
<1>2. PICK o \in 0 .. EE_NB_MAX_ELT - 1 : o = pv.next_write_offset
  BY <1>1, Numbers DEF Full
<1>3. o \in Slots
  BY DEF Slots
<1>4. PICK s : s = GetState(flash, Current)
  OBVIOUS
<1>5. Used(flash, Current, o, s)
  BY <1>1, <1>2, <1>4, PendingPlace
<1>6. job.el \in Element /\ job.el \in Word /\ job.el # Blank /\ job.el.data # None
  <2>1. job.el \in Element => job.el.data \in Data
    BY DEF Element
  <2> QED BY <1>1, <2>1, Words DEF Pending
<1>7. /\ flash' \in FlashType /\ GetState(flash', Current) = s
      /\ \A q \in Others(Current) : flash'[q].el = flash[q].el
  <2>1. flash' \in FlashType /\ Used(flash', Current, o + 1, s) /\ Agree(flash, flash', Others(Current))
    BY <1>1, <1>2, <1>5, <1>6, UsedAppended
  <2> QED BY <2>1, AgreeElements DEF Used
<1>8. \A a : ReadEl(flash', a, Current) = IF a = job.el.addr THEN job.el.data ELSE ReadEl(flash, a, Current)
  <2>1. \A i \in Slots : i >= o => flash[Current].el[i] = Blank
    BY <1>5 DEF Used
  <2> QED BY <1>1, <1>2, <1>3, <1>6, <2>1, ReadAppended
<1>9. \A a : ReadEl(flash', a, LastPage(NextPool(Current))) = ReadEl(flash, a, LastPage(NextPool(Current)))
  BY <1>1, <1>7, OldSame
<1>10. Current' = Current
  BY <1>1 DEF PlaceOf, PvType, Current
<1>11. \A a : Now(flash', Current, a) = IF a = job.el.addr THEN job.el.data ELSE Now(flash, Current, a)
  BY <1>4, <1>6, <1>7, <1>8, <1>9 DEF Now
<1>12. ASSUME job.then # "copy"
       PROVE  /\ job.op = "write" /\ doubt = job.el /\ doubt \in Element /\ job.el = job.asked
              /\ Before(flash, Current, seen) /\ job.var = 0
              /\ After(flash', Current, seen, doubt)
  <2>1. job.op = "write" /\ doubt = job.el /\ doubt \in Element /\ job.el = job.asked
    BY <1>1, <1>6, <1>12 DEF Pending, SeenInv, Requested
  <2>2. Before(flash, Current, seen) /\ job.var = 0
    BY <1>1, <1>12 DEF SeenInv, NotYet
  <2> QED BY <1>11, <2>1, <2>2 DEF Before, After
<1>13. CASE job.then = "done"
  <2>1. job' = NoJob /\ status' = "OK"
    BY <1>13 DEF AppendElement, Done
  <2>2. \A a \in Addr : ReadEl(flash', a, Current') = IF a = doubt.addr THEN doubt.data ELSE seen[a]
    <3>1. GetState(flash', Current) = ACTIVE
      BY <1>1, <1>4, <1>7, <1>13, PendingPlace
    <3>2. \A a \in Addr : Now(flash', Current, a) = IF a = doubt.addr THEN doubt.data ELSE seen[a]
      BY <1>12, <1>13 DEF After
    <3> QED BY <1>10, <3>1, <3>2, NowActive
  <2>3. Promise!StoreNext
    BY <1>12, <1>13, <2>1, <2>2, Answers
  <2> QED BY <2>1, <2>3, SeenAtEnd
<1>14. CASE job.then # "done"
  <2>1. job' = [job EXCEPT !.pc = job.then, !.el = None]
    BY <1>14 DEF AppendElement
  <2>2. /\ job'.pc = job.then /\ job'.then = job.then /\ job.then \in {"mark", "copy"}
        /\ job'.op = job.op /\ job'.asked = job.asked /\ job'.var = job.var
    BY <1>1, <1>14, <2>1 DEF JobType
  <2>3. Unseen
    BY <1>1, <2>2, Inside DEF Unseen
  <2>4. Requested'
    BY <2>2, <2>3, RequestStays
  <2>5. CASE job.then = "mark"
    <3>1. \A a \in Addr : ~ (a < 0)
      BY Numbers
    <3>2. ReadEl(flash', job.asked.addr, Current) # None
      BY <1>6, <1>8, <1>12, <2>5
    <3>3. Transferred'
      BY <1>10, <1>12, <2>2, <2>3, <2>5, <3>1, <3>2 DEF Transferred, Unseen
    <3> QED BY <1>12, <2>2, <2>3, <2>4, <2>5, <3>3 DEF SeenInv, ReadSeen, NotYet, Recovered
  <2>6. CASE job.then = "copy"
    <3>1. /\ job.op = "write" => After(flash, Current, seen, doubt) /\ ReadEl(flash, job.asked.addr, Current) # None
          /\ job.op = "recover" => Either(flash, Current, seen, doubt)
          /\ \A a \in Addr : a < job.var /\ a # job.el.addr =>
               ReadEl(flash, a, Current) # None \/ ReadEl(flash, a, LastPage(NextPool(Current))) = None
          /\ job.el.data = ReadEl(flash, job.el.addr, LastPage(NextPool(Current)))
          /\ job.op \in {"write", "recover"}
      BY <1>1, <2>6 DEF SeenInv, Transferred, Copying, Pending
    <3>2. \A a \in Addr : Now(flash', Current, a) = Now(flash, Current, a)
      <4>1. Hits(flash, job.el.addr, Current) = {} /\ s = RECEIVE
        BY <1>1, <1>4, <2>6, PendingPlace DEF Pending
      <4>2. Now(flash, Current, job.el.addr) = job.el.data
        BY <1>1, <1>4, <3>1, <4>1, ReadIs DEF Now
      <4> QED BY <1>11, <4>2
    <3>3. /\ job.op = "write" => After(flash', Current, seen, doubt) /\ ReadEl(flash', job.asked.addr, Current) # None
          /\ job.op = "recover" => Either(flash', Current, seen, doubt)
      BY <1>6, <1>8, <3>1, <3>2, NowSame
    <3>4. \A a \in Addr : a < job.var =>
            ReadEl(flash', a, Current) # None \/ ReadEl(flash', a, LastPage(NextPool(Current))) = None
      BY <1>6, <1>8, <1>9, <3>1
    <3>5. Transferred'
      BY <1>10, <2>2, <2>3, <2>6, <3>3, <3>4 DEF Transferred, Unseen
    <3> QED BY <2>2, <2>3, <2>4, <2>6, <3>1, <3>5 DEF SeenInv, ReadSeen, NotYet, Recovered
  <2> QED BY <2>2, <2>5, <2>6
<1> QED BY <1>13, <1>14

LEMMA SeenActivate ==
  ASSUME Sizes, Inv, Inv', SeenInv, Activate, Remember
  PROVE  SeenInv' /\ (Unseen \/ Promise!StoreNext)
<1>1. /\ Moving /\ Global /\ UNCHANGED pv /\ job.pc = "activate"
      /\ flash' = SetState(flash, Current, ACTIVE) /\ flash \in FlashType
      /\ Unheaded(flash) /\ Current \in Bank /\ pv.next_write_offset \in 0 .. EE_NB_MAX_ELT
  BY Phases, Known DEF Activate
<1>2. Receiving /\ job.op \in {"write", "recover"}
  BY <1>1 DEF Moving
<1>3. Used(flash, Current, pv.next_write_offset, RECEIVE) /\ Unopened(flash, Current)
  BY <1>1, <1>2 DEF Receiving, Here
<1>4. flash' \in FlashType /\ GetState(flash', Current) = ACTIVE /\ GetState(flash, Current) = RECEIVE
  <2>1. flash' \in FlashType /\ Used(flash', Current, pv.next_write_offset, ACTIVE)
    BY <1>1, <1>3, UsedActivated
  <2> QED BY <1>3, <2>1 DEF Used
<1>5. \A a : ReadEl(flash', a, Current) = ReadEl(flash, a, Current)
  <2>1. Current \in Pages /\ ACTIVE \in RECEIVE .. ERASING
    BY <1>1, BankPages DEF ACTIVE, RECEIVE, ERASING
  <2>2. \A q \in Pages : flash'[q].el = flash[q].el
    BY <1>1, <2>1, SetStateIs
  <2> QED BY <1>1, <1>4, <2>2, HeadersOnly
<1>6. /\ job.op = "write" => After(flash, Current, seen, doubt)
      /\ job.op = "recover" => Either(flash, Current, seen, doubt)
      /\ \A a \in Addr :
           ReadEl(flash, a, Current) # None \/ ReadEl(flash, a, LastPage(NextPool(Current))) = None
  BY <1>1 DEF SeenInv, Transferred, Copying
<1>7. \A a \in Addr : ReadEl(flash', a, Current) = Now(flash, Current, a)
  BY <1>5, <1>6 DEF Now
<1>8. \A a \in Addr : Now(flash', Current, a) = Now(flash, Current, a)
  BY <1>4, <1>7, NowActive
<1>9. Current' = Current
  BY <1>1 DEF Current
<1>10. CASE job.op = "write"
  <2>1. job' = NoJob /\ status' = "CLEAN_NEEDED"
    BY <1>10 DEF Activate, Done
  <2>2. /\ doubt \in Element
        /\ \A a \in Addr : ReadEl(flash', a, Current') = IF a = doubt.addr THEN doubt.data ELSE seen[a]
    BY <1>6, <1>7, <1>9, <1>10 DEF After
  <2>3. Promise!StoreNext
    BY <2>1, <2>2, Answers
  <2> QED BY <2>1, <2>3, SeenAtEnd
<1>11. CASE job.op = "recover"
  <2>1. job' = [NoJob EXCEPT !.pc = "sweep", !.op = "recover"]
    BY <1>11 DEF Activate
  <2>2. job'.pc = "sweep" /\ job'.op = job.op
    BY <1>11, <2>1 DEF NoJob
  <2>3. Unseen
    BY <1>1, <1>11, <2>2, Inside DEF Unseen
  <2>4. Requested'
    BY <1>11, <2>2, <2>3, RequestStays
  <2>5. Recovered'
    <3>1. Either(flash', Current', seen, doubt)
      BY <1>6, <1>8, <1>9, <1>11, NowSame
    <3> QED BY <2>2, <2>3, <3>1 DEF Recovered, Unseen
  <2> QED BY <1>11, <2>2, <2>3, <2>4, <2>5 DEF SeenInv, ReadSeen, NotYet, Transferred, Copying
<1> QED BY <1>2, <1>10, <1>11

-----------------------------------------------------------------------------
(* The pages that are not in use are erased, and a call ends.                *)

LEMMA SeenSweepPage == ASSUME Sizes, Inv, SeenInv, SweepPage, Remember PROVE SeenInv' /\ Unseen
<1>1. /\ Sweeping /\ Global /\ UNCHANGED <<pv, job>> /\ job.pc = "sweep" /\ Unerased # {}
      /\ flash' = Erase(flash, Lowest(Unerased)) /\ flash \in FlashType /\ Unheaded(flash)
      /\ Current \in Bank
  BY Phases, Known DEF SweepPage
<1>2. PICK p : p = Lowest(Unerased)
  OBVIOUS
<1>3. p \in Others(Current)
  <2>1. Unerased \in SUBSET Others(Current) /\ Unerased \in SUBSET Pages
    BY <1>1, BankPages DEF Unerased, Others
  <2> QED BY <1>1, <1>2, <2>1, LowestHighest
<1>4. flash' \in FlashType /\ Agree(flash, flash', PoolOf(Current))
  BY <1>1, <1>2, <1>3, ErasedElsewhere
<1>5. /\ \A a : ReadEl(flash', a, Current) = ReadEl(flash, a, Current)
      /\ GetState(flash, Current) = ACTIVE /\ GetState(flash', Current) = ACTIVE
  <2>1. \A a : ReadEl(flash', a, Current) = ReadEl(flash, a, Current)
    BY <1>1, <1>4, UsedSame
  <2>2. Current \in PoolOf(Current)
    BY <1>1, Pools
  <2> QED BY <1>1, <1>4, <2>1, <2>2 DEF Sweeping, Here, Used, Agree
<1>6. \A a \in Addr : Now(flash', Current, a) = Now(flash, Current, a)
  BY <1>5, NowActive
<1>7. Unseen /\ Current' = Current
  BY <1>1, Inside DEF Unseen, Current
<1>8. Requested'
  BY <1>1, <1>7, RequestStays
<1>9. Recovered'
  <2>1. Either(flash', Current', seen, doubt)
    BY <1>1, <1>6, <1>7, NowSame DEF SeenInv, Recovered
  <2> QED BY <1>1, <1>7, <2>1 DEF Recovered, Unseen
<1>10. job'.pc = "sweep" /\ job'.op = "recover"
  BY <1>1 DEF Sweeping
<1> QED BY <1>7, <1>8, <1>9, <1>10 DEF SeenInv, ReadSeen, NotYet, Transferred, Copying

LEMMA SeenSweepDone ==
  ASSUME Sizes, Inv, Inv', SeenInv, SweepDone, Remember
  PROVE  SeenInv' /\ Promise!StoreNext
<1>1. /\ Sweeping /\ UNCHANGED <<flash, pv>> /\ job.pc = "sweep" /\ job.op = "recover"
      /\ job' = NoJob /\ status' = "OK"
  BY Phases DEF SweepDone, Done, Sweeping
<1>2. Either(flash, Current, seen, doubt) /\ GetState(flash, Current) = ACTIVE
  BY <1>1 DEF SeenInv, Recovered, Sweeping, Here, Used
<1>3. Answer = "down" /\ Current' = Current
  BY <1>1 DEF Answer, Current
<1>4. \A a \in Addr : ReadEl(flash', a, Current') = Now(flash, Current, a)
  BY <1>1, <1>2, <1>3, NowActive
<1>5. CASE Before(flash, Current, seen)
  BY <1>1, <1>3, <1>4, <1>5, Answers, SeenAtEnd DEF Before
<1>6. CASE After(flash, Current, seen, doubt)
  BY <1>1, <1>4, <1>6, Answers, SeenAtEnd DEF After
<1> QED BY <1>2, <1>5, <1>6 DEF Either

LEMMA SeenErase ==
  ASSUME Sizes, Inv, Inv', SeenInv, ErasePage, Remember
  PROVE  SeenInv' /\ (Unseen \/ Promise!StoreNext)
<1>1. /\ Erasing /\ Global /\ UNCHANGED pv /\ job.pc = "erase" /\ job \in JobType
      /\ flash' = Erase(flash, job.at) /\ flash \in FlashType /\ Unheaded(flash) /\ Current \in Bank
  BY Phases, Known DEF ErasePage
<1>2. ASSUME job' # NoJob
      PROVE  job'.pc \in {"erase", "first"} /\ job'.op = job.op /\ job'.asked = job.asked
  BY <1>1, <1>2 DEF ErasePage, Done, JobType
<1>3. job' # NoJob => Unseen /\ Requested'
  <2>1. ASSUME job' # NoJob PROVE Unseen
    BY <1>1, <1>2, <2>1, Inside DEF Unseen
  <2> QED BY <1>2, <2>1, RequestStays
<1>4. CASE job.op = "clean"
  <2>1. Here(ACTIVE) /\ job.at \in Others(Current)
    BY <1>1, <1>4 DEF Erasing
  <2>2. flash' \in FlashType /\ Agree(flash, flash', PoolOf(Current))
    BY <1>1, <2>1, ErasedElsewhere
  <2>3. Current' = Current /\ \A a : ReadEl(flash', a, Current) = ReadEl(flash, a, Current)
    BY <1>1, <2>2, UsedSame DEF Current
  <2>4. doubt = None /\ \A a \in Addr : ReadEl(flash', a, Current') = seen[a]
    BY <1>4, <2>3 DEF SeenInv, ReadSeen
  <2>5. CASE job' = NoJob
    <3>1. status' = "OK"
      <4>1. CASE job.at = LastErased
        BY <1>4, <4>1 DEF ErasePage, Done
      <4>2. CASE job.at # LastErased
        <5>1. job'.pc = "erase"
          BY <1>1, <4>2 DEF ErasePage, JobType
        <5> QED BY <2>5, <5>1, CallTypes
      <4> QED BY <4>1, <4>2
    <3> QED BY <2>4, <2>5, <3>1, Answers, SeenAtEnd
  <2>6. CASE job' # NoJob
    <3>1. ReadSeen'
      BY <1>3, <2>4, <2>6 DEF ReadSeen, Unseen
    <3> QED BY <1>2, <1>3, <2>6, <3>1 DEF SeenInv, NotYet, Transferred, Copying, Recovered
  <2> QED BY <2>5, <2>6
<1>5. CASE job.op # "clean"
  <2>1. job' # NoJob
    <3>1. job'.pc \in {"erase", "first"}
      BY <1>1, <1>5 DEF ErasePage, JobType
    <3> QED BY <3>1, CallTypes
  <2> QED BY <1>2, <1>3, <1>5, <2>1 DEF SeenInv, ReadSeen, NotYet, Transferred, Copying, Recovered
<1> QED BY <1>4, <1>5

LEMMA SeenSetFirst ==
  ASSUME Sizes, Inv, Inv', SeenInv, SetFirstActive, Remember
  PROVE  SeenInv' /\ Promise!StoreNext
<1>1. /\ Formatted /\ Global /\ UNCHANGED pv
      /\ flash' = SetState(flash, 0, ACTIVE) /\ flash \in FlashType /\ Unheaded(flash)
      /\ job' = NoJob /\ status' = "OK"
  BY Phases, Known DEF SetFirstActive, Done
<1>2. PICK c \in Bank : c = 0 /\ c = FirstPage(c)
  BY ZeroIs
<1>3. BlankPool(flash, PoolOf(c))
  <2>1. PoolOf(c) \subseteq Bank
    BY Pools
  <2> QED BY <1>1, <2>1 DEF Formatted, BlankPool
<1>4. flash' \in FlashType /\ \A a : Hits(flash', a, c) = {}
  BY <1>1, <1>2, <1>3, UsedStarted
<1>5. Current' = c
  BY <1>1, <1>2, ZeroIs DEF Formatted, Current
<1>6. \A a \in Addr : ReadEl(flash', a, Current') = None
  BY <1>4, <1>5, ReadIs
<1>7. CASE job.op = "format"
  <2>1. doubt = Corrupt
    BY <1>7 DEF SeenInv, Requested
  <2> QED BY <1>1, <1>6, <2>1, Answers, SeenAtEnd
<1>8. CASE job.op = "reformat"
  <2>1. (\A a \in Addr : seen[a] = None) /\ Answer = "down"
    BY <1>8 DEF SeenInv, Requested, Answer
  <2>2. \A a \in Addr : ReadEl(flash', a, Current') = seen[a]
    BY <1>6, <2>1
  <2> QED BY <1>1, <2>1, <2>2, Answers, SeenAtEnd
<1> QED BY <1>1, <1>7, <1>8 DEF Formatted

-----------------------------------------------------------------------------
(* A call starts.                                                            *)

LEMMA Asked ==
  ASSUME Inv, SeenInv, Remember, job.pc = "idle", job'.pc \notin {"idle", "off"},
         \/ job'.op = "write" /\ job'.asked \in Element
         \/ job'.op = "format" \/ job'.op = "clean"
  PROVE  Promise!StoreNext /\ seen' = seen
<1>1. job = NoJob /\ status \in {"OK", "CLEAN_NEEDED"} /\ job.op = "none"
  BY Phases DEF Idle, NoJob
<1>2. Answer = "ok" /\ Answer' = "busy" /\ seen' = seen /\ doubt = None
  BY <1>1 DEF Answer, Remember, SeenInv, ReadSeen
<1>3. Promise!WriteRequest = Element
  BY DEF Promise!WriteRequest, Element
<1>4. doubt' \in Element \cup {None, Corrupt}
  BY <1>2 DEF Remember
<1> QED BY <1>2, <1>3, <1>4 DEF Promise!StoreNext, Promise!Ask

LEMMA SeenWrite ==
  ASSUME Sizes, Inv, SeenInv, Remember, NEW a \in Addr, NEW d \in Data, EEE_Write(a, d)
  PROVE  SeenInv' /\ Promise!StoreNext
<1>1. /\ Idle /\ Global /\ UNCHANGED <<flash, pv, crashes>> /\ status # "CLEAN_NEEDED"
      /\ flash \in FlashType /\ Current \in Bank /\ job.pc = "idle"
  BY Phases, Known DEF EEE_Write, Ready
<1>2. Here(ACTIVE) /\ BlankPool(flash, Others(Current))
  BY <1>1 DEF Idle
<1>3. GetState(flash, NextPool(Current)) = ERASED
  <2>1. NextPool(Current) \in Others(Current) /\ NextPool(Current) \in Pages
    BY <1>1, Pools, BankPages
  <2> QED BY <1>1, <1>2, <2>1, BlankState DEF BlankPool
<1> DEFINE e == [addr |-> a, data |-> d]
           appending == [NoJob EXCEPT !.pc = "el", !.op = "write", !.asked = e, !.el = e]
<1>4. e \in Element
  BY DEF Element
<1>5. /\ appending \in JobType /\ appending.pc = "el" /\ appending.op = "write"
      /\ appending.asked = e /\ appending.then = "done" /\ appending.var = 0
  BY <1>4, CallTypes DEF JobType, NoJob
<1>6. job' = appending \/ job' = [appending EXCEPT !.pc = "receive"]
  BY <1>3, ZenonT(30) DEF EEE_Write
<1> HIDE DEF e, appending
<1>7. /\ job'.pc \in {"el", "receive"} /\ job'.op = "write" /\ job'.asked = e
      /\ job'.then = "done" /\ job'.var = 0
  BY <1>5, <1>6 DEF JobType
<1>8. Promise!StoreNext /\ seen' = seen
  BY <1>1, <1>4, <1>7, Asked
<1>9. doubt' = e
  BY <1>7 DEF Remember
<1>10. Requested'
  <2>1. Corrupt \notin Element /\ seen \in [Addr -> Data \cup {None}]
    BY Words DEF SeenInv, Requested
  <2> QED BY <1>4, <1>7, <1>8, <1>9, <2>1 DEF Requested
<1>11. NotYet'
  <2>1. GetState(flash, Current) = ACTIVE /\ Current' = Current
    BY <1>1, <1>2 DEF Here, Used, Current
  <2>2. Before(flash', Current', seen')
    BY <1>1, <1>8, <2>1, NowActive DEF Before, SeenInv, ReadSeen
  <2> QED BY <1>7, <2>2 DEF NotYet
<1> QED BY <1>7, <1>8, <1>10, <1>11 DEF SeenInv, ReadSeen, Transferred, Copying, Recovered

LEMMA SeenClean == ASSUME Sizes, Inv, SeenInv, EEE_Clean, Remember PROVE SeenInv' /\ Promise!StoreNext
<1>1. /\ Idle /\ UNCHANGED <<flash, pv, crashes>> /\ status = "CLEAN_NEEDED" /\ Current \in Bank
      /\ job.pc = "idle"
  BY Phases, Known DEF EEE_Clean
<1>2. Marked(flash, Others(Current)) /\ NextPool(Current) \in Others(Current)
  BY <1>1, Pools DEF Idle
<1>3. job' = [NoJob EXCEPT !.pc = "erase", !.op = "clean", !.at = NextPool(Current)]
  BY <1>2 DEF EEE_Clean, Marked
<1>4. job'.pc = "erase" /\ job'.op = "clean"
  BY <1>3 DEF NoJob
<1>5. Promise!StoreNext /\ seen' = seen
  BY <1>1, <1>4, Asked
<1>6. doubt = None /\ doubt' = None /\ Current' = Current
  BY <1>1, <1>4 DEF Remember, SeenInv, ReadSeen, Current
<1>7. ReadSeen'
  BY <1>1, <1>5, <1>6 DEF SeenInv, ReadSeen
<1>8. Requested'
  BY <1>4, <1>5, <1>6, Words DEF SeenInv, Requested
<1> QED BY <1>4, <1>5, <1>7, <1>8 DEF SeenInv, NotYet, Transferred, Copying, Recovered

LEMMA SeenFormat == ASSUME Sizes, Inv, SeenInv, NVM_Erase, Remember PROVE SeenInv' /\ Promise!StoreNext
<1>1. job.pc = "idle" /\ job' = [Reformat EXCEPT !.op = "format"]
  BY DEF NVM_Erase, Ready
<1>2. job'.pc = "erase" /\ job'.op = "format"
  BY <1>1, CallTypes DEF JobType
<1>3. Promise!StoreNext /\ seen' = seen
  BY <1>1, <1>2, Asked
<1>4. doubt' = Corrupt
  BY <1>2 DEF Remember
<1>5. Requested'
  BY <1>2, <1>3, <1>4 DEF SeenInv, Requested
<1> QED BY <1>2, <1>3, <1>5 DEF SeenInv, ReadSeen, NotYet, Transferred, Copying, Recovered

-----------------------------------------------------------------------------
(* The power is lost.                                                        *)

LEMMA InUseSeen ==
  ASSUME Sizes, Inv, SeenInv, job.op \notin {"format", "reformat"}, job.pc # "off"
  PROVE  Either(flash, InUse, seen, doubt)
<1>1. /\ Global /\ job \in JobType /\ flash \in FlashType /\ Current \in Bank
  BY Phases, Known
<1>2. CASE job.pc = "fix"
  BY <1>2 DEF SeenInv, Recovered, InUse
<1>3. CASE job.pc = "sweep"
  BY <1>3 DEF SeenInv, Recovered, InUse
<1>4. CASE job.pc = "idle" \/ (job.op = "clean" /\ job.pc = "erase")
  <2>1. Here(ACTIVE)
    BY <1>4, Phases DEF Idle, Erasing
  <2>2. GetState(flash, Current) = ACTIVE
    BY <2>1 DEF Here, Used
  <2>3. Before(flash, Current, seen)
    BY <1>4, <2>2, NowActive DEF SeenInv, ReadSeen, Before
  <2> QED BY <1>4, <2>3 DEF Either, InUse
<1>5. CASE Copying
  <2>1. job.op \in {"write", "recover"} /\ job.pc # "fix"
    BY <1>5, Phases DEF Copying, Pending, Moving
  <2> QED BY <1>5, <2>1 DEF SeenInv, Transferred, Either, InUse
<1>6. CASE job.pc \in {"el", "valid", "receive"} /\ job.then # "copy"
  BY <1>6 DEF SeenInv, NotYet, Either, InUse
<1>7. CASE job.pc = "receive" /\ job.then = "copy"
  BY <1>7, Phases DEF Starting
<1>8. CASE job.pc \in {"erase", "first"} /\ job.op # "clean"
  BY <1>8, Phases DEF Erasing, Formatted
<1>9. job.pc = "first" => job.op # "clean"
  BY Phases DEF Formatted
<1>10. job.pc \in {"idle", "el", "valid", "receive", "mark", "copy", "activate", "fix", "sweep", "erase", "first"}
  BY <1>1 DEF JobType
<1>11. CASE job.pc \in {"el", "valid", "receive", "mark", "copy", "activate"}
  BY <1>5, <1>6, <1>7, <1>11 DEF Copying
<1> QED BY <1>2, <1>3, <1>4, <1>8, <1>9, <1>10, <1>11

\* What would be recovered just before the loss is what will be recovered.
LEMMA LossSame ==
  ASSUME Sizes, Inv, PowerLoss, Undisturbed, job.op # "reformat"
  PROVE  \A a \in Addr : Now(flash', InUse, a) = Now(flash, InUse, a)
<1>1. /\ Global /\ flash \in FlashType /\ Current \in Bank /\ job \in JobType
      /\ pv.next_write_offset \in 0 .. EE_NB_MAX_ELT /\ flash' \in AfterCut
  BY Phases, Known DEF PowerLoss
<1>2. CASE flash' = flash
  BY <1>2
<1>3. CASE job.pc = "el" /\ ~ Full /\ flash' = Program(flash, Current, pv.next_write_offset, Corrupt)
  <2>1. Pending
    BY <1>3, Phases
  <2>2. PICK o \in 0 .. EE_NB_MAX_ELT - 1 : o = pv.next_write_offset
    BY <1>1, <1>3, Numbers DEF Full
  <2>3. PICK s : s = GetState(flash, Current)
    OBVIOUS
  <2>4. Used(flash, Current, o, s)
    BY <1>1, <2>1, <2>2, <2>3, PendingPlace
  <2>5. Corrupt \in Word /\ Corrupt # Blank /\ Corrupt \notin Element /\ o \in Slots
    BY Words DEF Slots
  <2>6. \A a : ReadEl(flash', a, Current) = ReadEl(flash, a, Current)
    <3>1. \A i \in Slots : i >= o => flash[Current].el[i] = Blank
      BY <2>4 DEF Used
    <3> QED BY <1>1, <1>3, <2>2, <2>5, <3>1, ReadAppended
  <2>7. /\ flash' \in FlashType /\ GetState(flash', Current) = GetState(flash, Current)
        /\ \A q \in Others(Current) : flash'[q].el = flash[q].el
    <3>1. flash' \in FlashType /\ Used(flash', Current, o + 1, s) /\ Agree(flash, flash', Others(Current))
      BY <1>1, <1>3, <2>2, <2>4, <2>5, Phases, Known, UsedAppended
    <3> QED BY <2>3, <3>1, AgreeElements DEF Used
  <2>8. Current \in PoolOf(Current) /\ InUse = Current
    BY <1>1, <1>3, Pools DEF InUse
  <2> QED BY <1>1, <2>6, <2>7, <2>8, NowMoved
<1>4. ASSUME NEW p, flash' \in Cut(p), p \in Others(Current), job.pc # "fix"
      PROVE  \A a \in Addr : Now(flash', InUse, a) = Now(flash, InUse, a)
  <2>1. p \in Pages /\ Current \in Pages \ {p} /\ Current \in PoolOf(Current)
    <3>1. p \in Pages /\ p \notin PoolOf(Current) /\ Current \in PoolOf(Current) /\ Current \in Pages
      BY <1>1, <1>4, Pools, BankPages
    <3> QED BY <3>1
  <2>2. PICK h \in SUBSET (RECEIVE .. ERASING) : flash' = WithHeader(flash, p, h)
    <3>1. flash[p].hdr \subseteq RECEIVE .. ERASING
      BY <1>1, <2>1 DEF FlashType, Page
    <3> QED BY <1>4, <3>1 DEF Cut, WithHeader
  <2>3. /\ flash' \in FlashType /\ \A q \in Pages : flash'[q].el = flash[q].el
        /\ GetState(flash', Current) = GetState(flash, Current)
    BY <1>1, <2>1, <2>2, HeaderReplaced
  <2>4. \A a : ReadEl(flash', a, Current) = ReadEl(flash, a, Current)
    BY <1>1, <2>3, HeadersOnly
  <2>5. InUse = Current /\ \A q \in Others(Current) : flash'[q].el = flash[q].el
    BY <1>1, <1>4, <2>3, BankPages DEF InUse
  <2> QED BY <1>1, <2>1, <2>3, <2>4, <2>5, NowMoved
<1>5. CASE job.pc = "erase" /\ flash' \in Cut(job.at)
  <2>1. job.op = "clean" /\ job.at \in Others(Current)
    BY <1>5, Phases DEF Erasing, Undisturbed
  <2> QED BY <1>4, <1>5, <2>1
<1>6. CASE job.pc = "sweep" /\ Unerased # {} /\ flash' \in Cut(Lowest(Unerased))
  <2>1. PICK p : p = Lowest(Unerased)
    OBVIOUS
  <2>2. p \in Others(Current)
    <3>1. Unerased \in SUBSET Others(Current) /\ Unerased \in SUBSET Pages
      BY <1>1, BankPages DEF Unerased, Others
    <3> QED BY <1>6, <2>1, <3>1, LowestHighest
  <2> QED BY <1>4, <1>6, <2>1, <2>2
<1> QED BY <1>1, <1>2, <1>3, <1>5, <1>6 DEF AfterCut

LEMMA SeenLoss ==
  ASSUME Sizes, Inv, SeenInv, PowerLoss, Undisturbed, Remember
  PROVE  SeenInv' /\ Promise!StoreNext
<1>1. job' = Off /\ job'.pc = "off" /\ job'.op = "none" /\ job.pc # "off" /\ job.op # "format"
  BY CallTypes DEF PowerLoss, Off, NoJob, Undisturbed
<1>2. seen' = seen /\ doubt' = doubt /\ Answer' = "down"
  BY <1>1 DEF Remember, Answer
<1>3. Promise!StoreNext
  BY <1>2 DEF Promise!StoreNext, Promise!PowerLoss
<1>4. Requested'
  BY <1>1, <1>2 DEF SeenInv, Requested
<1>5. BlankPool(flash', Bank) /\ job.op = "reformat" => \A a \in Addr : seen[a] = None
  BY DEF SeenInv, Requested
<1>6. ASSUME Recoverable(flash', crashes'), job.op # "reformat"
      PROVE  \E c \in Bank, o \in 0 .. EE_NB_MAX_ELT, s \in {RECEIVE, ACTIVE} :
               Left(flash', c, o, s, crashes') /\ Either(flash', c, seen, doubt)
  <2>1. Either(flash, InUse, seen, doubt)
    BY <1>1, <1>6, InUseSeen
  <2>2. Either(flash', InUse, seen, doubt)
    BY <1>6, <2>1, LossSame, NowSame
  <2> QED BY <1>6, <2>2 DEF Recoverable
<1>7. ASSUME job.op = "reformat" PROVE BlankPool(flash', Bank)
  <2>1. job.pc \in {"erase", "first"} /\ BlankPool(flash, Bank) /\ job.at \in Bank
    <3>1. job \in JobType /\ job.at \in Bank
      BY Phases, Known
    <3>2. job.pc \in {"erase", "first"}
      BY <1>1, <1>7, <3>1, Phases DEF Idle, NoJob, Fixing, Sweeping, Pending, Starting, Moving, JobType
    <3> QED BY <1>7, <3>1, <3>2, Phases DEF Erasing, Formatted
  <2>2. flash[job.at].hdr = {} /\ flash' \in AfterCut
    BY <2>1, BlankPageIs DEF BlankPool, PowerLoss
  <2>3. flash' = flash
    BY <2>1, <2>2 DEF AfterCut, Cut
  <2> QED BY <2>1, <2>3
<1>8. Recovered'
  BY <1>1, <1>2, <1>5, <1>6, <1>7, PowerLossLeaves DEF Recovered
<1> QED BY <1>1, <1>3, <1>4, <1>8 DEF SeenInv, ReadSeen, NotYet, Transferred, Copying

-----------------------------------------------------------------------------
(* Every step is one of NvStore or is not seen by the caller.                *)

LEMMA SeenAtStart == SeenInit => SeenInv /\ Promise!StoreInit
<1> SUFFICES ASSUME SeenInit PROVE SeenInv /\ Promise!StoreInit
  OBVIOUS
<1>1. /\ job.pc = "off" /\ job.op = "none" /\ BlankPool(flash, Bank)
      /\ seen = [a \in Addr |-> None] /\ doubt = None
  BY CallTypes, Numbers DEF SeenInit, Init, Off, NoJob, BlankPool
<1>2. Promise!StoreInit
  BY <1>1 DEF Promise!StoreInit, Answer
<1>3. Requested
  BY <1>1, Words DEF Requested
<1> QED BY <1>1, <1>2, <1>3 DEF SeenInv, ReadSeen, NotYet, Transferred, Copying, Recovered

LEMMA SeenStutters == ASSUME SeenInv, UNCHANGED allvars PROVE SeenInv' /\ Unseen
<1>1. UNCHANGED <<flash, pv, job, status, crashes, seen, doubt>> /\ Current' = Current
  BY DEF allvars, Current
<1>2. Requested' /\ ReadSeen' /\ NotYet'
  BY <1>1 DEF SeenInv, Requested, ReadSeen, NotYet
<1>3. Transferred'
  BY <1>1 DEF SeenInv, Transferred, Copying
<1>4. Recovered'
  BY <1>1 DEF SeenInv, Recovered
<1>5. Unseen
  BY <1>1 DEF Unseen, Answer
<1> QED BY <1>2, <1>3, <1>4, <1>5 DEF SeenInv

LEMMA SeenKept ==
  ASSUME Sizes, Inv, SeenInv, Next, Remember, PowerLoss => Undisturbed
  PROVE  Inv' /\ SeenInv' /\ (Unseen \/ Promise!StoreNext)
<1>1. Inv'
  BY InvKept
<1>2. CASE PowerUp \/ FixPrevious \/ SweepPage \/ SweepDone \/ ErasePage \/ SetFirstActive
  BY <1>1, <1>2, SeenPowerUp, SeenFix, SeenSweepPage, SeenSweepDone, SeenErase, SeenSetFirst
<1>3. CASE OpenNextPage \/ ClosePage \/ AppendElement \/ StartReceive \/ MarkErasing \/ MarkDone
  BY <1>1, <1>3, SeenOpen, SeenClose, SeenAppend, SeenReceive, SeenMark, SeenMarkDone
<1>4. CASE CopyNext \/ CopyDone \/ Activate
  BY <1>1, <1>4, SeenCopyNext, SeenCopyDone, SeenActivate
<1>5. CASE Call
  BY <1>1, <1>5, SeenWrite, SeenClean, SeenFormat DEF Call
<1>6. CASE Refused
  BY <1>6 DEF Refused, Sizes
<1>7. CASE PowerLoss
  BY <1>1, <1>7, SeenLoss
<1> QED BY <1>2, <1>3, <1>4, <1>5, <1>6, <1>7 DEF Next, Step

LEMMA SeenStep ==
  ASSUME Sizes, Inv, SeenInv, [SeenNext]_allvars, [PowerLoss => Undisturbed]_vars
  PROVE  Inv' /\ SeenInv' /\ [Promise!StoreNext]_(Promise!svars)
<1>1. Unseen => UNCHANGED Promise!svars
  BY DEF Unseen, Promise!svars
<1>2. CASE SeenNext
  <2>1. PowerLoss => Undisturbed
    <3>1. Inv => crashes \in Nat
      BY Phases, Known
    <3>2. PowerLoss => ~ UNCHANGED vars
      BY <3>1 DEF PowerLoss, vars
    <3> QED BY <3>2
  <2> QED BY <1>1, <1>2, <2>1, SeenKept DEF SeenNext
<1>3. CASE UNCHANGED allvars
  <2>1. UNCHANGED vars
    BY <1>3 DEF allvars, vars
  <2> QED BY <1>1, <1>3, <2>1, InvStutters, SeenStutters
<1> QED BY <1>2, <1>3

\* Under the same conditions as the invariant, the emulation implements NvStore:
\* every step of a call, of recovery and every power loss is one that NvStore
\* allows, or is not seen by the caller.
THEOREM PromiseIsKept ==
  ASSUME Sizes
  PROVE  SeenSpec /\ Calm => KeepsItsPromise
<1>1. SeenInit => Inv /\ SeenInv /\ Promise!StoreInit
  BY InvAtStart, SeenAtStart DEF SeenInit
<1>2. Inv /\ SeenInv /\ [SeenNext]_allvars /\ [PowerLoss => Undisturbed]_vars
        => Inv' /\ SeenInv' /\ [Promise!StoreNext]_(Promise!svars)
  BY SeenStep
<1> QED BY <1>1, <1>2, PTL DEF SeenSpec, Calm, KeepsItsPromise, Promise!StoreSpec

LEMMA HistoryOnly == SeenSpec => Spec
<1>1. SeenInit => Init
  BY DEF SeenInit
<1>2. [SeenNext]_allvars => [Next]_vars
  BY DEF SeenNext, allvars, vars
<1> QED BY <1>1, <1>2, PTL DEF SeenSpec, Spec

\* With one power loss at most and no erase by the application: no word is lost
\* or reverts, whatever the flash operation at which the power is cut.
THEOREM EmulationImplementsStore ==
  ASSUME Sizes, MaxCrashes <= 1, MayErase = FALSE
  PROVE  SeenSpec => KeepsItsPromise
BY HistoryOnly, OneLossIsCalm, PromiseIsKept

\* A power-up never formats a bank that holds words.
THEOREM RecoveryIsKept ==
  ASSUME Sizes
  PROVE  SeenSpec /\ Calm => PowerLossIsRecovered
<1>1. SeenInit => Inv /\ SeenInv
  BY InvAtStart, SeenAtStart DEF SeenInit
<1>2. Inv /\ SeenInv /\ [SeenNext]_allvars /\ [PowerLoss => Undisturbed]_vars => Inv' /\ SeenInv'
  BY SeenStep
<1>3. ASSUME Inv, SeenInv, PowerUp, \E a \in Addr : seen[a] # None
      PROVE  job'.op = "recover"
  <2>1. Global /\ job.pc = "off"
    BY <1>3, Phases DEF PowerUp
  <2>2. PICK c \in Bank, o \in 0 .. EE_NB_MAX_ELT, s \in {RECEIVE, ACTIVE} : Left(flash, c, o, s, crashes)
    BY <1>3, <2>1 DEF SeenInv, Recovered
  <2> QED BY <1>3, <2>1, <2>2, PowerUpTakes DEF Adopted, NoJob
<1>4. Inv /\ SeenInv => [(PowerUp /\ doubt # Corrupt /\ \E a \in Addr : seen[a] # None)
                           => job'.op = "recover"]_allvars
  BY <1>3
<1> QED BY <1>1, <1>2, <1>4, PTL DEF SeenSpec, Calm, PowerLossIsRecovered
=============================================================================
