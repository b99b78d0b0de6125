-------------------------- MODULE ButtonInputProofs --------------------------
(***************************************************************************)
(* Machine-checked safety of the button input, for any number of buttons   *)
(* and level changes and any size of the ring buffer.                      *)
(***************************************************************************)
EXTENDS ButtonInput, SequenceTheorems, TLAPS

-----------------------------------------------------------------------------
(* The inductive invariant. *)

\* The task has taken a record and not yet handled it.
Taking == task.pc \in {"store", "read"}
Handled == IF Taking THEN popped - 1 ELSE popped

\* The slot of the k-th record, and what it holds until Size more are pushed.
SlotOf(k) == (k - 1) % Size

RingInv ==
  /\ popped <= Len(pushed)
  /\ Wrapped(inIdx) = Len(pushed) % Size
  /\ outIdx = popped % Size
  /\ Taking => popped >= 1 /\ task.slot = SlotOf(popped)
  /\ \A k \in 1 .. Len(pushed) :
       /\ buffer[SlotOf(k)] \in Record
       /\ Len(pushed) < k + Size => buffer[SlotOf(k)] = pushed[k]

\* The count misses exactly the increments that were lost.
CountInv ==
  /\ Backlog = dataCount + lost - (IF task.pc = "store" THEN 1 ELSE 0)
  /\ task.pc = "store" => 1 <= task.loaded /\ task.loaded <= dataCount
  /\ task.pc = "off" /\ "buttons" \notin posted => dataCount = 0
  /\ ~ overrun => Unread <= Size

\* A button that is down has been counted.
TimerInv ==
  /\ TimerHasAReport
  /\ \A b \in Buttons : statePre[b] = "pressed" => cnt[b] > 0

\* Once the edges of a pin are served, its level is that of the last record of
\* the button still to be handled, or the one the state machine knows.
StateInv ==
  ~ overrun =>
    \A b \in Buttons \ (edge \cup {isr}) :
      \/ \E k \in Handled + 1 .. Len(pushed) :
           /\ pushed[k] = [button |-> b, status |-> pin[b]]
           /\ \A j \in k + 1 .. Len(pushed) : pushed[j].button # b
      \/ /\ \A j \in Handled + 1 .. Len(pushed) : pushed[j].button # b
         /\ statePre[b] = pin[b] \/ gaveUp[b]

ButtonInv == TypeOK /\ RingInv /\ CountInv /\ TimerInv /\ StateInv

-----------------------------------------------------------------------------
(* The slots of a ring buffer. *)

LEMMA DivMod ==
  ASSUME NEW k \in Nat, NEW S \in Nat \ {0}
  PROVE  k = S * (k \div S) + (k % S) /\ k \div S \in Int /\ k % S \in 0 .. S - 1
OBVIOUS

\* A remainder is the only one of its kind.
LEMMA ModUnique ==
  ASSUME NEW S \in Nat \ {0}, NEW q \in Int, NEW r \in 0 .. S - 1, S * q + r \in Nat
  PROVE  (S * q + r) % S = r
<1> DEFINE x == S * q + r
           u == x \div S
           v == x % S
<1>1. x = S * u + v /\ u \in Int /\ v \in 0 .. S - 1
  OBVIOUS
<1> HIDE DEF u, v
<1>2. CASE u = q
  BY <1>1, <1>2
<1>3. ASSUME NEW m \in Int, NEW n \in Int, NEW s \in 0 .. S - 1, NEW t \in 0 .. S - 1,
             m < n, S * m + s = S * n + t
      PROVE  FALSE
  <2>1. n - m >= 1 /\ S >= 1
    BY <1>3
  <2>2. S * (n - m) >= S
    BY <2>1
  <2>3. S * (n - m) = S * n - S * m
    OBVIOUS
  <2>4. S * n \in Int /\ S * m \in Int
    OBVIOUS
  <2> QED BY <1>3, <2>2, <2>3, <2>4
<1>4. u < q \/ q < u \/ u = q
  BY <1>1
<1> QED BY <1>1, <1>2, <1>3, <1>4 DEF v

\* Counting on by one wraps at the end of the buffer.
LEMMA ModNext ==
  ASSUME NEW k \in Nat, NEW S \in Nat \ {0}
  PROVE  (k + 1) % S = IF (k % S) + 1 >= S THEN 0 ELSE (k % S) + 1
<1> DEFINE q == k \div S
           r == k % S
<1>1. k = S * q + r /\ q \in Int /\ r \in 0 .. S - 1
  BY DivMod
<1> HIDE DEF q, r
<1>2. CASE r + 1 < S
  <2>1. k + 1 = S * q + (r + 1) /\ r + 1 \in 0 .. S - 1 /\ k + 1 \in Nat
    BY <1>1, <1>2
  <2>2. (S * q + (r + 1)) % S = r + 1
    BY <1>1, <2>1, ModUnique
  <2> QED BY <1>1, <1>2, <2>1, <2>2 DEF r
<1>3. CASE r + 1 = S
  <2>1. S * (q + 1) = S * q + S
    BY <1>1
  <2>2. k + 1 = S * (q + 1) + 0 /\ 0 \in 0 .. S - 1 /\ q + 1 \in Int
    BY <1>1, <1>3, <2>1
  <2>3. (S * (q + 1) + 0) % S = 0
    BY <1>1, <2>2, ModUnique
  <2> QED BY <1>3, <2>2, <2>3 DEF r
<1> QED BY <1>1, <1>2, <1>3

\* Fewer than S counts lead to another slot.
LEMMA ModDistinct ==
  ASSUME NEW a \in Nat, NEW b \in Nat, NEW S \in Nat \ {0}, a < b, b < a + S
  PROVE  a % S # b % S
<1> DEFINE m == a \div S
           n == b \div S
           s == a % S
           t == b % S
<1>1. /\ a = S * m + s /\ m \in Int /\ s \in 0 .. S - 1
      /\ b = S * n + t /\ n \in Int /\ t \in 0 .. S - 1
  OBVIOUS
<1> HIDE DEF m, n, s, t
<1> SUFFICES ASSUME s = t PROVE FALSE
  BY DEF s, t
<1>2. S * n \in Int /\ S * m \in Int /\ S * (n - m) = S * n - S * m
  BY <1>1
<1>3. S * (n - m) > 0 /\ S * (n - m) < S
  BY <1>1, <1>2
<1>4. CASE n - m >= 1
  <2>1. S * (n - m) >= S
    BY <1>1, <1>4
  <2> QED BY <1>1, <1>3, <2>1
<1>5. CASE n - m <= 0
  <2>1. S * (n - m) <= 0
    BY <1>1, <1>5
  <2> QED BY <1>1, <1>3, <2>1
<1> QED BY <1>1, <1>4, <1>5

LEMMA ModSlot ==
  ASSUME NEW k \in Nat, NEW S \in Nat \ {0}
  PROVE  k % S \in 0 .. S - 1 /\ 0 % S = 0
OBVIOUS
-----------------------------------------------------------------------------
LEMMA Sizes ==
  ASSUME TypeOK
  PROVE  Size \in Nat \ {0} /\ Len(pushed) \in Nat /\ pushed \in Seq(Record) /\ popped \in Nat
BY ButtonAssumption, LenProperties DEF TypeOK

\* What EdgeCallback does to the ring buffer.
LEMMA Pushing ==
  ASSUME ButtonInv, EdgeCallback
  PROVE  LET n == Len(pushed)
             r == [button |-> isr, status |-> pin[isr]]
         IN  /\ isr \in Buttons /\ r \in Record
             /\ pushed' \in Seq(Record) /\ Len(pushed') = n + 1 /\ pushed'[n + 1] = r
             /\ \A k \in 1 .. n : pushed'[k] = pushed[k]
             /\ n % Size \in Slots
             /\ buffer' = [buffer EXCEPT ![n % Size] = r]
             /\ inIdx' = (n % Size) + 1 /\ dataCount' = dataCount + 1
             /\ overrun' = (overrun \/ Unread >= Size)
<1> DEFINE n == Len(pushed)
           r == [button |-> isr, status |-> pin[isr]]
<1> USE DEF ButtonInv
<1>1. isr \in Buttons /\ pin[isr] \in Status
  BY DEF EdgeCallback, TypeOK
<1>2. r \in Record
  BY <1>1 DEF Record
<1>3. Wrapped(inIdx) = n % Size
  BY DEF RingInv
<1>4. n % Size \in Slots
  BY Sizes, ModSlot DEF Slots
<1>5. Push(r) /\ pushed' = Append(pushed, r)
  BY DEF EdgeCallback, Push
<1>6. /\ pushed' \in Seq(Record) /\ Len(pushed') = n + 1 /\ pushed'[n + 1] = r
      /\ \A k \in 1 .. n : pushed'[k] = pushed[k]
  BY <1>2, <1>5, Sizes, AppendProperties
<1> QED BY <1>1, <1>2, <1>3, <1>4, <1>5, <1>6 DEF Push

\* What the task reads when it handles a record.
LEMMA Reading ==
  ASSUME ButtonInv, Taking
  PROVE  /\ popped \in 1 .. Len(pushed) /\ buffer[task.slot] \in Record
         /\ ~ overrun => buffer[task.slot] = pushed[popped]
<1> USE DEF ButtonInv
<1>1. popped \in 1 .. Len(pushed) /\ task.slot = SlotOf(popped)
  BY Sizes DEF RingInv
<1>2. ~ overrun => Len(pushed) < popped + Size
  <2>1. ~ overrun => Len(pushed) - popped + 1 <= Size
    BY DEF CountInv, Unread, Backlog, Taking
  <2> QED BY <2>1, Sizes
<1> QED BY <1>1, <1>2 DEF RingInv

LEMMA ButtonInit == Init => ButtonInv
<1> SUFFICES ASSUME Init PROVE ButtonInv
  OBVIOUS
<1>1. Size \in Nat \ {0} /\ 0 \in Slots /\ 0 % Size = 0
  BY ButtonAssumption, ModSlot DEF Slots
<1>2. pushed = <<>> /\ pushed \in Seq(Record) /\ Len(pushed) = 0 /\ popped = 0
  BY EmptySeq DEF Init
<1>3. TypeOK
  <2>1. task \in [pc : {"off", "loop", "store", "read"}, slot : Slots, loaded : Nat]
    BY <1>1 DEF Init, Off
  <2>2. buffer \in [Slots -> Record \cup {None}]
    BY DEF Init
  <2>3. inIdx \in 0 .. Size
    BY <1>1 DEF Init
  <2>4. /\ statePre \in [Buttons -> Status] /\ pin \in [Buttons -> Status]
        /\ cnt \in [Buttons -> Nat]
    BY DEF Init, Status
  <2>5. gaveUp \in [Buttons -> BOOLEAN]
    BY DEF Init
  <2> QED BY <1>1, <1>2, <2>1, <2>2, <2>3, <2>4, <2>5 DEF Init, TypeOK
<1>4. \A k : k \notin 1 .. 0 /\ k \notin 0 + 1 .. 0
  OBVIOUS
<1>5. RingInv
  BY <1>1, <1>2, <1>4 DEF Init, RingInv, Wrapped, Taking, Off
<1>6. CountInv
  BY <1>1, <1>2 DEF Init, CountInv, Backlog, Unread, Off
<1>7. TimerInv
  BY DEF Init, TimerInv, TimerHasAReport
<1>8. StateInv
  BY <1>2, <1>4 DEF Init, StateInv, Handled, Taking, Off
<1> QED BY <1>3, <1>5, <1>6, <1>7, <1>8 DEF ButtonInv

\* The state machine takes any record.
LEMMA Updated ==
  ASSUME TypeOK, TimerInv, NEW b \in Buttons, NEW status \in Status, NEW held \in Held,
         Update(b, status, held)
  PROVE  /\ statePre' \in [Buttons -> Status] /\ cnt' \in [Buttons -> Nat]
         /\ gaveUp' \in [Buttons -> BOOLEAN] /\ armed' \in BOOLEAN
         /\ lastShortKey' \in Buttons \cup {None}
         /\ posted \subseteq posted' /\ posted' \subseteq posted \cup {"join"}
         /\ statePre'[b] = status \/ gaveUp'[b]
         /\ \A c \in Buttons \ {b} : statePre'[c] = statePre[c] /\ gaveUp'[c] = gaveUp[c]
         /\ TimerInv'
<1> USE DEF TypeOK, TimerInv, TimerHasAReport, Status, Forget
<1>0. None \notin Buttons /\ \A c \in Buttons : cnt[c] + 1 \in Nat /\ cnt[c] + 1 > 0
  BY ButtonAssumption
<1>1. CASE status = "pressed" /\ FirstPress(b)
  BY <1>0, <1>1 DEF FirstPress
<1>2. CASE status = "pressed" /\ PressAgain(b, held)
  <2>1. CASE held = "error"
    <3>1. /\ statePre' = [statePre EXCEPT ![b] = "released"]
          /\ cnt' = [cnt EXCEPT ![b] = 0] /\ gaveUp' = [gaveUp EXCEPT ![b] = TRUE]
          /\ armed' = FALSE /\ UNCHANGED <<lastShortKey, posted>>
      BY <1>2, <2>1 DEF PressAgain
    <3>2. /\ statePre' \in [Buttons -> Status] /\ cnt' \in [Buttons -> Nat]
          /\ gaveUp' \in [Buttons -> BOOLEAN]
      BY <3>1
    <3>3. TimerInv'
      BY <3>1, <3>2
    <3>4. gaveUp'[b] /\ \A c \in Buttons \ {b} : statePre'[c] = statePre[c] /\ gaveUp'[c] = gaveUp[c]
      BY <3>1
    <3>5. /\ armed' \in BOOLEAN /\ lastShortKey' \in Buttons \cup {None}
          /\ posted \subseteq posted' /\ posted' \subseteq posted \cup {"join"}
      BY <3>1
    <3> QED BY <3>2, <3>3, <3>4, <3>5
  <2>2. CASE held # "error"
    BY <1>0, <1>2, <2>2 DEF PressAgain
  <2> QED BY <2>1, <2>2
<1>3. CASE status # "pressed" /\ Release(b, held)
  <2>1. CASE held = "short"
    BY <1>0, <1>3, <2>1 DEF Release, Remember
  <2>2. CASE held # "short"
    <3>1. /\ statePre' = [statePre EXCEPT ![b] = "released"] /\ cnt' = [cnt EXCEPT ![b] = 0]
          /\ armed' = FALSE /\ UNCHANGED <<lastShortKey, posted, gaveUp>>
      BY <1>3, <2>2 DEF Release
    <3>2. statePre' \in [Buttons -> Status] /\ cnt' \in [Buttons -> Nat]
      BY <3>1
    <3>3. TimerInv'
      BY <3>1, <3>2
    <3>4. /\ statePre'[b] = status
          /\ \A c \in Buttons \ {b} : statePre'[c] = statePre[c] /\ gaveUp'[c] = gaveUp[c]
      BY <1>3, <3>1
    <3>5. /\ armed' \in BOOLEAN /\ lastShortKey' \in Buttons \cup {None}
          /\ posted \subseteq posted' /\ posted' \subseteq posted \cup {"join"}
      BY <3>1
    <3> QED BY <3>1, <3>2, <3>3, <3>4, <3>5
  <2> QED BY <2>1, <2>2
<1>4. CASE status # "pressed" /\ ReleaseAgain(b)
  BY <1>0, <1>4 DEF ReleaseAgain
<1> QED BY <1>1, <1>2, <1>3, <1>4 DEF Update

\* An edge interrupt records the level of its pin.
LEMMA CallbackStep ==
  ASSUME ButtonInv, EdgeCallback
  PROVE  ButtonInv'
<1> DEFINE n == Len(pushed)
           r == [button |-> isr, status |-> pin[isr]]
<1> USE DEF ButtonInv
<1>1. /\ isr \in Buttons /\ r \in Record
      /\ pushed' \in Seq(Record) /\ Len(pushed') = n + 1 /\ pushed'[n + 1] = r
      /\ \A k \in 1 .. n : pushed'[k] = pushed[k]
      /\ n % Size \in Slots
      /\ buffer' = [buffer EXCEPT ![n % Size] = r]
      /\ inIdx' = (n % Size) + 1 /\ dataCount' = dataCount + 1
      /\ overrun' = (overrun \/ Unread >= Size)
  BY Pushing
<1>2. /\ UNCHANGED <<pin, edge, outIdx, task, machine, popped, lost, gaveUp>>
      /\ isr' = None /\ posted' = posted \cup {"buttons"}
  BY DEF EdgeCallback
<1>s. Size \in Nat \ {0} /\ n \in Nat /\ popped \in Nat /\ dataCount \in Nat /\ lost \in Nat
  BY Sizes DEF TypeOK
<1> HIDE DEF n, r
<1>3. TypeOK'
  <2>1. buffer' \in [Slots -> Record \cup {None}]
    BY <1>1 DEF TypeOK
  <2>2. inIdx' \in 0 .. Size /\ dataCount' \in Nat
    BY <1>1, <1>s DEF Slots
  <2>3. overrun' \in BOOLEAN
    BY <1>1 DEF TypeOK
  <2> QED BY <1>1, <1>2, <2>1, <2>2, <2>3 DEF TypeOK, machine
<1>4. RingInv'
  <2>1. Wrapped(inIdx') = (n + 1) % Size
    BY <1>1, <1>s, ModNext DEF Wrapped
  <2>2. ASSUME NEW k \in 1 .. n + 1
        PROVE  /\ buffer'[SlotOf(k)] \in Record
               /\ n + 1 < k + Size => buffer'[SlotOf(k)] = pushed'[k]
    <3>0. k - 1 \in Nat /\ SlotOf(k) \in Slots
      BY <1>s, ModSlot DEF SlotOf, Slots
    <3>1. CASE k = n + 1
      <4>1. SlotOf(k) = n % Size
        BY <1>s, <3>1 DEF SlotOf
      <4> QED BY <1>1, <3>1, <4>1 DEF TypeOK
    <3>2. CASE k \in 1 .. n
      <4>1. buffer[SlotOf(k)] \in Record /\ (n < k + Size => buffer[SlotOf(k)] = pushed[k])
        BY <3>2 DEF RingInv, n
      <4>2. buffer'[SlotOf(k)] = IF SlotOf(k) = n % Size THEN r ELSE buffer[SlotOf(k)]
        BY <1>1, <3>0 DEF TypeOK
      <4>3. n + 1 < k + Size => n < k + Size /\ SlotOf(k) # n % Size
        <5>1. n + 1 < k + Size => k - 1 < n /\ n < k - 1 + Size /\ n < k + Size
          BY <1>s, <3>2
        <5> QED BY <1>s, <3>0, <5>1, ModDistinct DEF SlotOf
      <4> QED BY <1>1, <3>2, <4>1, <4>2, <4>3
    <3> QED BY <1>s, <3>1, <3>2
  <2>3. popped <= n + 1 /\ SlotOf(popped)' = SlotOf(popped)
    BY <1>2, <1>s DEF RingInv, n, SlotOf
  <2> QED BY <1>1, <1>2, <2>1, <2>2, <2>3 DEF RingInv, Taking, SlotOf, Wrapped
<1>5. CountInv'
  <2>1. Backlog' = Backlog + 1 /\ (Unread' = Unread + 1) /\ Unread \in Int
    BY <1>1, <1>2, <1>s DEF Backlog, Unread, n
  <2>2. Backlog' = dataCount' + lost' - (IF task'.pc = "store" THEN 1 ELSE 0)
    BY <1>1, <1>2, <1>s, <2>1 DEF CountInv, Backlog, n
  <2>3. task'.pc = "store" => 1 <= task'.loaded /\ task'.loaded <= dataCount'
    BY <1>1, <1>2, <1>s DEF CountInv, TypeOK
  <2>4. ~ overrun' => Unread' <= Size
    <3>1. ~ overrun' => ~ overrun /\ ~ (Unread >= Size)
      BY <1>1, Zenon
    <3> QED BY <1>s, <2>1, <3>1
  <2> QED BY <1>2, <2>2, <2>3, <2>4 DEF CountInv
<1>6. TimerInv'
  BY <1>2 DEF TimerInv, TimerHasAReport, machine
<1>7. StateInv'
  <2> SUFFICES ASSUME ~ overrun', NEW b \in Buttons \ (edge \cup {None})
               PROVE  \/ \E k \in Handled + 1 .. n + 1 :
                           /\ pushed'[k] = [button |-> b, status |-> pin[b]]
                           /\ \A j \in k + 1 .. n + 1 : pushed'[j].button # b
                      \/ /\ \A j \in Handled + 1 .. n + 1 : pushed'[j].button # b
                         /\ statePre[b] = pin[b] \/ gaveUp[b]
    BY <1>1, <1>2 DEF StateInv, Handled, Taking, machine
  <2>0. Handled \in Int /\ Handled <= n /\ Handled >= 0
    BY <1>s DEF Handled, RingInv, n
  <2>1. CASE b = isr
    <3>1. /\ n + 1 \in Handled + 1 .. n + 1
          /\ pushed'[n + 1] = [button |-> b, status |-> pin[b]]
          /\ n + 1 + 1 .. n + 1 = {}
      BY <1>1, <1>s, <2>0, <2>1 DEF r
    <3> QED BY <3>1
  <2>2. CASE b # isr
    <3>1. pushed'[n + 1].button # b
      BY <1>1, <2>2 DEF r
    <3>2. ASSUME NEW i \in Int, i >= 1, \A j \in i .. n : pushed[j].button # b
          PROVE  \A j \in i .. n + 1 : pushed'[j].button # b
      <4>1. ASSUME NEW j \in i .. n + 1, j # n + 1 PROVE j \in 1 .. n /\ j \in i .. n
        BY <1>s, <3>2, <4>1
      <4> QED BY <1>1, <3>1, <3>2, <4>1
    <3>3. ~ overrun
      BY <1>1
    <3>4. CASE \E k \in Handled + 1 .. n :
                 /\ pushed[k] = [button |-> b, status |-> pin[b]]
                 /\ \A j \in k + 1 .. n : pushed[j].button # b
      <4>1. PICK k \in Handled + 1 .. n :
                 /\ pushed[k] = [button |-> b, status |-> pin[b]]
                 /\ \A j \in k + 1 .. n : pushed[j].button # b
        BY <3>4
      <4>2. k \in 1 .. n /\ k \in Handled + 1 .. n + 1 /\ k + 1 \in Int /\ k + 1 >= 1
        BY <1>s, <2>0
      <4>3. \A j \in k + 1 .. n + 1 : pushed'[j].button # b
        BY <3>2, <4>1, <4>2
      <4> QED BY <1>1, <4>1, <4>2, <4>3
    <3>5. CASE /\ \A j \in Handled + 1 .. n : pushed[j].button # b
               /\ statePre[b] = pin[b] \/ gaveUp[b]
      <4>1. Handled + 1 \in Int /\ Handled + 1 >= 1
        BY <2>0
      <4> QED BY <3>2, <3>5, <4>1
    <3> QED BY <2>2, <3>3, <3>4, <3>5 DEF StateInv, n
  <2> QED BY <2>1, <2>2
<1> QED BY <1>3, <1>4, <1>5, <1>6, <1>7

\* The task handles the record it has taken.
LEMMA HandleStep ==
  ASSUME ButtonInv, Handle
  PROVE  ButtonInv'
<1> USE DEF ButtonInv
<1>1. /\ task.pc = "read" /\ isr = None /\ task' = [task EXCEPT !.pc = "loop"]
      /\ UNCHANGED <<pin, edge, isr, buffer, inIdx, outIdx, dataCount, pushed, popped, lost, overrun>>
  BY DEF Handle, Thread, pins, ring
<1>2. /\ popped \in 1 .. Len(pushed) /\ buffer[task.slot] \in Record
      /\ ~ overrun => buffer[task.slot] = pushed[popped]
  BY <1>1, Reading DEF Taking
<1> DEFINE r == buffer[task.slot]
<1>3. PICK held \in Held : Update(r.button, r.status, held)
  BY DEF Handle
<1>4. r \in Record /\ r.button \in Buttons /\ r.status \in Status
  BY <1>2 DEF Record
<1>5. /\ statePre' \in [Buttons -> Status] /\ cnt' \in [Buttons -> Nat]
      /\ gaveUp' \in [Buttons -> BOOLEAN] /\ armed' \in BOOLEAN
      /\ lastShortKey' \in Buttons \cup {None}
      /\ posted \subseteq posted' /\ posted' \subseteq posted \cup {"join"}
      /\ statePre'[r.button] = r.status \/ gaveUp'[r.button]
      /\ \A c \in Buttons \ {r.button} : statePre'[c] = statePre[c] /\ gaveUp'[c] = gaveUp[c]
      /\ TimerInv'
  BY <1>3, <1>4, Updated
<1> HIDE DEF r
<1>6. task' \in [pc : {"off", "loop", "store", "read"}, slot : Slots, loaded : Nat] /\ task'.pc = "loop"
  BY <1>1 DEF TypeOK
<1>7. TypeOK'
  BY <1>1, <1>5, <1>6 DEF TypeOK
<1>8. RingInv'
  BY <1>1, <1>6 DEF RingInv, Taking, SlotOf, Wrapped
<1>9. CountInv'
  <2>1. Backlog' = Backlog /\ Backlog \in Int /\ Unread = Backlog + 1 /\ Unread' = Backlog
    BY <1>1, <1>6, Sizes DEF Backlog, Unread
  <2> QED BY <1>1, <1>6, <2>1, Sizes DEF CountInv
<1>10. StateInv'
  <2> SUFFICES ASSUME ~ overrun, NEW b \in Buttons \ (edge \cup {isr})
               PROVE  \/ \E k \in popped + 1 .. Len(pushed) :
                           /\ pushed[k] = [button |-> b, status |-> pin[b]]
                           /\ \A j \in k + 1 .. Len(pushed) : pushed[j].button # b
                      \/ /\ \A j \in popped + 1 .. Len(pushed) : pushed[j].button # b
                         /\ statePre'[b] = pin[b] \/ gaveUp'[b]
    BY <1>1, <1>6 DEF StateInv, Handled, Taking
  <2>0. popped \in Nat /\ Len(pushed) \in Nat /\ Handled + 1 = popped /\ r = pushed[popped]
    BY <1>1, <1>2, Sizes DEF Handled, Taking, r
  <2>1. CASE \E k \in popped .. Len(pushed) :
               /\ pushed[k] = [button |-> b, status |-> pin[b]]
               /\ \A j \in k + 1 .. Len(pushed) : pushed[j].button # b
    <3>1. PICK k \in popped .. Len(pushed) :
               /\ pushed[k] = [button |-> b, status |-> pin[b]]
               /\ \A j \in k + 1 .. Len(pushed) : pushed[j].button # b
      BY <2>1
    <3>2. CASE k = popped
      <4>1. r.button = b /\ r.status = pin[b]
        BY <2>0, <3>1, <3>2
      <4> QED BY <1>5, <3>1, <3>2, <4>1
    <3>3. CASE k # popped
      <4>1. k \in popped + 1 .. Len(pushed)
        BY <2>0, <3>1, <3>3
      <4> QED BY <3>1, <4>1
    <3> QED BY <3>2, <3>3
  <2>2. CASE /\ \A j \in popped .. Len(pushed) : pushed[j].button # b
             /\ statePre[b] = pin[b] \/ gaveUp[b]
    <3>1. popped \in popped .. Len(pushed) /\ \A j \in popped + 1 .. Len(pushed) : j \in popped .. Len(pushed)
      BY <1>2, <2>0
    <3>2. r.button # b
      BY <2>0, <2>2, <3>1
    <3>3. statePre'[b] = statePre[b] /\ gaveUp'[b] = gaveUp[b]
      BY <1>5, <3>2
    <3>4. statePre'[b] = pin[b] \/ gaveUp'[b]
      BY <2>2, <3>3, Zenon
    <3> QED BY <2>2, <3>1, <3>4
  <2> QED BY <2>0, <2>1, <2>2 DEF StateInv
<1> QED BY <1>5, <1>7, <1>8, <1>9, <1>10

\* The task takes the oldest record.
LEMMA TakeStep ==
  ASSUME ButtonInv, Take
  PROVE  ButtonInv'
<1> USE DEF ButtonInv
<1>1. /\ task.pc = "loop" /\ dataCount > 0 /\ popped' = popped + 1
      /\ task' = [pc |-> "store", slot |-> outIdx, loaded |-> dataCount]
      /\ outIdx' = (IF outIdx + 1 >= Size THEN 0 ELSE outIdx + 1)
      /\ UNCHANGED <<pin, edge, isr, buffer, inIdx, dataCount, posted, machine, pushed, lost, overrun, gaveUp>>
  BY DEF Take, Thread, pins
<1>s. /\ Size \in Nat \ {0} /\ Len(pushed) \in Nat /\ popped \in Nat
      /\ dataCount \in Nat /\ lost \in Nat /\ outIdx \in Slots
  BY Sizes DEF TypeOK
<1>2. Backlog = dataCount + lost /\ Backlog' = Backlog - 1 /\ Backlog = Len(pushed) - popped
  BY <1>1, <1>s DEF CountInv, Backlog
<1>3. TypeOK'
  <2>1. task' \in [pc : {"off", "loop", "store", "read"}, slot : Slots, loaded : Nat]
    BY <1>1, <1>s
  <2>2. outIdx' \in Slots /\ popped' \in Nat
    BY <1>1, <1>s DEF Slots
  <2> QED BY <1>1, <2>1, <2>2 DEF TypeOK, machine
<1>4. RingInv'
  <2>1. outIdx' = popped' % Size
    BY <1>1, <1>s, ModNext DEF RingInv
  <2>2. popped' <= Len(pushed) /\ popped' >= 1
    BY <1>1, <1>2, <1>s
  <2>3. task'.slot = (popped' - 1) % Size
    <3>1. popped' - 1 = popped
      BY <1>1, <1>s
    <3> QED BY <1>1, <3>1 DEF RingInv
  <2> QED BY <1>1, <2>1, <2>2, <2>3 DEF RingInv, Taking, SlotOf, Wrapped
<1>5. CountInv'
  <2>1. Unread = Backlog /\ Unread' = Backlog
    BY <1>1, <1>2, <1>s DEF Unread
  <2>2. Backlog' = dataCount + lost - 1
    BY <1>1, <1>2, <1>s
  <2> QED BY <1>1, <1>s, <2>1, <2>2 DEF CountInv
<1>6. TimerInv'
  BY <1>1 DEF TimerInv, TimerHasAReport, machine
<1>7. Handled' = Handled
  BY <1>1, <1>s DEF Handled, Taking
<1>8. StateInv'
  BY <1>1, <1>7 DEF StateInv, machine
<1> QED BY <1>3, <1>4, <1>5, <1>6, <1>8

LEMMA StoreStep ==
  ASSUME ButtonInv, StoreCount
  PROVE  ButtonInv'
<1> USE DEF ButtonInv
<1>1. /\ task.pc = "store" /\ dataCount' = task.loaded - 1
      /\ lost' = lost + (dataCount - task.loaded) /\ task' = [task EXCEPT !.pc = "read"]
      /\ UNCHANGED <<pin, edge, isr, buffer, inIdx, outIdx, posted, machine, pushed, popped, overrun, gaveUp>>
  BY DEF StoreCount, Thread, pins
<1>s. /\ Len(pushed) \in Nat /\ popped \in Nat /\ dataCount \in Nat /\ lost \in Nat
      /\ task.loaded \in Nat /\ 1 <= task.loaded /\ task.loaded <= dataCount
  BY <1>1, Sizes DEF TypeOK, CountInv
<1>2. task' \in [pc : {"off", "loop", "store", "read"}, slot : Slots, loaded : Nat]
      /\ task'.pc = "read" /\ task'.slot = task.slot
  BY <1>1 DEF TypeOK
<1>3. TypeOK'
  <2>1. dataCount' \in Nat /\ lost' \in Nat
    BY <1>1, <1>s
  <2> QED BY <1>1, <1>2, <2>1 DEF TypeOK, machine
<1>4. RingInv'
  BY <1>1, <1>2 DEF RingInv, Taking, SlotOf, Wrapped
<1>5. CountInv'
  <2>1. Backlog' = Backlog /\ Backlog \in Int /\ Unread' = Unread
    BY <1>1, <1>2, <1>s DEF Backlog, Unread
  <2>2. Backlog = dataCount + lost - 1
    BY <1>1 DEF CountInv
  <2>3. Backlog' = dataCount' + lost' - 0
    BY <1>1, <1>s, <2>1, <2>2
  <2> QED BY <1>1, <1>2, <2>1, <2>3 DEF CountInv
<1>6. TimerInv'
  BY <1>1 DEF TimerInv, TimerHasAReport, machine
<1>7. Handled' = Handled
  BY <1>1, <1>2 DEF Handled, Taking
<1>8. StateInv'
  BY <1>1, <1>7 DEF StateInv, machine
<1> QED BY <1>3, <1>4, <1>5, <1>6, <1>8

\* The other steps leave the ring buffer and its count alone.
LEMMA RestStep ==
  ASSUME ButtonInv,
         \/ \E b \in Buttons : Change(b) \/ EdgeInterrupt(b)
         \/ RunTask \/ EndTask \/ RunJoin \/ TimerElapsed
  PROVE  ButtonInv'
<1> USE DEF ButtonInv
<1>1. UNCHANGED <<ring, history>>
  BY DEF Change, EdgeInterrupt, RunTask, EndTask, RunJoin, TimerElapsed
<1>2. /\ task' \in [pc : {"off", "loop", "store", "read"}, slot : Slots, loaded : Nat]
      /\ task' = task \/ (~ Taking /\ ~ Taking')
  <2>1. 0 \in Slots
    BY ButtonAssumption DEF Slots
  <2>2. CASE RunTask
    BY <2>2 DEF RunTask, Thread, TypeOK, Taking
  <2>3. CASE EndTask
    BY <2>1, <2>3 DEF EndTask, Thread, Off, Taking
  <2>4. CASE UNCHANGED task
    BY <2>4 DEF TypeOK
  <2> QED BY <2>2, <2>3, <2>4 DEF Change, EdgeInterrupt, RunJoin, TimerElapsed
<1>3. Handled' = Handled /\ Taking' = Taking
  BY <1>1, <1>2 DEF Handled, Taking, history
<1>4. /\ pin' \in [Buttons -> Status] /\ edge' \subseteq Buttons /\ isr' \in Buttons \cup {None}
      /\ posted' \subseteq posted
      /\ \A b \in Buttons \ (edge' \cup {isr'}) : b \notin edge \cup {isr} /\ pin'[b] = pin[b]
  <2>1. ASSUME NEW b \in Buttons, Change(b) PROVE <1>4!:
    BY <2>1 DEF Change, TypeOK, Status, Opposite
  <2>2. ASSUME NEW b \in Buttons, EdgeInterrupt(b) PROVE <1>4!:
    BY <2>2, ButtonAssumption DEF EdgeInterrupt, TypeOK
  <2>3. CASE RunTask \/ EndTask \/ RunJoin \/ TimerElapsed
    BY <2>3 DEF RunTask, EndTask, RunJoin, TimerElapsed, TypeOK, pins
  <2> QED BY <2>1, <2>2, <2>3
<1>5. /\ TimerInv' /\ UNCHANGED <<statePre, lastShortKey>>
      /\ cnt' \in [Buttons -> Nat] /\ armed' \in BOOLEAN
  <2>1. CASE TimerElapsed
    <3>1. lastShortKey \in Buttons /\ statePre[lastShortKey] = "released"
      BY <2>1 DEF TimerElapsed, TimerInv, TimerHasAReport, TypeOK
    <3>2. /\ armed' = FALSE /\ cnt' = [cnt EXCEPT ![lastShortKey] = 0]
          /\ UNCHANGED <<statePre, lastShortKey>>
      BY <2>1, <3>1, ButtonAssumption DEF TimerElapsed
    <3> QED BY <3>1, <3>2 DEF TimerInv, TimerHasAReport, TypeOK
  <2>2. CASE UNCHANGED machine
    BY <2>2 DEF TimerInv, TimerHasAReport, TypeOK, machine
  <2> QED BY <2>1, <2>2 DEF Change, EdgeInterrupt, RunTask, EndTask, RunJoin
<1>6. TypeOK'
  BY <1>1, <1>2, <1>4, <1>5 DEF TypeOK, ring, history
<1>7. RingInv'
  BY <1>1, <1>2, <1>3 DEF RingInv, ring, history, Taking, SlotOf, Wrapped
<1>8. CountInv'
  <2>1. task'.pc = "store" <=> task.pc = "store"
    BY <1>2 DEF Taking
  <2>2. Backlog' = Backlog /\ Unread' = Unread
    BY <1>1, <1>3 DEF Backlog, Unread, history, Taking
  <2>3. task'.pc = "store" => task' = task
    BY <1>2 DEF Taking
  <2>4. task'.pc = "off" /\ "buttons" \notin posted' => dataCount = 0
    <3>1. CASE RunTask
      BY <3>1 DEF RunTask, Thread
    <3>2. CASE EndTask
      BY <3>2 DEF EndTask
    <3>3. CASE task' = task /\ ("buttons" \in posted => "buttons" \in posted')
      BY <3>3 DEF CountInv
    <3>4. RunTask \/ EndTask \/ task' = task
      BY DEF Change, EdgeInterrupt, RunJoin, TimerElapsed
    <3>5. RunTask \/ EndTask \/ ("buttons" \in posted => "buttons" \in posted')
      BY DEF Change, EdgeInterrupt, RunJoin, TimerElapsed
    <3> QED BY <3>1, <3>2, <3>3, <3>4, <3>5
  <2> QED BY <1>1, <2>1, <2>2, <2>3, <2>4 DEF CountInv, ring, history
<1>9. StateInv'
  BY <1>1, <1>3, <1>4, <1>5, SMTT(60) DEF StateInv, history
<1> QED BY <1>5, <1>6, <1>7, <1>8, <1>9

LEMMA ButtonInvariant == Spec => []ButtonInv
<1>1. ButtonInv /\ [Next]_vars => ButtonInv'
  <2> SUFFICES ASSUME ButtonInv, [Next]_vars PROVE ButtonInv'
    OBVIOUS
  <2>1. CASE UNCHANGED vars
    BY <2>1 DEF vars, pins, ring, machine, history, ButtonInv, TypeOK, RingInv, CountInv, TimerInv,
       StateInv, TimerHasAReport, Backlog, Unread, Handled, Taking, SlotOf, Wrapped
  <2> QED BY <2>1, CallbackStep, HandleStep, TakeStep, StoreStep, RestStep DEF Next, Interrupts, TaskSteps
<1> QED BY <1>1, ButtonInit, PTL DEF Spec
-----------------------------------------------------------------------------
(* The ring buffer hands out what was put in, once and in order, between    *)
(* any interleaving of pushes with the unprotected steps of the pop.        *)
THEOREM RingAlwaysSound == Spec => []RingIsSound
<1>1. ButtonInv => NothingInvented
  BY Sizes DEF ButtonInv, RingInv, CountInv, NothingInvented, Backlog, TypeOK
<1>2. ButtonInv => SlotHoldsItsEvent
  BY Sizes DEF ButtonInv, RingInv, SlotHoldsItsEvent, Taking
<1>3. ButtonInv => RingIsSound
  BY <1>1, <1>2 DEF ButtonInv, RingIsSound
<1> QED BY <1>3, ButtonInvariant, PTL

(* A record is left in the buffer of a task at rest only by an increment of *)
(* m_data_count that the task's decrement overwrote.                        *)
THEOREM LeftOnlyByTheRace == Spec => []OnlyTheRaceLeavesRecords
<1>1. ButtonInv => OnlyTheRaceLeavesRecords
  BY Sizes DEF ButtonInv, CountInv, OnlyTheRaceLeavesRecords, Backlog, TypeOK
<1> QED BY <1>1, ButtonInvariant, PTL

(* Once all is quiet, the state machine of a button knows the level of its  *)
(* pin, whatever the order of edges, interrupts and task steps was.         *)
THEOREM StateSettlesOnThePin == Spec => []SettledStateIsThePin
<1>1. ButtonInv => SettledStateIsThePin
  <2> SUFFICES ASSUME ButtonInv, edge = {}, isr = None, task.pc = "off", Backlog = 0, ~ overrun,
                      NEW b \in Buttons
               PROVE  statePre[b] = pin[b] \/ gaveUp[b]
    BY DEF SettledStateIsThePin
  <2>1. Handled + 1 .. Len(pushed) = {}
    BY Sizes DEF ButtonInv, Handled, Taking, Backlog
  <2>2. b \in Buttons \ (edge \cup {isr})
    BY ButtonAssumption
  <2> QED BY <2>1, <2>2 DEF ButtonInv, StateInv
<1> QED BY <1>1, ButtonInvariant, PTL

(* The timer's interrupt always finds presses to report, of a button that   *)
(* is up.                                                                   *)
THEOREM TimerAlwaysHasAReport == Spec => []TimerHasAReport
<1>1. ButtonInv => TimerHasAReport
  BY DEF ButtonInv, TimerInv
<1> QED BY <1>1, ButtonInvariant, PTL
=============================================================================
