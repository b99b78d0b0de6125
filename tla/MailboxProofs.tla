---------------------------- MODULE MailboxProofs ----------------------------
(***************************************************************************)
(* Machine-checked safety of the event buffers the two cores lend each     *)
(* other, for a pool of any size.                                          *)
(***************************************************************************)
EXTENDS Mailbox, SequenceTheorems, FiniteSetTheorems, TLAPS

-----------------------------------------------------------------------------
(* The inductive invariant. *)

\* A list that holds each of its buffers once.
Once(q) == q \in Seq(Buffers) /\ \A i, j \in 1 .. Len(q) : q[i] = q[j] => i = j

In(b, S) == IF b \in S THEN 1 ELSE 0
Is(b, x) == IF b = x THEN 1 ELSE 0

\* In how many places a buffer is, each list counted as one place.
Copies(b) ==
  In(b, pool) + In(b, Range(sysQueue)) + In(b, Range(tracesQueue)) + In(b, Range(asynch))
  + In(b, Range(localFree)) + In(b, Range(free)) + Is(b, event) + Is(b, waiting) + Is(b, node)

ListsInv ==
  /\ Once(sysQueue) /\ Once(tracesQueue) /\ Once(asynch) /\ Once(localFree) /\ Once(free)
  /\ \A b \in Buffers : Copies(b) = 1

\* What the thread has in its hands, by its place.
HandsInv ==
  /\ IF pc \in {"handle", "done"} THEN event \in Buffers ELSE event = None
  /\ IF pc = "insert" /\ ~ corrupt THEN node \in Buffers ELSE node = None
  /\ waiting \in Buffers \cup {None}

\* Until the ready event has been seen it is the only buffer out.
StartInv ==
  ~ tracesOn =>
    /\ waiting = None
    /\ \A b, c \in Buffers \ pool : b = c

\* As long as no trace overtakes it, a release of the thread is alone.
ReleaseInv ==
  ~ corrupt /\ ~ overtaken =>
    /\ pc = "drain" /\ relFlag => localFree = <<>>
    /\ pc \in {"remove", "insert"} => ~ relFlag /\ ~ relEnabled
    /\ pc = "remove" => localFree # <<>>

ScalarsInv ==
  /\ pool \subseteq Buffers
  /\ sysFlag \in BOOLEAN /\ tracesFlag \in BOOLEAN /\ tracesOn \in BOOLEAN /\ posted \in BOOLEAN
  /\ relFlag \in BOOLEAN /\ relEnabled \in BOOLEAN /\ corrupt \in BOOLEAN /\ overtaken \in BOOLEAN
  /\ loaded \in BOOLEAN /\ undone \in BOOLEAN
  /\ serving \in {"none", "system", "traces"}
  /\ pc \in {"idle", "handle", "done", "test", "enable", "drain", "remove", "insert", "raise", "again", "loaded"}

MailboxInv ==
  /\ ScalarsInv /\ ListsInv /\ HandsInv /\ StartInv /\ ReleaseInv
  /\ SoundUntilOvertaken /\ EventsAreKept
-----------------------------------------------------------------------------
(* What the operations on a list do to the buffers in it. *)

LEMMA RangeOf ==
  ASSUME NEW q \in Seq(Buffers)
  PROVE  /\ Len(q) \in Nat /\ Range(q) \subseteq Buffers
         /\ \A b : b \in Range(q) <=> \E i \in 1 .. Len(q) : q[i] = b
         /\ q = <<>> <=> Range(q) = {}
<1>1. Len(q) \in Nat /\ DOMAIN q = 1 .. Len(q) /\ \A i \in 1 .. Len(q) : q[i] \in Buffers
  BY LenProperties, ElementOfSeq
<1>2. \A b : b \in Range(q) <=> \E i \in 1 .. Len(q) : q[i] = b
  BY <1>1 DEF Range
<1>3. Range(q) \subseteq Buffers
  BY <1>1, <1>2
<1>4. CASE q = <<>>
  <2>1. Len(q) = 0
    BY <1>4, EmptySeq
  <2>2. 1 .. 0 = {}
    OBVIOUS
  <2> QED BY <1>1, <1>2, <1>3, <1>4, <2>1, <2>2
<1>5. CASE q # <<>>
  <2>1. 1 \in 1 .. Len(q)
    BY <1>5, EmptySeq
  <2> QED BY <1>1, <1>2, <1>3, <1>5, <2>1
<1> QED BY <1>4, <1>5

LEMMA Appended ==
  ASSUME NEW q, Once(q), NEW b \in Buffers, b \notin Range(q)
  PROVE  Once(Append(q, b)) /\ Range(Append(q, b)) = Range(q) \cup {b}
<1>1. q \in Seq(Buffers) /\ Len(q) \in Nat
  BY RangeOf DEF Once
<1>2. /\ Append(q, b) \in Seq(Buffers) /\ Len(Append(q, b)) = Len(q) + 1
      /\ \A i \in 1 .. Len(q) : Append(q, b)[i] = q[i]
      /\ Append(q, b)[Len(q) + 1] = b
  BY <1>1, AppendProperties
<1>3. \A i \in 1 .. Len(q) + 1 : i \in 1 .. Len(q) \/ i = Len(q) + 1
  BY <1>1
<1>4. \A i \in 1 .. Len(q) : q[i] # b /\ i \in 1 .. Len(q) + 1
  BY <1>1, RangeOf
<1>5. Once(Append(q, b))
  BY <1>1, <1>2, <1>3, <1>4 DEF Once
<1>6. Len(q) + 1 \in 1 .. Len(q) + 1
  BY <1>1
<1>7. \A c : c \in Range(Append(q, b)) <=> c \in Range(q) \/ c = b
  <2>1. \A c : c \in Range(Append(q, b)) <=> \E i \in 1 .. Len(q) + 1 : Append(q, b)[i] = c
    BY <1>2, RangeOf
  <2>2. \A c : c \in Range(q) <=> \E i \in 1 .. Len(q) : q[i] = c
    BY <1>1, RangeOf
  <2> QED BY <1>2, <1>3, <1>4, <1>6, <2>1, <2>2
<1> QED BY <1>5, <1>7

LEMMA Removed ==
  ASSUME NEW q, Once(q), q # <<>>
  PROVE  /\ Head(q) \in Range(q) /\ Head(q) \in Buffers
         /\ Once(Tail(q)) /\ Range(Tail(q)) = Range(q) \ {Head(q)}
<1>1. q \in Seq(Buffers) /\ Len(q) \in Nat \ {0}
  BY EmptySeq DEF Once
<1>2. /\ Tail(q) \in Seq(Buffers) /\ Len(Tail(q)) = Len(q) - 1
      /\ \A i \in 1 .. Len(q) - 1 : Tail(q)[i] = q[i + 1]
      /\ Head(q) \in Buffers
  BY <1>1, HeadTailProperties
<1>3. 1 \in 1 .. Len(q) /\ Head(q) = q[1]
  BY <1>1
<1>4. \A i \in 1 .. Len(q) - 1 : i + 1 \in 1 .. Len(q) /\ i + 1 # 1
  BY <1>1
<1>5. \A i \in 1 .. Len(q) : i = 1 \/ (i - 1 \in 1 .. Len(q) - 1 /\ i - 1 + 1 = i)
  BY <1>1
<1>6. ASSUME NEW i \in 1 .. Len(q) - 1, NEW j \in 1 .. Len(q) - 1, Tail(q)[i] = Tail(q)[j] PROVE i = j
  <2>1. i + 1 = j + 1
    BY <1>2, <1>4, <1>6 DEF Once
  <2> QED BY <2>1
<1>7. \A c : c \in Range(Tail(q)) <=> c \in Range(q) /\ c # Head(q)
  <2>1. \A c : c \in Range(Tail(q)) <=> \E i \in 1 .. Len(q) - 1 : Tail(q)[i] = c
    BY <1>2, RangeOf
  <2>2. \A c : c \in Range(q) <=> \E i \in 1 .. Len(q) : q[i] = c
    BY <1>1, RangeOf
  <2>3. ASSUME NEW c, c \in Range(Tail(q)) PROVE c \in Range(q) /\ c # Head(q)
    BY <1>2, <1>3, <1>4, <2>1, <2>2, <2>3 DEF Once
  <2>4. ASSUME NEW c, c \in Range(q), c # Head(q) PROVE c \in Range(Tail(q))
    <3>1. PICK i \in 1 .. Len(q) : q[i] = c
      BY <2>2, <2>4
    <3>2. i - 1 \in 1 .. Len(q) - 1 /\ i - 1 + 1 = i
      BY <1>3, <1>5, <2>4, <3>1
    <3> QED BY <1>2, <2>1, <3>1, <3>2
  <2> QED BY <2>3, <2>4
<1> QED BY <1>1, <1>2, <1>3, <1>6, <1>7, RangeOf DEF Once

LEMMA Joined ==
  ASSUME NEW p, NEW q, Once(p), Once(q), \A b \in Buffers : b \notin Range(p) \/ b \notin Range(q)
  PROVE  Once(p \o q) /\ Range(p \o q) = Range(p) \cup Range(q)
<1> DEFINE m == Len(p)
           n == Len(q)
<1>1. p \in Seq(Buffers) /\ q \in Seq(Buffers) /\ m \in Nat /\ n \in Nat
  BY RangeOf DEF Once
<1>2. /\ p \o q \in Seq(Buffers) /\ Len(p \o q) = m + n
      /\ \A i \in 1 .. m + n : (p \o q)[i] = IF i <= m THEN p[i] ELSE q[i - m]
  BY <1>1, ConcatProperties
<1>3. /\ \A b : b \in Range(p) <=> \E i \in 1 .. m : p[i] = b
      /\ \A b : b \in Range(q) <=> \E i \in 1 .. n : q[i] = b
      /\ \A b : b \in Range(p \o q) <=> \E i \in 1 .. m + n : (p \o q)[i] = b
      /\ Range(p) \subseteq Buffers /\ Range(q) \subseteq Buffers
  BY <1>1, <1>2, RangeOf
<1> HIDE DEF m, n
<1>4. \A i \in 1 .. m + n : IF i <= m THEN i \in 1 .. m ELSE i - m \in 1 .. n
  BY <1>1
<1>5. ASSUME NEW i \in 1 .. m + n, NEW j \in 1 .. m + n, (p \o q)[i] = (p \o q)[j] PROVE i = j
  <2>1. CASE i <= m /\ j <= m
    BY <1>2, <1>4, <1>5, <2>1 DEF Once, m
  <2>2. CASE ~ (i <= m) /\ ~ (j <= m)
    <3>1. i - m \in 1 .. n /\ j - m \in 1 .. n /\ q[i - m] = q[j - m]
      BY <1>2, <1>4, <1>5, <2>2
    <3>2. i - m = j - m
      BY <3>1 DEF Once, n
    <3> QED BY <1>1, <3>2
  <2>3. CASE i <= m /\ ~ (j <= m)
    BY <1>2, <1>3, <1>4, <1>5, <2>3
  <2>4. CASE ~ (i <= m) /\ j <= m
    BY <1>2, <1>3, <1>4, <1>5, <2>4
  <2> QED BY <2>1, <2>2, <2>3, <2>4
<1>6. Once(p \o q)
  BY <1>2, <1>5 DEF Once
<1>7. ASSUME NEW b PROVE b \in Range(p \o q) <=> b \in Range(p) \/ b \in Range(q)
  <2>1. ASSUME NEW i \in 1 .. m + n, (p \o q)[i] = b PROVE b \in Range(p) \/ b \in Range(q)
    BY <1>2, <1>3, <1>4, <2>1
  <2>2. ASSUME NEW i \in 1 .. m, p[i] = b PROVE b \in Range(p \o q)
    <3>1. i \in 1 .. m + n /\ i <= m
      BY <1>1
    <3> QED BY <1>2, <1>3, <2>2, <3>1
  <2>3. ASSUME NEW i \in 1 .. n, q[i] = b PROVE b \in Range(p \o q)
    <3>1. PICK k \in 1 .. m + n : ~ (k <= m) /\ k - m = i
      <4>1. (m + i) \in 1 .. m + n /\ ~ ((m + i) <= m) /\ (m + i) - m = i
        BY <1>1
      <4> QED BY <1>1, <4>1
    <3>2. (p \o q)[k] = b
      BY <1>2, <2>3, <3>1
    <3> QED BY <1>3, <3>2
  <2> QED BY <1>3, <2>1, <2>2, <2>3
<1> QED BY <1>6, <1>7

LEMMA OneBuffer ==
  ASSUME NEW b \in Buffers
  PROVE  Once(<<b>>) /\ Range(<<b>>) = {b}
<1>1. <<b>> \in Seq(Buffers) /\ Len(<<b>>) = 1 /\ <<b>>[1] = b
  OBVIOUS
<1>2. \A i \in 1 .. 1 : i = 1
  OBVIOUS
<1>3. Once(<<b>>)
  BY <1>1, <1>2 DEF Once
<1>4. \A c : c \in Range(<<b>>) <=> c = b
  <2>1. \A c : c \in Range(<<b>>) <=> \E i \in 1 .. 1 : <<b>>[i] = c
    BY <1>1, RangeOf
  <2> QED BY <1>1, <1>2, <2>1
<1> QED BY <1>3, <1>4

LEMMA NoBuffer == Once(<<>>) /\ Range(<<>>) = {}
<1>1. <<>> \in Seq(Buffers) /\ Len(<<>>) = 0 /\ 1 .. 0 = {}
  OBVIOUS
<1> QED BY <1>1, RangeOf DEF Once

\* A list has room for all its buffers.
LEMMA Fits ==
  ASSUME NEW q, Once(q)
  PROVE  Len(q) <= Cardinality(Buffers)
<1>1. q \in Seq(Buffers) /\ Len(q) \in Nat /\ q \in [1 .. Len(q) -> Buffers]
  BY LenProperties DEF Once
<1>2. IsFiniteSet(Buffers) /\ Cardinality(Buffers) \in Nat
  BY BuffersAssumption, FS_CardinalityType
<1>3. IsFiniteSet(1 .. Len(q)) /\ Cardinality(1 .. Len(q)) = Len(q)
  BY <1>1, FS_Interval
<1> SUFFICES ASSUME Cardinality(Buffers) < Cardinality(1 .. Len(q)) PROVE FALSE
  BY <1>1, <1>2, <1>3
<1>4. \E x, y \in 1 .. Len(q) : x # y /\ q[x] = q[y]
  BY <1>1, <1>2, <1>3, FS_PigeonHole
<1> QED BY <1>4 DEF Once

-----------------------------------------------------------------------------
(* Each step keeps every buffer in one place. *)

\* Where the buffers are: what ListsInv is about.
Places == <<pool, sysQueue, tracesQueue, asynch, localFree, free, event, waiting, node>>

\* The steps that move no buffer.
Stays ==
  \/ SysEventsEnd \/ TracesEnd \/ TestFlag \/ EnableRelease \/ Drain \/ RaiseRelease \/ Again
  \/ LoadMask \/ StoreMask
  \/ M0RaisesEvents \/ M0RaisesTraces \/ M0ClearsRelease

LEMMA StaysStays ==
  ASSUME Stays
  PROVE  UNCHANGED Places
<1> USE DEF Places, system, traces, release, hands, thread
<1>1. CASE SysEventsEnd BY <1>1 DEF SysEventsEnd
<1>2. CASE TracesEnd BY <1>2 DEF TracesEnd
<1>3. CASE TestFlag BY <1>3 DEF TestFlag
<1>4. CASE EnableRelease BY <1>4 DEF EnableRelease
<1>5. CASE Drain BY <1>5 DEF Drain
<1>6. CASE RaiseRelease BY <1>6 DEF RaiseRelease
<1>7. CASE Again BY <1>7 DEF Again
<1>8. CASE M0RaisesEvents BY <1>8 DEF M0RaisesEvents
<1>9. CASE M0RaisesTraces BY <1>9 DEF M0RaisesTraces
<1>10. CASE M0ClearsRelease BY <1>10 DEF M0ClearsRelease
<1>11. CASE LoadMask BY <1>11 DEF LoadMask
<1>12. CASE StoreMask BY <1>12 DEF StoreMask
<1> QED BY <1>1, <1>2, <1>3, <1>4, <1>5, <1>6, <1>7, <1>8, <1>9, <1>10, <1>11, <1>12 DEF Stays

\* A buffer that is in one place is in none of the others.
LEMMA OnePlace ==
  ASSUME ListsInv, NEW b \in Buffers
  PROVE  /\ b \in Range(sysQueue) => b \notin Range(asynch)
         /\ b \in Range(localFree) => b \notin Range(free)
         /\ b \in Range(tracesQueue) => b \notin Range(localFree) /\ b \notin Range(free)
         /\ b = event => b \notin Range(localFree) /\ b \notin Range(asynch)
         /\ b = node => b \notin Range(free)
         /\ b \in pool => b \notin Range(sysQueue) /\ b \notin Range(tracesQueue)
<1>1. Copies(b) = 1
  BY DEF ListsInv
<1> QED BY <1>1 DEF Copies, In, Is

LEMMA ListsStep ==
  ASSUME MailboxInv, Next
  PROVE  ListsInv'
<1> USE DEF MailboxInv
<1>1. ~ corrupt /\ None \notin Buffers
  BY BuffersAssumption DEF Next
<1>2. CASE Stays
  BY <1>2, StaysStays DEF Places, ListsInv, Copies
<1>3. CASE SysEvent
  <2>1. /\ Once(sysQueue) /\ sysQueue # <<>> /\ sysQueue' = Tail(sysQueue) /\ asynch' = Append(asynch, Head(sysQueue))
        /\ UNCHANGED <<pool, tracesQueue, localFree, free, event, waiting, node>>
    BY <1>3 DEF SysEvent, ListsInv, traces, release, hands, thread
  <2>2. /\ Head(sysQueue) \in Range(sysQueue) /\ Head(sysQueue) \in Buffers
        /\ Once(sysQueue') /\ Range(sysQueue') = Range(sysQueue) \ {Head(sysQueue)}
    BY <2>1, Removed
  <2>3. Head(sysQueue) \notin Range(asynch)
    BY <2>2, OnePlace
  <2>4. Once(asynch') /\ Range(asynch') = Range(asynch) \cup {Head(sysQueue)}
    BY <2>1, <2>2, <2>3, Appended DEF ListsInv
  <2>5. \A b \in Buffers : Copies(b)' = Copies(b)
    BY <2>1, <2>2, <2>3, <2>4 DEF Copies, In, Is
  <2> QED BY <2>1, <2>2, <2>4, <2>5 DEF ListsInv
<1>4. CASE TraceEvent
  <2> DEFINE buf == Head(tracesQueue)
  <2>1. /\ Once(tracesQueue) /\ tracesQueue # <<>> /\ tracesQueue' = Tail(tracesQueue) /\ EvtDoneInInterrupt(buf)
        /\ UNCHANGED <<pool, sysQueue, asynch, event, waiting, node>>
    BY <1>4 DEF TraceEvent, ListsInv, system, hands, thread
  <2>2. /\ buf \in Range(tracesQueue) /\ buf \in Buffers
        /\ Once(tracesQueue') /\ Range(tracesQueue') = Range(tracesQueue) \ {buf}
    BY <2>1, Removed
  <2>3. buf \notin Range(localFree) /\ buf \notin Range(free)
    BY <2>2, OnePlace
  <2> HIDE DEF buf
  <2>4. /\ Once(localFree') /\ Once(free')
        /\ \A b \in Buffers : In(b, Range(localFree')) + In(b, Range(free'))
                             = In(b, Range(localFree)) + In(b, Range(free)) + Is(b, buf)
    <3>1. CASE relFlag
      <4>1. localFree' = Append(localFree, buf) /\ free' = free
        BY <2>1, <3>1 DEF EvtDoneInInterrupt
      <4>2. Once(localFree') /\ Range(localFree') = Range(localFree) \cup {buf}
        BY <2>2, <2>3, <4>1, Appended DEF ListsInv
      <4> QED BY <2>2, <2>3, <4>1, <4>2 DEF ListsInv, In, Is
    <3>2. CASE ~ relFlag
      <4>1. localFree' = <<>> /\ free' = free \o localFree \o <<buf>>
        BY <2>1, <3>2 DEF EvtDoneInInterrupt
      <4>2. Once(free \o localFree) /\ Range(free \o localFree) = Range(free) \cup Range(localFree)
        BY OnePlace, Joined DEF ListsInv
      <4>3. Once(<<buf>>) /\ Range(<<buf>>) = {buf}
        BY <2>2, OneBuffer
      <4>4. Once(free') /\ Range(free') = Range(free) \cup Range(localFree) \cup {buf}
        BY <2>3, <4>1, <4>2, <4>3, Joined
      <4>5. Once(localFree') /\ Range(localFree') = {}
        BY <4>1, NoBuffer
      <4> QED BY <2>2, <2>3, <4>4, <4>5, OnePlace DEF In, Is
    <3> QED BY <3>1, <3>2
  <2>5. \A b \in Buffers : Copies(b)' = Copies(b)
    BY <2>1, <2>2, <2>4 DEF Copies, In, Is
  <2> QED BY <2>1, <2>2, <2>4, <2>5 DEF ListsInv
<1>5. CASE FreeBufHandler
  <2>1. /\ free' = free \o localFree /\ localFree' = <<>>
        /\ UNCHANGED <<pool, sysQueue, tracesQueue, asynch, event, waiting, node>>
    BY <1>5 DEF FreeBufHandler, system, traces, hands, thread
  <2>2. Once(free') /\ Range(free') = Range(free) \cup Range(localFree)
    BY <2>1, OnePlace, Joined DEF ListsInv
  <2>3. Once(localFree') /\ Range(localFree') = {}
    BY <2>1, NoBuffer
  <2>4. \A b \in Buffers : Copies(b)' = Copies(b)
    BY <2>1, <2>2, <2>3, OnePlace DEF Copies, In, Is
  <2> QED BY <2>1, <2>2, <2>3, <2>4 DEF ListsInv
<1>6. CASE TakeEvent
  <2>1. /\ UNCHANGED <<pool, sysQueue, tracesQueue, localFree, free, waiting, node>>
        /\ event = None
        /\ asynch = <<>> => asynch' = asynch /\ event' = event
        /\ asynch # <<>> => asynch' = Tail(asynch) /\ event' = Head(asynch)
    BY <1>6 DEF TakeEvent, HandsInv, traces, release
  <2>2. CASE asynch = <<>>
    BY <2>1, <2>2 DEF ListsInv, Copies
  <2>3. CASE asynch # <<>>
    <3>1. /\ Head(asynch) \in Range(asynch) /\ Head(asynch) \in Buffers
          /\ Once(asynch') /\ Range(asynch') = Range(asynch) \ {Head(asynch)}
      BY <2>1, <2>3, Removed DEF ListsInv
    <3>2. \A b \in Buffers : Copies(b)' = Copies(b)
      BY <1>1, <2>1, <2>3, <3>1 DEF Copies, In, Is
    <3> QED BY <2>1, <3>1, <3>2 DEF ListsInv
  <2> QED BY <2>2, <2>3
<1>7. CASE HandleEvent
  <2>1. /\ UNCHANGED <<pool, sysQueue, tracesQueue, asynch, localFree, free, node>>
        /\ \/ UNCHANGED <<event, waiting>>
           \/ waiting = None /\ waiting' = event /\ event' = None
    BY <1>7 DEF HandleEvent, StartInv, system, release
  <2>2. \A b \in Buffers : Copies(b)' = Copies(b)
    BY <1>1, <2>1 DEF Copies, In, Is
  <2> QED BY <2>1, <2>2 DEF ListsInv
<1>8. CASE ReadyProcessed
  <2>1. /\ UNCHANGED <<pool, sysQueue, tracesQueue, asynch, localFree, free, node>>
        /\ event = None /\ event' = waiting /\ waiting' = None
    BY <1>8 DEF ReadyProcessed, HandsInv, system, traces, release
  <2>2. \A b \in Buffers : Copies(b)' = Copies(b)
    BY <1>1, <2>1 DEF Copies, In, Is
  <2> QED BY <2>1, <2>2 DEF ListsInv
<1>9. CASE EvtDone
  <2>1. /\ UNCHANGED <<pool, sysQueue, tracesQueue, asynch, free, waiting, node>>
        /\ event \in Buffers /\ localFree' = Append(localFree, event) /\ event' = None
    BY <1>9 DEF EvtDone, HandsInv, system, traces
  <2>2. event \notin Range(localFree)
    BY <2>1, OnePlace
  <2>3. Once(localFree') /\ Range(localFree') = Range(localFree) \cup {event}
    BY <2>1, <2>2, Appended DEF ListsInv
  <2>4. \A b \in Buffers : Copies(b)' = Copies(b)
    BY <1>1, <2>1, <2>2, <2>3 DEF Copies, In, Is
  <2> QED BY <2>1, <2>3, <2>4 DEF ListsInv
<1>10. CASE RemoveHead
  <2>1. /\ UNCHANGED <<pool, sysQueue, tracesQueue, asynch, free, event, waiting>>
        /\ node = None
        /\ localFree = <<>> => UNCHANGED <<localFree, node>>
        /\ localFree # <<>> => node' = Head(localFree) /\ localFree' = Tail(localFree)
    BY <1>10 DEF RemoveHead, HandsInv, system, traces
  <2>2. CASE localFree = <<>>
    BY <2>1, <2>2 DEF ListsInv, Copies
  <2>3. CASE localFree # <<>>
    <3>1. /\ Head(localFree) \in Range(localFree) /\ Head(localFree) \in Buffers
          /\ Once(localFree') /\ Range(localFree') = Range(localFree) \ {Head(localFree)}
      BY <2>1, <2>3, Removed DEF ListsInv
    <3>2. \A b \in Buffers : Copies(b)' = Copies(b)
      BY <1>1, <2>1, <2>3, <3>1 DEF Copies, In, Is
    <3> QED BY <2>1, <3>1, <3>2 DEF ListsInv
  <2> QED BY <2>2, <2>3
<1>11. CASE InsertTail
  <2>1. /\ UNCHANGED <<pool, sysQueue, tracesQueue, asynch, localFree, event, waiting>>
        /\ node \in Buffers /\ free' = Append(free, node) /\ node' = None
    BY <1>1, <1>11 DEF InsertTail, HandsInv, system, traces
  <2>2. node \notin Range(free)
    BY <2>1, OnePlace
  <2>3. Once(free') /\ Range(free') = Range(free) \cup {node}
    BY <2>1, <2>2, Appended DEF ListsInv
  <2>4. \A b \in Buffers : Copies(b)' = Copies(b)
    BY <1>1, <2>1, <2>2, <2>3 DEF Copies, In, Is
  <2> QED BY <2>1, <2>3, <2>4 DEF ListsInv
<1>12. ASSUME NEW c \in Buffers, M0PutsEvent(c) PROVE ListsInv'
  <2>1. /\ UNCHANGED <<tracesQueue, asynch, localFree, free, event, waiting, node>>
        /\ c \in pool /\ pool' = pool \ {c} /\ sysQueue' = Append(sysQueue, c)
    BY <1>12 DEF M0PutsEvent, traces, release, thread, hands
  <2>2. c \notin Range(sysQueue)
    BY <2>1, OnePlace
  <2>3. Once(sysQueue') /\ Range(sysQueue') = Range(sysQueue) \cup {c}
    BY <2>1, <2>2, Appended DEF ListsInv
  <2>4. \A b \in Buffers : Copies(b)' = Copies(b)
    BY <2>1, <2>2, <2>3 DEF Copies, In, Is
  <2> QED BY <2>1, <2>3, <2>4 DEF ListsInv
<1>13. ASSUME NEW c \in Buffers, M0PutsTrace(c) PROVE ListsInv'
  <2>1. /\ UNCHANGED <<sysQueue, asynch, localFree, free, event, waiting, node>>
        /\ c \in pool /\ pool' = pool \ {c} /\ tracesQueue' = Append(tracesQueue, c)
    BY <1>13 DEF M0PutsTrace, system, release, thread, hands
  <2>2. c \notin Range(tracesQueue)
    BY <2>1, OnePlace
  <2>3. Once(tracesQueue') /\ Range(tracesQueue') = Range(tracesQueue) \cup {c}
    BY <2>1, <2>2, Appended DEF ListsInv
  <2>4. \A b \in Buffers : Copies(b)' = Copies(b)
    BY <2>1, <2>2, <2>3 DEF Copies, In, Is
  <2> QED BY <2>1, <2>3, <2>4 DEF ListsInv
<1>14. CASE M0TakesBuffer
  <2>1. /\ UNCHANGED <<sysQueue, tracesQueue, asynch, localFree, event, waiting, node>>
        /\ free # <<>> /\ pool' = pool \cup {Head(free)} /\ free' = Tail(free)
    BY <1>14 DEF M0TakesBuffer, system, traces, thread, hands
  <2>2. /\ Head(free) \in Range(free) /\ Head(free) \in Buffers
        /\ Once(free') /\ Range(free') = Range(free) \ {Head(free)}
    BY <2>1, Removed DEF ListsInv
  <2>3. Copies(Head(free)) = 1
    BY <2>2 DEF ListsInv
  <2>4. Head(free) \notin pool
    BY <2>2, <2>3 DEF Copies, In, Is
  <2>5. \A b \in Buffers : Copies(b)' = Copies(b)
    BY <2>1, <2>2, <2>4 DEF Copies, In, Is
  <2> QED BY <2>1, <2>2, <2>5 DEF ListsInv
<1> QED BY <1>2, <1>3, <1>4, <1>5, <1>6, <1>7, <1>8, <1>9, <1>10, <1>11, <1>12, <1>13, <1>14
        DEF Next, Interrupts, EvtProc, OtherTasks, M0Sends, M0Works, Stays

-----------------------------------------------------------------------------
(* Each step keeps what the thread holds, and its release apart.           *)

LEMMA ScalarsStep ==
  ASSUME MailboxInv, Next
  PROVE  ScalarsInv'
<1> USE DEF MailboxInv, ScalarsInv, system, traces, release, hands, thread, InRelease
<1>1. CASE SysEvent BY <1>1 DEF SysEvent
<1>2. CASE SysEventsEnd BY <1>2 DEF SysEventsEnd
<1>3. CASE TraceEvent
  <2>1. overtaken' \in BOOLEAN
    BY <1>3 DEF TraceEvent
  <2>2. relFlag' \in BOOLEAN /\ relEnabled' \in BOOLEAN
    BY <1>3 DEF TraceEvent, EvtDoneInInterrupt
  <2> QED BY <1>3, <2>1, <2>2 DEF TraceEvent
<1>4. CASE TracesEnd BY <1>4 DEF TracesEnd
<1>5. CASE FreeBufHandler BY <1>5 DEF FreeBufHandler
<1>6. CASE TakeEvent BY <1>6 DEF TakeEvent
<1>7. CASE HandleEvent BY <1>7 DEF HandleEvent
<1>8. CASE ReadyProcessed BY <1>8 DEF ReadyProcessed
<1>9. CASE EvtDone BY <1>9 DEF EvtDone
<1>10. CASE TestFlag BY <1>10 DEF TestFlag
<1>11. CASE EnableRelease BY <1>11 DEF EnableRelease
<1>12. CASE Drain BY <1>12 DEF Drain
<1>13. CASE RemoveHead BY <1>13 DEF RemoveHead
<1>14. CASE InsertTail BY <1>14 DEF InsertTail
<1>15. CASE RaiseRelease BY <1>15 DEF RaiseRelease
<1>16. CASE Again
  <2>1. posted' \in BOOLEAN
    BY <1>16 DEF Again
  <2> QED BY <1>16, <2>1 DEF Again
<1>17. ASSUME NEW b \in Buffers, M0PutsEvent(b) \/ M0PutsTrace(b) PROVE ScalarsInv'
  BY <1>17 DEF M0PutsEvent, M0PutsTrace
<1>18. CASE M0RaisesEvents BY <1>18 DEF M0RaisesEvents
<1>19. CASE M0RaisesTraces BY <1>19 DEF M0RaisesTraces
<1>20. CASE M0TakesBuffer
  <2>1. Head(free) \in Buffers
    BY <1>20, Removed DEF M0TakesBuffer, ListsInv
  <2> QED BY <1>20, <2>1 DEF M0TakesBuffer
<1>21. CASE M0ClearsRelease BY <1>21, ZenonT(60) DEF M0ClearsRelease
<1>22. CASE LoadMask BY <1>22 DEF LoadMask
<1>23. CASE StoreMask
  <2>1. undone' \in BOOLEAN
    BY <1>23 DEF StoreMask
  <2> QED BY <1>23, <2>1 DEF StoreMask
<1> QED BY <1>1, <1>2, <1>3, <1>4, <1>5, <1>6, <1>7, <1>8, <1>9, <1>10, <1>11, <1>12, <1>13, <1>14,
           <1>15, <1>16, <1>17, <1>18, <1>19, <1>20, <1>21, <1>22, <1>23
        DEF Next, Interrupts, EvtProc, OtherTasks, M0Sends, M0Works

\* What the interrupts and the M0 leave alone: the place of the thread and its hands.
LEMMA OthersLeaveTheThread ==
  ASSUME Interrupts \/ M0Sends \/ M0Works
  PROVE  UNCHANGED <<pc, event, waiting, node, tracesOn>> /\ UNCHANGED corrupt
<1> USE DEF system, traces, release, hands, thread
<1>1. CASE Interrupts
  BY <1>1 DEF Interrupts, SysEvent, SysEventsEnd, TraceEvent, TracesEnd, FreeBufHandler
<1>2. CASE M0Sends
  BY <1>2 DEF M0Sends, M0PutsEvent, M0PutsTrace
<1>3. CASE M0Works
  BY <1>3 DEF M0Works, M0RaisesEvents, M0RaisesTraces, M0TakesBuffer, M0ClearsRelease
<1> QED BY <1>1, <1>2, <1>3

LEMMA HandsStep ==
  ASSUME MailboxInv, Next
  PROVE  HandsInv'
<1> USE DEF MailboxInv, HandsInv, ScalarsInv, system, traces, release, hands, thread
<1>1. ~ corrupt
  BY DEF Next
<1>2. CASE Interrupts \/ M0Sends \/ M0Works
  BY <1>2, OthersLeaveTheThread
<1>3. CASE TakeEvent
  <2>1. asynch # <<>> => Head(asynch) \in Buffers
    BY Removed DEF ListsInv
  <2> QED BY <1>3, <2>1 DEF TakeEvent
<1>4. CASE HandleEvent BY <1>4 DEF HandleEvent
<1>5. CASE ReadyProcessed BY <1>5 DEF ReadyProcessed
<1>6. CASE EvtDone BY <1>6 DEF EvtDone
<1>7. CASE TestFlag BY <1>7 DEF TestFlag
<1>8. CASE EnableRelease BY <1>8 DEF EnableRelease
<1>9. CASE Drain BY <1>9 DEF Drain
<1>10. CASE RemoveHead
  <2>1. localFree # <<>> => Head(localFree) \in Buffers
    BY Removed DEF ListsInv
  <2> QED BY <1>1, <1>10, <2>1 DEF RemoveHead
<1>11. CASE InsertTail BY <1>11 DEF InsertTail
<1>12. CASE RaiseRelease BY <1>12 DEF RaiseRelease
<1>13. CASE Again BY <1>13 DEF Again
<1>14. CASE OtherTasks BY <1>14 DEF OtherTasks, LoadMask, StoreMask
<1> QED BY <1>2, <1>3, <1>4, <1>5, <1>6, <1>7, <1>8, <1>9, <1>10, <1>11, <1>12, <1>13, <1>14
        DEF Next, EvtProc

LEMMA StartStep ==
  ASSUME MailboxInv, Next
  PROVE  StartInv'
<1> SUFFICES ASSUME ~ tracesOn'
             PROVE  waiting' = None /\ \A b, c \in Buffers \ pool' : b = c
  BY DEF StartInv
<1> USE DEF MailboxInv, system, traces, release, hands, thread
<1>1. ~ tracesOn /\ UNCHANGED waiting
  <2>1. CASE Interrupts \/ M0Sends \/ M0Works
    BY <2>1, OthersLeaveTheThread
  <2>2. CASE EvtProc
    BY <2>2 DEF EvtProc, StartInv, TakeEvent, HandleEvent, ReadyProcessed, EvtDone, TestFlag, EnableRelease,
                Drain, RemoveHead, InsertTail, RaiseRelease, Again
  <2>3. CASE OtherTasks
    BY <2>3 DEF OtherTasks, LoadMask, StoreMask
  <2> QED BY <2>1, <2>2, <2>3 DEF Next
<1>2. waiting = None /\ \A b, c \in Buffers \ pool : b = c
  BY <1>1 DEF StartInv
<1>3. \A b, c \in Buffers \ pool' : b = c
  <2>1. CASE M0Sends
    <3>1. PICK d \in Buffers : M0PutsEvent(d)
      BY <1>1, <2>1 DEF M0Sends, M0PutsTrace
    <3>2. pool = Buffers /\ pool' = pool \ {d}
      BY <1>1, <3>1 DEF M0PutsEvent
    <3> QED BY <3>2
  <2>2. CASE M0TakesBuffer
    BY <1>2, <2>2 DEF M0TakesBuffer
  <2>3. CASE Interrupts \/ EvtProc \/ OtherTasks \/ M0RaisesEvents \/ M0RaisesTraces \/ M0ClearsRelease
    <3>1. pool' = pool
      <4>1. CASE Interrupts
        BY <4>1 DEF Interrupts, SysEvent, SysEventsEnd, TraceEvent, TracesEnd, FreeBufHandler
      <4>2. CASE EvtProc
        BY <4>2 DEF EvtProc, TakeEvent, HandleEvent, ReadyProcessed, EvtDone, TestFlag, EnableRelease,
                    Drain, RemoveHead, InsertTail, RaiseRelease, Again
      <4>3. CASE OtherTasks
        BY <4>3 DEF OtherTasks, LoadMask, StoreMask
      <4> QED BY <2>3, <4>1, <4>2, <4>3 DEF M0RaisesEvents, M0RaisesTraces, M0ClearsRelease
    <3> QED BY <1>2, <3>1
  <2> QED BY <2>1, <2>2, <2>3 DEF Next, M0Works
<1> QED BY <1>1, <1>2, <1>3

LEMMA ReleaseStep ==
  ASSUME MailboxInv, Next
  PROVE  ReleaseInv' /\ SoundUntilOvertaken'
<1> SUFFICES ASSUME ~ overtaken'
             PROVE  /\ ~ corrupt'
                    /\ pc' = "drain" /\ relFlag' => localFree' = <<>>
                    /\ pc' \in {"remove", "insert"} => ~ relFlag' /\ ~ relEnabled'
                    /\ pc' = "remove" => localFree' # <<>>
  BY DEF ReleaseInv, SoundUntilOvertaken
<1> USE DEF MailboxInv, system, traces, release, hands, thread
<1>1. ~ overtaken /\ ~ corrupt
  <2>1. CASE TraceEvent
    BY <2>1 DEF TraceEvent, Next
  <2>2. CASE SysEvent \/ SysEventsEnd \/ TracesEnd \/ FreeBufHandler
    BY <2>2 DEF SysEvent, SysEventsEnd, TracesEnd, FreeBufHandler, Next
  <2>3. CASE TakeEvent \/ HandleEvent \/ ReadyProcessed \/ EvtDone \/ TestFlag \/ EnableRelease
    BY <2>3 DEF TakeEvent, HandleEvent, ReadyProcessed, EvtDone, TestFlag, EnableRelease, Next
  <2>4. CASE Drain \/ RemoveHead \/ InsertTail \/ RaiseRelease \/ Again
    BY <2>4 DEF Drain, RemoveHead, InsertTail, RaiseRelease, Again, Next
  <2>5. CASE M0Sends
    BY <2>5 DEF M0Sends, M0PutsEvent, M0PutsTrace, Next
  <2>6. CASE M0Works
    BY <2>6 DEF M0Works, M0RaisesEvents, M0RaisesTraces, M0TakesBuffer, M0ClearsRelease, Next
  <2>7. CASE OtherTasks
    BY <2>7 DEF OtherTasks, LoadMask, StoreMask, Next
  <2> QED BY <2>1, <2>2, <2>3, <2>4, <2>5, <2>6, <2>7 DEF Next, Interrupts, EvtProc
<1>2. /\ pc = "drain" /\ relFlag => localFree = <<>>
      /\ pc \in {"remove", "insert"} => ~ relFlag /\ ~ relEnabled
      /\ pc = "remove" => localFree # <<>>
  BY <1>1 DEF ReleaseInv
<1>3. CASE SysEvent BY <1>1, <1>2, <1>3 DEF SysEvent
<1>4. CASE SysEventsEnd BY <1>1, <1>2, <1>4 DEF SysEventsEnd
<1>5. CASE TraceEvent
  \* the thread is not in its release
  BY <1>1, <1>5 DEF TraceEvent, InRelease
<1>6. CASE TracesEnd BY <1>1, <1>2, <1>6 DEF TracesEnd
<1>7. CASE FreeBufHandler
  \* enabled, so the thread is not between the removal and the insertion
  BY <1>1, <1>2, <1>7 DEF FreeBufHandler, TxPending
<1>8. CASE TakeEvent BY <1>1, <1>8 DEF TakeEvent
<1>9. CASE HandleEvent BY <1>1, <1>9 DEF HandleEvent
<1>10. CASE ReadyProcessed BY <1>1, <1>10 DEF ReadyProcessed
<1>11. CASE EvtDone BY <1>1, <1>11 DEF EvtDone
<1>12. CASE TestFlag BY <1>1, <1>12 DEF TestFlag
<1>13. CASE EnableRelease BY <1>1, <1>13 DEF EnableRelease
<1>14. CASE Drain
  \* no interrupt is pending: with a buffer in the list, the channel is not enabled
  BY <1>1, <1>2, <1>14 DEF Drain, Pending, TxPending
<1>15. CASE RemoveHead BY <1>1, <1>2, <1>15 DEF RemoveHead
<1>16. CASE InsertTail BY <1>1, <1>2, <1>16 DEF InsertTail
<1>17. CASE RaiseRelease BY <1>1, <1>17 DEF RaiseRelease
<1>18. CASE Again BY <1>1, <1>18 DEF Again
<1>19. CASE M0Sends BY <1>1, <1>2, <1>19 DEF M0Sends, M0PutsEvent, M0PutsTrace
<1>20. CASE M0Works
  BY <1>1, <1>2, <1>20 DEF M0Works, M0RaisesEvents, M0RaisesTraces, M0TakesBuffer, M0ClearsRelease
<1>21. CASE OtherTasks
  \* the thread is in another task, so in no release
  BY <1>1, <1>21 DEF OtherTasks, LoadMask, StoreMask
<1> QED BY <1>3, <1>4, <1>5, <1>6, <1>7, <1>8, <1>9, <1>10, <1>11, <1>12, <1>13, <1>14,
           <1>15, <1>16, <1>17, <1>18, <1>19, <1>20, <1>21
        DEF Next, Interrupts, EvtProc

-----------------------------------------------------------------------------
(* Each step keeps the events, and their order.                            *)

LEMMA HeadTailConcat ==
  ASSUME NEW q \in Seq(Buffers), q # <<>>
  PROVE  q = <<Head(q)>> \o Tail(q)
<1> DEFINE h == Head(q)
           t == Tail(q)
           r == <<h>> \o t
<1>1. /\ h \in Buffers /\ t \in Seq(Buffers) /\ Len(t) = Len(q) - 1 /\ h = q[1]
      /\ \A i \in 1 .. Len(t) : t[i] = q[i + 1]
      /\ Len(q) \in Nat \ {0}
  BY HeadTailProperties, EmptySeq
<1>2. <<h>> \in Seq(Buffers) /\ Len(<<h>>) = 1 /\ <<h>>[1] = h
  BY <1>1
<1> HIDE DEF h, t
<1>3. /\ r \in Seq(Buffers) /\ Len(r) = 1 + Len(t)
      /\ \A i \in 1 .. 1 + Len(t) : r[i] = IF i <= 1 THEN <<h>>[i] ELSE t[i - 1]
  BY <1>1, <1>2, ConcatProperties
<1> HIDE DEF r
<1>4. ASSUME NEW i \in 1 .. Len(q) PROVE q[i] = r[i]
  <2>1. CASE i = 1
    BY <1>1, <1>2, <1>3, <2>1
  <2>2. CASE i # 1
    <3>1. i - 1 \in 1 .. Len(t) /\ ~ (i <= 1) /\ i - 1 + 1 = i /\ i \in 1 .. 1 + Len(t)
      BY <1>1, <2>2
    <3> QED BY <1>1, <1>3, <3>1
  <2> QED BY <2>1, <2>2
<1>5. q = r
  BY <1>1, <1>3, <1>4, SeqEqual
<1> QED BY <1>5 DEF r, h, t

LEMMA TailOfPrefixed ==
  ASSUME NEW h \in Buffers, NEW u \in Seq(Buffers)
  PROVE  Tail(<<h>> \o u) = u
<1> DEFINE r == <<h>> \o u
           t == Tail(r)
<1>1. <<h>> \in Seq(Buffers) /\ Len(<<h>>) = 1 /\ Len(u) \in Nat
  OBVIOUS
<1>2. /\ r \in Seq(Buffers) /\ Len(r) = 1 + Len(u)
      /\ \A i \in 1 .. 1 + Len(u) : r[i] = IF i <= 1 THEN <<h>>[i] ELSE u[i - 1]
  BY <1>1, ConcatProperties
<1>3. r # <<>>
  BY <1>1, <1>2, EmptySeq
<1> HIDE DEF r
<1>4. t \in Seq(Buffers) /\ Len(t) = Len(u) /\ \A i \in 1 .. Len(u) : t[i] = r[i + 1]
  BY <1>1, <1>2, <1>3, HeadTailProperties
<1> HIDE DEF t
<1>5. ASSUME NEW i \in 1 .. Len(u) PROVE t[i] = u[i]
  <2>1. i + 1 \in 1 .. 1 + Len(u) /\ ~ (i + 1 <= 1) /\ (i + 1) - 1 = i
    BY <1>1
  <2> QED BY <1>2, <1>4, <2>1
<1>6. t = u
  BY <1>4, <1>5, SeqEqual
<1> QED BY <1>6 DEF t, r

\* Handing on the first of one list as the last of the one before it.
LEMMA HandedOn ==
  ASSUME NEW p \in Seq(Buffers), NEW q \in Seq(Buffers), q # <<>>
  PROVE  Append(p, Head(q)) \o Tail(q) = p \o q
<1> DEFINE h == Head(q)
           t == Tail(q)
<1>1. h \in Buffers /\ t \in Seq(Buffers) /\ q = <<h>> \o t
  BY HeadTailProperties, HeadTailConcat
<1>2. Append(p, h) = p \o <<h>>
  BY <1>1, AppendIsConcat
<1>3. (p \o <<h>>) \o t = p \o (<<h>> \o t)
  BY <1>1, ConcatAssociative
<1> QED BY <1>1, <1>2, <1>3

LEMMA TailOfBoth ==
  ASSUME NEW p \in Seq(Buffers), NEW q \in Seq(Buffers), p # <<>>
  PROVE  Tail(p \o q) = Tail(p) \o q
<1> DEFINE h == Head(p)
           t == Tail(p)
<1>1. h \in Buffers /\ t \in Seq(Buffers) /\ p = <<h>> \o t
  BY HeadTailProperties, HeadTailConcat
<1>2. p \o q = <<h>> \o (t \o q)
  BY <1>1, ConcatAssociative
<1>3. t \o q \in Seq(Buffers)
  BY <1>1, ConcatProperties
<1> HIDE DEF h, t
<1>4. Tail(<<h>> \o (t \o q)) = t \o q
  BY <1>1, <1>3, TailOfPrefixed
<1> QED BY <1>1, <1>2, <1>4 DEF t

LEMMA LastOfBoth ==
  ASSUME NEW p \in Seq(Buffers), NEW q \in Seq(Buffers), NEW b \in Buffers
  PROVE  Append(p \o q, b) = p \o Append(q, b)
<1>1. p \o q \in Seq(Buffers) /\ <<b>> \in Seq(Buffers)
  BY ConcatProperties
<1>2. Append(p \o q, b) = (p \o q) \o <<b>> /\ Append(q, b) = q \o <<b>>
  BY <1>1, AppendIsConcat
<1> QED BY <1>1, <1>2, ConcatAssociative

LEMMA EventsStep ==
  ASSUME MailboxInv, Next
  PROVE  EventsAreKept'
<1> USE DEF MailboxInv, traces, release, hands, thread
<1>1. expected = asynch \o sysQueue /\ (asynch # <<>> => posted \/ pc \notin {"idle", "loaded"})
  BY DEF EventsAreKept, EventsInOrder, NoEventForgotten
<1>2. asynch \in Seq(Buffers) /\ sysQueue \in Seq(Buffers)
  BY DEF ListsInv, Once
<1> SUFFICES expected' = asynch' \o sysQueue' /\ (asynch' # <<>> => posted' \/ pc' \notin {"idle", "loaded"})
  BY DEF EventsAreKept, EventsInOrder, NoEventForgotten
<1>3. CASE SysEvent
  BY <1>1, <1>2, <1>3, HandedOn DEF SysEvent
<1>4. CASE TakeEvent
  <2>1. CASE asynch = <<>>
    BY <1>1, <1>4, <2>1 DEF TakeEvent
  <2>2. CASE asynch # <<>>
    <3>1. Tail(asynch \o sysQueue) = Tail(asynch) \o sysQueue
      BY <1>2, <2>2, TailOfBoth
    <3> QED BY <1>1, <1>4, <2>2, <3>1 DEF TakeEvent
  <2> QED BY <2>1, <2>2
<1>5. ASSUME NEW b \in Buffers, M0PutsEvent(b) PROVE expected' = asynch' \o sysQueue' /\ pc' = pc
  <2>1. Append(asynch \o sysQueue, b) = asynch \o Append(sysQueue, b)
    BY <1>2, LastOfBoth
  <2> QED BY <1>1, <1>5, <2>1 DEF M0PutsEvent
<1>6. CASE HandleEvent
  <2>1. UNCHANGED <<expected, asynch, sysQueue, posted>>
    BY <1>6 DEF HandleEvent, system
  <2>2. CASE tracesOn
    BY <1>1, <1>6, <2>1, <2>2 DEF HandleEvent
  <2>3. CASE ~ tracesOn
    <3>1. event \in Buffers /\ Copies(event) = 1
      BY <1>6 DEF HandleEvent, HandsInv, ListsInv
    <3>2. event \notin pool /\ event \notin Range(asynch)
      BY <3>1 DEF Copies, In, Is
    <3>3. ASSUME asynch # <<>> PROVE FALSE
      <4>1. Head(asynch) \in Range(asynch) /\ Head(asynch) \in Buffers
        BY <3>3, Removed DEF ListsInv
      <4>2. Copies(Head(asynch)) = 1
        BY <4>1 DEF ListsInv
      <4>3. Head(asynch) \notin pool
        BY <4>1, <4>2 DEF Copies, In, Is
      <4>4. Head(asynch) = event
        BY <2>3, <3>1, <3>2, <4>1, <4>3 DEF StartInv
      <4> QED BY <3>2, <4>1, <4>4
    <3> QED BY <1>1, <2>1, <3>3
  <2> QED BY <2>2, <2>3
<1>7. CASE Again
  <2>1. UNCHANGED <<expected, asynch, sysQueue>> /\ posted' = (posted \/ asynch # <<>>)
    BY <1>7 DEF Again
  <2> QED BY <1>1, <2>1
<1>8. CASE ReadyProcessed \/ EvtDone \/ TestFlag \/ EnableRelease
  BY <1>1, <1>8 DEF ReadyProcessed, EvtDone, TestFlag, EnableRelease, system
<1>9. CASE Drain \/ RemoveHead \/ InsertTail \/ RaiseRelease
  BY <1>1, <1>9 DEF Drain, RemoveHead, InsertTail, RaiseRelease, system
<1>10. CASE SysEventsEnd \/ TraceEvent \/ TracesEnd \/ FreeBufHandler
  BY <1>1, <1>10 DEF SysEventsEnd, TraceEvent, TracesEnd, FreeBufHandler, system
<1>11. ASSUME NEW b \in Buffers, M0PutsTrace(b)
       PROVE  expected' = asynch' \o sysQueue' /\ (asynch' # <<>> => posted' \/ pc' \notin {"idle", "loaded"})
  BY <1>1, <1>11 DEF M0PutsTrace, system
<1>12. CASE M0Works
  BY <1>1, <1>12 DEF M0Works, M0RaisesEvents, M0RaisesTraces, M0TakesBuffer, M0ClearsRelease, system
<1>13. ASSUME NEW b \in Buffers, M0PutsEvent(b) PROVE asynch' # <<>> => posted' \/ pc' \notin {"idle", "loaded"}
  BY <1>1, <1>13 DEF M0PutsEvent
<1>14. CASE OtherTasks
  BY <1>1, <1>14 DEF OtherTasks, LoadMask, StoreMask, system
<1> QED BY <1>3, <1>4, <1>5, <1>6, <1>7, <1>8, <1>9, <1>10, <1>11, <1>12, <1>13, <1>14
        DEF Next, Interrupts, EvtProc, M0Sends
-----------------------------------------------------------------------------
(* The theorems. *)

LEMMA InitInv ==
  ASSUME Init
  PROVE  MailboxInv
<1> USE DEF Init
<1>1. ScalarsInv
  BY DEF ScalarsInv
<1>2. Once(<<>>) /\ Range(<<>>) = {} /\ None \notin Buffers
  BY NoBuffer, BuffersAssumption
<1>3. ListsInv
  BY <1>2 DEF ListsInv, Copies, In, Is
<1>4. HandsInv /\ StartInv /\ ReleaseInv /\ SoundUntilOvertaken
  BY DEF HandsInv, StartInv, ReleaseInv, SoundUntilOvertaken
<1>5. <<>> \o <<>> = <<>>
  OBVIOUS
<1>6. EventsAreKept
  BY <1>5 DEF EventsAreKept, EventsInOrder, NoEventForgotten
<1> QED BY <1>1, <1>3, <1>4, <1>6 DEF MailboxInv

LEMMA StutterInv ==
  ASSUME MailboxInv, UNCHANGED vars
  PROVE  MailboxInv'
<1> USE DEF vars, system, traces, release, hands, thread
<1>1. ScalarsInv' /\ HandsInv' /\ StartInv' /\ ReleaseInv' /\ SoundUntilOvertaken'
  BY DEF MailboxInv, ScalarsInv, HandsInv, StartInv, ReleaseInv, SoundUntilOvertaken
<1>2. ListsInv'
  BY DEF MailboxInv, ListsInv, Copies
<1>3. EventsAreKept'
  BY DEF MailboxInv, EventsAreKept, EventsInOrder, NoEventForgotten
<1> QED BY <1>1, <1>2, <1>3 DEF MailboxInv

LEMMA AlwaysInv == Spec => []MailboxInv
<1>1. ASSUME MailboxInv, Next PROVE MailboxInv'
  BY <1>1, ScalarsStep, ListsStep, HandsStep, StartStep, ReleaseStep, EventsStep DEF MailboxInv
<1>2. MailboxInv /\ [Next]_vars => MailboxInv'
  BY <1>1, StutterInv
<1> QED BY <1>2, InitInv, PTL DEF Spec

\* Every system event the radio core sends reaches the application once and in
\* the order sent, and none waits in the queue of shci_user_evt_proc without
\* the task being posted or on its way to post itself: whatever the
\* interrupts, the releases and the radio core do in between.
THEOREM EventsAlwaysKept == Spec => []EventsAreKept
<1>1. MailboxInv => EventsAreKept
  BY DEF MailboxInv
<1> QED BY <1>1, AlwaysInv, PTL

-----------------------------------------------------------------------------
(* From the invariant to where each buffer is counted.                     *)

LEMMA FiveLists ==
  /\ DOMAIN Lists = 1 .. 5
  /\ Lists[1] = sysQueue /\ Lists[2] = tracesQueue /\ Lists[3] = asynch
  /\ Lists[4] = localFree /\ Lists[5] = free
  /\ \A i \in 1 .. 5 : i = 1 \/ i = 2 \/ i = 3 \/ i = 4 \/ i = 5
<1>1. DOMAIN Lists = 1 .. 5
  BY DEF Lists
<1>2. /\ Lists[1] = sysQueue /\ Lists[2] = tracesQueue /\ Lists[3] = asynch
      /\ Lists[4] = localFree /\ Lists[5] = free
  BY DEF Lists
<1>3. \A i \in 1 .. 5 : i = 1 \/ i = 2 \/ i = 3 \/ i = 4 \/ i = 5
  OBVIOUS
<1> QED BY <1>1, <1>2, <1>3

LEMMA ThreeHands ==
  /\ DOMAIN InHand = 1 .. 3
  /\ InHand[1] = event /\ InHand[2] = waiting /\ InHand[3] = node
  /\ \A i \in 1 .. 3 : i = 1 \/ i = 2 \/ i = 3
<1>1. DOMAIN InHand = 1 .. 3
  BY DEF InHand
<1>2. InHand[1] = event /\ InHand[2] = waiting /\ InHand[3] = node
  BY DEF InHand
<1>3. \A i \in 1 .. 3 : i = 1 \/ i = 2 \/ i = 3
  OBVIOUS
<1> QED BY <1>1, <1>2, <1>3

LEMMA TypesHold ==
  ASSUME MailboxInv
  PROVE  TypeOK
<1> USE DEF MailboxInv, ScalarsInv
<1>1. ASSUME NEW i \in DOMAIN Lists PROVE Len(Lists[i]) <= Cardinality(Buffers) /\ Range(Lists[i]) \subseteq Buffers
  <2>1. Once(Lists[i])
    BY <1>1, FiveLists DEF ListsInv
  <2>2. Lists[i] \in Seq(Buffers)
    BY <2>1 DEF Once
  <2> QED BY <2>1, <2>2, Fits, RangeOf
<1>2. event \in Buffers \cup {None} /\ waiting \in Buffers \cup {None} /\ node \in Buffers \cup {None}
  BY DEF HandsInv
<1>3. \A i \in DOMAIN InHand : InHand[i] \in Buffers \cup {None}
  BY <1>2, ThreeHands
<1>4. Range(expected) \subseteq Buffers
  <2>1. asynch \in Seq(Buffers) /\ sysQueue \in Seq(Buffers)
    BY DEF ListsInv, Once
  <2>2. expected \in Seq(Buffers)
    BY <2>1, ConcatProperties DEF EventsAreKept, EventsInOrder
  <2> QED BY <2>2, RangeOf
<1>5. /\ {sysFlag, tracesFlag, tracesOn, posted, relFlag, relEnabled, loaded} \subseteq BOOLEAN
      /\ {corrupt, overtaken, undone} \subseteq BOOLEAN
  OBVIOUS
<1>6. pc \in {"idle", "handle", "done", "test", "enable", "again", "loaded"} \/ InRelease
  BY DEF InRelease
<1> QED BY <1>1, <1>3, <1>4, <1>5, <1>6 DEF TypeOK

LEMMA OwnersCounted ==
  ASSUME MailboxInv, NEW b \in Buffers
  PROVE  Cardinality({at \in (1 .. 5) \X (1 .. Cardinality(Buffers)) :
                        at[2] <= Len(Lists[at[1]]) /\ Lists[at[1]][at[2]] = b})
         + Cardinality({i \in 1 .. 3 : InHand[i] = b})
         + (IF b \in pool THEN 1 ELSE 0) = 1
<1> DEFINE N == Cardinality(Buffers)
           P == {at \in (1 .. 5) \X (1 .. N) : at[2] <= Len(Lists[at[1]]) /\ Lists[at[1]][at[2]] = b}
           H == {i \in 1 .. 3 : InHand[i] = b}
<1>1. Copies(b) = 1
  BY DEF MailboxInv, ListsInv
<1>2. \A i \in 1 .. 5 : Once(Lists[i])
  BY FiveLists DEF MailboxInv, ListsInv
<1>3. N \in Nat
  BY BuffersAssumption, FS_CardinalityType
<1>4. ASSUME NEW i \in 1 .. 5
      PROVE  /\ Len(Lists[i]) \in Nat /\ Len(Lists[i]) <= N
             /\ b \in Range(Lists[i]) <=> \E k \in 1 .. Len(Lists[i]) : Lists[i][k] = b
  <2>1. Once(Lists[i]) /\ Lists[i] \in Seq(Buffers)
    BY <1>2 DEF Once
  <2> QED BY <2>1, RangeOf, Fits
<1>5. Cardinality({}) = 0 /\ \A x : Cardinality({x}) = 1
  BY FS_EmptySet, FS_Singleton
<1> HIDE DEF N
<1>6. ASSUME \A i \in 1 .. 5 : b \notin Range(Lists[i]) PROVE Cardinality(P) = 0
  <2>1. ASSUME NEW at \in (1 .. 5) \X (1 .. N), at[2] <= Len(Lists[at[1]]), Lists[at[1]][at[2]] = b PROVE FALSE
    <3>1. at[1] \in 1 .. 5 /\ at[2] \in 1 .. N
      OBVIOUS
    <3>2. at[2] \in 1 .. Len(Lists[at[1]])
      BY <1>3, <1>4, <2>1, <3>1
    <3> QED BY <1>4, <1>6, <2>1, <3>1, <3>2
  <2>2. P = {}
    BY <2>1
  <2> QED BY <1>5, <2>2
<1>7. ASSUME NEW i \in 1 .. 5, b \in Range(Lists[i]), \A j \in (1 .. 5) \ {i} : b \notin Range(Lists[j])
      PROVE  Cardinality(P) = 1
  <2>1. PICK k \in 1 .. Len(Lists[i]) : Lists[i][k] = b
    BY <1>4, <1>7
  <2>2. k \in 1 .. N /\ k <= Len(Lists[i])
    <3>1. Len(Lists[i]) \in Nat /\ Len(Lists[i]) <= N
      BY <1>4
    <3> QED BY <1>3, <3>1
  <2>3. <<i, k>> \in P
    BY <2>1, <2>2
  <2>4. ASSUME NEW at \in (1 .. 5) \X (1 .. N), at[2] <= Len(Lists[at[1]]), Lists[at[1]][at[2]] = b
        PROVE  at = <<i, k>>
    <3>1. at[1] \in 1 .. 5 /\ at[2] \in 1 .. N /\ at = <<at[1], at[2]>>
      OBVIOUS
    <3>2. at[2] \in 1 .. Len(Lists[at[1]])
      BY <1>3, <1>4, <2>4, <3>1
    <3>3. at[1] = i
      BY <1>4, <1>7, <2>4, <3>1, <3>2
    <3>4. at[2] = k
      BY <1>2, <2>1, <2>4, <3>2, <3>3 DEF Once
    <3> QED BY <3>1, <3>3, <3>4
  <2>5. P = {<<i, k>>}
    BY <2>3, <2>4
  <2> QED BY <1>5, <2>5
<1>8. (b # event /\ b # waiting /\ b # node) => Cardinality(H) = 0
  <2>1. ASSUME b # event /\ b # waiting /\ b # node PROVE H = {}
    BY <2>1, ThreeHands
  <2> QED BY <1>5, <2>1
<1>9. ASSUME NEW i \in 1 .. 3, InHand[i] = b, \A j \in (1 .. 3) \ {i} : InHand[j] # b
      PROVE  Cardinality(H) = 1
  <2>1. H = {i}
    BY <1>9
  <2> QED BY <1>5, <2>1
<1> SUFFICES Cardinality(P) + Cardinality(H) + (IF b \in pool THEN 1 ELSE 0) = 1
  BY DEF N
<1> HIDE DEF P, H
<1>10. CASE b \in pool
  <2>1. /\ b \notin Range(sysQueue) /\ b \notin Range(tracesQueue) /\ b \notin Range(asynch)
        /\ b \notin Range(localFree) /\ b \notin Range(free) /\ b # event /\ b # waiting /\ b # node
    BY <1>1, <1>10 DEF Copies, In, Is
  <2>2. \A i \in 1 .. 5 : b \notin Range(Lists[i])
    BY <2>1, FiveLists
  <2> QED BY <1>6, <1>8, <1>10, <2>1, <2>2
<1>11. CASE b \notin pool /\ \E i \in 1 .. 5 : b \in Range(Lists[i])
  <2>1. PICK i \in 1 .. 5 : b \in Range(Lists[i])
    BY <1>11
  <2>2. /\ b # event /\ b # waiting /\ b # node
        /\ b \in Range(sysQueue) => /\ b \notin Range(tracesQueue) /\ b \notin Range(asynch)
                                    /\ b \notin Range(localFree) /\ b \notin Range(free)
        /\ b \in Range(tracesQueue) => /\ b \notin Range(sysQueue) /\ b \notin Range(asynch)
                                       /\ b \notin Range(localFree) /\ b \notin Range(free)
        /\ b \in Range(asynch) => /\ b \notin Range(sysQueue) /\ b \notin Range(tracesQueue)
                                  /\ b \notin Range(localFree) /\ b \notin Range(free)
        /\ b \in Range(localFree) => /\ b \notin Range(sysQueue) /\ b \notin Range(tracesQueue)
                                     /\ b \notin Range(asynch) /\ b \notin Range(free)
        /\ b \in Range(free) => /\ b \notin Range(sysQueue) /\ b \notin Range(tracesQueue)
                                /\ b \notin Range(asynch) /\ b \notin Range(localFree)
    <3>1. \/ b \in Range(sysQueue) \/ b \in Range(tracesQueue) \/ b \in Range(asynch)
          \/ b \in Range(localFree) \/ b \in Range(free)
      BY <2>1, FiveLists
    <3> QED BY <1>1, <3>1 DEF Copies, In, Is
  <2>3. \A j \in (1 .. 5) \ {i} : b \notin Range(Lists[j])
    BY <2>1, <2>2, FiveLists
  <2>4. Cardinality(P) = 1
    BY <1>7, <2>1, <2>3
  <2> QED BY <1>8, <1>11, <2>2, <2>4
<1>12. CASE b \notin pool /\ \A i \in 1 .. 5 : b \notin Range(Lists[i])
  <2>1. /\ b \notin Range(sysQueue) /\ b \notin Range(tracesQueue) /\ b \notin Range(asynch)
        /\ b \notin Range(localFree) /\ b \notin Range(free)
    BY <1>12, FiveLists
  <2>2. \/ b = event /\ b # waiting /\ b # node
        \/ b # event /\ b = waiting /\ b # node
        \/ b # event /\ b # waiting /\ b = node
    BY <1>1, <1>12, <2>1 DEF Copies, In, Is
  <2>3. \E i \in 1 .. 3 : InHand[i] = b /\ \A j \in (1 .. 3) \ {i} : InHand[j] # b
    <3>1. 1 \in 1 .. 3 /\ 2 \in 1 .. 3 /\ 3 \in 1 .. 3
      OBVIOUS
    <3> QED BY <2>2, <3>1, ThreeHands
  <2>4. Cardinality(H) = 1
    BY <1>9, <2>3
  <2> QED BY <1>6, <1>12, <2>4
<1> QED BY <1>10, <1>11, <1>12

\* Of a pool of any size, each buffer lent has one owner at a time, and every
\* list of the two cores keeps its links, unless a trace is released while
\* the thread is in HW_IPCC_MM_SendFreeBuf: between its test of the channel
\* and the moment it raises the flag.
THEOREM BuffersAlwaysSound == Spec => []BuffersAreSound
<1>1. MailboxInv => BuffersAreSound
  BY TypesHold, OwnersCounted DEF BuffersAreSound, OneOwner, MailboxInv
<1> QED BY <1>1, AlwaysInv, PTL
=============================================================================
