----------------------------- MODULE TimerServer -----------------------------
(***************************************************************************)
(* The timer server of Core/Src/hw_timerserver.c: virtual timers kept in a *)
(* linked list sorted by the ticks they have left, driven by the one       *)
(* wake-up timer of the RTC.  The thread and the call-backs of the wake-up *)
(* interrupt start and stop timers; the code protects its list by masking  *)
(* interrupts, but reads the status of a timer before it masks them, and   *)
(* runs the list in two steps with time passing between them.              *)
(*                                                                         *)
(* Time is counted in ticks of the wake-up timer, which the sub-second     *)
(* register counts too (16 RTC clocks each, app_conf.h:138-150).           *)
(***************************************************************************)
EXTENDS Integers, FiniteSets

CONSTANTS
  N,              \* CFG_HW_TS_MAX_NBR_CONCURRENT_TIMER, timers and "no timer"
  Timeouts,       \* timeouts the users ask for, in ticks
  MaxWakeup,      \* MaxWakeupTimerSetup: the longest count of the wake-up timer
  HandlerDelay,   \* ticks the interrupt may be kept waiting, the code's margin
  MaxSlips,       \* bound: ticks lost while the wake-up timer is written
  MaxRepeated     \* bound: repeated timers that exist at a time

ASSUME TimerAssumption ==
  /\ N \in Nat \ {0}
  /\ Timeouts \subseteq Nat
  /\ MaxWakeup \in Nat \ {0}
  /\ HandlerDelay \in Nat
  /\ MaxSlips \in Nat
  /\ MaxRepeated \in Nat

Timers == 0 .. N - 1
None == N
Never == -1             \* SSR_FORBIDDEN_VALUE

\* Where a call of HW_TS_Start, HW_TS_Stop or HW_TS_Delete is.  In the masked
\* places the primary mask and the interrupt controller keep the handler out.
MaskedPlaces == {"link", "unlink", "resched", "restart"}
Places == MaskedPlaces \cup {"idle", "lock", "stop", "free", "callback"}

VARIABLES
  status, mode, counterInit, countLeft, previousID, nextID,  \* aTimerContext
  current, previous,  \* CurrentRunningTimerID, PreviousRunningTimerID
  limitation,         \* WakeupTimerLimitation
  since,              \* ticks since SSRValueOnLastSetup was read, or Never
  armed, wake,        \* the wake-up timer: enabled, and its count
  pending,            \* the wake-up interrupt is pending
  call,               \* what the thread and the handler are doing
  due,                \* the ticks really left to each running timer
  slips               \* ticks lost so far

list == <<status, mode, counterInit, countLeft, previousID, nextID, current, previous>>
rtc == <<limitation, since, armed, wake, pending>>
vars == <<list, rtc, call, due, slips>>

Idle == [pc |-> "idle", id |-> None, ticks |-> 0, op |-> "none", then |-> "idle"]
Contexts == {"thread", "isr"}

\* The handler preempts the thread unless it is masked, and runs to its end.
Turn(c) ==
  IF c = "isr" THEN call.isr.pc # "idle"
  ELSE call.isr.pc = "idle" /\ (pending => call.thread.pc \in MaskedPlaces)

At(c, pc) == Turn(c) /\ call[c].pc = pc
Goto(c, pc) == call' = [call EXCEPT ![c].pc = pc]

\* What follows a HW_TS_Stop, and the end of a call.
Return(c) ==
  LET f == call[c]
      pc == CASE f.op = "start" -> "lock" [] f.op = "delete" -> "free" [] OTHER -> f.then
  IN  call' = [call EXCEPT ![c] = IF pc = "idle" THEN Idle ELSE [f EXCEPT !.pc = pc]]

Init ==
  /\ status = [t \in Timers |-> "free"]
  /\ mode = [t \in Timers |-> "single"]
  /\ counterInit = [t \in Timers |-> 0]
  /\ countLeft = [t \in Timers |-> 0]
  /\ previousID = [t \in Timers |-> None]
  /\ nextID = [t \in Timers |-> None]
  /\ current = None
  /\ previous = 0
  /\ limitation = "enough"
  /\ since = Never
  /\ armed = FALSE
  /\ wake = 0
  /\ pending = FALSE
  /\ call = [c \in Contexts |-> Idle]
  /\ due = [t \in Timers |-> 0]
  /\ slips = 0

Running == {t \in Timers : status[t] = "running"}

\* ReturnTimeElapsed: the difference of two readings of a counter that wraps,
\* exact while less than a period lies between them (see Tick).
ReturnTimeElapsed_WholeCount == IF since = Never THEN 0 ELSE wake
ReturnTimeElapsed == IF since = Never THEN 0 ELSE since

-----------------------------------------------------------------------------
(* The users' calls. *)

\* HW_TS_Create; it fails, and changes nothing, when no timer is free.
Create(m) ==
  /\ At("thread", "idle")
  /\ m = "repeated" => Cardinality({t \in Timers : mode[t] = m}) < MaxRepeated
  /\ \E t \in Timers :
       /\ status[t] = "free"
       /\ \A u \in Timers : u < t => status[u] # "free"
       /\ status' = [status EXCEPT ![t] = "created"]
       /\ mode' = [mode EXCEPT ![t] = m]
  /\ UNCHANGED <<counterInit, countLeft, previousID, nextID, current, previous>>
  /\ UNCHANGED <<rtc, call, due, slips>>

Begin(c, pc, t, ticks, op, then) ==
  call' = [call EXCEPT ![c] = [pc |-> pc, id |-> t, ticks |-> ticks, op |-> op, then |-> then]]

\* HW_TS_Start stops a running timer first.  It reads the status with
\* interrupts on, as they are again between the stop and the start.
BeginStart(c, t, n) ==
  Begin(c, IF status[t] = "running" THEN "stop" ELSE "lock", t, n, "start", "idle")

CallStart(t, n) ==
  /\ At("thread", "idle") /\ status[t] # "free"
  /\ BeginStart("thread", t, n)
  /\ UNCHANGED <<list, rtc, due, slips>>

\* HW_TS_Stop and HW_TS_Delete, which begin by masking interrupts.
CallStop(t) ==
  /\ At("thread", "idle") /\ status[t] # "free"
  /\ \E op \in {"stop", "delete"} : Begin("thread", "unlink", t, 0, op, "idle")
  /\ UNCHANGED <<list, rtc, due, slips>>

\* HW_TS_RTC_Int_AppNot: the call-back may start or stop its own timer.
Callback ==
  /\ At("isr", "callback")
  /\ \/ call' = [call EXCEPT !.isr = Idle]
     \/ \E n \in Timeouts : BeginStart("isr", call.isr.id, n)
     \/ Begin("isr", "unlink", call.isr.id, 0, "stop", "idle")
  /\ UNCHANGED <<list, rtc, due, slips>>

-----------------------------------------------------------------------------
(* HW_TS_Start, HW_TS_Stop and HW_TS_Delete. *)

Mask(c) ==
  /\ \/ At(c, "lock") /\ Goto(c, "link")
     \/ At(c, "stop") /\ Goto(c, "unlink")
  /\ UNCHANGED <<list, rtc, due, slips>>

UnlinkTimer_ForgetsHead(t) ==
  LET p == previousID[t]  n == nextID[t]
  IN  /\ status' = [status EXCEPT ![t] = "created"]
      /\ current' = IF t = current THEN n ELSE current
      /\ nextID' = [u \in Timers |-> IF u = t THEN None
                                    ELSE IF t # current /\ u = p THEN n ELSE nextID[u]]
      /\ previousID' = [u \in Timers |-> IF u = t THEN None
                                    ELSE IF t # current /\ u = n THEN p ELSE previousID[u]]
      /\ counterInit' = [counterInit EXCEPT ![t] = 0]
      /\ countLeft' = [countLeft EXCEPT ![t] = 0]
      /\ UNCHANGED <<mode, previous>>
\* UnlinkTimer, on the list alone.  A timer out of the list keeps its links and
\* counts in the code until linkTimer and HW_TS_Start set them again; nothing
\* reads them meanwhile, and the model clears them.
UnlinkTimer(t) ==
  LET p == previousID[t]  n == nextID[t]
  IN  /\ status' = [status EXCEPT ![t] = "created"]
      /\ IF t = current
         THEN /\ previous' = current
              /\ current' = n
              /\ nextID' = [nextID EXCEPT ![t] = None]
              /\ previousID' = [previousID EXCEPT ![t] = None]
         ELSE /\ nextID' = [nextID EXCEPT ![p] = n, ![t] = None]
              /\ previousID' = [u \in Timers |->
                   IF u = t THEN None ELSE IF u = n THEN p ELSE previousID[u]]
              /\ UNCHANGED <<previous, current>>
      /\ counterInit' = [counterInit EXCEPT ![t] = 0]
      /\ countLeft' = [countLeft EXCEPT ![t] = 0]
      /\ UNCHANGED mode

\* A timer that would expire before the head, or the first one of all.
GoesFirst(left) == current = None \/ countLeft[current] > left

\* Where the search of linkTimer ends: the list is sorted (ListIsSound), so r is
\* the only timer with no more left whose successor has more.
EndsAt(r, left) ==
  /\ countLeft[r] <= left
  /\ nextID[r] # None => countLeft[nextID[r]] > left

\* linkTimer and the lines before it, then the test of the head.  The initial
\* count is kept for a repeated timer, no other reads it.
Link(c) ==
  /\ At(c, "link")
  /\ LET t == call[c].id
         elapsed == IF current = None THEN 0 ELSE ReturnTimeElapsed
         left == call[c].ticks + elapsed
         After(r) == /\ nextID' = [nextID EXCEPT ![t] = nextID[r], ![r] = t]
                     /\ previousID' = [u \in Timers |->
                          IF u = t THEN r ELSE IF u = nextID[r] THEN t ELSE previousID[u]]
                     /\ UNCHANGED <<previous, current>>
         Before(r) == /\ nextID' = [nextID EXCEPT ![t] = r]
                      /\ previousID' = IF r = None THEN previousID
                                       ELSE [previousID EXCEPT ![r] = t]
                      /\ previous' = current
                      /\ current' = t
     IN  /\ status' = [status EXCEPT ![t] = "running"]
         /\ counterInit' = [counterInit EXCEPT ![t] = IF mode[t] = "repeated" THEN call[c].ticks ELSE 0]
         /\ IF GoesFirst(left) THEN Before(current)
            ELSE \E r \in Running : EndsAt(r, left) /\ After(r)
         /\ since' = IF current = None THEN Never ELSE since
         /\ due' = [due EXCEPT ![t] = call[c].ticks]
         /\ IF previous' # current'
            THEN /\ countLeft' = [countLeft EXCEPT ![t] = left]
                 /\ call' = [call EXCEPT ![c].pc = "resched", ![c].op = "started"]
            ELSE /\ countLeft' = [countLeft EXCEPT ![t] = left - elapsed]
                 /\ call' = [call EXCEPT ![c] =
                      IF @.then = "idle" THEN Idle ELSE [@ EXCEPT !.pc = @.then]]
  /\ UNCHANGED <<mode, limitation, armed, wake, pending, slips>>

Unlink_KeepsPending(c) ==
  /\ At(c, "unlink")
  /\ LET t == call[c].id
     IN  IF status[t] # "running"
         THEN Return(c) /\ UNCHANGED <<list, rtc, due>>
         ELSE /\ UnlinkTimer(t)
              /\ due' = [due EXCEPT ![t] = 0]
              /\ since' = IF current' = None THEN Never ELSE since
              /\ armed' = (armed /\ current' # None)
              /\ IF current' = None THEN Return(c) ELSE Goto(c, "resched")
              /\ UNCHANGED <<limitation, wake, pending>>
  /\ UNCHANGED slips
\* HW_TS_Stop once interrupts are masked.  An empty list disarms the timer.
Unlink(c) ==
  /\ At(c, "unlink")
  /\ LET t == call[c].id
     IN  IF status[t] # "running"
         THEN Return(c) /\ UNCHANGED <<list, rtc, due>>
         ELSE /\ UnlinkTimer(t)
              /\ due' = [due EXCEPT ![t] = 0]
              /\ IF current' = None
                 THEN /\ since' = Never
                      /\ armed' = FALSE
                      /\ pending' = FALSE
                      /\ Return(c)
                 ELSE /\ IF previous' # current' THEN Goto(c, "resched") ELSE Return(c)
                      /\ UNCHANGED <<since, armed, pending>>
              /\ UNCHANGED <<limitation, wake>>
  /\ UNCHANGED slips

\* The mode of a free timer is dead as well.
Free ==
  /\ At("thread", "free")
  /\ status' = [status EXCEPT ![call.thread.id] = "free"]
  /\ mode' = [mode EXCEPT ![call.thread.id] = "single"]
  /\ call' = [call EXCEPT !.thread = Idle]
  /\ UNCHANGED <<counterInit, countLeft, previousID, nextID, current, previous>>
  /\ UNCHANGED <<rtc, due, slips>>

-----------------------------------------------------------------------------
(* RescheduleTimerList, in two steps: time goes on between them.  The loop over *)
(* the list meets the running timers (ListIsSound).                              *)

Decrease(left, elapsed) == IF left < elapsed THEN 0 ELSE left - elapsed

Reschedule(c) ==
  /\ At(c, "resched")
  /\ LET elapsed == ReturnTimeElapsed
         left == countLeft[current]
     IN  /\ limitation' = IF left > elapsed + MaxWakeup THEN "overpassed" ELSE "enough"
         /\ wake' = IF left > elapsed + MaxWakeup THEN MaxWakeup ELSE Decrease(left, elapsed)
         /\ countLeft' = [t \in Timers |-> IF t \in Running THEN Decrease(countLeft[t], elapsed)
                                           ELSE countLeft[t]]
  /\ armed' = FALSE
  /\ Goto(c, "restart")
  /\ UNCHANGED <<status, mode, counterInit, previousID, nextID, current, previous>>
  /\ UNCHANGED <<since, pending, due, slips>>

RestartWakeupCounter_NeverPends(c) ==
  /\ At(c, "restart")
  /\ since' = 0
  /\ armed' = (wake # 0)
  /\ pending' = FALSE
  /\ Return(c)
  /\ UNCHANGED <<list, limitation, wake, due, slips>>
\* RestartWakeupCounter: nothing left to count pends the interrupt.
RestartWakeupCounter(c) ==
  /\ At(c, "restart")
  /\ since' = 0
  /\ armed' = (wake # 0)
  /\ pending' = (wake = 0)
  /\ Return(c)
  /\ UNCHANGED <<list, limitation, wake, due, slips>>

-----------------------------------------------------------------------------
(* The wake-up interrupt. *)

FullCount_Assumed == TRUE
\* The head was counted to its end, not only as far as the wake-up timer goes.
FullCount == limitation = "enough"

\* HW_TS_RTC_Wakeup_Handler up to the calls it makes for the head of the list.
Handler ==
  /\ pending
  /\ call.isr.pc = "idle"
  /\ call.thread.pc \notin MaskedPlaces
  /\ pending' = FALSE
  /\ armed' = FALSE
  /\ LET t == current
         repeated == FullCount /\ mode[t] = "repeated"
     IN  IF t = None \/ status[t] # "running"
         THEN UNCHANGED <<list, call, due>>
         ELSE /\ IF repeated
                 THEN UnlinkTimer(t) /\ due' = [due EXCEPT ![t] = 0]
                 ELSE UNCHANGED <<list, due>>
              /\ CASE ~FullCount -> Begin("isr", "resched", t, 0, "stop", "idle")
                   [] repeated -> Begin("isr", "lock", t, counterInit[t], "start", "callback")
                   [] OTHER -> Begin("isr", "unlink", t, 0, "stop", "callback")
  /\ UNCHANGED <<limitation, since, wake, slips>>

\* A tick passes.  The code's margin: the counter is read again at most
\* HandlerDelay ticks after the wake-up time it was set to, and interrupts are
\* not masked for longer between linkTimer and the rescheduling.
Tick ==
  /\ Running # {}
  /\ \A c \in Contexts : call[c].pc = "resched" /\ call[c].op = "started" =>
                          call[c].ticks < due[call[c].id] + HandlerDelay
  /\ due' = [t \in Timers |-> IF t \in Running THEN due[t] - 1 ELSE due[t]]
  /\ IF since = Never \/ \E c \in Contexts : call[c].pc = "restart"
     THEN /\ slips < MaxSlips
          /\ slips' = slips + 1
          /\ UNCHANGED <<since, pending>>
     ELSE /\ since < wake + HandlerDelay
          /\ since' = since + 1
          /\ pending' = (pending \/ (armed /\ since + 1 = wake))
          /\ UNCHANGED slips
  /\ UNCHANGED <<list, limitation, armed, wake, call>>

Step(c) == Mask(c) \/ Link(c) \/ Unlink(c) \/ Reschedule(c) \/ RestartWakeupCounter(c)

Work == Step("thread") \/ Step("isr") \/ Free \/ Handler \/ Callback

Next ==
  \/ \E m \in {"single", "repeated"} : Create(m)
  \/ \E t \in Timers, n \in Timeouts : CallStart(t, n)
  \/ \E t \in Timers : CallStop(t)
  \/ Work
  \/ Tick

Spec == Init /\ [][Next]_vars

-----------------------------------------------------------------------------
(* Properties. *)

\* Every variable has its type.
TypeOK ==
  /\ status \in [Timers -> {"free", "created", "running"}]
  /\ mode \in [Timers -> {"single", "repeated"}]
  /\ counterInit \in [Timers -> Nat]
  /\ countLeft \in [Timers -> Nat]
  /\ previousID \in [Timers -> Timers \cup {None}]
  /\ nextID \in [Timers -> Timers \cup {None}]
  /\ current \in Timers \cup {None}
  /\ previous \in Timers \cup {None}
  /\ limitation \in {"enough", "overpassed"}
  /\ since \in Nat \cup {Never}
  /\ armed \in BOOLEAN
  /\ wake \in 0 .. MaxWakeup
  /\ pending \in BOOLEAN
  /\ call \in [Contexts -> [pc : Places, id : Timers \cup {None}, ticks : Nat,
                            op : {"none", "start", "started", "stop", "delete"},
                            then : {"idle", "callback"}]]
  /\ due \in [Timers -> Int]
  /\ slips \in 0 .. MaxSlips

\* at is the place of each running timer in the list: the links lead from the
\* head through all of them to None, back again to the head, and the counts rise.
InOrder(at) ==
  /\ \A t, u \in Running : at[t] = at[u] => t = u
  /\ IF Running = {} THEN current = None ELSE current \in Running /\ at[current] = 1
  /\ \A t \in Running \ {current} :
       LET p == previousID[t]
       IN  p \in Running /\ at[p] = at[t] - 1 /\ nextID[p] = t /\ countLeft[p] <= countLeft[t]
  /\ \A t \in Running :
       LET n == nextID[t]
       IN  IF at[t] = Cardinality(Running) THEN n = None
           ELSE n \in Running /\ at[n] = at[t] + 1 /\ previousID[n] = t

\* The list ends, holds the running timers once each, is doubly linked behind
\* its head and sorted, whatever calls and interrupts came before.
ListIsSound == \E at \in [Running -> 1 .. Cardinality(Running)] : InOrder(at)

\* Every change of the list is seen by the test of the head that decides on
\* rescheduling (hw_timerserver.c:778 and :829), which compares with a value
\* kept from an earlier call.
HeadTestSeesChanges == previous # current

\* The list is kept, and its changes are seen.
ListIsKept == TypeOK /\ ListIsSound /\ HeadTestSeesChanges

\* The interrupt never finds an empty list: the handler would read behind the
\* end of the array of timers (hw_timerserver.c:513).
HandlerFindsItsTimer == pending => Running # {}

\* Between calls, the wake-up timer counts exactly while a timer runs.
WakeupIsArmed ==
  (\A c \in Contexts : call[c].pc = "idle") =>
    IF Running = {} THEN ~armed /\ since = Never ELSE pending \/ (armed /\ since < wake)

Counted == IF since = Never \/ \E c \in Contexts : call[c].pc = "restart" THEN 0 ELSE since

\* Whatever is started and stopped meanwhile, no timer is counted ahead of
\* time, and none behind it but for the ticks that slipped.
CountsAreHonest ==
  \A t \in Running : /\ countLeft[t] - Counted >= due[t]
                     /\ countLeft[t] - Counted <= slips + IF due[t] > 0 THEN due[t] ELSE 0

Fires(t) ==
  /\ call.isr.pc = "idle"
  /\ call'.isr.then = "callback"
  /\ call'.isr.id = t

\* The handler takes the head of the list for expired without looking at its
\* count (hw_timerserver.c:525): it is right to.
NeverEarly == [][\A t \in Timers : Fires(t) => due[t] <= 0]_vars

\* A running timer is never overdue for longer than the interrupts of the
\* timers before it, and of itself, take.
OverdueIsBounded == \A t \in Running : due[t] >= -(slips + 3 * N * HandlerDelay)

\* The counts are the time left, and time left runs out.
TimesAreHonest == CountsAreHonest /\ OverdueIsBounded

=============================================================================
