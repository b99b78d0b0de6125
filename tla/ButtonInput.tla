----------------------------- MODULE ButtonInput -----------------------------
(***************************************************************************)
(* The way of a button press from its pin to the application: the edge     *)
(* interrupt records the level of the pin in a ring buffer and posts a     *)
(* task (User/user_int_handler.c, User/utils_ringbuffer.c); the task feeds *)
(* what it finds to the press and release state machine of each button     *)
(* (Buttons/button.c), which counts short presses until a timer shared by  *)
(* all buttons runs out and its interrupt reports the count.               *)
(*                                                                         *)
(* Interrupts run to their end without the thread, and come between any    *)
(* two steps of the thread.  Time is abstracted: a press is short or long, *)
(* a button held is held too long or not, as the environment chooses.      *)
(***************************************************************************)
EXTENDS Integers, Sequences, FiniteSets

CONSTANTS
  Buttons,      \* the registered buttons
  Size,         \* UTIL_CONF_RINGBUFFER_MAX_BUFFERSIZE
  None,         \* no button, no record
  MaxEdges      \* bound: level changes of all pins together

ASSUME ButtonAssumption ==
  /\ Size \in Nat \ {0}
  /\ MaxEdges \in Nat
  /\ None \notin Buttons

Status == {"pressed", "released"}
Opposite(status) == IF status = "pressed" THEN "released" ELSE "pressed"
Held == {"short", "long", "error"}  \* < 500 ms, < 10 s, more
Slots == 0 .. Size - 1
Record == [button : Buttons, status : Status]

VARIABLES
  pin,          \* the level of each pin
  edge,         \* pins whose edge is pending in the EXTI
  isr,          \* the pin whose edge interrupt is between clearing and recording
  buffer, inIdx, outIdx, dataCount,   \* user_ringbuffer_intHandler, m_data_count
  posted,       \* tasks posted: "buttons" (user_task_bitmap_gpio_int) and "join"
  task,         \* where the button task is, and its locals
  statePre, cnt,          \* m_statePre and cnt of each button
  lastShortKey,           \* m_lastShortKeyhandle
  armed,                  \* the 250 ms timer runs
  pushed, popped, lost,   \* history: all records, how many were taken, increments lost
  overrun, gaveUp         \* history: a record overwritten unread; buttons held too long

pins == <<pin, edge, isr>>
ring == <<buffer, inIdx, outIdx, dataCount>>
machine == <<statePre, cnt, lastShortKey, armed>>
history == <<pushed, popped, lost, overrun, gaveUp>>
vars == <<pins, ring, posted, task, machine, history>>

Off == [pc |-> "off", slot |-> 0, loaded |-> 0]
Backlog == Len(pushed) - popped
\* Slots that hold a record not read: popping takes a record before it reads it.
Unread == Backlog + (IF task.pc \in {"store", "read"} THEN 1 ELSE 0)

Init ==
  /\ pin = [b \in Buttons |-> "released"]
  /\ edge = {}
  /\ isr = None
  /\ buffer = [i \in Slots |-> None]
  /\ inIdx = 0
  /\ outIdx = 0
  /\ dataCount = 0
  /\ posted = {}
  /\ task = Off
  /\ statePre = [b \in Buttons |-> "released"]
  /\ cnt = [b \in Buttons |-> 0]
  /\ lastShortKey = None
  /\ armed = FALSE
  /\ pushed = <<>>
  /\ popped = 0
  /\ lost = 0
  /\ overrun = FALSE
  /\ gaveUp = [b \in Buttons |-> FALSE]

-----------------------------------------------------------------------------
(* The pins and their interrupt. *)

\* A pin changes its level, at any time; contacts bounce, so it may change
\* back before anybody looked.  Edges add up to one pending bit.
Change(b) ==
  /\ Len(pushed) + Cardinality(edge) + (IF isr = None THEN 0 ELSE 1) < MaxEdges
  /\ pin' = [pin EXCEPT ![b] = Opposite(@)]
  /\ edge' = edge \cup {b}
  /\ UNCHANGED <<isr, ring, posted, task, machine, history>>

\* HAL_GPIO_EXTI_IRQHandler clears the pending bit ...
EdgeInterrupt(b) ==
  /\ isr = None /\ b \in edge
  /\ isr' = b
  /\ edge' = edge \ {b}
  /\ UNCHANGED <<pin, ring, posted, task, machine, history>>

\* utils_ringbuffer_push: the index wraps before it is used; nothing looks
\* whether the slot has been read.
Wrapped(i) == IF i >= Size THEN 0 ELSE i

Push(r) ==
  LET i == Wrapped(inIdx)
  IN  /\ buffer' = [buffer EXCEPT ![i] = r]
      /\ inIdx' = i + 1
      /\ dataCount' = dataCount + 1
      /\ pushed' = Append(pushed, r)
      /\ overrun' = (overrun \/ Unread >= Size)

\* ... and HAL_GPIO_EXTI_Callback reads the level the pin has by now, pushes
\* it and posts the task.
EdgeCallback_Toggles ==
  /\ isr # None
  /\ Push([button |-> isr, status |-> Opposite(statePre[isr])])
  /\ posted' = posted \cup {"buttons"}
  /\ isr' = None
  /\ UNCHANGED <<pin, edge, outIdx, task, machine, popped, lost, gaveUp>>
EdgeCallback_PostsPresses ==
  /\ isr # None
  /\ Push([button |-> isr, status |-> pin[isr]])
  /\ posted' = IF pin[isr] = "pressed" THEN posted \cup {"buttons"} ELSE posted
  /\ isr' = None
  /\ UNCHANGED <<pin, edge, outIdx, task, machine, popped, lost, gaveUp>>
EdgeCallback ==
  /\ isr # None
  /\ Push([button |-> isr, status |-> pin[isr]])
  /\ posted' = posted \cup {"buttons"}
  /\ isr' = None
  /\ UNCHANGED <<pin, edge, outIdx, task, machine, popped, lost, gaveUp>>

-----------------------------------------------------------------------------
(* The button task, interrupted between any two steps. *)

Thread(pc) == isr = None /\ task.pc = pc

\* The sequencer clears the bit before it calls user_exti_handler.
RunTask ==
  /\ Thread("off") /\ "buttons" \in posted
  /\ posted' = posted \ {"buttons"}
  /\ task' = [task EXCEPT !.pc = "loop"]
  /\ UNCHANGED <<pins, ring, machine, history>>

EndTask ==
  /\ Thread("loop") /\ dataCount = 0
  /\ task' = Off
  /\ UNCHANGED <<pins, ring, posted, machine, history>>

\* utils_ringbuffer_pop as far as the load of m_data_count; the count only
\* grows between the test of the loop and this load.
Take_Always ==
  /\ Thread("loop")
  /\ task' = [pc |-> "store", slot |-> outIdx, loaded |-> dataCount]
  /\ outIdx' = (IF outIdx + 1 >= Size THEN 0 ELSE outIdx + 1)
  /\ popped' = popped + 1
  /\ UNCHANGED <<pins, buffer, inIdx, dataCount, posted, machine, pushed, lost, overrun, gaveUp>>
Take ==
  /\ Thread("loop") /\ dataCount > 0
  /\ task' = [pc |-> "store", slot |-> outIdx, loaded |-> dataCount]
  /\ outIdx' = (IF outIdx + 1 >= Size THEN 0 ELSE outIdx + 1)
  /\ popped' = popped + 1
  /\ UNCHANGED <<pins, buffer, inIdx, dataCount, posted, machine, pushed, lost, overrun, gaveUp>>

\* m_data_count-- stores one less than was loaded, whatever was pushed since.
StoreCount ==
  /\ Thread("store")
  /\ dataCount' = task.loaded - 1
  /\ lost' = lost + (dataCount - task.loaded)
  /\ task' = [task EXCEPT !.pc = "read"]
  /\ UNCHANGED <<pins, buffer, inIdx, outIdx, posted, machine, pushed, popped, overrun, gaveUp>>

\* A short press makes its button the one the timer will report.
Remember(b) == lastShortKey' = b /\ armed' = TRUE
Forget == armed' = FALSE /\ UNCHANGED lastShortKey

FirstPress_TimerStillRuns(b) ==
  /\ statePre[b] = "released"
  /\ statePre' = [statePre EXCEPT ![b] = "pressed"]
  /\ cnt' = [cnt EXCEPT ![b] = @ + 1]
  /\ posted' = posted \cup {"join"}
  /\ gaveUp' = [gaveUp EXCEPT ![b] = FALSE]
  /\ UNCHANGED <<armed, lastShortKey>>

\* button_update.  The timer is stopped first, whatever the event; only the
\* release of a short press starts it again.
FirstPress(b) ==
  /\ statePre[b] = "released"
  /\ statePre' = [statePre EXCEPT ![b] = "pressed"]
  /\ cnt' = [cnt EXCEPT ![b] = @ + 1]
  /\ posted' = posted \cup {"join"}          \* onButtonPress
  /\ gaveUp' = [gaveUp EXCEPT ![b] = FALSE]
  /\ Forget

PressAgain(b, held) ==
  /\ statePre[b] = "pressed"
  /\ IF held = "error"
       THEN /\ statePre' = [statePre EXCEPT ![b] = "released"]   \* reset
            /\ cnt' = [cnt EXCEPT ![b] = 0]
            /\ gaveUp' = [gaveUp EXCEPT ![b] = TRUE]
       ELSE UNCHANGED <<statePre, cnt, gaveUp>>
  /\ Forget /\ UNCHANGED posted

Release(b, held) ==
  /\ statePre[b] = "pressed"
  /\ statePre' = [statePre EXCEPT ![b] = "released"]
  /\ IF held = "short" THEN Remember(b) /\ UNCHANGED cnt
     ELSE Forget /\ cnt' = [cnt EXCEPT ![b] = 0]
  /\ UNCHANGED <<posted, gaveUp>>

ReleaseAgain(b) ==
  /\ statePre[b] = "released"
  /\ gaveUp' = [gaveUp EXCEPT ![b] = FALSE]
  /\ Forget /\ UNCHANGED <<posted, statePre, cnt>>

Update(b, status, held) ==
  IF status = "pressed" THEN FirstPress(b) \/ PressAgain(b, held)
  ELSE Release(b, held) \/ ReleaseAgain(b)

\* The rest of user_exti_handler's loop: the slot is read after the count is
\* stored, and its record handled.
Handle_OnlyOne ==
  /\ Thread("read")
  /\ LET r == buffer[task.slot]
     IN  \E held \in Held : Update(r.button, r.status, held)
  /\ task' = Off
  /\ UNCHANGED <<pins, ring, pushed, popped, lost, overrun>>
Handle ==
  /\ Thread("read")
  /\ LET r == buffer[task.slot]
     IN  \E held \in Held : Update(r.button, r.status, held)
  /\ task' = [task EXCEPT !.pc = "loop"]
  /\ UNCHANGED <<pins, ring, pushed, popped, lost, overrun>>

\* The network task takes its request (modelled in ZigbeeIpc).
RunJoin ==
  /\ Thread("off") /\ "join" \in posted
  /\ posted' = posted \ {"join"}
  /\ UNCHANGED <<pins, ring, task, machine, history>>

\* The timer's interrupt: button_onInvokeTimerElapsed reports cnt[lastShortKey]
\* and clears it.
TimerElapsed ==
  /\ isr = None /\ armed
  /\ armed' = FALSE
  /\ cnt' = IF lastShortKey = None THEN cnt ELSE [cnt EXCEPT ![lastShortKey] = 0]
  /\ UNCHANGED <<pins, ring, posted, task, statePre, lastShortKey, history>>

Interrupts == (\E b \in Buttons : EdgeInterrupt(b)) \/ EdgeCallback
TaskSteps == RunTask \/ EndTask \/ Take \/ StoreCount \/ Handle

Next ==
  \/ \E b \in Buttons : Change(b)
  \/ Interrupts \/ TaskSteps \/ RunJoin \/ TimerElapsed

\* The core serves interrupts and the sequencer runs what is posted
\* (Sequencer!PostedTaskRuns).  Presses and the timer are not required.
Spec == Init /\ [][Next]_vars /\ WF_vars(Interrupts) /\ WF_vars(TaskSteps)

-----------------------------------------------------------------------------
(* Properties. *)

\* Every variable keeps its type: the indices stay where the buffer has slots
\* (inIdx one past the end, until the next push wraps it).
TypeOK ==
  /\ pin \in [Buttons -> Status] /\ edge \subseteq Buttons /\ isr \in Buttons \cup {None}
  /\ buffer \in [Slots -> Record \cup {None}]
  /\ inIdx \in 0 .. Size /\ outIdx \in Slots /\ dataCount \in Nat
  /\ posted \subseteq {"buttons", "join"}
  /\ task \in [pc : {"off", "loop", "store", "read"}, slot : Slots, loaded : Nat]
  /\ statePre \in [Buttons -> Status] /\ cnt \in [Buttons -> Nat]
  /\ lastShortKey \in Buttons \cup {None} /\ armed \in BOOLEAN
  /\ pushed \in Seq(Record) /\ popped \in Nat /\ lost \in Nat
  /\ overrun \in BOOLEAN /\ gaveUp \in [Buttons -> BOOLEAN]

\* The record the task is taking (utils_ringbuffer_pop) is the oldest one not
\* yet taken, however pushes come between its steps and although the count may
\* be wrong, unless Size pushes are ahead of it.
SlotHoldsItsEvent ==
  task.pc \in {"store", "read"} /\ Len(pushed) < popped + Size
    => buffer[task.slot] = pushed[popped]

\* The task never takes a record nobody pushed: m_data_count, unprotected as it
\* is, errs to the low side only.
NothingInvented == popped <= Len(pushed) /\ dataCount <= Backlog + 1

\* The ring buffer hands out what was put in, once and in order.
RingIsSound == TypeOK /\ NothingInvented /\ SlotHoldsItsEvent

\* When the task rests and is not posted, the only records left in the buffer
\* are those whose increment of m_data_count the task's decrement overwrote: no
\* other order of push, post, test and end of the task forgets one.
OnlyTheRaceLeavesRecords ==
  task.pc = "off" /\ "buttons" \notin posted => Backlog = lost

\* Whenever all is quiet, the state machine of a button knows the level of its
\* pin, however its contacts bounced: only an overrun, a record left behind, or
\* the reset of a button held for 10 s keep the two apart.
SettledStateIsThePin ==
  /\ edge = {} /\ isr = None /\ task.pc = "off" /\ "buttons" \notin posted
  /\ Backlog = 0 /\ ~ overrun
  => \A b \in Buttons : statePre[b] = pin[b] \/ gaveUp[b]

\* While the shared timer runs, the button it will report is up and has presses
\* to report: no report of zero presses, none in the middle of a press, although
\* the timer's interrupt works on the data of the task.
TimerHasAReport ==
  armed => /\ lastShortKey # None
           /\ cnt[lastShortKey] > 0
           /\ statePre[lastShortKey] = "released"

\* A record the count knows of is taken in the end.
CountedRecordsAreTaken == (Backlog > lost) ~> (Backlog <= lost)

=============================================================================
