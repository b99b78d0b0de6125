------------------------------- MODULE Mailbox -------------------------------
(***************************************************************************)
(* The event buffers the radio core (M0) lends to the application core:    *)
(* system events (tl_mbox.c, shci_tl.c) and traces go out, and come back   *)
(* over the release channel (tl_mbox.c, STM32_WPAN/Target/hw_ipcc.c).      *)
(*                                                                         *)
(* Three parties: the M0, the interrupts of the mailbox, which do not nest *)
(* in each other, and the thread.  An operation on a list is done with     *)
(* interrupts masked and is one step.  An interrupt that is pending is     *)
(* taken before the thread goes on.  The M0 is stopped by neither.         *)
(*                                                                         *)
(* The mask of the mailbox interrupts, C1MR, is one register for all       *)
(* channels.  The thread changes a bit of it with a load and a store, and   *)
(* what an interrupt enables in between is undone.  The other channels are  *)
(* the subject of ZigbeeIpc; here they are the changes of the register that *)
(* the thread makes for them, and so undo the one of the release channel.   *)
(*                                                                         *)
(* A node taken from an empty list, or a list both cores write, leaves     *)
(* links nobody can follow: "corrupt" then, and the model stops there.     *)
(***************************************************************************)
EXTENDS Integers, Sequences, FiniteSets, SequencesExt

CONSTANTS
  Buffers,      \* the pool of the M0; its size bounds all queues
  None          \* no buffer

ASSUME BuffersAssumption == IsFiniteSet(Buffers) /\ None \notin Buffers

VARIABLES
  pool,         \* buffers the M0 has
  sysQueue,     \* SystemEvtQueue
  sysFlag,      \* its channel: the M0 has raised the event flag
  tracesQueue,  \* TracesEvtQueue
  tracesFlag,   \* its channel
  tracesOn,     \* TL_TRACES_Init was called: the ready event was seen
  serving,      \* the receive channel a handler is at work for
  asynch,       \* SHciAsynchEventQueue
  posted,       \* CFG_TASK_SYSTEM_HCI_ASYNCH_EVT is set
  localFree,    \* LocalFreeBufQueue
  free,         \* FreeBufQueue, shared with the M0
  relFlag,      \* the release channel: the M0 has buffers to take back
  relEnabled,   \* its transmit interrupt is enabled (a bit of C1MR)
  loaded,       \* that bit, as loaded by the thread to change another one
  pc,           \* where the thread is in shci_user_evt_proc
  event,        \* phcievtbuffer
  waiting,      \* the ready event, while its call waits and other tasks run
  node,         \* p_node of SendFreeBuf in the thread
  corrupt,
  expected,     \* history: events the M0 sent and the application has not got
  overtaken,    \* history: a trace was released amid a release of the thread
  undone        \* history: the enable of the last release was undone

system == <<sysQueue, sysFlag, asynch, posted, expected>>
traces == <<tracesQueue, tracesFlag, tracesOn>>
release == <<localFree, free, relFlag, relEnabled, corrupt, overtaken, undone>>
hands == <<event, waiting, node, loaded>>
thread == <<pc, hands>>
vars == <<pool, system, traces, release, thread, serving>>

Init ==
  /\ pool = Buffers
  /\ sysQueue = <<>> /\ sysFlag = FALSE
  /\ tracesQueue = <<>> /\ tracesFlag = FALSE /\ tracesOn = FALSE /\ serving = "none"
  /\ asynch = <<>> /\ posted = FALSE
  /\ localFree = <<>> /\ free = <<>> /\ relFlag = FALSE /\ relEnabled = FALSE
  /\ pc = "idle" /\ event = None /\ waiting = None /\ node = None /\ loaded = FALSE
  /\ corrupt = FALSE
  /\ expected = <<>> /\ overtaken = FALSE /\ undone = FALSE

-----------------------------------------------------------------------------
(* The interrupts.  The receive handler serves system events first; the    *)
(* handlers of the two lines have the same priority.                       *)

TxPending == relEnabled /\ ~ relFlag
RxPending == sysFlag \/ (tracesOn /\ tracesFlag)
Pending == TxPending \/ RxPending
AtSystem == serving = "system" \/ (serving = "none" /\ sysFlag)
AtTraces == serving = "traces" \/ (serving = "none" /\ ~ sysFlag /\ tracesOn /\ tracesFlag)

\* HW_IPCC_SYS_EvtNot: one pass of the loop, with TlUserEvtReceived.
SysEvent_AtTheHead ==
  /\ AtSystem /\ sysQueue # <<>>
  /\ serving' = "system"
  /\ sysQueue' = Tail(sysQueue)
  /\ asynch' = <<Head(sysQueue)>> \o asynch
  /\ posted' = TRUE
  /\ UNCHANGED <<pool, sysFlag, expected, traces, release, thread>>
SysEvent ==
  /\ AtSystem /\ sysQueue # <<>>
  /\ serving' = "system"
  /\ sysQueue' = Tail(sysQueue)
  /\ asynch' = Append(asynch, Head(sysQueue))
  /\ posted' = TRUE
  /\ UNCHANGED <<pool, sysFlag, expected, traces, release, thread>>

SysEventsEnd ==
  /\ AtSystem /\ sysQueue = <<>>
  /\ serving' = "none"
  /\ sysFlag' = FALSE
  /\ UNCHANGED <<pool, sysQueue, asynch, posted, expected, traces, release, thread>>

\* TL_MM_EvtDone in an interrupt: nothing but the M0 runs meanwhile, and it
\* changes nothing the call goes by once the flag has been read.
EvtDoneInInterrupt(buf) ==
  IF relFlag
    THEN /\ localFree' = Append(localFree, buf)
         /\ relEnabled' = TRUE
         /\ UNCHANGED <<free, relFlag>>
    ELSE /\ free' = free \o localFree \o <<buf>>
         /\ localFree' = <<>>
         /\ relFlag' = TRUE
         /\ UNCHANGED relEnabled

\* The thread has read the release flag and found it clear, and has not raised
\* it yet.
InRelease == pc \in {"drain", "remove", "insert", "raise"}

\* HW_IPCC_TRACES_EvtNot: one pass of the loop, with TL_TRACES_EvtReceived.
TraceEvent ==
  /\ AtTraces /\ tracesQueue # <<>>
  /\ serving' = "traces"
  /\ tracesQueue' = Tail(tracesQueue)
  /\ EvtDoneInInterrupt(Head(tracesQueue))
  /\ overtaken' = (overtaken \/ InRelease) /\ undone' = FALSE
  /\ UNCHANGED <<pool, system, tracesFlag, tracesOn, corrupt, thread>>

TracesEnd ==
  /\ AtTraces /\ tracesQueue = <<>>
  /\ serving' = "none"
  /\ tracesFlag' = FALSE
  /\ UNCHANGED <<pool, system, tracesQueue, tracesOn, release, thread>>

\* HW_IPCC_MM_FreeBufHandler with SendFreeBuf as its call-back.
FreeBufHandler ==
  /\ TxPending /\ serving = "none"
  /\ free' = free \o localFree /\ localFree' = <<>>
  /\ relFlag' = TRUE /\ relEnabled' = FALSE
  /\ UNCHANGED <<pool, system, traces, corrupt, overtaken, undone, thread, serving>>

-----------------------------------------------------------------------------
(* The task shci_user_evt_proc, and what it calls.                         *)

\* The sequencer runs the task; the first test of the queue and the removal.
\* The user's flow is never disabled in this program.
TakeEvent ==
  /\ pc = "idle" /\ posted /\ ~ Pending
  /\ posted' = FALSE
  /\ IF asynch = <<>>
       THEN pc' = "again" /\ UNCHANGED <<asynch, event, expected>>
       ELSE /\ pc' = "handle" /\ event' = Head(asynch)
            /\ asynch' = Tail(asynch) /\ expected' = Tail(expected)
  /\ UNCHANGED <<pool, sysQueue, sysFlag, traces, release, waiting, node, loaded, serving>>

\* APPE_SysUserEvtRx: the first event of the M0 is the ready event.  It starts
\* the traces and the Zigbee application, whose commands wait, and while they
\* wait the sequencer runs this task again.  Other events are only reported.
HandleEvent ==
  /\ pc = "handle" /\ ~ Pending
  /\ IF tracesOn
       THEN pc' = "done" /\ UNCHANGED <<tracesOn, event, waiting>>
       ELSE pc' = "idle" /\ tracesOn' = TRUE /\ waiting' = event /\ event' = None
  /\ UNCHANGED <<pool, system, tracesQueue, tracesFlag, release, node, loaded, serving>>

\* APP_ZIGBEE_Init returns.
ReadyProcessed ==
  /\ pc = "idle" /\ waiting # None /\ ~ Pending
  /\ pc' = "done" /\ event' = waiting /\ waiting' = None
  /\ UNCHANGED <<pool, system, traces, release, node, loaded, serving>>

\* TL_MM_EvtDone in the thread.
EvtDone ==
  /\ pc = "done" /\ ~ Pending
  /\ localFree' = Append(localFree, event) /\ event' = None
  /\ undone' = FALSE
  /\ pc' = "test"
  /\ UNCHANGED <<pool, system, traces, free, relFlag, relEnabled, corrupt, overtaken, waiting, node, loaded, serving>>

\* HW_IPCC_MM_SendFreeBuf reads the flag.  The read may see that the M0 has
\* just cleared it, before the interrupt this causes is taken.
TestFlag_NotAtAll ==
  /\ pc = "test" /\ ~ RxPending
  /\ pc' = "drain"
  /\ UNCHANGED <<pool, system, traces, release, hands, serving>>
TestFlag ==
  /\ pc = "test" /\ ~ RxPending
  /\ pc' = IF relFlag THEN "enable" ELSE "drain"
  /\ UNCHANGED <<pool, system, traces, release, hands, serving>>

EnableRelease_Not ==
  /\ pc = "enable" /\ ~ Pending
  /\ pc' = "again"
  /\ UNCHANGED <<pool, system, traces, release, hands, serving>>
\* A load and a store of C1MR too: for the bit of this channel the store alone
\* counts, which sets it whatever was loaded.
EnableRelease ==
  /\ pc = "enable" /\ ~ Pending
  /\ relEnabled' = TRUE
  /\ pc' = "again"
  /\ UNCHANGED <<pool, system, traces, localFree, free, relFlag, corrupt, overtaken, undone, hands, serving>>

\* SendFreeBuf: is the list empty?
Drain ==
  /\ pc = "drain" /\ ~ Pending
  /\ pc' = IF localFree = <<>> THEN "raise" ELSE "remove"
  /\ UNCHANGED <<pool, system, traces, release, hands, serving>>

RemoveHead ==
  /\ pc = "remove" /\ ~ Pending
  /\ IF localFree = <<>>
       THEN corrupt' = TRUE /\ UNCHANGED <<localFree, node>>
       ELSE node' = Head(localFree) /\ localFree' = Tail(localFree) /\ UNCHANGED corrupt
  /\ pc' = "insert"
  /\ UNCHANGED <<pool, system, traces, free, relFlag, relEnabled, overtaken, undone, event, waiting, loaded, serving>>

InsertTail ==
  /\ pc = "insert" /\ ~ Pending
  /\ corrupt' = relFlag
  /\ free' = Append(free, node) /\ node' = None
  /\ pc' = "drain"
  /\ UNCHANGED <<pool, system, traces, localFree, relFlag, relEnabled, overtaken, undone, event, waiting, loaded, serving>>

RaiseRelease ==
  /\ pc = "raise" /\ ~ Pending
  /\ relFlag' = TRUE
  /\ pc' = "again"
  /\ UNCHANGED <<pool, system, traces, localFree, free, relEnabled, corrupt, overtaken, undone, hands, serving>>

\* One event for a run of the task: with more of them it posts itself.
Again_Returns ==
  /\ pc = "again" /\ ~ Pending
  /\ pc' = "idle"
  /\ UNCHANGED <<pool, system, traces, release, hands, serving>>
Again ==
  /\ pc = "again" /\ ~ Pending
  /\ posted' = (posted \/ asynch # <<>>)
  /\ pc' = "idle"
  /\ UNCHANGED <<pool, sysQueue, sysFlag, asynch, expected, traces, release, hands, serving>>

-----------------------------------------------------------------------------
(* Tasks that send commands mask and unmask their own channels meanwhile:  *)
(* LL_C1_IPCC_EnableTransmitChannel and its opposite load C1MR ...         *)

LoadMask ==
  /\ pc = "idle" /\ tracesOn /\ ~ Pending
  /\ loaded' = relEnabled
  /\ pc' = "loaded"
  /\ UNCHANGED <<pool, system, traces, release, event, waiting, node, serving>>

\* ... and store it with the bit of their channel changed.
StoreMask ==
  /\ pc = "loaded" /\ ~ Pending
  /\ relEnabled' = loaded /\ loaded' = FALSE
  /\ undone' = (undone \/ (relEnabled /\ ~ loaded))
  /\ pc' = "idle"
  /\ UNCHANGED <<pool, system, traces, localFree, free, relFlag, corrupt, overtaken, event, waiting, node, serving>>

-----------------------------------------------------------------------------
(* The radio core: it fills a queue while the flag is clear, then raises   *)
(* the flag; it takes the released buffers, then clears the flag.          *)

M0PutsEvent(b) ==
  /\ b \in pool /\ ~ sysFlag
  /\ tracesOn \/ pool = Buffers
  /\ pool' = pool \ {b}
  /\ sysQueue' = Append(sysQueue, b) /\ expected' = Append(expected, b)
  /\ UNCHANGED <<sysFlag, asynch, posted, traces, release, thread, serving>>

M0RaisesEvents ==
  /\ ~ sysFlag /\ sysQueue # <<>>
  /\ sysFlag' = TRUE
  /\ UNCHANGED <<pool, sysQueue, asynch, posted, expected, traces, release, thread, serving>>

M0PutsTrace(b) ==
  /\ b \in pool /\ tracesOn /\ ~ tracesFlag
  /\ pool' = pool \ {b}
  /\ tracesQueue' = Append(tracesQueue, b)
  /\ UNCHANGED <<system, tracesFlag, tracesOn, release, thread, serving>>

M0RaisesTraces ==
  /\ ~ tracesFlag /\ tracesQueue # <<>>
  /\ tracesFlag' = TRUE
  /\ UNCHANGED <<pool, system, tracesQueue, tracesOn, release, thread, serving>>

M0TakesBuffer ==
  /\ relFlag /\ free # <<>>
  /\ pool' = pool \cup {Head(free)} /\ free' = Tail(free)
  /\ UNCHANGED <<system, traces, localFree, relFlag, relEnabled, corrupt, overtaken, undone, thread, serving>>

M0ClearsRelease ==
  /\ relFlag /\ free = <<>>
  /\ relFlag' = FALSE
  /\ UNCHANGED <<pool, system, traces, localFree, free, relEnabled, corrupt, overtaken, undone, thread, serving>>

-----------------------------------------------------------------------------
Interrupts == SysEvent \/ SysEventsEnd \/ TraceEvent \/ TracesEnd \/ FreeBufHandler

EvtProc ==
  \/ TakeEvent \/ HandleEvent \/ ReadyProcessed \/ EvtDone \/ TestFlag \/ EnableRelease
  \/ Drain \/ RemoveHead \/ InsertTail \/ RaiseRelease \/ Again

M0Sends == \E b \in Buffers : M0PutsEvent(b) \/ M0PutsTrace(b)
M0Works == M0RaisesEvents \/ M0RaisesTraces \/ M0TakesBuffer \/ M0ClearsRelease

OtherTasks == LoadMask \/ StoreMask

Next == ~ corrupt /\ (Interrupts \/ EvtProc \/ OtherTasks \/ M0Sends \/ M0Works)

\* Interrupts are taken and the M0 goes on with what it has begun.  Events and
\* traces leave the processor time, and with it the thread moves on.  The
\* start-up of the Zigbee application ends, however often other tasks run.
Spec ==
  /\ Init /\ [][Next]_vars
  /\ WF_vars(~ corrupt /\ Interrupts) /\ []<>(~ Pending)
  /\ SF_vars(~ corrupt /\ EvtProc /\ ~ ReadyProcessed)
  /\ SF_vars(~ corrupt /\ ReadyProcessed) /\ SF_vars(~ corrupt /\ StoreMask)
  /\ WF_vars(~ corrupt /\ M0RaisesEvents) /\ WF_vars(~ corrupt /\ M0RaisesTraces)
  /\ WF_vars(~ corrupt /\ (M0TakesBuffer \/ M0ClearsRelease))

-----------------------------------------------------------------------------
(* Properties. *)

Lists == <<sysQueue, tracesQueue, asynch, localFree, free>>
InHand == <<event, waiting, node>>

TypeOK ==
  /\ pool \subseteq Buffers
  /\ \A i \in DOMAIN Lists : Len(Lists[i]) <= Cardinality(Buffers) /\ Range(Lists[i]) \subseteq Buffers
  /\ \A i \in DOMAIN InHand : InHand[i] \in Buffers \cup {None}
  /\ Range(expected) \subseteq Buffers
  /\ {sysFlag, tracesFlag, tracesOn, posted, relFlag, relEnabled, loaded} \subseteq BOOLEAN
  /\ {corrupt, overtaken, undone} \subseteq BOOLEAN
  /\ serving \in {"none", "system", "traces"}
  /\ pc \in {"idle", "handle", "done", "test", "enable", "again", "loaded"} \/ InRelease

\* No buffer is lost and none is in two places: it is with the M0, in one of
\* the five lists once, or in the hands of the thread.
OneOwner ==
  ~ corrupt =>
    \A b \in Buffers :
      Cardinality({at \in (1 .. 5) \X (1 .. Cardinality(Buffers)) :
                     at[2] <= Len(Lists[at[1]]) /\ Lists[at[1]][at[2]] = b})
      + Cardinality({i \in 1 .. 3 : InHand[i] = b})
      + (IF b \in pool THEN 1 ELSE 0) = 1

\* The application gets every system event of the M0 once, in the order sent.
EventsInOrder == expected = asynch \o sysQueue

\* An event in the queue will be seen: the task is posted, or on its way to
\* the test that posts it.
NoEventForgotten == asynch # <<>> => posted \/ pc \notin {"idle", "loaded"}

\* No list is broken, by a removal from an empty list or by both cores writing
\* it, unless a trace is released between the thread's test of the channel and
\* the end of its own release.
SoundUntilOvertaken == corrupt => overtaken

\* Each buffer keeps its one owner, and the lists their links.
BuffersAreSound == TypeOK /\ OneOwner /\ SoundUntilOvertaken

\* No event is lost, doubled, out of order or left without a task to handle it.
EventsAreKept == EventsInOrder /\ NoEventForgotten

\* A released buffer gets back to the M0, provided that a release is followed
\* by another one when a store of C1MR has undone its enable: without one the
\* buffer stays in the list, although its interrupt has been asked for.
BuffersComeBack ==
  []<>(~ undone) =>
    \A b \in Buffers :
      (\E i \in DOMAIN localFree : localFree[i] = b) ~> (b \in pool \/ corrupt)

\* An event the M0 has queued reaches the application, unless traces overtake
\* the release of an earlier one: for as long as they do, its loop goes on.
EventsAreHandled ==
  \A b \in Buffers : (\E i \in DOMAIN expected : expected[i] = b) ~> (event = b \/ overtaken)

=============================================================================
