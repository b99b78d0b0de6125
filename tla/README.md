# A verification development for the Baelux wall-switch firmware (STM32WB5MM-DK)

This directory holds TLA+ models of the firmware in `src/`, TLC configurations
that check them, and proofs checked by TLAPS.  The firmware is a battery-powered
Zigbee switch on a two-core microcontroller: the application core (M4) runs this
repository's code, the radio core (M0+) runs the vendor's Zigbee stack, and the
cores exchange commands through shared memory and an interrupt-driven mailbox
(IPCC).  Persistent data of the stack are kept in flash by an EEPROM emulation.

All M4 code runs in one thread, a cooperative sequencer, plus interrupt
handlers.  There is no operating system, so the hard parts are: a scheduler that
is re-entered from waits, handlers that change its bits at any instruction, C
buffers shared between nested activations, power that may fail between two flash
operations, and a software timer list worked on from the thread and an interrupt.

## 1. Inventory

| Component (source) | State | Operations | Talks to | Hard behaviour | Correct when |
|---|---|---|---|---|---|
| Task sequencer (`Utilities/sequencer/stm32_seq.c`, hook in `Core/Src/app_entry.c`) | task and event bits, masks, priority and round-robin sets, nested runs | SetTask, Pause, Resume, SetEvt, ClrEvt, WaitEvt, Run | everything on the M4 | re-entry from waits, interrupts between the read and the use of a bit, sleep | a posted task runs, masks nest, the core sleeps only when nothing is to do |
| EEPROM emulation (`Core/Src/ee_override.c`) | flash pages, write position in RAM | Init, Read, Write, Clean, Dump | persistent-data image, flash driver | power loss at any flash operation, refused operations | written words survive |
| Persistent-data image (`app_zigbee_nvm.c`, `app_zigbee.c`) | cache of words | Init, Read, Write, Erase | EEPROM emulation, stack | power loss between two words, a save that stops | the image last saved whole is read back whole |
| Flash driver (`Core/Src/flash_driver.c`) | semaphores shared with the M0, suspend bit, flash lock, erase protection | EraseSectors, WriteData | system channel, radio core | radio timing, refusals, a call inside a wait of another | no operation in a protected window, the answer says what is done and held |
| Zigbee channels (`app_zigbee.c`, `zigbee_core_wb.c`, `hw_ipcc.c`, `tl_mbox.c`) | shared buffers, flags, interrupt masks, counters | commands, notifications, requests | sequencer, radio core | nested commands, call-backs in a wait | every response reaches its command |
| System channel (`shci_tl.c`) | one buffer, one event | shci_send, asynchronous events | radio core, flash driver | all tasks run while one waits | as above |
| Network task (`APP_ZIGBEE_NwkStart`) | join status, start-up block | start, save, retry | all of the above | re-entered by a button | the wait ends with its own result |
| Timer server (`Core/Src/hw_timerserver.c`) | linked list, wake-up timer | Create, Delete, Start, Stop, interrupt | buttons, 90 s keep-alive | thread and handler on one list, time passing inside a masked section | no timer early, none forgotten |
| Button input (`Buttons/`, `User/`) | ring buffer, press state machine | push, pop, update, time-out | timer server, network task | interrupt against task on one counter | each event is handled once, in order |
| Mailbox free buffers, system events (`tl_mbox.c`, `shci_tl.c`, `hw_ipcc.c`) | five lists, channel flags | notify, handle, release | radio core | releases of the thread and of an interrupt overtaking each other | each buffer has one owner and comes back, events arrive once and in order |
| Lists and queues (`stm_list.c`, `stm_queue.c`) | pointers | insert, remove | mailbox, trace | masked sections | they are sequences |
| Low-power manager (`stm32_lpm.c`, `stm32_lpm_if.c`) | stop and off masks | SetStopMode, EnterLowPower | idle hook | flags set in interrupts | the deepest allowed mode |
| Clusters, application commands, display, trace, clock, start-up code, drivers | see `PROJECT.json` | | | mostly sequential | not modelled, reasons there |

Interactions: interrupts of the IPCC set task bits and events; tasks run from
`UTIL_SEQ_Run`; commands wait in `UTIL_SEQ_WaitEvt`, whose hook
(`UTIL_SEQ_EvtIdle`) chooses which other tasks may run on top; notifications
call back into the application, which sends commands, erases flash, and so waits
again; the timer server calls back in its interrupt.

## 2. Modules

| Module | Models | Built on |
|---|---|---|
| `Sequencer` | the sequencer with the application's hook; `MCSequencer` gives instances | |
| `SequencerProofs` | theorems about it | `Sequencer`, TLAPS |
| `NvStore` | abstract: what a store of words promises over power losses and errors | |
| `Eeprom` | the EEPROM emulation, one step per flash operation | |
| `EepromStore` | history variables and the refinement of `NvStore` | `Eeprom`, `NvStore` |
| `EepromProofs` | theorems about `Eeprom` and `EepromStore` | `EepromStore`, TLAPS |
| `NvImage` | the save and the load of a whole image, one word after another, the start of the stack | `EepromStore` |
| `FlashDriver` | the flash driver and the radio core that shares the flash: semaphores, suspend bit, announcements, refusals, nested calls | |
| `ZigbeeIpc` | the channels between the cores, their handlers and buffers, the network task, the persistent-data call-back, the flash driver's system commands | |
| `Mailbox` | the event buffers the radio core lends: system events, traces, and their way back | |
| `TimerServer` | the timer server with the thread, the wake-up interrupt and time | |
| `ButtonInput` | pins, edge interrupt, ring buffer, button task, press state machine and its timer | |
| `FlashDriverProofs`, `MailboxProofs`, `TimerServerProofs`, `ButtonInputProofs` | theorems about the module of that name | that module, TLAPS |
| `ZigbeeIpcProofs` | notifications, commands and waits on the stack of activations, proved | `ZigbeeIpc`, TLAPS |
| `NvImageProofs` | the emulation as built and the image on it, proved | `NvImage`, `EepromProofs` |

How the modules fit: `NvImage` is composed with `Eeprom` (its actions are the
emulation's and its caller's) and `Eeprom` is shown to implement `NvStore`.  The
others meet at an interface that one of them provides and another relies on.
`ZigbeeIpc` builds on what `Sequencer` shows of waits (`NestingIsSound`,
`SignalledWaitEnds`, the theorem `BypassAlwaysIdle`); `ButtonInput` and `Mailbox` on
`PostedTaskRuns`; `FlashDriver` on `ZigbeeIpc` (`CallsReturn`: a system command
is answered); `Eeprom` on `FlashDriver` (`AnswersAreTrue`: an operation
answered with 0 was done, another one is `Refused`).

Operators whose name ends in a suffix (`Claim_LeavesLevelZero`, ...) and that
stand before the definition they resemble are mutants: the definition with a
plausible bug, used to see that a property notices it.

### Sequencer
The thread is a stack of frames; a `run` frame holds the locals of
`UTIL_SEQ_Run` (place, saved mask, level scanned), a `wait` frame those of
`UTIL_SEQ_WaitEvt`.  Where the C code reads shared bits and uses them later the
model has two steps (`RunLoad`/`RunTest`, `ScanHit`/`Claim`, `IdleCheck`), with
`Raise` and `Service` (an interrupt and its handler) in between.  The sleep is
in a masked section: an interrupt raised there wakes the core and is served
after.  `taskSet`, `taskMask`, `superMask`, `evtSet`, `evtWaited`,
`currentTaskIdx` are the C variables; `prio` and `rr` are the two fields of
`TaskPrio`.  Bounds: `MaxDepth` on nesting (the program nests waits of a task
under a wait of another; five frames cover three nested runs), three tasks at two
priorities, one of them paused and resumed, three events.

### Eeprom
`flash` holds per page the set of header words programmed and the elements;
`pv` is `EEE_var[0]`; `job` is the call under way with its locals.  Each flash
operation is one step, with `PowerLoss` cutting it before, during (a torn
element or header, a part-erased page) or after, and `Refused` for an error of
the driver.  An element's CRC is abstracted to the value `Corrupt`.  An erase
that is cut may lose some header words (`CutErase`), but never keeps the header
and loses elements or the reverse; this is the flash assumption the checks rest
on.  Bounds: `MaxCrashes` power losses, one or two pages a pool, two elements a
page, two addresses, two words.

### NvImage
`save` is the call of `APP_ZIGBEE_NVM_Write`: the image in the cache, the word
it is at, and whether that word was written or its clean is under way; `app`
says with what the stack was started since the power-up.  `kept`, `torn` and
`reported` are history: the last image written to its last word, whether a save
stopped short since, and what the last save returned.  `ReportIsHonest` says what
true means, and `FailureMeansNotKept` what false is said to mean.  `job`, `flash` and the
rest are `Eeprom`'s.  A length is a number of bytes, so that both a whole and an
incomplete last word occur.  In this build `CFG_EE_AUTO_CLEAN` is not visible in
`ee_override.c`; a write that fills the pool therefore answers
`EEE_CLEAN_NEEDED` and the caller cleans.  `LosePower` leaves out the losses
after which the emulation, as built, formats its bank (finding 1).

### FlashDriver
`stack` holds the calls under way: a system command around an erase waits, and
while it waits other tasks run and may call the driver again.  `flashSem`,
`blockSem`, `suspended`, `unlocked` and `protects` are the two hardware
semaphores, the suspend bit (PES), the lock of the flash registers and the
radio core's erase protection; `radio` is what the M0 wants or has.  `answer`,
`unfinished` and `entered` are history.  The M0 may use its semaphore or the
suspend bit: the firmware never calls `SHCI_C2_SetFlashActivityControl`, so it
uses the bit, and the code handles both.  Bounds: two units a call, two calls.

### ZigbeeIpc
The M4 thread is a stack of activations (`stack`), a wait dispatching posted
tasks that the hook of every wait below it lets through.  `flag` and `enabled`
are the IPCC's channel flags and interrupt masks, `ot` and `sysBuf` the two
shared buffers (whose command, answered or not), `notif` the notification
buffer, `info` the blocks of `ZbStartupWait`.  The mask register is one word: the
thread changes it with a load and a store (`MaskLoad`, `MaskStore`, the copy in
the frame's `reg`), between which a handler may change it too.  A pending
interrupt is taken before the thread goes on.  The M0 is the environment, taken
from what the M4 code relies on: one command at a time, perhaps a heap request
before the answer, a notification when its channel is free.  Bounds: numbers of
presses, persistent-data notifications, log lines, timer expiries.  Three
constants (`PressWhileJoining`, `ChangeWhileSaving`, `TimerPreempts`) switch
parts of the environment on that break the code (section 5).

### Mailbox
`pool`, the five lists and the thread's hands (`event`, `waiting`, `node`) are
the places a buffer can be; `sysFlag`, `tracesFlag` and `relFlag` the channels.
`pc` follows `shci_user_evt_proc` through the release of the event and of the
free list (`TestFlag` to `RaiseRelease`), which an interrupt of the traces may
enter anew.  While the ready event is processed the application starts, other
tasks run, and this task with them.  `corrupt` says that a list was broken, by
a removal from an empty list or by both cores writing it; the model stops there.
The interrupt mask is one register, which other tasks of the thread load and
store to change the bit of their own channel (`LoadMask`, `StoreMask`): `loaded`
is the bit of the release channel in their copy, and `undone` says that the last
release's enable was lost by such a store.  Bound: three buffers.

### ButtonInput
`pin` and `edge` are the pins and their pending interrupt bits, `isr` the edge
interrupt between clearing the bit and recording the level; `buffer` to
`dataCount` the ring buffer; `task` the button task, with the load and the store
of `m_data_count` as two steps; `statePre`, `cnt`, `lastShortKey` and `armed`
the press state machine and its timer.  Contacts bounce: a pin may change back
before anybody looks.  Bounds: two buttons, a buffer of two, four level changes.

### TimerServer
`status` to `nextID` are the fields of `aTimerContext`, `current` and
`previous` the two heads, `since` the reading of the sub-second counter against
`SSRValueOnLastSetup`, `armed`, `wake` and `pending` the wake-up timer and its
interrupt.  `call` says where the thread's and the interrupt's call of
`HW_TS_Start`, `Stop` or `Delete` is: between masked sections the handler may
run, and inside them time passes (`Tick`) between reading the counter, and
writing the wake-up timer.  `due` is a history variable: the ticks a timer really
has left.  The counter wraps; that it is read in time is the code's own margin
(`MaxWakeupTimerSetup`, `CFG_HW_TS_RTC_HANDLER_MAX_DELAY`), the constant
`HandlerDelay` here; the same margin bounds the masked time between
`linkTimer` and the rescheduling (`Tick`).  Fields of a timer outside the list are cleared in the
model and stale in the code; nothing reads them, as `ListIsSound` shows for the
links.  A call-back starts or stops its own timer only: no call-back of this
program does otherwise.  Bounds: three timers, the least with a middle of the
list; timeouts at and above the longest wake-up count, so that counting in
stages occurs; `MaxSlips` ticks lost while the wake-up timer is written;
`MaxRepeated` repeated timers.

## 3. Runs

| Run | Checks | Shows |
|---|---|---|
| `sequencer` | `TypeOK`, `PriorityMasksAgree`, `ScanInBounds`, `SleepsOnlyWhenIdle`, `NestingIsSound`, `PostedTaskRuns`, `UrgentTaskRuns`, `SignalledWaitEnds` | two priorities, pauses, nested waits of tasks and of the start-up code, interrupts everywhere: the pending set and the priority masks agree, the scan for a task ends inside the table although bits change under it, no lost wake-up, each wait restores what it narrowed, no post is dropped, urgent tasks run and signalled waits end |
| `seq_bypass` (violation) | `BypassProcesses` | finding 3 |
| `eeprom_two` | `ReadingIsSound`, `TransferHasRoom`, `PlaceAgreesWithFlash`, `KeepsItsPromise` | two pages a pool, two power losses at any flash operation: refinement of `NvStore`, what is read is what a power-up would recover, the write position rebuilt at power-up is right, a transfer has room |
| `eeprom_built` (violation) | `PowerLossIsRecovered` | finding 1 |
| `nv_image` | `SavedImageIsRead`, `ReportIsHonest`, `KeepsItsPromise` | one page a pool, as built, under its only caller, with refused cleans and two power losses between words or in a write: the image last saved whole is read back whole, a save that returns true has kept its image, and the emulation still implements `NvStore` |
| `nv_report` (violation) | `FailureMeansNotKept` | finding 4 |
| `flash_driver` | `TimingIsProtected`, `OperationIsOwned`, `AnswersAreTrue`, `CallsReturn`, `M0GetsOn` | no flash operation in a window the radio core protects, the answer and what the caller holds agree, both cores get on |
| `zigbee_ipc` | `ResponseIsForItsCommand`, `EachNotificationOnce`, `WaitsGetTheirOwn`, `CallsReturn` | start-ups, call-backs that send commands and save, heap requests, log lines in any order: each answer reaches its call and all calls return |
| `ipc_startup` (violation) | `StartupWaitIsBlocking` | finding 2 |
| `mailbox` | `BuffersAreSound`, `EventsAreKept`, `BuffersComeBack`, `EventsAreHandled` | every buffer has one owner and comes back (if a release follows one whose enable another task's store has undone), events arrive once, in order and in the end, and lists break only where a trace's release overtakes the thread's |
| `timer_server` | `ListIsKept`, `HandlerFindsItsTimer`, `WakeupIsArmed`, `TimesAreHonest`, `NeverEarly` | the list under two users: sound, armed, nobody early, nobody forgotten |
| `button_input` | `RingIsSound`, `OnlyTheRaceLeavesRecords`, `SettledStateIsThePin`, `TimerHasAReport`, `CountedRecordsAreTaken` | records are taken once and in order, only the race on the count leaves one behind, states agree with pins when all is quiet, the timer reports presses and never zero |

Some of these are conjunctions of parts named and commented one by one in the
module; the module's type invariant is one of the parts:
`NestingIsSound` (`MasksNest`, `WaitsAreLifo`, `RunningTaskKnown`),
`ReadingIsSound` (`TypeOK`, `ReadsWhatIsKept`, `DumpAgreesWithRead`),
`TransferHasRoom` (`PoolHasRoom`, `OtherPoolReady`),
`AnswersAreTrue` (`TypeOK`, `AnswerIsHonest`, `OwnershipFollowsAnswer`),
`M0GetsOn` (`M0GetsTheFlash`, `M0GetsItsWindow`),
`WaitsGetTheirOwn` (`TypeOK`, `StartupWaitIsBlocking`, `SysWaitGetsItsResponse`),
`BuffersAreSound` (`TypeOK`, `OneOwner`, `SoundUntilOvertaken`),
`EventsAreKept` (`EventsInOrder`, `NoEventForgotten`),
`ListIsKept` (`TypeOK`, `ListIsSound`, `HeadTestSeesChanges`),
`TimesAreHonest` (`CountsAreHonest`, `OverdueIsBounded`),
`RingIsSound` (`TypeOK`, `SlotHoldsItsEvent`, `NothingInvented`).

Deadlock is checked, except where the model really stops: the `ZigbeeIpc` runs
and `button_input` when the bounded environment is used up, `mailbox` when a list
is broken.  `CallsReturn` and `CountedRecordsAreTaken` find the deadlocks that
matter there.

Why the bounds are enough to be of use: each property's mutant is found within
them; three tasks give a task below, at and above another in priority; two pages
give a pool with a full page before the current one, and two crashes recovery of a
recovery; a pool of four elements under an image of three words gives a transfer
inside a save and at its last word;
three presses with two notifications give a start-up that fails, one that
succeeds and a call-back in each; three buffers give one in release, one free
and one overtaking; four level changes overrun a buffer of two, and press two
buttons.  They are bounds nevertheless, and only section 6 goes beyond them.

## 4. Fairness

* Sequencer: weak fairness of the thread's steps (the core executes), in
  `LiveSpec`; interrupts are never required.  `UrgentTaskRuns` and
  `SignalledWaitEnds` therefore hold however interrupts are spaced; posts and
  signals themselves are environment.
* Eeprom and NvImage have safety properties only.
* ZigbeeIpc: weak fairness of the thread, of the interrupt handlers and of the
  M0's answers to what it has taken.  Presses, notifications, logs and timer
  expiries are not required.
* TimerServer has no liveness property.  `OverdueIsBounded` says with an
  invariant what matters: a running timer is overdue by a bounded number of
  ticks at most, so it fires if time goes on.  It is proved (section 6).
* ButtonInput: weak fairness of the interrupts and of the task (the sequencer
  runs what is posted); presses and the timer are not required.
* FlashDriver: weak fairness of the driver, strong fairness of what polls (the
  driver for a semaphore, the M0 for the flash and its window): each leaves room
  for the other again and again.  A system command is answered, however often
  other tasks run meanwhile.  The M0 need not give the semaphore of its timing
  back; `CallsReturn` claims nothing of a behaviour in which it keeps it for
  ever, on which the comments disagree (section 5).
* Mailbox: interrupts are taken, events and traces leave the processor time
  (`[]<>(~Pending)`), and with it the thread moves on, a task between its load
  and store of the mask included; the M0 goes on with what it has begun.
  `BuffersComeBack` supposes that an undone enable is made good by a later
  release (`[]<>(~ undone)`).  Events and traces are not required, and not bounded in number;
  `EventsAreHandled` therefore claims nothing once a trace's release overtakes
  the thread's, whose loop then may go on for as long as traces do so.

## 5. Findings

1. `eeprom_built`: the sizes in `app_zigbee_nvm.h` are not visible where
   `ee_override.c` is compiled, so a pool has one page.  The page that is to
   confirm page 0 then is in the other pool, and a power loss between a
   transfer into page 0 and the clean makes the next power-up format the bank:
   all network data are lost.
2. `ipc_startup`: a button press while the network task waits for its start-up
   runs the task again on top; the inner wait is woken by the end of the outer
   start-up and reads a status that nobody wrote.
3. `seq_bypass`: before every command the thread waits for an event whose only
   purpose is to let pending notifications and requests of the radio core be
   processed first.  The hook sets that event before it runs the tasks, so the
   nested run ends at its first test and processes nothing
   (`BypassAlwaysIdle` proves it).
4. `nv_report`: without any fault, a save whose last word fills the page, and so
   opens a new one, returns false although the whole image is kept and is read
   back.  `FailureIsShortOrAtANewPage` proves that this is the only such case.

`PROJECT.json` quotes the lines these contradict.

Observations, which contradict no text of the repository or have no run of
their own; the named setting shows those that a model has:

* Persistent data that change during the first save enter the save again, inside
  the wait for a system response, and the inner wait takes the outer response
  (`ChangeWhileSaving = TRUE`, `SysWaitGetsItsResponse`).  By the same way a
  call of the flash driver comes inside another one: the inner one gives the
  flash back under the outer one, whose erase then does nothing and is answered
  as done (`OperationIsOwned` without `~ entered`).
* The 90 s timer's call-back sends a stack command in the RTC interrupt, over a
  command the thread has under way (`TimerPreempts = TRUE`,
  `ResponseIsForItsCommand`).  If it comes between the thread's load and store of
  the interrupt mask, what a task inside it unmasked is masked again: the M0's
  heap request is never served and the command never answered (`CallsReturn`).
* `utils_ringbuffer_pop` decrements the count in the task and
  `utils_ringbuffer_push` increments it in the interrupt, without masking: an
  increment is lost and every later press is handled one press late.  The press
  of another button, or a bounce, drops a pending report of short presses.
* While the radio core keeps the semaphore of its timing, a call ends with the
  number of operations left: the weak `FD_WaitForSemAvailable` returns
  `WAITED_SEM_BUSY`, which ends the driver's loop (`flash_driver.c:266`), as
  `flash_driver.h:164-166` and `flash_driver.c:313` say.  `flash_driver.h:154-156`
  says of the same default that the driver loops until the semaphore is free,
  which it does not.  The model follows the code, and `CallsReturn` supposes that
  the semaphore comes back, so that it claims nothing where the comments differ.
* A refused erase followed by a successful write gives the semaphore back and
  leaves the radio core's erase protection on.
* A trace released in an interrupt amid the thread's release of an event breaks
  the list of free buffers: the thread removes a node that is no longer there, or
  both cores write the list.  `app_entry.c:406-414` asks that the buffer of a
  certain ready event not be released; nothing in the code does so.  The traces'
  pool given to `TL_MM_Init` (`app_entry.c:393`) is an uninitialised local.
* A trace interrupt that enables the release channel between the load and the
  store with which the thread enables another one has its enable undone; the
  buffer stays in the list until a later release (`BuffersComeBack` without its
  premise).
* An image that a power loss cut between two words is a mixture, which is read
  and restored like any other.  An image larger than a pool
  makes the emulation write behind it: the check of `CFG_EE_BANK0_MAX_NB`
  compares a macro that is not visible there.
* A write refused amid a transfer leaves the variables in RAM at a pool that is
  not complete; until the next power-up words are not found (`RefusedOps =
  {"write"}`).  With two pages a pool, a clean refused between two erases leaves
  a page that the next transfer runs into.  With three pages
  (`nb_pages = 3`, `MaxCrashes = 2`), a second power loss
  after a resumed transfer loses words, and a format that is cut leaves a pool
  without its first page.
* A nested run that looks at one task uses up the round-robin set and refills it:
  a task that waits and posts itself again may starve others of its priority.
* `HW_TS_Create` is called at every successful start-up, and nothing deletes
  these timers (`app_zigbee.c:1215`).

The passing `zigbee_ipc` run takes the environment in which finding 2 and the
first two observations do not happen (no press while joining, no data
change during the task's own save, no expiry while a command or request is
served or the mask register is being changed), so that it says something about
everything else.

## 6. Proofs

Every proof follows one pattern: an inductive invariant, a lemma that the
initial state has it, one lemma per action (or per group of actions that change
the same variables) that the step keeps it, and a theorem that combines them.
The constants are arbitrary unless an assumption is named; the assumption is
then part of the theorem.

`SequencerProofs`: any number of tasks, priorities and events, any depth of
nesting, any posts and waits.

* `TypeCorrect`, `PriorityMasksCorrect`, `ScanStaysInBounds` (the scan of the
  priorities never runs past the last level although masks and bits change while
  it runs), `NoLostWakeUp` (the core sleeps only when no task is runnable and no
  waited event is set).  `ScanInv` adds that all run frames but the top one are
  executing (`OthersExecute`), that the local copies of the top frame are still
  pending (`SnapshotPending`: only the frame's own claim removes a task, handlers
  only add), and that the level scanned or one above it holds a task of the copy
  (`ScanFinds`).
* `NestingAlwaysSound`: every return from a wait restores mask and event.
  `MaskInv` says what each frame saved: `MasksNest` compares it with the frame
  below, `OutermostIsWhole` gives the bottom of the chain.
* `BypassAlwaysIdle`, finding 3 for all constants: the nested run for the bypass
  runs nothing, with the
  application's hook and with nothing clearing that event (`BypassInv`: that event
  stays set while the run stands above that wait).
* `PostedTasksRun`, an action property: no post is dropped.

`EepromProofs`: any number of pages a pool but one, of elements a page, of
addresses and of power losses, under two named conditions.

`Sizes`, of the constants: `nb_pages >= 2`; `RefusedOps = {}` (the flash driver
does what it is asked); every address lies within a pool's capacity, and a pool
has room for all addresses and one torn element for each power loss.  These are
the sizes that `app_zigbee_nvm.h` means; with one page a pool finding 1 refutes
the theorems, with a refused write the observation in section 5 does.

`Calm`, of the behaviour: no power loss while the application erases its data
(`NVM_Erase`), and none while recovery erases a pool of which pages after the
first one left are not yet marked ERASING.  The second is the hazard at
`ee_override.c:461`: a resumed transfer does not mark the pool it leaves, so a
second loss, in the sweep that follows it (l.421), may leave pages that look like
a pool in use; the one with three pages, in section 5, does.
`OneLossIsCalm` shows that with one loss at most and no erase by the application
every behaviour is calm: then nothing is assumed of the behaviour.

* `InvIsKept`.  `Inv` says for each phase of a call what the flash holds.  The
  pool in use is `Used`: the pages before the current one are full and VALID, the
  current one is blank from its next element on, and what follows is blank, but
  for the header that the next page of a full one may have.  The other pool is
  blank (`BlankPool`), the source of a transfer (`Source`: full pages, some of
  them marked already), wholly marked (`Marked`), or erased from its first page
  up, one page perhaps in part (`Fading`).  While the power is off the flash is
  one of the things that a cut leaves (`Left`): a pool in use, with its source as
  long as it receives, and a bounded number of torn elements.  The lemmas about
  `PowerUp` and `Adopt` show that recovery, which sees only headers, chooses the
  page that the interrupted call was at.
* `PlaceIsKept`, `RoomIsKept`, `ReadingIsKept`, and `EmulationIsSound` for one
  power loss.  Room is a count: a pool that receives holds no more elements than
  the addresses it has and the torn ones, because a transfer copies an address
  only once.
* `PromiseIsKept` and `EmulationImplementsStore`: the refinement of `NvStore`,
  step by step.  `SeenInv` relates the history variables to the flash: what the
  caller has seen of an address is what is read now (`Now`), before or after the
  request under way (`Before`, `After`), or, once a loss cut it, one of the two
  (`Either`).  `RecoveryIsKept`: a power-up never formats a bank with words.

`NvImageProofs`: the emulation as this program builds it, under the image code;
any number of elements, words and power losses, any word size, and images that
fit in a page.

`AsBuilt`, of the constants: `nb_pages = 1` (finding 1 says why); the driver may
refuse a clean and nothing else; addresses are numbered from 0 on without a gap,
as an image uses them, and fit in the page.  The last is what the size check that
does not see its macro was to ensure: a page holds 508 words and
`app_zigbee_nvm.h:51` allows 1000.  Nothing is proved of an image that is too
long, which the emulation writes behind its pool (section 5).
`Sizes` and `Calm` above play no part: the losses are those of `LosePower`.

* `BuiltImplementsStore`.  `StoreInv` says for each phase of a call what the two
  pages hold, and relates it to the words seen at once: a page that is written up
  to the position in RAM (`Holds`) and reads what was seen (`Reads`), the other one
  blank or marked (`Settled`); or a transfer (`Transferring`) in which the new page
  has the word asked for, every address below the one it has come to, and no more
  elements than addresses it has passed.  That is the room it needs: with one page
  and addresses that fit in it the transfer never runs into the end, although no
  counter in the code looks.
* `BuiltRecovers`: a power-up never formats a page that holds words, so the window
  of finding 1, from the start of a transfer to the end of its clean, is the only
  one in which a loss costs the bank.
* `SavedImageAlwaysRead`, `ReportAlwaysHonest`, and `FailureIsShortOrAtANewPage`,
  which says when a save returns false: it stopped short, or finding 4.  `ImageInv` looks at the flash no
  more, but for the first element of the page: it says which words of the image
  the words seen already are (`Saved`), for each place the save and the call under
  it can be in (`SaveAgrees`), and that without a save cut short what would be read
  is the image kept.

`FlashDriverProofs`: any number of units a call and of calls inside one another.
`TimingAlwaysProtected`, `OperationAlwaysOwned`, `AnswersAlwaysTrue`.  `DriverInv`:
all calls but the top one stand at a wait (`CallsNest`), the M0 has what the
semaphores say (`SemaphoresAgree`), and as long as no call came inside another
one, the call under way holds what it needs and has done what it counts
(`AloneWhileWorking`, `LeftBehind`, `AnswerIsHonest`).

`ButtonInputProofs`: any number of buttons and edges, any ring size.
`RingAlwaysSound`, `LeftOnlyByTheRace`, `StateSettlesOnThePin`,
`TimerAlwaysHasAReport`.  `ButtonInv` relates the ring's indices to the records
ever pushed and popped (`RingInv`), and the count to the backlog: what it misses
are exactly the increments lost to the race (`CountInv`).

`MailboxProofs`: a pool of any size.  `BuffersAlwaysSound`, `EventsAlwaysKept`.
`MailboxInv` counts the places of each buffer, which is one at every moment
(`ListsInv`), and says what the thread holds where (`HandsInv`), that one buffer
is out until the ready event has been seen (`StartInv`), and what the thread's
release may rely on while no trace overtakes it (`ReleaseInv`).

`TimerServerProofs`: any number of timers, any timeouts, any delay of the
interrupt.  `ListAlwaysKept`, `HandlerAlwaysFindsItsTimer`, `WakeupAlwaysArmed`,
`CountsAlwaysHonest`, `TimesAlwaysHonest`, `NoTimerFiresEarly` (an action
property).  The list is
described by an order of the running timers that the links follow; insertion and
removal give such an order again.  `TimerInv` adds what the calls under way know
of the list, what the alarm is set to, and that the counts are the times left.
`TimesAlwaysHonest` needs more, `LateInv`: no timer that still counts is late
(`CountInv`), the counter is read in time (`WakeInv`), the thread finds its masked
places only while no timer's time is up (`ThreadInv`), and a timer whose time is
up waits for three reschedulings at most for each timer before it in the order
(`WaitInv`): its own handler's, and those of a stop and a start in the call-back.

`ZigbeeIpcProofs`: any bounds on the environment, any depth
of the stack.

* `EachNotificationAlwaysOnce`, without any assumption: a notification's call-back
  runs once before the M0 gets the buffer back.  `IpcInv` describes what can stand
  above what on the stack (`StackInv`), the information blocks (`InfoInv`) and
  where a notification can be (`NotifInv`).
* `ResponseAlwaysItsOwn` assumes `~ TimerPreempts`; `CmdInv` says how far the one
  command under way is, by its frame, and `ShapeInv` that nothing but requests
  stands above it.
* `WaitsGoWrongOnlyNested` assumes `~ TimerPreempts` of the constants and, of the
  behaviour, `NotNested`: no start-up is waited for inside another one and no
  system command inside another one.  Buttons are pressed and data change at any
  time.  Without `NotNested` the statement is false: finding 2 and the first
  observation of section 5 are the two kinds of nesting it names, so the theorem
  says that there is no third way.  `WaitInv` says what the system buffer and the
  block of the start-up hold while somebody waits.

Only model-checked:

* Liveness (`UrgentTaskRuns`, `SignalledWaitEnds`, `CallsReturn`, `M0GetsOn`,
  `BuffersComeBack`, `EventsAreHandled`, `CountedRecordsAreTaken`): out of the
  prover's reach.
* The emulation after a power loss that `Calm` excludes: `eeprom_two` shows that
  with two pages a pool and two losses it does no harm, and there the application
  may erase its data as well.

## 7. Plan

Modelled so far, in the order of importance: sequencer, EEPROM emulation with
the image on it, channels between the cores, timer server, flash driver, system
events and free buffers, button input.  Next:

1. Proofs: pools of two pages without the part of `Calm` about the sweep; the
   refused operations that do no harm there.
2. Models: the masks of the low-power manager; the list of servers; the trace
   queue.

## 8. Not modelled

The vendor's drivers (HAL, LL, CMSIS) and the Zigbee stack's headers are by far
the most of the source and no part of this program's own logic; the models take
from them the behaviour of the registers, interrupts and calls the program uses.
Display and fonts, the encoders of commands, clusters and application commands
are sequential: they compute or print, or send a command like those of
`ZigbeeIpc`.  The real-time clock's calendar is compiled out, and so are the
Bluetooth, Thread and MAC parts of the mailbox.  Board start-up is
straight-line code.  `PROJECT.json` gives the reason for each component.
