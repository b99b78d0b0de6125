----------------------------- MODULE Sequencer -----------------------------
(***************************************************************************)
(* The cooperative task sequencer of the M4 core                           *)
(* (Utilities/sequencer/stm32_seq.c) with the event-idle hook the          *)
(* application links (Core/Src/app_entry.c).                               *)
(*                                                                         *)
(* One thread of control runs tasks; UTIL_SEQ_Run is re-entered from       *)
(* UTIL_SEQ_WaitEvt, so the thread is a stack of "run" and "wait" frames   *)
(* that hold the C functions' locals.  Interrupt handlers interleave with  *)
(* it between any two steps, except while it sleeps in the idle critical   *)
(* section: an interrupt raised then ends the sleep and is served after.   *)
(***************************************************************************)
EXTENDS Integers, Sequences

CONSTANTS
  NTask,      (* UTIL_SEQ_CONF_TASK_NBR: task ids are 0..NTask-1            *)
  NPrio,      (* UTIL_SEQ_CONF_PRIO_NBR: 0 is the highest priority          *)
  Evt,        (* the event bits                                             *)
  AckEvt,     (* EVENT_ACK_FROM_M0_EVT                                      *)
  BypassEvt,  (* EVENT_SYNCHRO_BYPASS_IDLE                                  *)
  AppHook,    (* TRUE: app_entry.c's UTIL_SEQ_EvtIdle, FALSE: the weak one  *)
  Posts,      (* the <<task, priority>> pairs handlers and tasks post       *)
  Signals,    (* the events handlers and tasks set                          *)
  Clears,     (* the events cleared by UTIL_SEQ_ClrEvt                      *)
  Pausable,   (* the tasks UTIL_SEQ_PauseTask is called for                 *)
  Waits,      (* the <<task, event>> pairs: task may wait for event         *)
  StartWaits, (* the events the start-up code waits for, outside any task   *)
  MaxDepth    (* bound on the nesting of run and wait frames                *)

Task == 0 .. NTask - 1
Prio == 0 .. NPrio - 1
NoTask == -1                         \* UTIL_SEQ_NOTASKRUNNING
NotifyTask == 0                      \* CFG_TASK_NOTIFY_FROM_M0_TO_M4
RequestTask == 1                     \* CFG_TASK_REQUEST_FROM_M0_TO_M4

ASSUME SeqAssumption ==
  /\ NTask \in Nat /\ NTask >= 2
  /\ NPrio \in Nat \ {0}
  /\ {AckEvt, BypassEvt} \subseteq Evt
  /\ AppHook \in BOOLEAN
  /\ Posts \subseteq Task \X Prio
  /\ Signals \subseteq Evt /\ Clears \subseteq Evt
  /\ Pausable \subseteq Task
  /\ Waits \subseteq Task \X Evt
  /\ StartWaits \subseteq Evt
  /\ MaxDepth \in Nat

VARIABLES
  taskSet, taskMask, superMask, evtSet, evtWaited, currentTaskIdx,
  prio,       (* TaskPrio[p].priority                                       *)
  rr,         (* TaskPrio[p].round_robin                                    *)
  stack,      (* the frames of the thread, the running one last             *)
  irq         (* an interrupt is raised and not yet served                  *)

seqVars == <<taskSet, taskMask, superMask, evtSet, evtWaited, currentTaskIdx,
             prio, rr>>
vars == <<seqVars, stack, irq>>
-----------------------------------------------------------------------------
(* A run frame is UTIL_SEQ_Run: its place, the saved super mask, the local  *)
(* copies, the priority level being scanned and the task it executes.       *)
RunPc == {"load", "test", "scan", "claim", "exec", "idle", "sleep", "post"}

RunFrame == [kind : {"run"}, pc : RunPc, backup : SUBSET Task,
             ltask : SUBSET Task, lmask : SUBSET Task, level : 0 .. NPrio,
             task : Task \cup {NoTask}]

(* A wait frame is UTIL_SEQ_WaitEvt: the event, the task bit it passes to   *)
(* UTIL_SEQ_EvtIdle, the saved task index and the saved waited event.       *)
WaitFrame == [kind : {"wait"}, evt : Evt, self : SUBSET Task,
              idx : Task \cup {NoTask}, waited : SUBSET Evt]

Frame == RunFrame \cup WaitFrame

Top == stack[Len(stack)]
Pop == SubSeq(stack, 1, Len(stack) - 1)
InRun(pc) == stack # <<>> /\ Top.kind = "run" /\ Top.pc = pc
InWait == stack # <<>> /\ Top.kind = "wait"
Goto(fields) == stack' = [stack EXCEPT ![Len(stack)] = fields]

NewRun == [kind |-> "run", pc |-> "load", backup |-> superMask, ltask |-> {},
           lmask |-> {}, level |-> 0, task |-> NoTask]

NewWait(e) ==
  [kind |-> "wait", evt |-> e, idx |-> currentTaskIdx, waited |-> evtWaited,
   self |-> IF currentTaskIdx = NoTask THEN {} ELSE {currentTaskIdx}]

(* Mutant: one above the highest bit (32 - clz).                            *)
BitPosition_OffByOne(S) == (CHOOSE t \in S : \A u \in S : u <= t) + 1

(* SEQ_BitPosition: the highest bit set.                                    *)
BitPosition(S) == CHOOSE t \in S : \A u \in S : u <= t

(* The mask UTIL_SEQ_EvtIdle runs the sequencer with.                       *)
EvtIdleMask(f) ==
  CASE ~AppHook         -> Task \ f.self
    [] f.evt = AckEvt   -> {RequestTask}
    [] f.evt = BypassEvt -> {NotifyTask, RequestTask}
    [] OTHER            -> Task

(* The events UTIL_SEQ_EvtIdle sets itself before it runs the sequencer.    *)
EvtIdleSets(f) == IF AppHook /\ f.evt = BypassEvt THEN {BypassEvt} ELSE {}
-----------------------------------------------------------------------------
Init ==                                                   \* UTIL_SEQ_Init
  /\ taskSet = {} /\ taskMask = Task /\ superMask = Task
  /\ evtSet = {} /\ evtWaited = {}
  /\ currentTaskIdx = 0
  /\ prio = [p \in Prio |-> {}] /\ rr = [p \in Prio |-> {}]
  /\ stack = <<>>
  /\ irq = FALSE

(* MX_APPE_Process in the main loop: UTIL_SEQ_Run(UTIL_SEQ_DEFAULT).        *)
MainRun ==
  /\ stack = <<>>
  /\ superMask' = superMask \cap Task
  /\ stack' = <<NewRun>>
  /\ UNCHANGED <<taskSet, taskMask, evtSet, evtWaited, currentTaskIdx, prio,
                 rr, irq>>

(* UTIL_SEQ_Run: the local copy of TaskSet is taken first ...               *)
RunLoad ==
  /\ InRun("load")
  /\ Goto([Top EXCEPT !.pc = "test", !.ltask = taskSet])
  /\ UNCHANGED <<seqVars, irq>>

(* Mutant: the loop test forgets TaskMask.                                  *)
RunTest_IgnoresPause ==
  /\ InRun("test")
  /\ IF Top.ltask \cap superMask # {} /\ evtSet \cap evtWaited = {}
     THEN /\ Goto([Top EXCEPT !.pc = "scan", !.ltask = {},
                              !.lmask = taskMask, !.level = 0])
          /\ UNCHANGED currentTaskIdx
     ELSE /\ Goto([Top EXCEPT !.pc = "idle", !.ltask = {}])
          /\ currentTaskIdx' = NoTask
  /\ UNCHANGED <<taskSet, taskMask, superMask, evtSet, evtWaited, prio, rr, irq>>

(* Mutant: the loop test forgets the waited event.                          *)
RunTest_IgnoresEvent ==
  /\ InRun("test")
  /\ IF Top.ltask \cap taskMask \cap superMask # {}
     THEN /\ Goto([Top EXCEPT !.pc = "scan", !.ltask = {},
                              !.lmask = taskMask, !.level = 0])
          /\ UNCHANGED currentTaskIdx
     ELSE /\ Goto([Top EXCEPT !.pc = "idle", !.ltask = {}])
          /\ currentTaskIdx' = NoTask
  /\ UNCHANGED <<taskSet, taskMask, superMask, evtSet, evtWaited, prio, rr, irq>>

(* ... then those of EvtSet, TaskMask and EvtWaited, and the loop is        *)
(* entered or left.                                                         *)
RunTest ==
  /\ InRun("test")
  /\ LET work == Top.ltask \cap taskMask \cap superMask # {}
                 /\ evtSet \cap evtWaited = {}
     IN IF work
        THEN /\ Goto([Top EXCEPT !.pc = "scan", !.ltask = {},
                                 !.lmask = taskMask, !.level = 0])
             /\ UNCHANGED currentTaskIdx
        ELSE /\ Goto([Top EXCEPT !.pc = "idle", !.ltask = {}])
             /\ currentTaskIdx' = NoTask
  /\ UNCHANGED <<taskSet, taskMask, superMask, evtSet, evtWaited, prio, rr, irq>>

(* The scan of the priorities, one array element a step.                    *)
ScanNext ==
  /\ InRun("scan") /\ Top.level < NPrio
  /\ prio[Top.level] \cap Top.lmask \cap superMask = {}
  /\ Goto([Top EXCEPT !.level = @ + 1])
  /\ UNCHANGED <<seqVars, irq>>

(* Mutant: the picked task stays in the round-robin mask.                   *)
ScanHit_KeepsRound ==
  /\ InRun("scan") /\ Top.level < NPrio
  /\ LET candidates == prio[Top.level] \cap Top.lmask \cap superMask
     IN /\ candidates # {}
        /\ currentTaskIdx' = CHOOSE t \in candidates : \A u \in candidates : u <= t
        /\ Goto([Top EXCEPT !.pc = "claim", !.lmask = {}, !.level = 0])
  /\ UNCHANGED <<taskSet, taskMask, superMask, evtSet, evtWaited, prio, rr, irq>>

(* The level found: reset its round-robin mask when it is used up, pick the *)
(* highest bit and take it out of the mask.                                 *)
ScanHit ==
  /\ InRun("scan") /\ Top.level < NPrio
  /\ LET p == Top.level
         candidates == prio[p] \cap Top.lmask \cap superMask
         round == IF rr[p] \cap candidates = {} THEN Task ELSE rr[p]
         next == BitPosition(candidates \cap round)
     IN /\ candidates # {}
        /\ currentTaskIdx' = next
        /\ rr' = [rr EXCEPT ![p] = round \ {next}]
        /\ Goto([Top EXCEPT !.pc = "claim", !.lmask = {}, !.level = 0])
  /\ UNCHANGED <<taskSet, taskMask, superMask, evtSet, evtWaited, prio, irq>>

(* Mutant: the clearing loop stops one short and leaves priority 0 set.     *)
Claim_LeavesLevelZero ==
  /\ InRun("claim")
  /\ taskSet' = taskSet \ {currentTaskIdx}
  /\ prio' = [p \in Prio |-> IF p = 0 THEN prio[p] ELSE prio[p] \ {currentTaskIdx}]
  /\ Goto([Top EXCEPT !.pc = "exec", !.task = currentTaskIdx])
  /\ UNCHANGED <<taskMask, superMask, evtSet, evtWaited, currentTaskIdx, rr, irq>>

(* Critical section: the task leaves the pending set at every priority; it  *)
(* is then executed.                                                        *)
Claim ==
  /\ InRun("claim")
  /\ taskSet' = taskSet \ {currentTaskIdx}
  /\ prio' = [p \in Prio |-> prio[p] \ {currentTaskIdx}]
  /\ Goto([Top EXCEPT !.pc = "exec", !.task = currentTaskIdx])
  /\ UNCHANGED <<taskMask, superMask, evtSet, evtWaited, currentTaskIdx, rr, irq>>

(* Mutant: the pending bit is cleared after the task ran, not before.       *)
TaskReturn_ClearsAgain ==
  /\ InRun("exec")
  /\ Goto([Top EXCEPT !.pc = "load", !.task = NoTask])
  /\ taskSet' = taskSet \ {Top.task}
  /\ prio' = [p \in Prio |-> prio[p] \ {Top.task}]
  /\ UNCHANGED <<taskMask, superMask, evtSet, evtWaited, currentTaskIdx, rr, irq>>

TaskReturn ==
  /\ InRun("exec")
  /\ Goto([Top EXCEPT !.pc = "load", !.task = NoTask])
  /\ UNCHANGED <<seqVars, irq>>

(* Mutant: the waited event is not looked at again before sleeping.         *)
IdleCheck_IgnoresEvent ==
  /\ InRun("idle")
  /\ Goto([Top EXCEPT !.pc = IF taskSet \cap taskMask \cap superMask = {}
                             THEN "sleep" ELSE "post"])
  /\ UNCHANGED <<seqVars, irq>>

(* Idle critical section: sleep only if nothing may run and no waited       *)
(* event came in.                                                           *)
IdleCheck ==
  /\ InRun("idle")
  /\ Goto([Top EXCEPT !.pc = IF /\ taskSet \cap taskMask \cap superMask = {}
                                /\ evtSet \cap evtWaited = {}
                             THEN "sleep" ELSE "post"])
  /\ UNCHANGED <<seqVars, irq>>

(* UTIL_SEQ_Idle waits for an interrupt with interrupts masked (WFI).       *)
Wake ==
  /\ InRun("sleep") /\ irq
  /\ Goto([Top EXCEPT !.pc = "post"])
  /\ UNCHANGED <<seqVars, irq>>

RunReturn ==
  /\ InRun("post")
  /\ superMask' = Top.backup
  /\ stack' = Pop
  /\ UNCHANGED <<taskSet, taskMask, evtSet, evtWaited, currentTaskIdx, prio,
                 rr, irq>>
-----------------------------------------------------------------------------
(* UTIL_SEQ_WaitEvt, called by a task or by the start-up code.              *)
EnterWait(e) ==
  /\ Len(stack) + 2 <= MaxDepth
  /\ stack' = Append(stack, NewWait(e))
  /\ evtWaited' = {e}
  /\ UNCHANGED <<taskSet, taskMask, superMask, evtSet, currentTaskIdx, prio,
                 rr, irq>>

TaskWait(e) == InRun("exec") /\ <<Top.task, e>> \in Waits /\ EnterWait(e)
StartWait(e) == stack = <<>> /\ e \in StartWaits /\ EnterWait(e)

(* The event is not there: UTIL_SEQ_EvtIdle runs the sequencer, nested.     *)
WaitIdle ==
  /\ InWait /\ Top.evt \notin evtSet
  /\ evtSet' = evtSet \cup EvtIdleSets(Top)
  /\ superMask' = superMask \cap EvtIdleMask(Top)
  /\ stack' = Append(stack, NewRun)
  /\ UNCHANGED <<taskSet, taskMask, evtWaited, currentTaskIdx, prio, rr, irq>>

(* Mutant: a wait that forgets the outer event.                             *)
WaitReturn_ForgetsOuter ==
  /\ InWait /\ Top.evt \in evtSet
  /\ currentTaskIdx' = Top.idx
  /\ evtSet' = evtSet \ {Top.evt} /\ evtWaited' = {}
  /\ stack' = Pop
  /\ UNCHANGED <<taskSet, taskMask, superMask, prio, rr, irq>>

(* The event is there: consume it and restore what the wait saved.          *)
WaitReturn ==
  /\ InWait /\ Top.evt \in evtSet
  /\ currentTaskIdx' = Top.idx
  /\ evtSet' = evtSet \ {Top.evt}
  /\ evtWaited' = Top.waited
  /\ stack' = Pop
  /\ UNCHANGED <<taskSet, taskMask, superMask, prio, rr, irq>>
-----------------------------------------------------------------------------
(* Interrupts.  A handler and a running task call the same operations.      *)
Raise ==
  /\ ~irq /\ irq' = TRUE
  /\ UNCHANGED <<seqVars, stack>>

Caller ==
  \/ irq /\ ~InRun("sleep") /\ irq' = FALSE
  \/ InRun("exec") /\ UNCHANGED irq

SetTask(t, p) ==
  /\ taskSet' = taskSet \cup {t}
  /\ prio' = [prio EXCEPT ![p] = @ \cup {t}]
  /\ UNCHANGED <<taskMask, superMask, evtSet, evtWaited, currentTaskIdx, rr, stack>>

SetEvt(e) ==
  /\ evtSet' = evtSet \cup {e}
  /\ UNCHANGED <<taskSet, taskMask, superMask, evtWaited, currentTaskIdx, prio, rr, stack>>

ClrEvt(e) ==
  /\ evtSet' = evtSet \ {e}
  /\ UNCHANGED <<taskSet, taskMask, superMask, evtWaited, currentTaskIdx, prio, rr, stack>>

PauseTask(t) ==
  /\ taskMask' = taskMask \ {t}
  /\ UNCHANGED <<taskSet, superMask, evtSet, evtWaited, currentTaskIdx, prio, rr, stack>>

ResumeTask(t) ==
  /\ taskMask' = taskMask \cup {t}
  /\ UNCHANGED <<taskSet, superMask, evtSet, evtWaited, currentTaskIdx, prio, rr, stack>>

Call ==
  \/ \E post \in Posts : SetTask(post[1], post[2])
  \/ \E e \in Signals : SetEvt(e)
  \/ \E e \in Clears : ClrEvt(e)
  \/ \E t \in Pausable : PauseTask(t) \/ ResumeTask(t)

Service == Caller /\ Call

Thread ==
  \/ MainRun \/ RunLoad \/ RunTest \/ ScanNext \/ ScanHit \/ Claim
  \/ TaskReturn \/ IdleCheck \/ Wake \/ RunReturn \/ WaitIdle \/ WaitReturn

Next ==
  \/ Thread
  \/ \E e \in Evt : TaskWait(e) \/ StartWait(e)
  \/ Raise
  \/ Service

Spec == Init /\ [][Next]_vars

(* The core keeps executing the thread: it stops only in WFI, and a task    *)
(* function returns.  Nothing is assumed of interrupts.                     *)
LiveSpec == Spec /\ WF_vars(Thread)
-----------------------------------------------------------------------------
RunFrames == {i \in 1 .. Len(stack) : stack[i].kind = "run"}
WaitFrames == {i \in 1 .. Len(stack) : stack[i].kind = "wait"}
Highest(S) == CHOOSE i \in S : \A j \in S : j <= i

TypeOK ==
  /\ taskSet \in SUBSET Task /\ taskMask \in SUBSET Task
  /\ superMask \in SUBSET Task
  /\ evtSet \in SUBSET Evt /\ evtWaited \in SUBSET Evt
  /\ currentTaskIdx \in Task \cup {NoTask}
  /\ prio \in [Prio -> SUBSET Task] /\ rr \in [Prio -> SUBSET Task]
  /\ stack \in Seq(Frame)
  /\ irq \in BOOLEAN

(* UTIL_SEQ_Run looks for the pending task in the priority masks and for    *)
(* pending work in TaskSet: a task is in TaskSet exactly when some priority *)
(* mask holds it, whatever handlers post between the run's reads.           *)
PriorityMasksAgree ==
  \A t \in Task : t \in taskSet <=> \E p \in Prio : t \in prio[p]

(* The inner while loop of UTIL_SEQ_Run has no bound of its own: it never   *)
(* reads TaskPrio past its end, although the locals it relies on were read  *)
(* steps earlier.                                                           *)
ScanInBounds == InRun("scan") => Top.level < NPrio

(* No lost wake-up (stm32_seq.h, UTIL_SEQ_Idle): the core sleeps only when  *)
(* no schedulable task is pending and the waited event is not set.          *)
SleepsOnlyWhenIdle ==
  InRun("sleep") => /\ taskSet \cap taskMask \cap superMask = {}
                    /\ evtSet \cap evtWaited = {}

(* "The mask is always getting smaller and smaller": a run's mask lies in   *)
(* that of every run it is nested in, and the outermost mask is restored.   *)
MasksNest ==
  /\ \A i \in RunFrames : superMask \subseteq stack[i].backup
  /\ \A i, j \in RunFrames : i < j => stack[j].backup \subseteq stack[i].backup
  /\ RunFrames = {} => superMask = Task

(* Waits nest last in, first out: EvtWaited is the innermost wait's event,  *)
(* and each wait has saved the one of the wait around it.                   *)
WaitedBelow(n) ==
  LET S == {i \in WaitFrames : i <= n}
  IN IF S = {} THEN {} ELSE {stack[Highest(S)].evt}

WaitsAreLifo ==
  /\ evtWaited = WaitedBelow(Len(stack))
  /\ \A i \in WaitFrames : stack[i].waited = WaitedBelow(i - 1)

(* Whenever a task executes, CurrentTaskIdx names it: also after it waited  *)
(* and other tasks ran in between, so that its next wait suspends it and    *)
(* not another task.                                                        *)
RunningTaskKnown == InRun("exec") => currentTaskIdx = Top.task

(* However waits and runs are nested in each other, each gives back what it *)
(* changed: the mask, the event waited for and the running task.            *)
NestingIsSound == MasksNest /\ WaitsAreLifo /\ RunningTaskKnown

(* A posted task is never dropped: it leaves the pending set only because   *)
(* the thread starts to execute it.                                         *)
PostedTaskRuns ==
  [][\A t \in taskSet : t \in taskSet' \/ (InRun("exec")' /\ Top'.task = t)]_vars

(* An event set for the innermost wait ends it, however often handlers and  *)
(* tasks post tasks that the run inside the wait may execute, unless it is  *)
(* cleared or a further wait begins first.                                  *)
SignalledWaitEnds ==
  \A e \in Signals :
    e \in evtSet /\ evtWaited = {e} ~> e \notin evtSet \/ evtWaited # {e}

(* Round robin: a top priority task that is posted and not paused runs,     *)
(* however often other tasks are posted, unless a wait begins meanwhile: a  *)
(* nested run looks at fewer tasks with the same round-robin masks.         *)
UrgentTaskRuns ==
  \A t \in {u \in Task : <<u, 0>> \in Posts} :
    t \in prio[0] ~> (t \notin taskSet \/ t \notin taskMask \/ WaitFrames # {})

(* A run inside a wait for the bypass event.                                *)
BypassRuns == {i \in RunFrames : /\ i > 1 /\ stack[i - 1].kind = "wait"
                                 /\ stack[i - 1].evt = BypassEvt}

(* app_entry.c of the run in the wait for EVENT_SYNCHRO_BYPASS_IDLE:        *)
(* "Process notifications and requests from the M0".  It does not leave its *)
(* loop while it sees one of these tasks pending.                           *)
BypassProcesses ==
  [][InRun("test") /\ Len(stack) \in BypassRuns
       /\ Top.ltask \cap taskMask \cap superMask # {}
         => Top'.pc # "idle"]_vars

(* What it does instead: the hook sets the event before it runs the         *)
(* sequencer, so this run never executes a task.                            *)
BypassRunsNothing ==
  \A i \in BypassRuns : stack[i].pc \notin {"scan", "claim", "exec"}
-----------------------------------------------------------------------------
(* What the safety properties rest on: only the running frame is between    *)
(* two statements, the loop test works on a set of tasks still pending and  *)
(* the scan has a level with a task in front of it.                         *)
OthersExecute == \A i \in RunFrames : i < Len(stack) => stack[i].pc = "exec"
SnapshotPending == InRun("test") => Top.ltask \subseteq taskSet
ScanFinds ==
  InRun("scan") => \E p \in Prio : /\ Top.level <= p
                                   /\ prio[p] \cap Top.lmask \cap superMask # {}

ScanInv == /\ PriorityMasksAgree /\ OthersExecute /\ SnapshotPending
           /\ ScanFinds /\ SleepsOnlyWhenIdle
=============================================================================
