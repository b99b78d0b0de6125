----------------------------- MODULE ZigbeeIpc -----------------------------
(***************************************************************************)
(* The Zigbee channels between the application core (M4) and the radio     *)
(* core (M0+): commands with a shared buffer and an acknowledgement        *)
(* (app_zigbee.c, zigbee_core_wb.c), notifications and requests of the M0, *)
(* the system channel the flash driver uses (shci_tl.c), the IPCC          *)
(* interrupt handlers (hw_ipcc.c) and the network task with the            *)
(* persistent-data call-backs that ride on them.                           *)
(*                                                                         *)
(* The M4 thread is a stack of C activations.  A wait (UTIL_SEQ_WaitEvt)   *)
(* runs other tasks on top of its caller, those UTIL_SEQ_EvtIdle allows    *)
(* for the event; module Sequencer models that nesting in full, here a     *)
(* wait dispatches one posted task at a time.  The M0 is external: it is   *)
(* modelled by what the M4 code relies on.                                 *)
(***************************************************************************)
EXTENDS Integers, Sequences

CONSTANTS
  MaxPress,           (* bound on the button presses that post the task     *)
  MaxPersist,         (* bound on the persistent-data notifications         *)
  MaxLog,             (* bound on the log requests of the M0                *)
  PressWhileJoining,  (* buttons may be pressed while a start-up is waited for *)
  ChangeWhileSaving,  (* persistent data may change during the first save   *)
  MaxTimer,           (* bound on the expiries of the 90 s timer            *)
  TimerPreempts       (* it may expire while a command or request is served, *)
                      (* or while a mask is loaded and not stored            *)

ASSUME IpcAssumption ==
  /\ MaxPress \in Nat /\ MaxPersist \in Nat /\ MaxLog \in Nat
  /\ MaxTimer \in Nat
  /\ {PressWhileJoining, ChangeWhileSaving, TimerPreempts} \subseteq BOOLEAN

Task == {"notify", "request", "join"}
Event == {"ack", "startup", "sys"}
Channel == {"cmd", "sys", "notif", "request"}
Op == {"startup", "register", "get", "send"}
Info == 1 .. MaxPress      \* the ZbStartupWaitInfo blocks, one per call
NoInfo == 0

VARIABLES
  stack,       (* the activations of the M4 thread, the running one last    *)
  taskSet, evtSet,                    (* the sequencer's pending bits       *)
  cptNotify, cptRequest,              (* CptReceive...FromM0                *)
  flag,        (* IPCC: the channel is occupied                             *)
  enabled,     (* IPCC: the M4's interrupt of the channel is unmasked       *)
  ot,          (* ZigbeeOtCmdBuffer: the command, then its response         *)
  sysBuf,      (* the system command buffer: whose, and answered or not     *)
  notif,       (* the notification buffer and how often it was processed    *)
  info,        (* the ZbStartupWaitInfo blocks                              *)
  joined,      (* join_status = ZB_STATUS_SUCCESS                           *)
  m0,          (* the M0: idle, serving a command, waiting for its malloc   *)
  starting,    (* the start-up the M0 has under way, by its argument        *)
  persistCb,   (* a persistent-data call-back is registered                 *)
  presses, persists, logs, expiries   (* counters for the bounds            *)

ipcc == <<flag, enabled>>
seq == <<taskSet, evtSet>>
cpt == <<cptNotify, cptRequest>>
app == <<info, joined>>
radio == <<m0, starting, persistCb>>
counters == <<presses, persists, logs, expiries>>
vars == <<stack, seq, cpt, ipcc, ot, sysBuf, notif, app, radio, counters>>
-----------------------------------------------------------------------------
(* An activation: the function, where it is, what it works on.  "id" is the *)
(* depth it runs at for commands, and the info block of a network task.     *)
Fn == {"main", "wait", "cmd", "sys", "save", "join", "notify", "request",
       "timer"}
Pc == {"begin", "send", "load", "enable", "return", "started", "woken", "register",
       "save", "write", "off", "end", "callback", "ack"}
(* "ok" holds the status the last command it called returned, "reg" the     *)
(* interrupt mask it has loaded and will store with a channel more.         *)
Frame == [fn : Fn, pc : Pc, arg : Event \cup Op \cup {"none"}, id : Nat,
          ok : BOOLEAN, reg : SUBSET Channel]

NewFrame(fn, arg, id) ==
  [fn |-> fn, pc |-> "begin", arg |-> arg, id |-> id, ok |-> FALSE,
   reg |-> {}]
Depth == Len(stack)
Top == stack[Depth]
At(fn, pc) == Top.fn = fn /\ Top.pc = pc
Goto(pc) == [stack EXCEPT ![Depth].pc = pc, ![Depth].reg = {}]
Caller == SubSeq(stack, 1, Depth - 1)
Call(pc, fn, arg) == Append(Goto(pc), NewFrame(fn, arg, Depth + 1))
Active(fn) == \E i \in 1 .. Depth : stack[i].fn = fn

Init ==
  /\ stack = <<NewFrame("main", "none", 1)>>
  /\ taskSet = {} /\ evtSet = {} /\ cptNotify = 0 /\ cptRequest = 0
  /\ flag = [c \in Channel |-> FALSE]
  /\ enabled = [c \in Channel |-> c \in {"notif", "request"}]
  /\ ot = [owner |-> 0, op |-> "get", info |-> NoInfo, answered |-> TRUE,
           ok |-> TRUE]
  /\ sysBuf = [owner |-> 0, answered |-> TRUE]
  /\ notif = [kind |-> "persist", info |-> NoInfo, ok |-> TRUE, processed |-> 1]
  /\ info = [i \in Info |-> [state |-> "none", ok |-> TRUE]]
  /\ joined = FALSE
  /\ m0 = "idle" /\ starting = NoInfo /\ persistCb = FALSE
  /\ presses = 0 /\ persists = 0 /\ logs = 0 /\ expiries = 0
-----------------------------------------------------------------------------
(***************************************************************************)
(* The sequencer as the channels see it.                                   *)
(***************************************************************************)
(* Mutant: the wait for an acknowledgement also runs notifications.         *)
EvtIdleMask_AckRunsNotify(e) == IF e = "ack" THEN {"request", "notify"} ELSE Task

(* Mutant: the wait for an acknowledgement runs nothing.                    *)
EvtIdleMask_AckRunsNothing(e) == IF e = "ack" THEN {} ELSE Task

(* UTIL_SEQ_EvtIdle: the tasks run while event e is waited for.             *)
EvtIdleMask(e) == IF e = "ack" THEN {"request"} ELSE Task

(* What the nested runs of all the waits on the stack let through.          *)
Runnable == {t \in taskSet : \A i \in 1 .. Depth :
                 stack[i].fn = "wait" => t \in EvtIdleMask(stack[i].arg)}

(* UTIL_SEQ_Run, from the main loop or from a wait whose event is not set.  *)
Dispatch ==
  /\ \/ Top.fn = "main"
     \/ Top.fn = "wait" /\ Top.arg \notin evtSet
  /\ \E t \in Runnable :
       /\ taskSet' = taskSet \ {t}
       /\ stack' = Append(stack, NewFrame(t, "none", NoInfo))
  /\ UNCHANGED <<evtSet, cpt, ipcc, ot, sysBuf, notif, app, radio, counters>>

(* UTIL_SEQ_WaitEvt returns: the event is consumed.                         *)
WaitReturn ==
  /\ Top.fn = "wait" /\ Top.arg \in evtSet
  /\ evtSet' = evtSet \ {Top.arg}
  /\ stack' = Caller
  /\ UNCHANGED <<taskSet, cpt, ipcc, ot, sysBuf, notif, app, radio, counters>>
-----------------------------------------------------------------------------
(***************************************************************************)
(* Commands of the M4.  Pre_ZigbeeCmdProcessing waits for the bypass event *)
(* the hook sets itself at once, and runs nothing (Sequencer's             *)
(* BypassRunsNothing): it has no effect and is no step here.               *)
(***************************************************************************)
(* The wrapper fills the shared buffer ...                                  *)
CmdFill ==
  /\ At("cmd", "begin")
  /\ ot' = [owner |-> Top.id, op |-> Top.arg, answered |-> FALSE, ok |-> TRUE,
            info |-> stack[Depth - 1].id]
  /\ stack' = Goto("send")
  /\ UNCHANGED <<seq, cpt, ipcc, sysBuf, notif, app, radio, counters>>

(* ... rings the M0 ...                                                     *)
CmdSend ==
  /\ At("cmd", "send")
  /\ flag' = [flag EXCEPT !["cmd"] = TRUE]
  /\ stack' = Goto("load")
  /\ UNCHANGED <<seq, cpt, enabled, ot, sysBuf, notif, app, radio, counters>>

(* LL_C1_IPCC_Enable...Channel: the mask of all channels is loaded; what a  *)
(* handler masks before it is stored is unmasked again by the store.        *)
MaskLoad ==
  /\ Top.pc = "load"
  /\ stack' = [stack EXCEPT ![Depth].pc = "enable",
                            ![Depth].reg = {c \in Channel : enabled[c]}]
  /\ UNCHANGED <<seq, cpt, ipcc, ot, sysBuf, notif, app, radio, counters>>

MaskStore(c) == enabled' = [d \in Channel |-> d = c \/ d \in Top.reg]

(* ... then unmasks the interrupt of the freed channel ...                  *)
CmdEnable ==
  /\ At("cmd", "enable")
  /\ MaskStore("cmd")
  /\ stack' = Call("return", "wait", "ack")
  /\ UNCHANGED <<seq, cpt, flag, ot, sysBuf, notif, app, radio, counters>>

(* ... and reads the return value out of the same buffer.                   *)
CmdReturn ==
  /\ At("cmd", "return")
  /\ stack' = [Caller EXCEPT ![Depth - 1].ok = ot.ok]
  /\ UNCHANGED <<seq, cpt, ipcc, ot, sysBuf, notif, app, radio, counters>>

(* shci_send: fills the one system command buffer and rings the channel.    *)
SysSend ==
  /\ At("sys", "begin")
  /\ sysBuf' = [owner |-> Top.id, answered |-> FALSE]
  /\ flag' = [flag EXCEPT !["sys"] = TRUE]
  /\ stack' = Goto("load")
  /\ UNCHANGED <<seq, cpt, enabled, ot, notif, app, radio, counters>>

(* Its interrupt is unmasked, and shci_cmd_resp_wait called.                *)
SysEnable ==
  /\ At("sys", "enable")
  /\ MaskStore("sys")
  /\ stack' = Call("return", "wait", "sys")
  /\ UNCHANGED <<seq, cpt, flag, ot, sysBuf, notif, app, radio, counters>>

SysReturn ==
  /\ At("sys", "return")
  /\ stack' = Caller
  /\ UNCHANGED <<seq, cpt, ipcc, ot, sysBuf, notif, app, radio, counters>>
-----------------------------------------------------------------------------
(***************************************************************************)
(* The application.                                                        *)
(***************************************************************************)
(* APP_ZIGBEE_persist_notify_cb: fetches the persistent data with commands  *)
(* and writes them.  When the write needs an erase, FD_EraseSectors tells   *)
(* the M0 before and after with a system command.                           *)
SaveGet ==
  /\ At("save", "begin")
  /\ stack' = Call("write", "cmd", "get")
  /\ UNCHANGED <<seq, cpt, ipcc, ot, sysBuf, notif, app, radio, counters>>

SaveWrite ==
  /\ At("save", "write")
  /\ stack' = Caller \/ stack' = Call("off", "sys", "none")
  /\ UNCHANGED <<seq, cpt, ipcc, ot, sysBuf, notif, app, radio, counters>>

SaveEraseOff ==
  /\ At("save", "off")
  /\ stack' = Call("end", "sys", "none")
  /\ UNCHANGED <<seq, cpt, ipcc, ot, sysBuf, notif, app, radio, counters>>

SaveEnd ==
  /\ At("save", "end")
  /\ stack' = Caller
  /\ UNCHANGED <<seq, cpt, ipcc, ot, sysBuf, notif, app, radio, counters>>

(* A fresh info block, the next of the heap.                                *)
NextInfo == CHOOSE i \in Info : /\ info[i].state = "none"
                                /\ \A j \in Info : info[j].state = "none" => i <= j

(* APP_ZIGBEE_NwkStart: nothing to do when joined, otherwise ZbStartupWait  *)
(* allocates its info block (status SUCCESS) and sends the start-up.        *)
JoinBegin ==
  /\ At("join", "begin")
  /\ IF joined
     THEN stack' = Caller /\ UNCHANGED info
     ELSE /\ info' = [info EXCEPT ![NextInfo] = [state |-> "active", ok |-> TRUE]]
          /\ stack' = Append([stack EXCEPT ![Depth].pc = "started",
                                           ![Depth].id = NextInfo],
                             NewFrame("cmd", "startup", Depth + 1))
  /\ UNCHANGED <<seq, cpt, ipcc, ot, sysBuf, notif, joined, radio, counters>>

(* A refused start-up returns its status, an accepted one is waited for.    *)
JoinStarted ==
  /\ At("join", "started")
  /\ IF Top.ok
     THEN stack' = Call("woken", "wait", "startup") /\ UNCHANGED app
     ELSE /\ info' = [info EXCEPT ![Top.id].state = "freed"]
          /\ joined' = FALSE
          /\ stack' = Caller
  /\ UNCHANGED <<seq, cpt, ipcc, ot, sysBuf, notif, radio, counters>>

(* The wait is over: the status is read and the block freed.  On success    *)
(* the persistent-data call-back is registered ...                          *)
JoinWoken ==
  /\ At("join", "woken")
  /\ info' = [info EXCEPT ![Top.id].state = "freed"]
  /\ joined' = info[Top.id].ok
  /\ stack' = IF info[Top.id].ok THEN Call("save", "cmd", "register") ELSE Caller
  /\ UNCHANGED <<seq, cpt, ipcc, ot, sysBuf, notif, radio, counters>>

(* ... and called once from the task itself.                                *)
JoinSave ==
  /\ At("join", "save")
  /\ stack' = Call("end", "save", "none")
  /\ UNCHANGED <<seq, cpt, ipcc, ot, sysBuf, notif, app, radio, counters>>

JoinEnd ==
  /\ At("join", "end")
  /\ stack' = Caller
  /\ UNCHANGED <<seq, cpt, ipcc, ot, sysBuf, notif, app, radio, counters>>
-----------------------------------------------------------------------------
(***************************************************************************)
(* The two tasks the IPCC handlers post.                                   *)
(***************************************************************************)
(* Mutant: the channel is freed as soon as the notification is taken.       *)
NotifyBegin_FreesChannel ==
  /\ At("notify", "begin")
  /\ cptNotify' = 0
  /\ flag' = [flag EXCEPT !["notif"] = FALSE]
  /\ stack' = IF cptNotify # 0 THEN Goto("callback") ELSE Caller
  /\ UNCHANGED <<seq, cptRequest, enabled, ot, sysBuf, notif, app, radio, counters>>

(* APP_ZIGBEE_ProcessNotifyM0ToM4: nothing without a counted notification.  *)
NotifyBegin ==
  /\ At("notify", "begin")
  /\ cptNotify' = 0
  /\ stack' = IF cptNotify # 0 THEN Goto("callback") ELSE Caller
  /\ UNCHANGED <<seq, cptRequest, ipcc, ot, sysBuf, notif, app, radio, counters>>

(* Zigbee_CallBackProcessing: ZbStartupWaitCb records the status in the     *)
(* info block and sets the event; the persistent-data call-back saves.      *)
StartupCallback ==
  /\ At("notify", "callback") /\ notif.kind = "startup"
  /\ info' = [info EXCEPT ![notif.info] =
                [state |-> IF @.state = "freed" THEN "corrupt" ELSE "done",
                 ok |-> notif.ok]]
  /\ evtSet' = evtSet \cup {"startup"}
  /\ notif' = [notif EXCEPT !.processed = @ + 1]
  /\ stack' = Goto("ack")
  /\ UNCHANGED <<taskSet, cpt, ipcc, ot, sysBuf, joined, radio, counters>>

PersistCallback ==
  /\ At("notify", "callback") /\ notif.kind = "persist"
  /\ notif' = [notif EXCEPT !.processed = @ + 1]
  /\ stack' = Call("ack", "save", "none")
  /\ UNCHANGED <<seq, cpt, ipcc, ot, sysBuf, app, radio, counters>>

(* HW_IPCC_ZIGBEE_SendM4AckToM0Notify / ...Request: the channel is freed,   *)
(* then its interrupt unmasked.                                             *)
ChannelOf(fn) == IF fn = "notify" THEN "notif" ELSE "request"

AckClear ==
  /\ At("notify", "ack") \/ At("request", "ack")
  /\ flag' = [flag EXCEPT ![ChannelOf(Top.fn)] = FALSE]
  /\ stack' = Goto("load")
  /\ UNCHANGED <<seq, cpt, enabled, ot, sysBuf, notif, app, radio, counters>>

AckEnable ==
  /\ At("notify", "enable") \/ At("request", "enable")
  /\ MaskStore(ChannelOf(Top.fn))
  /\ stack' = Caller
  /\ UNCHANGED <<seq, cpt, flag, ot, sysBuf, notif, app, radio, counters>>

(* APP_ZIGBEE_ProcessRequestM0ToM4 and Zigbee_M0RequestProcessing: a log    *)
(* line or a heap operation, answered in place.                             *)
RequestBegin ==
  /\ At("request", "begin")
  /\ cptRequest' = 0
  /\ stack' = IF cptRequest # 0 THEN Goto("ack") ELSE Caller
  /\ UNCHANGED <<seq, cptNotify, ipcc, ot, sysBuf, notif, app, radio, counters>>
-----------------------------------------------------------------------------
(***************************************************************************)
(* The interrupt handlers of the M4.  A receive interrupt is pending while *)
(* its channel is occupied and unmasked, a transmit one while its channel  *)
(* is free and unmasked.                                                   *)
(***************************************************************************)
RxPending(c) == flag[c] /\ enabled[c]
TxPending(c) == ~flag[c] /\ enabled[c]
Pending == RxPending("notif") \/ RxPending("request") \/ TxPending("sys") \/ TxPending("cmd")

(* HW_IPCC_Rx_Handler serves one channel, a notification first: masks it,   *)
(* counts the message and posts its task.                                   *)
RxHandler ==
  \/ /\ RxPending("notif")
     /\ enabled' = [enabled EXCEPT !["notif"] = FALSE]
     /\ cptNotify' = cptNotify + 1
     /\ taskSet' = taskSet \cup {"notify"}
     /\ UNCHANGED <<stack, evtSet, cptRequest, flag, ot, sysBuf, notif,
                    app, radio, counters>>
  \/ /\ RxPending("request") /\ ~RxPending("notif")
     /\ enabled' = [enabled EXCEPT !["request"] = FALSE]
     /\ cptRequest' = cptRequest + 1
     /\ taskSet' = taskSet \cup {"request"}
     /\ UNCHANGED <<stack, evtSet, cptNotify, flag, ot, sysBuf, notif,
                    app, radio, counters>>

(* Mutant: both events are set, whichever channel is free.                  *)
TxHandler_SetsBoth ==
  /\ TxPending("sys") \/ TxPending("cmd")
  /\ enabled' = [c \in Channel |-> enabled[c] /\ ~(c \in {"sys", "cmd"} /\ TxPending(c))]
  /\ evtSet' = evtSet \cup {"sys", "ack"}
  /\ UNCHANGED <<stack, taskSet, cpt, flag, ot, sysBuf, notif, app,
                 radio, counters>>

(* HW_IPCC_Tx_Handler: the system channel, then the Zigbee one (an "if" of  *)
(* its own); each is masked and its event set.                              *)
TxHandler ==
  /\ TxPending("sys") \/ TxPending("cmd")
  /\ enabled' = [c \in Channel |-> enabled[c] /\ ~(c \in {"sys", "cmd"} /\ TxPending(c))]
  /\ evtSet' = evtSet \cup {e \in {"sys", "ack"} :
                  TxPending(IF e = "ack" THEN "cmd" ELSE "sys")}
  /\ UNCHANGED <<stack, taskSet, cpt, flag, ot, sysBuf, notif, app,
                 radio, counters>>

(* A button is pressed: onButtonPress posts the network task.               *)
Press ==
  /\ presses < MaxPress
  /\ ~PressWhileJoining => ~(Active("join") \/ "join" \in taskSet)
  /\ presses' = presses + 1
  /\ taskSet' = taskSet \cup {"join"}
  /\ UNCHANGED <<stack, evtSet, cpt, ipcc, ot, sysBuf, notif, app, radio,
                 persists, logs, expiries>>
-----------------------------------------------------------------------------
(* The timer server calls nnt_timeout_timer, which sends a command, in its  *)
(* interrupt (HW_TS_RTC_Int_AppNot): on top of whatever the thread does.    *)
(* The interrupts of the IPCC have the higher priority and are served.      *)
TimerExpires ==
  /\ expiries < MaxTimer /\ ~Active("timer")
  /\ ~TimerPreempts => ~Active("cmd") /\ ~Active("request") /\ Top.pc # "enable"
  /\ expiries' = expiries + 1
  /\ stack' = Append(stack, NewFrame("timer", "none", NoInfo))
  /\ UNCHANGED <<seq, cpt, ipcc, ot, sysBuf, notif, app, radio, presses,
                 persists, logs>>

TimerCallback ==
  /\ At("timer", "begin")
  /\ stack' = Call("end", "cmd", "send")
  /\ UNCHANGED <<seq, cpt, ipcc, ot, sysBuf, notif, app, radio, counters>>

TimerReturn ==
  /\ At("timer", "end")
  /\ stack' = Caller
  /\ UNCHANGED <<seq, cpt, ipcc, ot, sysBuf, notif, app, radio, counters>>
-----------------------------------------------------------------------------
(***************************************************************************)
(* The M0: serves one command at a time, allocates from the M4's heap on   *)
(* the way, refuses a start-up while one is under way (it may refuse any), *)
(* and notifies when its channel is free.                                  *)
(***************************************************************************)
M0Take ==
  /\ m0 = "idle" /\ flag["cmd"]
  /\ m0' \in {"serving", "needs"}
  /\ UNCHANGED <<stack, seq, cpt, ipcc, ot, sysBuf, notif, app, starting,
                 persistCb, counters>>

M0Malloc ==
  /\ m0 = "needs" /\ ~flag["request"]
  /\ m0' = "malloc"
  /\ flag' = [flag EXCEPT !["request"] = TRUE]
  /\ UNCHANGED <<stack, seq, cpt, enabled, ot, sysBuf, notif, app, starting,
                 persistCb, counters>>

M0Allocated ==
  /\ m0 = "malloc" /\ ~flag["request"]
  /\ m0' = "serving"
  /\ UNCHANGED <<stack, seq, cpt, ipcc, ot, sysBuf, notif, app, starting,
                 persistCb, counters>>

M0Answer ==
  /\ m0 = "serving"
  /\ \E ok \in IF ot.op = "startup" THEN {FALSE, starting = NoInfo} ELSE {TRUE} :
       /\ ot' = [ot EXCEPT !.answered = TRUE, !.ok = ok]
       /\ starting' = IF ot.op = "startup" /\ ok THEN ot.info ELSE starting
  /\ persistCb' = (persistCb \/ ot.op = "register")
  /\ flag' = [flag EXCEPT !["cmd"] = FALSE]
  /\ m0' = "idle"
  /\ UNCHANGED <<stack, seq, cpt, enabled, sysBuf, notif, app, counters>>

M0SysAnswer ==
  /\ flag["sys"]
  /\ sysBuf' = [sysBuf EXCEPT !.answered = TRUE]
  /\ flag' = [flag EXCEPT !["sys"] = FALSE]
  /\ UNCHANGED <<stack, seq, cpt, enabled, ot, notif, app, radio, counters>>

M0StartupDone ==
  /\ starting # NoInfo /\ ~flag["notif"]
  /\ \E ok \in BOOLEAN :
       notif' = [kind |-> "startup", info |-> starting, ok |-> ok, processed |-> 0]
  /\ flag' = [flag EXCEPT !["notif"] = TRUE]
  /\ starting' = NoInfo
  /\ UNCHANGED <<stack, seq, cpt, enabled, ot, sysBuf, app, m0, persistCb,
                 counters>>

M0Persist ==
  /\ persistCb /\ persists < MaxPersist /\ ~flag["notif"]
  /\ ~ChangeWhileSaving => ~Active("join")
  /\ notif' = [kind |-> "persist", info |-> NoInfo, ok |-> TRUE, processed |-> 0]
  /\ flag' = [flag EXCEPT !["notif"] = TRUE]
  /\ persists' = persists + 1
  /\ UNCHANGED <<stack, seq, cpt, enabled, ot, sysBuf, app, radio, presses,
                 logs, expiries>>

M0Log ==
  /\ m0 # "malloc" /\ logs < MaxLog /\ ~flag["request"]
  /\ flag' = [flag EXCEPT !["request"] = TRUE]
  /\ logs' = logs + 1
  /\ UNCHANGED <<stack, seq, cpt, enabled, ot, sysBuf, notif, app, radio,
                 presses, persists, expiries>>
-----------------------------------------------------------------------------
(* An interrupt that is pending is taken before the thread goes on.         *)
Thread ==
  /\ ~Pending
  /\ \/ Dispatch \/ WaitReturn \/ MaskLoad
     \/ CmdFill \/ CmdSend \/ CmdEnable \/ CmdReturn
     \/ SysSend \/ SysEnable \/ SysReturn
     \/ SaveGet \/ SaveWrite \/ SaveEraseOff \/ SaveEnd
     \/ JoinBegin \/ JoinStarted \/ JoinWoken \/ JoinSave \/ JoinEnd
     \/ NotifyBegin \/ StartupCallback \/ PersistCallback \/ RequestBegin
     \/ AckClear \/ AckEnable \/ TimerCallback \/ TimerReturn

M0Serves == M0Take \/ M0Malloc \/ M0Allocated \/ M0Answer \/ M0SysAnswer \/ M0StartupDone

Next == Thread \/ RxHandler \/ TxHandler \/ Press \/ TimerExpires
        \/ M0Serves \/ M0Persist \/ M0Log

(* The M4 executes and serves its interrupts, the M0 answers what it was    *)
(* asked; nothing is assumed of buttons, logs and changes of the data.      *)
Fairness ==
  /\ WF_vars(Thread) /\ WF_vars(RxHandler) /\ WF_vars(TxHandler)
  /\ WF_vars(M0Take) /\ WF_vars(M0Malloc) /\ WF_vars(M0Allocated)
  /\ WF_vars(M0Answer) /\ WF_vars(M0SysAnswer) /\ WF_vars(M0StartupDone)

Spec == Init /\ [][Next]_vars /\ Fairness
-----------------------------------------------------------------------------
(* The types.  A message is counted once, and once more if a store of the   *)
(* mask has undone what its handler masked: it is then taken again at once. *)
TypeOK ==
  /\ stack \in Seq(Frame)
  /\ taskSet \subseteq Task /\ evtSet \subseteq Event
  /\ cptNotify \in 0 .. 2 /\ cptRequest \in 0 .. 2
  /\ flag \in [Channel -> BOOLEAN] /\ enabled \in [Channel -> BOOLEAN]
  /\ ot \in [owner : Nat, op : Op, info : Nat, answered : BOOLEAN, ok : BOOLEAN]
  /\ sysBuf \in [owner : Nat, answered : BOOLEAN]
  /\ notif \in [kind : {"startup", "persist"}, info : Nat, ok : BOOLEAN,
                processed : 0 .. 1]
  /\ info \in [Info -> [state : {"none", "active", "done", "freed", "corrupt"},
                        ok : BOOLEAN]]
  /\ joined \in BOOLEAN /\ persistCb \in BOOLEAN
  /\ m0 \in {"idle", "serving", "needs", "malloc"} /\ starting \in Info \cup {NoInfo}

(* A command that returns reads the M0's response to itself: nothing that   *)
(* ran while it waited has used the shared buffer, and no stale             *)
(* acknowledgement woke it (ZIGBEE_CmdTransfer, zb_ipc_m4_get_retval).      *)
ResponseIsForItsCommand ==
  At("cmd", "return") => ot.answered /\ ot.owner = Top.id

(* The call-back of a notification runs exactly once before the M0 gets its *)
(* buffer back (Zigbee_CallBackProcessing with the IPCC handlers).          *)
EachNotificationOnce == ~flag["notif"] => notif.processed = 1

(* ZbStartupWait is blocking: it returns after its own call-back has run,   *)
(* so the status it reads is the result of the start-up and the block it    *)
(* frees is no longer written to.                                           *)
StartupWaitIsBlocking ==
  /\ At("join", "woken") => info[Top.id].state = "done"
  /\ \A i \in Info : info[i].state # "corrupt"

(* shci_cmd_resp_wait does not return before the response to the system     *)
(* command its caller sent has been received.                               *)
SysWaitGetsItsResponse ==
  At("sys", "return") => sysBuf.answered /\ sysBuf.owner = Top.id

(* The two waits in which other tasks run end with what they waited for.    *)
WaitsGetTheirOwn == TypeOK /\ StartupWaitIsBlocking /\ SysWaitGetsItsResponse

(* Whatever the M4 starts comes back to the main loop: no command, system   *)
(* command, start-up or heap request of the M0 waits for one another for    *)
(* ever.                                                                    *)
CallsReturn == (Depth > 1) ~> (Depth = 1)
=============================================================================
