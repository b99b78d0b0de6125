----------------------------- MODULE FlashDriver -----------------------------
(***************************************************************************)
(* The flash driver of the application core, Core/Src/flash_driver.c, and  *)
(* the radio core (M0) it shares the flash with.  Both programs run at the *)
(* same time and agree through hardware semaphores: one for the flash, one *)
(* the M0 takes while flash work would disturb its radio timing; the M0    *)
(* may protect its timing with the flash's suspend bit as well.            *)
(*                                                                         *)
(* The application works in one thread.  The two system commands around an *)
(* erase wait for the M0, and while they wait other tasks run, which may   *)
(* call the driver again (Core/Src/app_entry.c:560-566).  Nobody in this   *)
(* program takes the semaphore with which the application could block its  *)
(* own driver, so the test of it is left out.                              *)
(***************************************************************************)
EXTENDS Integers, Sequences, SequencesExt

CONSTANTS
  MaxUnits,     \* bound: sectors or double words of a call
  MaxDepth      \* bound: calls under way, one inside a wait of the other

ASSUME FlashAssumption == MaxUnits \in Nat \ {0} /\ MaxDepth \in Nat \ {0}

Owners == {"free", "cpu1", "cpu2"}
Calls == [op : {"erase", "write"}, units : 1 .. MaxUnits]

VARIABLES
  flashSem,     \* CFG_HW_FLASH_SEMID
  blockSem,     \* CFG_HW_BLOCK_FLASH_REQ_BY_CPU2_SEMID
  suspended,    \* the M0 holds flash operations back (PES bit)
  unlocked,     \* FLASH_CR is unlocked for the application core
  protects,     \* ERASE_ACTIVITY_ON: the M0 protects its timing against erases
  stack,        \* the calls of the driver under way, the running one on top
  radio,        \* what the M0 wants of the flash, or has
  answer,       \* history: the call that returned last, with its answer
  unfinished,   \* history: an erase was refused and none succeeded since
  entered       \* history: a call was made while another one was under way

sems == <<flashSem, blockSem, suspended, radio>>
history == <<answer, unfinished, entered>>
vars == <<sems, unlocked, protects, stack, history>>

NoAnswer == [op |-> "write", units |-> 0, done |-> {}, left |-> 0]

Init ==
  /\ flashSem = "free" /\ blockSem = "free" /\ suspended = FALSE
  /\ unlocked = FALSE /\ protects = FALSE
  /\ stack = <<>>
  /\ radio = "idle"
  /\ answer = NoAnswer /\ unfinished = FALSE /\ entered = FALSE

-----------------------------------------------------------------------------
(* The application core. *)

Top == stack[Len(stack)]
At(pc) == stack # <<>> /\ Top.pc = pc
Goto(pc) == stack' = [stack EXCEPT ![Len(stack)].pc = pc]

\* LL_HSEM_1StepLock: succeeds for the core that holds the semaphore already.
CanLock_Always(sem) == sem \in Owners
CanLock(sem) == sem \in {"free", "cpu1"}

\* LL_HSEM_ReleaseLock writes the core's identifier: the hardware frees the
\* semaphore for the core that holds it and ignores the other one.
Released(sem) == IF sem = "cpu1" THEN "free" ELSE sem

\* FD_EraseSectors and FD_WriteData are called by the EEPROM emulation: from
\* outside, or by a task that runs while a system command waits.
Call(c) ==
  /\ stack = <<>> \/ At("on") \/ At("off")
  /\ Len(stack) < MaxDepth
  /\ stack' = Append(stack, [pc |-> "lock", op |-> c.op, units |-> c.units, loop |-> 0, done |-> {}])
  /\ entered' = (entered \/ stack # <<>>)
  /\ UNCHANGED <<sems, unlocked, protects, answer, unfinished>>

\* The loop that polls the semaphore, then HAL_FLASH_Unlock.
LockFlash_TriesOnce ==
  /\ At("lock")
  /\ flashSem' = IF CanLock(flashSem) THEN "cpu1" ELSE flashSem
  /\ unlocked' = TRUE
  /\ Goto(IF Top.op = "erase" THEN "on" ELSE "loop")
  /\ UNCHANGED <<blockSem, suspended, radio, protects, history>>
LockFlash ==
  /\ At("lock") /\ CanLock(flashSem)
  /\ flashSem' = "cpu1"
  /\ unlocked' = TRUE
  /\ Goto(IF Top.op = "erase" THEN "on" ELSE "loop")
  /\ UNCHANGED <<blockSem, suspended, radio, protects, history>>

\* SHCI_C2_FLASH_EraseActivity(ERASE_ACTIVITY_ON) is answered.
EraseOn ==
  /\ At("on")
  /\ protects' = TRUE
  /\ Goto("loop")
  /\ UNCHANGED <<sems, unlocked, history>>

\* ProcessSingleFlashOperation waits for the suspend bit, then tries the
\* semaphore once.  Taken or refused, this is one pass of the caller's loop;
\* refused, FD_WaitForSemAvailable, the weak one, answers WAITED_SEM_BUSY and
\* with that ends it.
More == Top.loop < Top.units

TrySemaphore ==
  /\ At("loop") /\ More /\ ~ suspended
  /\ IF CanLock(blockSem)
       THEN blockSem' = "cpu1" /\ Goto("operate")
       ELSE UNCHANGED blockSem /\ stack' = [stack EXCEPT ![Len(stack)].pc = "refused",
                                                         ![Len(stack)].loop = @ + 1]
  /\ UNCHANGED <<flashSem, suspended, radio, unlocked, protects, history>>

\* HAL_FLASHEx_Erase or HAL_FLASH_Program, which the M0 may hold back until it
\* clears the suspend bit.  With FLASH_CR locked nothing happens, and the
\* driver does not look at the result.
Operate ==
  /\ At("operate") /\ ~ suspended
  /\ stack' = [stack EXCEPT ![Len(stack)].pc = "release",
                            ![Len(stack)].done = IF unlocked THEN @ \cup {Top.loop} ELSE @]
  /\ UNCHANGED <<sems, unlocked, protects, history>>

\* The semaphore is released after each operation; the loop goes on.
ReleaseSemaphore_SameUnit ==
  /\ At("release")
  /\ blockSem' = Released(blockSem)
  /\ stack' = [stack EXCEPT ![Len(stack)].pc = "loop"]
  /\ UNCHANGED <<flashSem, suspended, radio, unlocked, protects, history>>
ReleaseSemaphore ==
  /\ At("release")
  /\ blockSem' = Released(blockSem)
  /\ stack' = [stack EXCEPT ![Len(stack)].pc = "loop", ![Len(stack)].loop = @ + 1]
  /\ UNCHANGED <<flashSem, suspended, radio, unlocked, protects, history>>

\* All units are done: an erase tells the M0 (ERASE_ACTIVITY_OFF), which waits
\* like the first command.
EndLoop ==
  /\ At("loop") /\ ~ More
  /\ Goto(IF Top.op = "erase" THEN "off" ELSE "end")
  /\ UNCHANGED <<sems, unlocked, protects, history>>

EraseOff ==
  /\ At("off")
  /\ protects' = FALSE
  /\ Goto("end")
  /\ UNCHANGED <<sems, unlocked, history>>

\* The call returns the number of units not done.
Return(left) ==
  /\ stack' = Front(stack)
  /\ answer' = [op |-> Top.op, units |-> Top.units, done |-> Top.done, left |-> left]
  /\ unfinished' = IF Top.op = "erase" THEN left # 0 ELSE unfinished
  /\ UNCHANGED entered

\* HAL_FLASH_Lock, then the semaphore is given back.
ReturnDone_KeepsSemaphore ==
  /\ At("end")
  /\ unlocked' = FALSE
  /\ Return(0)
  /\ UNCHANGED <<sems, protects>>
ReturnDone ==
  /\ At("end")
  /\ unlocked' = FALSE
  /\ flashSem' = Released(flashSem)
  /\ Return(0)
  /\ UNCHANGED <<blockSem, suspended, radio, protects>>

\* A refused call keeps the semaphore, the flash unlocked and the M0's erase
\* protection: the caller is to call once more.
ReturnRefused_CountsLoop ==
  /\ At("refused")
  /\ Return(Top.units - Top.loop)
  /\ UNCHANGED <<sems, unlocked, protects>>
ReturnRefused ==
  /\ At("refused")
  /\ Return(Top.units - Top.loop + 1)
  /\ UNCHANGED <<sems, unlocked, protects>>

-----------------------------------------------------------------------------
(* The radio core, as far as the application's code relies on it: it polls *)
(* a semaphore, uses what it has for a time, and gives it back.            *)

M0Wants(what) ==
  /\ radio = "idle"
  /\ radio' = what
  /\ UNCHANGED <<flashSem, blockSem, suspended, unlocked, protects, stack, history>>

M0TakesFlash ==
  /\ radio = "wantsFlash" /\ flashSem = "free"
  /\ flashSem' = "cpu2" /\ radio' = "flash"
  /\ UNCHANGED <<blockSem, suspended, unlocked, protects, stack, history>>

M0TakesBlock ==
  /\ radio = "wantsBlock" /\ blockSem = "free"
  /\ blockSem' = "cpu2" /\ radio' = "block"
  /\ UNCHANGED <<flashSem, suspended, unlocked, protects, stack, history>>

M0GivesBack ==
  /\ radio \in {"flash", "block"}
  /\ flashSem' = IF radio = "flash" THEN "free" ELSE flashSem
  /\ blockSem' = IF radio = "block" THEN "free" ELSE blockSem
  /\ radio' = "idle"
  /\ UNCHANGED <<suspended, unlocked, protects, stack, history>>

M0Suspends ==
  /\ ~ suspended
  /\ suspended' = TRUE
  /\ UNCHANGED <<flashSem, blockSem, radio, unlocked, protects, stack, history>>

M0Resumes ==
  /\ suspended
  /\ suspended' = FALSE
  /\ UNCHANGED <<flashSem, blockSem, radio, unlocked, protects, stack, history>>

-----------------------------------------------------------------------------
Driver ==
  \/ LockFlash \/ EraseOn \/ TrySemaphore \/ Operate \/ ReleaseSemaphore
  \/ EndLoop \/ EraseOff \/ ReturnDone \/ ReturnRefused

M0 ==
  \/ M0Wants("wantsFlash") \/ M0Wants("wantsBlock")
  \/ M0TakesFlash \/ M0TakesBlock \/ M0GivesBack \/ M0Suspends \/ M0Resumes

Next == (\E c \in Calls : Call(c)) \/ Driver \/ M0

\* Both cores run.  Strong fairness of what polls: the M0's windows leave room
\* (Core/Inc/hw_conf.h:60-61) and the driver's sections are short.  A system
\* command is answered (ZigbeeIpc) however often other tasks run meanwhile.
\* The M0 need not end a window in which it holds the semaphore of its timing.
Spec ==
  /\ Init /\ [][Next]_vars
  /\ WF_vars(Driver) /\ SF_vars(LockFlash \/ TrySemaphore \/ Operate)
  /\ \A d \in 1 .. MaxDepth : SF_vars(Len(stack) = d /\ (EraseOn \/ EraseOff))
  /\ SF_vars(M0TakesFlash) /\ SF_vars(M0TakesBlock)
  /\ WF_vars(M0GivesBack /\ radio = "flash") /\ WF_vars(M0Resumes)

-----------------------------------------------------------------------------
(* Properties. *)

Places == {"lock", "on", "loop", "operate", "release", "off", "end", "refused"}

TypeOK ==
  /\ flashSem \in Owners /\ blockSem \in Owners /\ suspended \in BOOLEAN
  /\ unlocked \in BOOLEAN /\ protects \in BOOLEAN
  /\ Len(stack) <= MaxDepth
  /\ \A i \in DOMAIN stack :
       stack[i] \in [pc : Places, op : {"erase", "write"}, units : 1 .. MaxUnits,
                    loop : 0 .. MaxUnits, done : SUBSET (0 .. MaxUnits - 1)]
  /\ radio \in {"idle", "wantsFlash", "wantsBlock", "flash", "block"}
  /\ unfinished \in BOOLEAN /\ entered \in BOOLEAN

\* The driver never works on the flash in a window in which the M0 protects its
\* radio timing, even when a call is made inside another one.
TimingIsProtected == At("operate") => radio # "block"

\* As FD_EraseSingleSector and FD_WriteSingleData expect: the flash belongs to
\* this core, is unlocked, and the M0 knows of an erase.  So it is until a call
\* is made inside a wait of another call, which gives all three up under it.
OperationIsOwned ==
  At("operate") /\ ~ entered =>
    /\ flashSem = "cpu1" /\ radio # "flash" /\ unlocked
    /\ Top.op = "erase" => protects

\* The value returned is the number of units not done, and these are the last
\* ones: a caller may go on where the call stopped.
AnswerIsHonest ==
  ~ entered => answer.done = 0 .. answer.units - answer.left - 1

\* Between two calls the flash belongs to this core, unlocked, if and only if
\* the last call was refused; the M0 protects its timing against erases if and
\* only if a refused erase has not been completed.
OwnershipFollowsAnswer ==
  stack = <<>> /\ ~ entered =>
    /\ flashSem = "cpu1" <=> answer.left # 0
    /\ unlocked <=> answer.left # 0
    /\ protects = unfinished

\* A caller can rely on the answer: for what is done, and for what it holds.
AnswersAreTrue == TypeOK /\ AnswerIsHonest /\ OwnershipFollowsAnswer

\* Every call returns, done or refused, if the M0 gives the semaphore of its
\* timing back again and again.  The comment in flash_driver.h on what the driver
\* does while the M0 keeps it says two things (README, observations).
CallsReturn ==
  []<>(blockSem # "cpu2") => ((stack # <<>>) ~> (stack = <<>>))

\* The M0 gets the flash, unless the application leaves a refused call so.
M0GetsTheFlash ==
  (radio = "wantsFlash") ~> (radio = "flash" \/ (stack = <<>> /\ answer.left # 0))

\* The M0 gets the semaphore of its timing, between two operations of a call.
M0GetsItsWindow == (radio = "wantsBlock") ~> (radio = "block")

\* Nothing the application does keeps the M0 waiting but a refused call.
M0GetsOn == M0GetsTheFlash /\ M0GetsItsWindow

=============================================================================
