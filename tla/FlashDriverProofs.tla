-------------------------- MODULE FlashDriverProofs --------------------------
(***************************************************************************)
(* Machine-checked safety of the flash driver, for any number of units a   *)
(* call has and any number of calls made inside the waits of one another,  *)
(* against any behaviour of the radio core that FlashDriver allows.        *)
(***************************************************************************)
EXTENDS FlashDriver, SequenceTheorems, TLAPS

-----------------------------------------------------------------------------
(* The inductive invariant. *)

\* A call under way: it works on a unit it has, and is refused at one.
Frame == {f \in [pc : Places, op : {"erase", "write"}, units : 1 .. MaxUnits,
                 loop : 0 .. MaxUnits, done : SUBSET (0 .. MaxUnits - 1)] :
            /\ f.loop <= f.units
            /\ f.pc \in {"operate", "release"} => f.loop < f.units
            /\ f.pc = "refused" => f.loop >= 1}

\* Every call but the running one waits for the answer to a system command.
CallsNest ==
  /\ stack \in Seq(Frame) /\ Len(stack) <= MaxDepth
  /\ \A i \in 1 .. Len(stack) - 1 : stack[i].pc \in {"on", "off"}

\* What the M0 has is what the semaphores say, and the call at an operation
\* holds the semaphore of the M0's timing.
SemaphoresAgree ==
  /\ (radio = "flash") <=> (flashSem = "cpu2")
  /\ (radio = "block") <=> (blockSem = "cpu2")
  /\ At("operate") \/ At("release") => blockSem = "cpu1"

\* The units a call has worked on, by the place it is at.
DoneSoFar(f) ==
  CASE f.pc \in {"lock", "on"} -> {}
    [] f.pc = "release" -> 0 .. f.loop
    [] f.pc = "refused" -> 0 .. f.loop - 2
    [] f.pc \in {"off", "end"} -> 0 .. f.units - 1
    [] OTHER -> 0 .. f.loop - 1

\* As long as no call is made inside another one, the call under way has done
\* what it counts and holds what it needs.
AloneWhileWorking ==
  ~ entered =>
    /\ Len(stack) <= 1
    /\ stack # <<>> =>
         /\ Top.done = DoneSoFar(Top)
         /\ Top.pc \in {"lock", "on"} => Top.loop = 0
         /\ Top.pc # "lock" => flashSem = "cpu1" /\ unlocked
         /\ Top.op = "erase" /\ Top.pc \notin {"lock", "on", "end"} => protects
         /\ Top.op = "erase" /\ Top.pc = "end" => ~ protects
         /\ Top.op = "write" => protects = unfinished /\ Top.pc \notin {"on", "off"}

\* ... and what the last call left behind is there when the next one begins.
LeftBehind ==
  ~ entered /\ (stack = <<>> \/ Top.pc = "lock") =>
    /\ flashSem = "cpu1" <=> answer.left # 0
    /\ unlocked <=> answer.left # 0
    /\ protects = unfinished

Scalars ==
  /\ flashSem \in Owners /\ blockSem \in Owners /\ suspended \in BOOLEAN
  /\ unlocked \in BOOLEAN /\ protects \in BOOLEAN
  /\ radio \in {"idle", "wantsFlash", "wantsBlock", "flash", "block"}
  /\ unfinished \in BOOLEAN /\ entered \in BOOLEAN

DriverInv ==
  /\ Scalars /\ CallsNest /\ SemaphoresAgree
  /\ AloneWhileWorking /\ LeftBehind /\ AnswerIsHonest
-----------------------------------------------------------------------------
(* What the three operations on the stack do. *)

LEMMA TopFrame ==
  ASSUME CallsNest, stack # <<>>
  PROVE  Len(stack) \in Nat \ {0} /\ Top \in Frame
<1>0. stack \in Seq(Frame)
  BY DEF CallsNest
<1>1. Len(stack) \in Nat \ {0}
  BY <1>0, EmptySeq
<1>2. stack[Len(stack)] \in Frame
  <2>1. Len(stack) \in 1 .. Len(stack)
    BY <1>1
  <2> QED BY <1>0, <2>1, ElementOfSeq, Zenon
<1> QED BY <1>1, <1>2 DEF Top

LEMMA Rewritten ==
  ASSUME CallsNest, stack # <<>>, NEW f \in Frame,
         stack' = [stack EXCEPT ![Len(stack)] = f]
  PROVE  CallsNest' /\ stack' # <<>> /\ Top' = f /\ Len(stack') = Len(stack)
<1>1. /\ stack \in Seq(Frame) /\ Len(stack) \in Nat \ {0}
      /\ Len(stack) \in 1 .. Len(stack)
  BY TopFrame DEF CallsNest
<1>2. /\ stack' \in Seq(Frame) /\ Len(stack') = Len(stack)
      /\ \A j \in 1 .. Len(stack) : stack'[j] = IF j = Len(stack) THEN f ELSE stack[j]
  BY <1>1, ExceptSeq
<1>3. stack' # <<>>
  <2>1. Len(stack') # 0
    BY <1>1, <1>2, Zenon
  <2> QED BY <2>1, EmptySeq
<1>4. ASSUME NEW i \in 1 .. Len(stack) - 1 PROVE stack'[i] = stack[i]
  <2>1. i \in 1 .. Len(stack) /\ i # Len(stack)
    BY <1>1
  <2> QED BY <1>2, <2>1
<1> QED BY <1>1, <1>2, <1>3, <1>4 DEF CallsNest, Top

LEMMA Pushed ==
  ASSUME CallsNest, stack = <<>> \/ At("on") \/ At("off"), Len(stack) < MaxDepth,
         NEW f \in Frame, stack' = Append(stack, f)
  PROVE  CallsNest' /\ stack' # <<>> /\ Top' = f /\ Len(stack') = Len(stack) + 1
<1>1. /\ stack \in Seq(Frame) /\ Len(stack) \in Nat
      /\ \A i \in 1 .. Len(stack) - 1 : stack[i].pc \in {"on", "off"}
  BY LenProperties DEF CallsNest
<1>2. /\ stack' \in Seq(Frame) /\ stack' # <<>> /\ Len(stack') = Len(stack) + 1
      /\ \A i \in 1 .. Len(stack) : stack'[i] = stack[i]
      /\ stack'[Len(stack) + 1] = f
  BY <1>1, AppendProperties
<1>3. Len(stack') <= MaxDepth
  BY <1>1, <1>2, FlashAssumption
<1>4. ASSUME NEW i \in 1 .. Len(stack') - 1 PROVE stack'[i].pc \in {"on", "off"}
  <2>1. i \in 1 .. Len(stack) /\ stack'[i] = stack[i]
    BY <1>1, <1>2
  <2>2. CASE i = Len(stack)
    <3>1. stack # <<>>
      BY <1>1, <2>1, EmptySeq
    <3> QED BY <2>1, <2>2, <3>1 DEF At, Top
  <2>3. CASE i # Len(stack)
    BY <1>1, <2>1, <2>3
  <2> QED BY <2>2, <2>3
<1> QED BY <1>2, <1>3, <1>4 DEF CallsNest, Top

LEMMA Popped ==
  ASSUME CallsNest, stack # <<>>, stack' = Front(stack)
  PROVE  /\ CallsNest' /\ Len(stack') = Len(stack) - 1
         /\ stack' # <<>> => Top'.pc \in {"on", "off"}
         /\ Len(stack) <= 1 => stack' = <<>>
<1> DEFINE n == Len(stack) - 1
<1>1. /\ stack \in Seq(Frame) /\ n \in Nat /\ Len(stack) <= MaxDepth
      /\ \A i \in 1 .. n : stack[i] \in Frame /\ stack[i].pc \in {"on", "off"}
  <2>1. stack \in Seq(Frame) /\ Len(stack) \in Nat \ {0}
    BY TopFrame DEF CallsNest
  <2> QED BY <2>1, ElementOfSeq DEF CallsNest
<1>2. stack' = SubSeq(stack, 1, n)
  BY DEF Front
<1> HIDE DEF n
<1>3. /\ SubSeq(stack, 1, n) \in Seq(Frame)
      /\ Len(SubSeq(stack, 1, n)) = IF 1 <= n THEN n - 1 + 1 ELSE 0
      /\ \A i \in 1 .. n - 1 + 1 : SubSeq(stack, 1, n)[i] = stack[1 + i - 1]
  BY <1>1, SubSeqProperties
<1>4. stack' \in Seq(Frame) /\ Len(stack') = n /\ \A i \in 1 .. n : stack'[i] = stack[i]
  <2>1. n - 1 + 1 = n /\ \A i \in 1 .. n : 1 + i - 1 = i
    BY <1>1
  <2> QED BY <1>1, <1>2, <1>3, <2>1
<1>5. stack' # <<>> => n \in 1 .. n
  BY <1>1, <1>4, EmptySeq
<1>6. n <= MaxDepth
  BY <1>1, FlashAssumption DEF n
<1>7. Len(stack) <= 1 => stack' = <<>>
  BY <1>1, <1>5 DEF n
<1>8. \A i \in 1 .. n - 1 : i \in 1 .. n
  BY <1>1
<1> QED BY <1>1, <1>4, <1>5, <1>6, <1>7, <1>8 DEF CallsNest, Top, n

\* A step of the M0 leaves the stack alone.
LEMMA Kept ==
  ASSUME CallsNest, UNCHANGED stack
  PROVE  CallsNest' /\ Top' = Top /\ \A pc \in Places : At(pc)' = At(pc)
BY DEF CallsNest, Top, At

-----------------------------------------------------------------------------
LEMMA DriverInit == Init => DriverInv
<1> SUFFICES ASSUME Init PROVE DriverInv
  OBVIOUS
<1>1. <<>> \in Seq(Frame) /\ Len(<<>>) = 0
  BY EmptySeq
<1>2. CallsNest
  <2>1. stack \in Seq(Frame) /\ Len(stack) = 0
    BY <1>1 DEF Init
  <2>2. 0 <= MaxDepth /\ ~ \E i \in 1 .. 0 - 1 : TRUE
    BY FlashAssumption
  <2> QED BY <2>1, <2>2 DEF CallsNest
<1>3. Scalars /\ SemaphoresAgree /\ AloneWhileWorking /\ LeftBehind
  <2>1. stack = <<>> /\ Len(stack) = 0 /\ answer.left = 0
    BY <1>1 DEF Init, NoAnswer
  <2>2. Scalars /\ SemaphoresAgree
    BY <2>1 DEF Init, Scalars, Owners, SemaphoresAgree, At
  <2>3. AloneWhileWorking
    BY <2>1 DEF AloneWhileWorking
  <2>4. LeftBehind
    BY <2>1 DEF Init, LeftBehind
  <2> QED BY <2>2, <2>3, <2>4
<1>4. AnswerIsHonest
  <2>1. 0 .. 0 - 0 - 1 = {}
    OBVIOUS
  <2> QED BY <2>1 DEF Init, AnswerIsHonest, NoAnswer
<1> QED BY <1>2, <1>3, <1>4 DEF DriverInv

LEMMA CallStep ==
  ASSUME DriverInv, NEW c \in Calls, Call(c)
  PROVE  DriverInv'
<1> DEFINE f == [pc |-> "lock", op |-> c.op, units |-> c.units, loop |-> 0, done |-> {}]
<1>1. f \in Frame
  BY FlashAssumption DEF Calls, Frame, Places
<1>2. CallsNest' /\ stack' # <<>> /\ Top' = f /\ Len(stack') = Len(stack) + 1
  BY <1>1, Pushed DEF Call, DriverInv
<1>3. Scalars' /\ SemaphoresAgree'
  BY <1>2 DEF Call, DriverInv, Scalars, SemaphoresAgree, At, sems
<1>4. ~ entered' => ~ entered /\ stack = <<>> /\ Len(stack) = 0
  BY EmptySeq DEF Call, DriverInv, Scalars
<1>5. AloneWhileWorking'
  BY <1>2, <1>4 DEF Call, DriverInv, AloneWhileWorking, LeftBehind, DoneSoFar, Calls
<1>6. LeftBehind' /\ AnswerIsHonest'
  BY <1>2, <1>4 DEF Call, DriverInv, LeftBehind, AnswerIsHonest, sems
<1> QED BY <1>2, <1>3, <1>5, <1>6 DEF DriverInv

LEMMA DriverStep ==
  ASSUME DriverInv, Driver
  PROVE  DriverInv'
<1> USE DEF DriverInv
<1>t. stack # <<>> => Top \in Frame /\ Len(stack) \in Nat \ {0}
  BY TopFrame
<1>1. CASE LockFlash
  <2> DEFINE f == [Top EXCEPT !.pc = IF Top.op = "erase" THEN "on" ELSE "loop"]
  <2>1. stack # <<>> /\ Top \in Frame /\ Top.pc = "lock"
    BY <1>1, <1>t DEF LockFlash, At
  <2>2. f \in Frame
    BY <2>1 DEF Frame, Places
  <2>3. CallsNest' /\ stack' # <<>> /\ Top' = f /\ Len(stack') = Len(stack)
    BY <1>1, <2>1, <2>2, Rewritten DEF LockFlash, Goto, Top
  <2>4. Scalars' /\ SemaphoresAgree'
    BY <1>1, <2>1, <2>3 DEF LockFlash, CanLock, Scalars, SemaphoresAgree, At, Owners, history, Frame
  <2>5. AloneWhileWorking'
    <3>1. f.done = Top.done /\ f.loop = Top.loop /\ f.op = Top.op /\ f.pc \in {"on", "loop"}
          /\ (f.op = "write" => f.pc = "loop") /\ (f.op = "erase" => f.pc = "on")
      BY <2>1 DEF Frame
    <3>2. 0 .. 0 - 1 = {}
      OBVIOUS
    <3> QED BY <1>1, <2>1, <2>3, <3>1, <3>2
       DEF LockFlash, AloneWhileWorking, LeftBehind, DoneSoFar, history
  <2>6. LeftBehind' /\ AnswerIsHonest'
    BY <1>1, <2>1, <2>3 DEF LockFlash, LeftBehind, AnswerIsHonest, history, Frame
  <2> QED BY <2>3, <2>4, <2>5, <2>6
<1>2. CASE EraseOn
  <2> DEFINE f == [Top EXCEPT !.pc = "loop"]
  <2>1. stack # <<>> /\ Top \in Frame /\ Top.pc = "on"
    BY <1>2, <1>t DEF EraseOn, At
  <2>2. f \in Frame
    BY <2>1 DEF Frame, Places
  <2>3. CallsNest' /\ stack' # <<>> /\ Top' = f /\ Len(stack') = Len(stack)
    BY <1>2, <2>1, <2>2, Rewritten DEF EraseOn, Goto, Top
  <2>4. Scalars' /\ SemaphoresAgree'
    BY <1>2, <2>1, <2>3 DEF EraseOn, Scalars, SemaphoresAgree, At, sems, history, Frame
  <2>5. AloneWhileWorking'
    <3>1. 0 .. 0 - 1 = {} /\ f.pc = "loop" /\ f.done = Top.done /\ f.loop = Top.loop /\ f.op = Top.op
      BY <2>1 DEF Frame
    <3> QED BY <1>2, <2>1, <2>3, <3>1 DEF EraseOn, AloneWhileWorking, DoneSoFar, sems, history
  <2>6. LeftBehind' /\ AnswerIsHonest'
    BY <1>2, <2>1, <2>3 DEF EraseOn, LeftBehind, AnswerIsHonest, history, Frame
  <2> QED BY <2>3, <2>4, <2>5, <2>6
<1>3. CASE TrySemaphore
  <2> DEFINE f == [Top EXCEPT !.pc = "operate"]
             g == [Top EXCEPT !.pc = "refused", !.loop = @ + 1]
  <2>1. stack # <<>> /\ Top \in Frame /\ Top.pc = "loop" /\ Top.loop < Top.units
    BY <1>3, <1>t DEF TrySemaphore, At, More
  <2>2. f \in Frame /\ g \in Frame
    <3>1. Top.loop + 1 \in 0 .. MaxUnits /\ Top.loop + 1 <= Top.units /\ Top.loop + 1 >= 1
      BY <2>1, FlashAssumption DEF Frame
    <3>2. f \in Frame
      BY <2>1 DEF Frame, Places
    <3>3. g \in Frame
      BY <2>1, <3>1 DEF Frame, Places
    <3> QED BY <3>2, <3>3
  <2>3. CASE CanLock(blockSem)
    <3>1. CallsNest' /\ stack' # <<>> /\ Top' = f /\ Len(stack') = Len(stack)
      BY <1>3, <2>1, <2>2, <2>3, Rewritten DEF TrySemaphore, Goto, Top
    <3>2. Scalars' /\ SemaphoresAgree'
      BY <1>3, <2>1, <2>3, <3>1 DEF TrySemaphore, CanLock, Owners, Scalars, SemaphoresAgree, At, history, Frame
    <3>3. AloneWhileWorking'
      BY <1>3, <2>1, <3>1 DEF TrySemaphore, AloneWhileWorking, DoneSoFar, history, Frame
    <3>4. LeftBehind' /\ AnswerIsHonest'
      BY <1>3, <2>1, <3>1 DEF TrySemaphore, LeftBehind, AnswerIsHonest, history, Frame
    <3> QED BY <3>1, <3>2, <3>3, <3>4
  <2>4. CASE ~ CanLock(blockSem)
    <3>1. CallsNest' /\ stack' # <<>> /\ Top' = g /\ Len(stack') = Len(stack)
      <4>1. stack' = [stack EXCEPT ![Len(stack)] = g]
        BY <1>3, <2>4 DEF TrySemaphore, Top
      <4> QED BY <2>1, <2>2, <4>1, Rewritten
    <3>2. Scalars' /\ SemaphoresAgree'
      BY <1>3, <2>1, <2>4, <3>1 DEF TrySemaphore, Scalars, SemaphoresAgree, At, history, Frame
    <3>3. AloneWhileWorking'
      <4>1. /\ g.pc = "refused" /\ g.op = Top.op /\ g.done = Top.done
            /\ 0 .. g.loop - 2 = 0 .. Top.loop - 1
        BY <2>1 DEF Frame
      <4> QED BY <1>3, <2>1, <2>4, <3>1, <4>1 DEF TrySemaphore, AloneWhileWorking, DoneSoFar, history
    <3>4. LeftBehind' /\ AnswerIsHonest'
      BY <1>3, <2>1, <2>4, <3>1 DEF TrySemaphore, LeftBehind, AnswerIsHonest, history, Frame
    <3> QED BY <3>1, <3>2, <3>3, <3>4
  <2> QED BY <2>3, <2>4
<1>4. CASE Operate
  <2> DEFINE f == [Top EXCEPT !.pc = "release", !.done = IF unlocked THEN @ \cup {Top.loop} ELSE @]
  <2>1. stack # <<>> /\ Top \in Frame /\ Top.pc = "operate" /\ Top.loop < Top.units
    BY <1>4, <1>t DEF Operate, At, Frame
  <2>2. f \in Frame
    <3>1. Top.loop \in 0 .. MaxUnits - 1
      BY <2>1, FlashAssumption DEF Frame
    <3>2. (IF unlocked THEN Top.done \cup {Top.loop} ELSE Top.done) \in SUBSET (0 .. MaxUnits - 1)
      BY <2>1, <3>1 DEF Frame
    <3> QED BY <2>1, <3>2 DEF Frame, Places
  <2>3. CallsNest' /\ stack' # <<>> /\ Top' = f /\ Len(stack') = Len(stack)
    <3>1. stack' = [stack EXCEPT ![Len(stack)] = f]
      BY <1>4 DEF Operate, Top
    <3> QED BY <2>1, <2>2, <3>1, Rewritten
  <2>4. Scalars' /\ SemaphoresAgree'
    BY <1>4, <2>1, <2>3 DEF Operate, Scalars, SemaphoresAgree, At, sems, history, Frame
  <2>5. AloneWhileWorking'
    <3>1. /\ f.pc = "release" /\ f.op = Top.op /\ f.loop = Top.loop
          /\ unlocked => f.done = Top.done \cup {Top.loop}
          /\ (0 .. Top.loop - 1) \cup {Top.loop} = 0 .. Top.loop
      BY <2>1 DEF Frame
    <3> QED BY <1>4, <2>1, <2>3, <3>1 DEF Operate, AloneWhileWorking, DoneSoFar, sems, history
  <2>6. LeftBehind' /\ AnswerIsHonest'
    BY <1>4, <2>1, <2>3 DEF Operate, LeftBehind, AnswerIsHonest, history, Frame
  <2> QED BY <2>3, <2>4, <2>5, <2>6
<1>5. CASE ReleaseSemaphore
  <2> DEFINE f == [Top EXCEPT !.pc = "loop", !.loop = @ + 1]
  <2>1. stack # <<>> /\ Top \in Frame /\ Top.pc = "release" /\ Top.loop < Top.units
    BY <1>5, <1>t DEF ReleaseSemaphore, At, Frame
  <2>2. f \in Frame
    <3>1. Top.loop + 1 \in 0 .. MaxUnits /\ Top.loop + 1 <= Top.units
      BY <2>1, FlashAssumption DEF Frame
    <3> QED BY <2>1, <3>1 DEF Frame, Places
  <2>3. CallsNest' /\ stack' # <<>> /\ Top' = f /\ Len(stack') = Len(stack)
    <3>1. stack' = [stack EXCEPT ![Len(stack)] = f]
      BY <1>5 DEF ReleaseSemaphore, Top
    <3> HIDE DEF f
    <3> QED BY <1>t, <2>1, <2>2, <3>1, Rewritten
  <2>4. Scalars' /\ SemaphoresAgree'
    BY <1>5, <2>1, <2>3 DEF ReleaseSemaphore, Released, Owners, Scalars, SemaphoresAgree, At, history, Frame
  <2>5. AloneWhileWorking'
    <3>1. /\ f.pc = "loop" /\ f.op = Top.op /\ f.done = Top.done
          /\ 0 .. f.loop - 1 = 0 .. Top.loop
      BY <2>1 DEF Frame
    <3> QED BY <1>5, <2>1, <2>3, <3>1 DEF ReleaseSemaphore, AloneWhileWorking, DoneSoFar, history
  <2>6. LeftBehind' /\ AnswerIsHonest'
    BY <1>5, <2>1, <2>3 DEF ReleaseSemaphore, LeftBehind, AnswerIsHonest, history, Frame
  <2> QED BY <2>3, <2>4, <2>5, <2>6
<1>6. CASE EndLoop
  <2> DEFINE f == [Top EXCEPT !.pc = IF Top.op = "erase" THEN "off" ELSE "end"]
  <2>1. stack # <<>> /\ Top \in Frame /\ Top.pc = "loop" /\ Top.loop = Top.units
    BY <1>6, <1>t DEF EndLoop, At, More, Frame
  <2>2. f \in Frame
    BY <2>1 DEF Frame, Places
  <2>3. CallsNest' /\ stack' # <<>> /\ Top' = f /\ Len(stack') = Len(stack)
    BY <1>6, <2>1, <2>2, Rewritten DEF EndLoop, Goto, Top
  <2>4. Scalars' /\ SemaphoresAgree'
    BY <1>6, <2>1, <2>3 DEF EndLoop, Scalars, SemaphoresAgree, At, sems, history, Frame
  <2>5. AloneWhileWorking'
    <3>1. /\ f.pc \in {"off", "end"} /\ (f.pc = "off" <=> f.op = "erase")
          /\ f.op = Top.op /\ f.done = Top.done /\ f.units = Top.loop
          /\ Top.op \in {"erase", "write"}
      BY <2>1 DEF Frame
    <3> QED BY <1>6, <2>1, <2>3, <3>1 DEF EndLoop, AloneWhileWorking, DoneSoFar, sems, history
  <2>6. LeftBehind' /\ AnswerIsHonest'
    BY <1>6, <2>1, <2>3 DEF EndLoop, LeftBehind, AnswerIsHonest, history, Frame
  <2> QED BY <2>3, <2>4, <2>5, <2>6
<1>7. CASE EraseOff
  <2> DEFINE f == [Top EXCEPT !.pc = "end"]
  <2>1. stack # <<>> /\ Top \in Frame /\ Top.pc = "off"
    BY <1>7, <1>t DEF EraseOff, At
  <2>2. f \in Frame
    BY <2>1 DEF Frame, Places
  <2>3. CallsNest' /\ stack' # <<>> /\ Top' = f /\ Len(stack') = Len(stack)
    BY <1>7, <2>1, <2>2, Rewritten DEF EraseOff, Goto, Top
  <2>4. Scalars' /\ SemaphoresAgree'
    BY <1>7, <2>1, <2>3 DEF EraseOff, Scalars, SemaphoresAgree, At, sems, history, Frame
  <2>5. AloneWhileWorking'
    BY <1>7, <2>1, <2>3 DEF EraseOff, AloneWhileWorking, DoneSoFar, sems, history, Frame
  <2>6. LeftBehind' /\ AnswerIsHonest'
    BY <1>7, <2>1, <2>3 DEF EraseOff, LeftBehind, AnswerIsHonest, history, Frame
  <2> QED BY <2>3, <2>4, <2>5, <2>6
<1>8. CASE ReturnDone
  <2>1. stack # <<>> /\ Top \in Frame /\ Top.pc = "end" /\ stack' = Front(stack)
    BY <1>8, <1>t DEF ReturnDone, Return, At
  <2>2. /\ CallsNest' /\ (stack' # <<>> => Top'.pc \in {"on", "off"})
        /\ Len(stack') = Len(stack) - 1 /\ (Len(stack) <= 1 => stack' = <<>>)
    BY <2>1, Popped
  <2>3. Scalars' /\ SemaphoresAgree'
    BY <1>8, <2>1, <2>2 DEF ReturnDone, Return, Released, Owners, Scalars, SemaphoresAgree, At
  <2>4. entered' = entered /\ (~ entered => stack' = <<>>)
    BY <1>8, <2>1, <2>2 DEF ReturnDone, Return, AloneWhileWorking
  <2>5. AloneWhileWorking'
    BY <2>4, EmptySeq DEF AloneWhileWorking
  <2>6. LeftBehind'
    <3>1. answer'.left = 0
      BY <1>8 DEF ReturnDone, Return
    <3>2. ~ unlocked' /\ flashSem' # "cpu1"
      BY <1>8 DEF ReturnDone, Released
    <3>3. ~ entered => protects' = unfinished'
      BY <1>8, <2>1, <2>4 DEF ReturnDone, Return, AloneWhileWorking, Scalars, Frame
    <3> QED BY <2>4, <3>1, <3>2, <3>3 DEF LeftBehind
  <2>7. AnswerIsHonest'
    <3>1. 0 .. Top.units - 0 - 1 = 0 .. Top.units - 1
      BY <2>1 DEF Frame
    <3> QED BY <1>8, <2>1, <2>4, <3>1 DEF ReturnDone, Return, AnswerIsHonest, AloneWhileWorking, DoneSoFar
  <2> QED BY <2>2, <2>3, <2>5, <2>6, <2>7
<1>9. CASE ReturnRefused
  <2>1. stack # <<>> /\ Top \in Frame /\ Top.pc = "refused" /\ stack' = Front(stack)
    BY <1>9, <1>t DEF ReturnRefused, Return, At
  <2>2. /\ CallsNest' /\ (stack' # <<>> => Top'.pc \in {"on", "off"})
        /\ Len(stack') = Len(stack) - 1 /\ (Len(stack) <= 1 => stack' = <<>>)
    BY <2>1, Popped
  <2>3. /\ Top.op \in {"erase", "write"}
        /\ Top.units - Top.loop + 1 # 0
        /\ 0 .. Top.units - (Top.units - Top.loop + 1) - 1 = 0 .. Top.loop - 2
    BY <2>1 DEF Frame
  <2>4. Scalars' /\ SemaphoresAgree'
    BY <1>9, <2>1, <2>2 DEF ReturnRefused, Return, Scalars, SemaphoresAgree, At, sems
  <2>5. entered' = entered /\ (~ entered => stack' = <<>>)
    BY <1>9, <2>1, <2>2 DEF ReturnRefused, Return, AloneWhileWorking
  <2>6. AloneWhileWorking'
    BY <2>5, EmptySeq DEF AloneWhileWorking
  <2>7. LeftBehind'
    <3>1. answer'.left # 0
      BY <1>9, <2>3 DEF ReturnRefused, Return
    <3>2. ~ entered => unlocked' /\ flashSem' = "cpu1"
      BY <1>9, <2>1 DEF ReturnRefused, AloneWhileWorking, sems
    <3>3. ~ entered => protects' = unfinished'
      BY <1>9, <2>1, <2>3 DEF ReturnRefused, Return, AloneWhileWorking, Scalars
    <3> QED BY <2>5, <3>1, <3>2, <3>3 DEF LeftBehind
  <2>8. AnswerIsHonest'
    BY <1>9, <2>1, <2>3, <2>5 DEF ReturnRefused, Return, AnswerIsHonest, AloneWhileWorking, DoneSoFar
  <2> QED BY <2>2, <2>4, <2>6, <2>7, <2>8
<1> QED
  BY <1>1, <1>2, <1>3, <1>4, <1>5, <1>6, <1>7, <1>8, <1>9 DEF Driver

LEMMA M0Step ==
  ASSUME DriverInv, M0
  PROVE  DriverInv'
<1> USE DEF DriverInv
<1>1. UNCHANGED <<stack, unlocked, protects, history>>
  BY DEF M0, M0Wants, M0TakesFlash, M0TakesBlock, M0GivesBack, M0Suspends, M0Resumes
<1>2. CallsNest' /\ Top' = Top /\ \A pc \in Places : At(pc)' = At(pc)
  BY <1>1, Kept
<1>3. (flashSem = "cpu1") = (flashSem = "cpu1")' /\ (blockSem = "cpu1") = (blockSem = "cpu1")'
  BY DEF M0, M0Wants, M0TakesFlash, M0TakesBlock, M0GivesBack, M0Suspends, M0Resumes,
     SemaphoresAgree
<1>4. Scalars' /\ SemaphoresAgree'
  <2>1. At("operate")' = At("operate") /\ At("release")' = At("release")
    BY <1>2 DEF Places
  <2> QED BY <1>1, <1>3, <2>1, ZenonT(60) DEF M0, M0Wants, M0TakesFlash, M0TakesBlock, M0GivesBack,
          M0Suspends, M0Resumes, Scalars, SemaphoresAgree, Owners, history
<1>5. AloneWhileWorking' /\ LeftBehind' /\ AnswerIsHonest'
  BY <1>1, <1>2, <1>3 DEF AloneWhileWorking, LeftBehind, AnswerIsHonest, DoneSoFar, history
<1> QED BY <1>2, <1>4, <1>5

LEMMA DriverInvariant == Spec => []DriverInv
<1>1. DriverInv /\ [Next]_vars => DriverInv'
  <2> SUFFICES ASSUME DriverInv, [Next]_vars PROVE DriverInv'
    OBVIOUS
  <2>1. CASE UNCHANGED vars
    BY <2>1, Kept DEF vars, sems, history, DriverInv, Scalars, SemaphoresAgree, At, CallsNest,
       AloneWhileWorking, LeftBehind, AnswerIsHonest, DoneSoFar, Top
  <2> QED BY <2>1, CallStep, DriverStep, M0Step DEF Next
<1> QED BY <1>1, DriverInit, PTL DEF Spec

-----------------------------------------------------------------------------
(* No operation of the driver disturbs a window in which the M0 protects its *)
(* radio timing.                                                            *)
THEOREM TimingAlwaysProtected == Spec => []TimingIsProtected
<1>1. DriverInv => TimingIsProtected
  BY DEF DriverInv, SemaphoresAgree, TimingIsProtected
<1> QED BY <1>1, DriverInvariant, PTL

(* An operation has the flash, unlocked, and an erase is known to the M0, as *)
(* long as no call is made inside a wait of another one.                    *)
THEOREM OperationAlwaysOwned == Spec => []OperationIsOwned
<1>1. DriverInv => OperationIsOwned
  BY DEF DriverInv, SemaphoresAgree, AloneWhileWorking, OperationIsOwned, At
<1> QED BY <1>1, DriverInvariant, PTL

(* The answer of a call is true of what is done and of what the caller holds, *)
(* and every variable keeps its type.                                       *)
THEOREM AnswersAlwaysTrue == Spec => []AnswersAreTrue
<1>1. DriverInv => TypeOK
  <2> SUFFICES ASSUME DriverInv PROVE TypeOK
    OBVIOUS
  <2>1. ASSUME NEW i \in DOMAIN stack PROVE stack[i] \in Frame
    BY ElementOfSeq, LenProperties DEF DriverInv, CallsNest
  <2> QED BY <2>1 DEF DriverInv, Scalars, CallsNest, TypeOK, Frame
<1>2. DriverInv => OwnershipFollowsAnswer /\ AnswerIsHonest
  BY DEF DriverInv, LeftBehind, OwnershipFollowsAnswer
<1> QED BY <1>1, <1>2, DriverInvariant, PTL DEF AnswersAreTrue
=============================================================================
