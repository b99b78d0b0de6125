-------------------------- MODULE SequencerProofs --------------------------
(***************************************************************************)
(* Machine-checked safety of the sequencer, for any number of tasks,       *)
(* priorities and events and any nesting of waits.                         *)
(***************************************************************************)
EXTENDS Sequencer, WellFoundedInduction, SequenceTheorems, TLAPS

(* A nonempty set of naturals has a least element.                          *)
LEMMA LeastNatural ==
  ASSUME NEW S \in SUBSET Nat, S # {}
  PROVE  \E m \in S : \A x \in S : m <= x
<1> DEFINE Less == {p \in Nat \X Nat : p[1] < p[2]}
<1>1. OpToRel(<, Nat) = Less
  BY Zenon DEF OpToRel
<1>2. IsWellFoundedOn(Less, Nat)
  BY <1>1, NatLessThanWellFounded, Zenon
<1>3. PICK m \in S : \A x \in S : ~(<<x, m>> \in Less)
  BY <1>2, WFMin, Zenon
<1>4. ASSUME NEW x \in S PROVE m <= x
  <2>1. x \in Nat /\ m \in Nat /\ <<x, m>> \notin Less
    BY <1>3
  <2> QED BY <2>1
<1> QED BY <1>4

(* A nonempty set of tasks has a highest bit.                               *)
LEMMA BitPositionIn ==
  ASSUME NEW S \in SUBSET Task, S # {}
  PROVE  BitPosition(S) \in S
<1> DEFINE T == {n \in Nat : NTask - 1 - n \in S}
<1>0. NTask \in Nat
  BY SeqAssumption
<1>1. PICK t \in S : TRUE
  OBVIOUS
<1>2. NTask - 1 - t \in T
  BY <1>0, <1>1 DEF Task
<1>3. T \in SUBSET Nat /\ T # {}
  BY <1>2
<1> HIDE DEF T
<1>4. PICK m \in T : \A n \in T : m <= n
  BY <1>3, LeastNatural
<1>5. NTask - 1 - m \in S /\ m \in Nat
  BY <1>4 DEF T
<1>6. ASSUME NEW u \in S PROVE u <= NTask - 1 - m
  <2>1. NTask - 1 - u \in T
    BY <1>0 DEF T, Task
  <2> QED BY <2>1, <1>0, <1>4, <1>5 DEF Task
<1> QED BY <1>5, <1>6 DEF BitPosition
-----------------------------------------------------------------------------
(* What the three stack operations of the model do.                         *)
LEMMA TopFrame ==
  ASSUME TypeOK, stack # <<>>
  PROVE  /\ Len(stack) \in Nat \ {0}
         /\ Top \in Frame
         /\ Top.kind = "run" => Top \in RunFrame
         /\ Top.kind = "wait" => Top \in WaitFrame
<1>1. stack \in Seq(Frame)
  BY DEF TypeOK
<1>2. Len(stack) \in Nat \ {0}
  BY <1>1, EmptySeq
<1>3. stack[Len(stack)] \in Frame
  BY <1>1, <1>2, ElementOfSeq
<1> QED BY <1>2, <1>3 DEF Top, Frame, RunFrame, WaitFrame

LEMMA GotoFrame ==
  ASSUME TypeOK, stack # <<>>, NEW f \in Frame, Goto(f)
  PROVE  /\ stack' \in Seq(Frame) /\ stack' # <<>>
         /\ Len(stack') = Len(stack)
         /\ Top' = f
         /\ \A i \in 1 .. Len(stack) - 1 : stack'[i] = stack[i]
<1>1. stack \in Seq(Frame) /\ Len(stack) \in 1 .. Len(stack)
  BY TopFrame DEF TypeOK
<1>2. stack' = [stack EXCEPT ![Len(stack)] = f]
  BY DEF Goto
<1>3. /\ stack' \in Seq(Frame)
      /\ Len(stack') = Len(stack)
      /\ \A j \in 1 .. Len(stack) : stack'[j] = IF j = Len(stack) THEN f ELSE stack[j]
  BY <1>1, <1>2, ExceptSeq
<1>4. stack' # <<>>
  BY <1>1, <1>3, EmptySeq
<1> QED BY <1>1, <1>3, <1>4 DEF Top

LEMMA PushFrame ==
  ASSUME TypeOK, NEW f \in Frame, stack' = Append(stack, f)
  PROVE  /\ stack' \in Seq(Frame) /\ stack' # <<>>
         /\ Len(stack) \in Nat /\ Len(stack') = Len(stack) + 1
         /\ Top' = f
         /\ \A i \in 1 .. Len(stack) : stack'[i] = stack[i]
<1>1. stack \in Seq(Frame) /\ Len(stack) \in Nat
  BY LenProperties DEF TypeOK
<1> QED BY <1>1, AppendProperties DEF Top

LEMMA PopFrame ==
  ASSUME TypeOK, stack # <<>>, stack' = Pop
  PROVE  /\ stack' \in Seq(Frame)
         /\ Len(stack) \in Nat \ {0} /\ Len(stack') = Len(stack) - 1
         /\ \A i \in 1 .. Len(stack) - 1 : stack'[i] = stack[i]
<1>1. stack \in Seq(Frame) /\ Len(stack) \in Nat \ {0}
  BY TopFrame DEF TypeOK
<1> DEFINE n == Len(stack) - 1
<1>2. n \in Nat /\ \A i \in 1 .. n : stack[i] \in Frame
  BY <1>1, ElementOfSeq
<1>3. /\ SubSeq(stack, 1, n) \in Seq(Frame)
      /\ Len(SubSeq(stack, 1, n)) = IF 1 <= n THEN n - 1 + 1 ELSE 0
      /\ \A i \in 1 .. n - 1 + 1 : SubSeq(stack, 1, n)[i] = stack[1 + i - 1]
  <2> HIDE DEF n
  <2> QED BY <1>2, SubSeqProperties
<1>4. /\ stack' \in Seq(Frame) /\ Len(stack') = n
      /\ \A i \in 1 .. n : stack'[i] = stack[i]
  <2>1. \A i \in 1 .. n : 1 + i - 1 = i /\ i \in 1 .. n - 1 + 1
    BY <1>2
  <2>2. stack' = SubSeq(stack, 1, n)
    BY DEF Pop
  <2>3. n - 1 + 1 = n /\ (~(1 <= n) => n = 0)
    <3> HIDE DEF n
    <3> QED BY <1>2
  <2>4. Len(stack') = n
    <3> HIDE DEF n
    <3> QED BY <1>2, <1>3, <2>2, <2>3
  <2>5. \A i \in 1 .. n : stack'[i] = stack[i]
    <3> HIDE DEF n
    <3> QED BY <1>3, <2>1, <2>2
  <2> QED BY <1>3, <2>2, <2>4, <2>5
<1> QED BY <1>1, <1>4

(* Frame constructors and updates stay in the frame types.                  *)
LEMMA NewFrames ==
  ASSUME TypeOK
  PROVE  NewRun \in Frame /\ \A e \in Evt : NewWait(e) \in Frame
<1>1. NTask \in Nat /\ NPrio \in Nat \ {0}
  BY SeqAssumption
<1> QED BY <1>1 DEF TypeOK, NewRun, NewWait, Frame, RunFrame, WaitFrame, RunPc, NoTask

LEMMA TypeInit == Init => TypeOK
<1> SUFFICES ASSUME Init PROVE TypeOK
  OBVIOUS
<1>1. NTask \in Nat /\ NTask >= 2
  BY SeqAssumption
<1>2. <<>> \in Seq(Frame)
  BY EmptySeq
<1>3. 0 \in Task
  BY <1>1 DEF Task
<1> QED BY <1>2, <1>3 DEF Init, TypeOK

LEMMA TypeStep == TypeOK /\ [Next]_vars => TypeOK'
<1> SUFFICES ASSUME TypeOK, [Next]_vars PROVE TypeOK'
  OBVIOUS
<1> USE SeqAssumption DEF TypeOK
<1>1. CASE MainRun
  <2>1. NewRun \in Frame
    BY NewFrames
  <2>2. <<NewRun>> \in Seq(Frame)
    BY <2>1
  <2> QED BY <1>1, <2>2 DEF MainRun
<1>2. CASE RunLoad
  <2> DEFINE f == [Top EXCEPT !.pc = "test", !.ltask = taskSet]
  <2>1. f \in Frame
    BY <1>2, TopFrame DEF RunLoad, InRun, Frame, RunFrame, RunPc
  <2>2. stack' \in Seq(Frame)
    BY <1>2, <2>1, GotoFrame DEF RunLoad, InRun
  <2> QED BY <1>2, <2>2 DEF RunLoad, seqVars
<1>3. CASE RunTest
  <2> DEFINE f == [Top EXCEPT !.pc = "scan", !.ltask = {}, !.lmask = taskMask, !.level = 0]
             g == [Top EXCEPT !.pc = "idle", !.ltask = {}]
  <2>1. Top \in RunFrame /\ 0 \in 0 .. NPrio
    BY <1>3, TopFrame DEF RunTest, InRun
  <2>2. f \in Frame /\ g \in Frame
    BY <2>1 DEF Frame, RunFrame, RunPc
  <2>3. Goto(f) \/ Goto(g)
    BY <1>3 DEF RunTest
  <2>4. stack' \in Seq(Frame)
    BY <1>3, <2>2, <2>3, GotoFrame DEF RunTest, InRun
  <2> QED BY <1>3, <2>4 DEF RunTest, NoTask
<1>4. CASE ScanNext
  <2> DEFINE f == [Top EXCEPT !.level = @ + 1]
  <2>1. Top \in RunFrame /\ Top.level \in 0 .. NPrio /\ Top.level < NPrio
    BY <1>4, TopFrame DEF ScanNext, InRun, RunFrame
  <2>2. Top.level + 1 \in 0 .. NPrio
    BY <2>1
  <2>3. f \in Frame
    BY <2>1, <2>2 DEF Frame, RunFrame
  <2>4. stack' \in Seq(Frame)
    BY <1>4, <2>3, GotoFrame DEF ScanNext, InRun
  <2> QED BY <1>4, <2>4 DEF ScanNext, seqVars
<1>5. CASE ScanHit
  <2> DEFINE f == [Top EXCEPT !.pc = "claim", !.lmask = {}, !.level = 0]
             p == Top.level
             candidates == prio[p] \cap Top.lmask \cap superMask
             round == IF rr[p] \cap candidates = {} THEN Task ELSE rr[p]
  <2>0. Top \in RunFrame /\ Top.level \in 0 .. NPrio /\ Top.level < NPrio
    BY <1>5, TopFrame DEF ScanHit, InRun, RunFrame
  <2>1. f \in Frame /\ p \in Prio
    <3>1. 0 \in 0 .. NPrio
      OBVIOUS
    <3>2. f \in RunFrame
      BY <2>0, <3>1 DEF RunFrame, RunPc
    <3> QED BY <2>0, <3>2 DEF Frame, Prio
  <2>2. stack' \in Seq(Frame)
    BY <1>5, <2>1, GotoFrame DEF ScanHit, InRun
  <2>3. candidates \cap round \in SUBSET Task /\ candidates \cap round # {}
    BY <1>5, <2>1 DEF ScanHit
  <2>4. BitPosition(candidates \cap round) \in Task
    BY <2>3, BitPositionIn
  <2>5. rr' \in [Prio -> SUBSET Task]
    BY <1>5, <2>1 DEF ScanHit
  <2> QED BY <1>5, <2>2, <2>4, <2>5 DEF ScanHit
<1>6. CASE Claim
  <2> DEFINE f == [Top EXCEPT !.pc = "exec", !.task = currentTaskIdx]
  <2>1. f \in Frame
    BY <1>6, TopFrame DEF Claim, InRun, Frame, RunFrame, RunPc
  <2>2. stack' \in Seq(Frame)
    BY <1>6, <2>1, GotoFrame DEF Claim, InRun
  <2> QED BY <1>6, <2>2 DEF Claim
<1>7. CASE TaskReturn
  <2> DEFINE f == [Top EXCEPT !.pc = "load", !.task = NoTask]
  <2>1. f \in Frame
    BY <1>7, TopFrame DEF TaskReturn, InRun, Frame, RunFrame, RunPc
  <2>2. stack' \in Seq(Frame)
    BY <1>7, <2>1, GotoFrame DEF TaskReturn, InRun
  <2> QED BY <1>7, <2>2 DEF TaskReturn, seqVars
<1>8. CASE IdleCheck
  <2>1. [Top EXCEPT !.pc = "sleep"] \in Frame /\ [Top EXCEPT !.pc = "post"] \in Frame
    BY <1>8, TopFrame DEF IdleCheck, InRun, Frame, RunFrame, RunPc
  <2>2. stack' \in Seq(Frame)
    BY <1>8, <2>1, GotoFrame DEF IdleCheck, InRun
  <2> QED BY <1>8, <2>2 DEF IdleCheck, seqVars
<1>9. CASE Wake
  <2>1. [Top EXCEPT !.pc = "post"] \in Frame
    BY <1>9, TopFrame DEF Wake, InRun, Frame, RunFrame, RunPc
  <2>2. stack' \in Seq(Frame)
    BY <1>9, <2>1, GotoFrame DEF Wake, InRun
  <2> QED BY <1>9, <2>2 DEF Wake, seqVars
<1>10. CASE RunReturn
  <2>1. stack' \in Seq(Frame)
    BY <1>10, PopFrame DEF RunReturn, InRun
  <2>2. Top.backup \in SUBSET Task
    BY <1>10, TopFrame DEF RunReturn, InRun, RunFrame
  <2> QED BY <1>10, <2>1, <2>2 DEF RunReturn
<1>11. ASSUME NEW e \in Evt, TaskWait(e) \/ StartWait(e) PROVE TypeOK'
  <2>1. EnterWait(e)
    BY <1>11 DEF TaskWait, StartWait
  <2>2. stack' \in Seq(Frame)
    BY <2>1, NewFrames, PushFrame DEF EnterWait
  <2> QED BY <2>1, <2>2 DEF EnterWait
<1>12. CASE WaitIdle
  <2>1. stack' \in Seq(Frame)
    BY <1>12, NewFrames, PushFrame DEF WaitIdle
  <2> QED BY <1>12, <2>1 DEF WaitIdle, EvtIdleSets
<1>13. CASE WaitReturn
  <2>1. stack' \in Seq(Frame)
    BY <1>13, PopFrame DEF WaitReturn, InWait
  <2>2. Top.idx \in Task \cup {NoTask} /\ Top.waited \in SUBSET Evt
    BY <1>13, TopFrame DEF WaitReturn, InWait, WaitFrame
  <2> QED BY <1>13, <2>1, <2>2 DEF WaitReturn
<1>14. CASE Raise
  BY <1>14 DEF Raise, seqVars
<1>15. CASE Service
  <2>1. irq' \in BOOLEAN /\ Call
    BY <1>15 DEF Service, Caller
  <2>2. ASSUME NEW post \in Posts, SetTask(post[1], post[2]) PROVE TypeOK'
    <3>1. post[1] \in Task /\ post[2] \in Prio
      OBVIOUS
    <3> QED BY <2>1, <2>2, <3>1 DEF SetTask
  <2>3. ASSUME NEW e \in Signals, SetEvt(e) PROVE TypeOK'
    BY <2>1, <2>3 DEF SetEvt
  <2>4. ASSUME NEW e \in Clears, ClrEvt(e) PROVE TypeOK'
    BY <2>1, <2>4 DEF ClrEvt
  <2>5. ASSUME NEW t \in Pausable, PauseTask(t) \/ ResumeTask(t) PROVE TypeOK'
    BY <2>1, <2>5 DEF PauseTask, ResumeTask
  <2> QED BY <2>1, <2>2, <2>3, <2>4, <2>5 DEF Call
<1>16. CASE UNCHANGED vars
  BY <1>16 DEF vars, seqVars
<1> QED
  BY <1>1, <1>2, <1>3, <1>4, <1>5, <1>6, <1>7, <1>8, <1>9, <1>10, <1>11, <1>12,
     <1>13, <1>14, <1>15, <1>16 DEF Next, Thread

(* Every variable keeps its type, for any nesting of runs and waits.        *)
THEOREM TypeCorrect == Spec => []TypeOK
<1> QED BY TypeInit, TypeStep, PTL DEF Spec
-----------------------------------------------------------------------------
(* A step either leaves the stack alone, or rewrites the running frame, or  *)
(* pushes a frame, or pops one.                                             *)
LEMMA Popped ==
  ASSUME TypeOK, OthersExecute, stack # <<>>, stack' = Pop
  PROVE  /\ OthersExecute'
         /\ \A pc \in RunPc : InRun(pc)' => pc = "exec"
<1>1. /\ stack' \in Seq(Frame)
      /\ Len(stack) \in Nat \ {0} /\ Len(stack') = Len(stack) - 1
      /\ \A i \in 1 .. Len(stack) - 1 : stack'[i] = stack[i]
  BY PopFrame
<1>2. OthersExecute'
  BY <1>1 DEF OthersExecute, RunFrames
<1>3. ASSUME NEW pc \in RunPc, InRun(pc)' PROVE pc = "exec"
  <2>1. Len(stack') \in 1 .. Len(stack) - 1
    BY <1>1, <1>3, EmptySeq DEF InRun
  <2>2. Top' = stack[Len(stack')]
    BY <1>1, <2>1 DEF Top
  <2>3. Len(stack') \in RunFrames /\ Len(stack') < Len(stack)
    BY <1>1, <1>3, <2>1, <2>2 DEF RunFrames, InRun
  <2> QED BY <1>3, <2>2, <2>3 DEF OthersExecute, InRun
<1> QED BY <1>2, <1>3

LEMMA Pushed ==
  ASSUME TypeOK, OthersExecute, InRun("exec") \/ InWait \/ stack = <<>>,
         NEW f \in Frame, stack' = Append(stack, f)
  PROVE  /\ OthersExecute'
         /\ Top' = f /\ stack' # <<>>
<1>1. /\ stack' \in Seq(Frame) /\ stack' # <<>>
      /\ Len(stack) \in Nat /\ Len(stack') = Len(stack) + 1
      /\ Top' = f
      /\ \A i \in 1 .. Len(stack) : stack'[i] = stack[i]
  BY PushFrame
<1>2. ASSUME NEW i \in RunFrames', i < Len(stack') PROVE stack'[i].pc = "exec"
  <2>1. i \in 1 .. Len(stack) /\ stack'[i] = stack[i] /\ stack[i].kind = "run"
    BY <1>1, <1>2 DEF RunFrames
  <2>2. CASE i < Len(stack)
    BY <2>1, <2>2 DEF OthersExecute, RunFrames
  <2>3. CASE i = Len(stack)
    BY <1>1, <2>1, <2>3 DEF InRun, InWait, Top
  <2> QED BY <1>1, <2>1, <2>2, <2>3
<1> QED BY <1>1, <1>2 DEF OthersExecute

LEMMA Rewritten ==
  ASSUME TypeOK, OthersExecute, stack # <<>>, NEW f \in Frame, Goto(f)
  PROVE  /\ OthersExecute'
         /\ Top' = f /\ stack' # <<>>
<1>1. /\ stack' \in Seq(Frame) /\ stack' # <<>>
      /\ Len(stack') = Len(stack)
      /\ Top' = f
      /\ \A i \in 1 .. Len(stack) - 1 : stack'[i] = stack[i]
  BY GotoFrame
<1>2. Len(stack) \in Nat
  BY TopFrame
<1> QED BY <1>1, <1>2 DEF OthersExecute, RunFrames

LEMMA ScanInit == Init => ScanInv
<1> SUFFICES ASSUME Init PROVE ScanInv
  OBVIOUS
<1>1. Len(stack) = 0 /\ stack = <<>>
  BY DEF Init
<1>2. \A p \in Prio : prio[p] = {}
  BY DEF Init
<1> QED
  BY <1>1, <1>2 DEF Init, ScanInv, PriorityMasksAgree, OthersExecute, RunFrames,
     SnapshotPending, ScanFinds, SleepsOnlyWhenIdle, InRun

LEMMA ScanStep == TypeOK /\ ScanInv /\ [Next]_vars => ScanInv'
<1> SUFFICES ASSUME TypeOK, ScanInv, [Next]_vars PROVE ScanInv'
  OBVIOUS
<1> USE DEF ScanInv
<1>t. TypeOK'
  BY TypeStep
<1> DEFINE Quiet == ~InRun("test")' /\ ~InRun("scan")' /\ ~InRun("sleep")'
<1>q. ASSUME Quiet, OthersExecute', PriorityMasksAgree' PROVE ScanInv'
  BY <1>q DEF SnapshotPending, ScanFinds, SleepsOnlyWhenIdle
<1>s. ASSUME UNCHANGED <<taskSet, prio>> PROVE PriorityMasksAgree'
  BY <1>s DEF PriorityMasksAgree
<1>p. ASSUME stack # <<>>, stack' = Pop PROVE Quiet /\ OthersExecute'
  BY <1>p, Popped DEF RunPc
<1>1. CASE MainRun
  <2>1. NewRun \in Frame /\ NewRun.pc = "load" /\ NewRun.kind = "run"
    BY NewFrames DEF NewRun
  <2>2. Len(stack') = 1 /\ stack'[1] = NewRun
    BY <1>1 DEF MainRun
  <2>3. Quiet /\ OthersExecute'
    BY <2>1, <2>2 DEF InRun, Top, OthersExecute, RunFrames
  <2> QED BY <1>1, <1>q, <1>s, <2>3 DEF MainRun
<1>2. CASE RunLoad
  <2> DEFINE f == [Top EXCEPT !.pc = "test", !.ltask = taskSet]
  <2>1. Top \in RunFrame /\ stack # <<>>
    BY <1>2, TopFrame DEF RunLoad, InRun
  <2>2. f \in Frame /\ f.pc = "test" /\ f.ltask = taskSet
    BY <2>1 DEF Frame, RunFrame, RunPc, TypeOK
  <2>3. OthersExecute' /\ Top' = f
    BY <1>2, <2>1, <2>2, Rewritten DEF RunLoad
  <2>4. UNCHANGED <<taskSet, prio>>
    BY <1>2 DEF RunLoad, seqVars
  <2> QED BY <1>s, <2>2, <2>3, <2>4 DEF InRun, SnapshotPending, ScanFinds, SleepsOnlyWhenIdle
<1>3. CASE RunTest
  <2> DEFINE f == [Top EXCEPT !.pc = "scan", !.ltask = {}, !.lmask = taskMask, !.level = 0]
             g == [Top EXCEPT !.pc = "idle", !.ltask = {}]
             work == Top.ltask \cap taskMask \cap superMask # {} /\ evtSet \cap evtWaited = {}
  <2>1. Top \in RunFrame /\ stack # <<>> /\ InRun("test")
    BY <1>3, TopFrame DEF RunTest, InRun
  <2>0. 0 \in 0 .. NPrio
    BY SeqAssumption
  <2>2. /\ f \in Frame /\ f.pc = "scan" /\ f.lmask = taskMask /\ f.level = 0
        /\ g \in Frame /\ g.pc = "idle"
    BY <2>0, <2>1 DEF Frame, RunFrame, RunPc, TypeOK
  <2>3. PriorityMasksAgree' /\ UNCHANGED <<taskSet, prio, superMask>>
    BY <1>3, <1>s DEF RunTest
  <2>4. CASE work
    <3>1. OthersExecute' /\ Top' = f
      BY <1>3, <2>1, <2>2, <2>4, Rewritten DEF RunTest
    <3>2. PICK t \in Task : t \in taskSet /\ t \in taskMask /\ t \in superMask
      BY <2>1, <2>4 DEF SnapshotPending, TypeOK
    <3>3. PICK p \in Prio : t \in prio[p]
      BY <3>2 DEF PriorityMasksAgree
    <3>4. p >= 0 /\ prio'[p] \cap f.lmask \cap superMask' # {}
      BY <2>2, <2>3, <3>2, <3>3, SeqAssumption DEF Prio
    <3> QED BY <2>2, <2>3, <3>1, <3>4 DEF InRun, SnapshotPending, ScanFinds, SleepsOnlyWhenIdle
  <2>5. CASE ~work
    <3>1. OthersExecute' /\ Top' = g
      BY <1>3, <2>1, <2>2, <2>5, Rewritten DEF RunTest
    <3> QED BY <1>q, <2>2, <2>3, <3>1 DEF InRun
  <2> QED BY <2>4, <2>5
<1>4. CASE ScanNext
  <2> DEFINE f == [Top EXCEPT !.level = @ + 1]
  <2>1. Top \in RunFrame /\ stack # <<>> /\ Top.level \in 0 .. NPrio /\ Top.level < NPrio
    BY <1>4, TopFrame DEF ScanNext, InRun, RunFrame
  <2>2. Top.level + 1 \in 0 .. NPrio
    BY <2>1, SeqAssumption
  <2>3. f \in Frame /\ f.pc = Top.pc /\ f.lmask = Top.lmask /\ f.level = Top.level + 1
    BY <2>1, <2>2 DEF Frame, RunFrame
  <2>4. OthersExecute' /\ Top' = f /\ Top.pc = "scan"
    BY <1>4, <2>1, <2>3, Rewritten DEF ScanNext, InRun
  <2>5. PriorityMasksAgree' /\ UNCHANGED <<prio, superMask>>
    BY <1>4, <1>s DEF ScanNext, seqVars
  <2>6. PICK p \in Prio : Top.level <= p /\ prio[p] \cap Top.lmask \cap superMask # {}
    BY <1>4 DEF ScanNext, ScanFinds
  <2>7. p # Top.level
    BY <1>4, <2>6 DEF ScanNext
  <2>8. Top.level + 1 <= p
    BY <2>1, <2>6, <2>7, SeqAssumption DEF Prio
  <2> QED BY <2>3, <2>4, <2>5, <2>6, <2>8 DEF InRun, SnapshotPending, ScanFinds, SleepsOnlyWhenIdle
<1>5. CASE ScanHit
  <2> DEFINE f == [Top EXCEPT !.pc = "claim", !.lmask = {}, !.level = 0]
  <2>1. Top \in RunFrame /\ stack # <<>>
    BY <1>5, TopFrame DEF ScanHit, InRun
  <2>0. 0 \in 0 .. NPrio
    BY SeqAssumption
  <2>2. f \in Frame /\ f.pc = "claim"
    BY <2>0, <2>1 DEF Frame, RunFrame, RunPc
  <2>3. OthersExecute' /\ Top' = f
    BY <1>5, <2>1, <2>2, Rewritten DEF ScanHit
  <2> QED BY <1>5, <1>q, <1>s, <2>2, <2>3 DEF InRun, ScanHit
<1>6. CASE Claim
  <2> DEFINE f == [Top EXCEPT !.pc = "exec", !.task = currentTaskIdx]
  <2>1. Top \in RunFrame /\ stack # <<>>
    BY <1>6, TopFrame DEF Claim, InRun
  <2>2. f \in Frame /\ f.pc = "exec"
    BY <2>1 DEF Frame, RunFrame, RunPc, TypeOK
  <2>3. OthersExecute' /\ Top' = f
    BY <1>6, <2>1, <2>2, Rewritten DEF Claim
  <2>4. PriorityMasksAgree'
    BY <1>6 DEF Claim, PriorityMasksAgree
  <2> QED BY <1>q, <2>2, <2>3, <2>4 DEF InRun
<1>7. CASE TaskReturn
  <2> DEFINE f == [Top EXCEPT !.pc = "load", !.task = NoTask]
  <2>1. Top \in RunFrame /\ stack # <<>>
    BY <1>7, TopFrame DEF TaskReturn, InRun
  <2>2. f \in Frame /\ f.pc = "load"
    BY <2>1 DEF Frame, RunFrame, RunPc
  <2>3. OthersExecute' /\ Top' = f
    BY <1>7, <2>1, <2>2, Rewritten DEF TaskReturn
  <2> QED BY <1>7, <1>q, <1>s, <2>2, <2>3 DEF InRun, TaskReturn, seqVars
<1>8. CASE IdleCheck
  <2> DEFINE asleep == taskSet \cap taskMask \cap superMask = {} /\ evtSet \cap evtWaited = {}
             f == [Top EXCEPT !.pc = IF asleep THEN "sleep" ELSE "post"]
  <2>1. Top \in RunFrame /\ stack # <<>>
    BY <1>8, TopFrame DEF IdleCheck, InRun
  <2>2. f \in Frame /\ f.pc = IF asleep THEN "sleep" ELSE "post"
    BY <2>1 DEF Frame, RunFrame, RunPc
  <2>3. Goto(f) /\ UNCHANGED seqVars
    BY <1>8 DEF IdleCheck
  <2>4. OthersExecute' /\ Top' = f /\ PriorityMasksAgree'
    BY <2>1, <2>2, <2>3, <1>s, Rewritten DEF seqVars
  <2>5. asleep' = asleep
    BY <2>3 DEF seqVars
  <2> QED BY <2>2, <2>4, <2>5 DEF InRun, SnapshotPending, ScanFinds, SleepsOnlyWhenIdle
<1>9. CASE Wake
  <2> DEFINE f == [Top EXCEPT !.pc = "post"]
  <2>1. Top \in RunFrame /\ stack # <<>>
    BY <1>9, TopFrame DEF Wake, InRun
  <2>2. f \in Frame /\ f.pc = "post"
    BY <2>1 DEF Frame, RunFrame, RunPc
  <2>3. OthersExecute' /\ Top' = f
    BY <1>9, <2>1, <2>2, Rewritten DEF Wake
  <2> QED BY <1>9, <1>q, <1>s, <2>2, <2>3 DEF InRun, Wake, seqVars
<1>10. CASE RunReturn
  BY <1>10, <1>p, <1>q, <1>s DEF RunReturn, InRun
<1>11. ASSUME NEW e \in Evt, TaskWait(e) \/ StartWait(e) PROVE ScanInv'
  <2>1. /\ NewWait(e) \in Frame /\ NewWait(e).kind = "wait"
        /\ EnterWait(e) /\ (InRun("exec") \/ stack = <<>>)
    BY <1>11, NewFrames DEF TaskWait, StartWait, NewWait
  <2>2. OthersExecute' /\ Top' = NewWait(e)
    BY <2>1, Pushed DEF EnterWait
  <2> QED BY <1>q, <1>s, <2>1, <2>2 DEF InRun, EnterWait
<1>12. CASE WaitIdle
  <2>1. NewRun \in Frame /\ NewRun.pc = "load"
    BY NewFrames DEF NewRun
  <2>2. OthersExecute' /\ Top' = NewRun
    BY <1>12, <2>1, Pushed DEF WaitIdle
  <2> QED BY <1>12, <1>q, <1>s, <2>1, <2>2 DEF InRun, WaitIdle
<1>13. CASE WaitReturn
  BY <1>13, <1>p, <1>q, <1>s DEF WaitReturn, InWait
<1>14. CASE Raise
  BY <1>14, <1>s DEF Raise, seqVars, InRun, Top, OthersExecute, RunFrames,
     SnapshotPending, ScanFinds, SleepsOnlyWhenIdle
<1>15. CASE Service
  <2>1. ~InRun("sleep") /\ Call
    BY <1>15 DEF Service, Caller, InRun
  <2>2. ASSUME UNCHANGED <<stack, superMask>>, taskSet \subseteq taskSet',
               \A p \in Prio : prio[p] \subseteq prio'[p], PriorityMasksAgree'
        PROVE  ScanInv'
    <3>1. OthersExecute' /\ SnapshotPending'
      BY <2>2 DEF OthersExecute, RunFrames, SnapshotPending, InRun, Top
    <3>2. ScanFinds'
      BY <2>2 DEF ScanFinds, InRun, Top
    <3>3. SleepsOnlyWhenIdle'
      BY <2>1, <2>2 DEF SleepsOnlyWhenIdle, InRun, Top
    <3> QED BY <2>2, <3>1, <3>2, <3>3
  <2>3. ASSUME NEW post \in Posts, SetTask(post[1], post[2]) PROVE ScanInv'
    <3>1. post[1] \in Task /\ post[2] \in Prio
      BY SeqAssumption
    <3>2. \A p \in Prio : prio'[p] = IF p = post[2] THEN prio[p] \cup {post[1]} ELSE prio[p]
      BY <2>3, <3>1 DEF SetTask, TypeOK
    <3>3. PriorityMasksAgree'
      BY <2>3, <3>1, <3>2 DEF SetTask, PriorityMasksAgree
    <3> QED BY <2>2, <2>3, <3>2, <3>3 DEF SetTask
  <2>4. ASSUME UNCHANGED <<taskSet, prio, superMask, stack>> PROVE ScanInv'
    BY <2>2, <2>4, <1>s
  <2>5. ASSUME NEW e \in Evt, SetEvt(e) \/ ClrEvt(e) PROVE ScanInv'
    BY <2>4, <2>5 DEF SetEvt, ClrEvt
  <2>6. ASSUME NEW t \in Task, PauseTask(t) \/ ResumeTask(t) PROVE ScanInv'
    BY <2>4, <2>6 DEF PauseTask, ResumeTask
  <2> QED BY <2>1, <2>3, <2>5, <2>6, SeqAssumption DEF Call
<1>16. CASE UNCHANGED vars
  BY <1>16, <1>s DEF vars, seqVars, InRun, Top, OthersExecute, RunFrames,
     SnapshotPending, ScanFinds, SleepsOnlyWhenIdle
<1> QED
  BY <1>1, <1>2, <1>3, <1>4, <1>5, <1>6, <1>7, <1>8, <1>9, <1>10, <1>11, <1>12,
     <1>13, <1>14, <1>15, <1>16 DEF Next, Thread

LEMMA ScanCorrect == Spec => []ScanInv
<1> QED BY TypeCorrect, ScanInit, ScanStep, PTL DEF Spec

(* The pending set and the priority masks always hold the same tasks.       *)
THEOREM PriorityMasksCorrect == Spec => []PriorityMasksAgree
<1>1. ScanInv => PriorityMasksAgree
  BY DEF ScanInv
<1> QED BY <1>1, ScanCorrect, PTL

(* The scan of UTIL_SEQ_Run never leaves the priority array.                *)
THEOREM ScanStaysInBounds == Spec => []ScanInBounds
<1>1. TypeOK /\ ScanInv => ScanInBounds
  <2> SUFFICES ASSUME TypeOK, ScanInv, InRun("scan") PROVE Top.level < NPrio
    BY DEF ScanInBounds
  <2>1. PICK p \in Prio : Top.level <= p
    BY DEF ScanInv, ScanFinds
  <2>2. Top.level \in 0 .. NPrio
    BY TopFrame DEF InRun, RunFrame
  <2> QED BY <2>1, <2>2, SeqAssumption DEF Prio
<1> QED BY <1>1, TypeCorrect, ScanCorrect, PTL

(* The core never sleeps on a schedulable task or on a waited event.        *)
THEOREM NoLostWakeUp == Spec => []SleepsOnlyWhenIdle
<1>1. ScanInv => SleepsOnlyWhenIdle
  BY DEF ScanInv
<1> QED BY <1>1, ScanCorrect, PTL
-----------------------------------------------------------------------------
(* The nesting of runs and waits.                                           *)

(* What a step does to it: nothing, or it rewrites the running frame, calls *)
(* UTIL_SEQ_Run or UTIL_SEQ_WaitEvt, or returns from one of them.           *)
KeepsNesting == UNCHANGED <<stack, superMask, evtWaited, currentTaskIdx>>

RunsOn(f) ==
  /\ stack # <<>> /\ Top \in RunFrame /\ f \in RunFrame /\ Goto(f)
  /\ f.backup = Top.backup
  /\ f.pc = "exec" => currentTaskIdx' = f.task
  /\ f.pc \in {"scan", "claim", "exec"} =>
       Top.pc \in {"scan", "claim"} \/ evtSet \cap evtWaited = {}
  /\ UNCHANGED <<superMask, evtWaited, evtSet>>

CallsRun ==
  /\ stack = <<>> \/ InWait
  /\ stack' = Append(stack, NewRun)
  /\ superMask' \subseteq superMask
  /\ InWait => EvtIdleSets(Top) \subseteq evtSet'
  /\ UNCHANGED <<evtWaited, currentTaskIdx>>

CallsWait(e) ==
  /\ stack = <<>> \/ InRun("exec")
  /\ EnterWait(e)

LEMMA StepKinds ==
  ASSUME TypeOK, [Next]_vars
  PROVE  \/ KeepsNesting
         \/ \E f \in RunFrame : RunsOn(f)
         \/ CallsRun
         \/ \E e \in Evt : CallsWait(e)
         \/ RunReturn \/ WaitReturn
<1>t. InWait \/ (\E pc \in RunPc : InRun(pc)) => stack # <<>> /\ Top \in Frame
  BY TopFrame DEF InWait, InRun
<1>r. \A pc \in RunPc : InRun(pc) => Top \in RunFrame /\ stack # <<>> /\ Top.pc = pc
  BY TopFrame DEF InRun
<1>0. 0 \in 0 .. NPrio
  BY SeqAssumption
<1>1. CASE MainRun
  <2>1. stack' = Append(stack, NewRun)
    BY <1>1 DEF MainRun
  <2> QED BY <1>1, <2>1 DEF MainRun, CallsRun, InWait
<1>2. CASE RunLoad
  <2> DEFINE f == [Top EXCEPT !.pc = "test", !.ltask = taskSet]
  <2>1. f \in RunFrame /\ f.pc = "test" /\ f.backup = Top.backup /\ Top \in RunFrame
    BY <1>2, <1>r DEF RunLoad, RunFrame, RunPc, TypeOK
  <2>2. RunsOn(f)
    BY <1>2, <1>r, <2>1 DEF RunLoad, RunsOn, seqVars, RunPc
  <2> QED BY <2>1, <2>2
<1>3. CASE RunTest
  <2> DEFINE f == [Top EXCEPT !.pc = "scan", !.ltask = {}, !.lmask = taskMask, !.level = 0]
             g == [Top EXCEPT !.pc = "idle", !.ltask = {}]
  <2>0. Top \in RunFrame /\ stack # <<>>
    BY <1>3, <1>r DEF RunTest, RunPc
  <2>1. /\ f \in RunFrame /\ f.pc = "scan" /\ f.backup = Top.backup
        /\ g \in RunFrame /\ g.pc = "idle" /\ g.backup = Top.backup
    BY <2>0, <1>0 DEF RunFrame, RunPc, TypeOK
  <2>2. RunsOn(f) \/ RunsOn(g)
    BY <1>3, <2>0, <2>1 DEF RunTest, RunsOn
  <2> QED BY <2>1, <2>2
<1>4. CASE ScanNext
  <2> DEFINE f == [Top EXCEPT !.level = @ + 1]
  <2>0. Top \in RunFrame /\ stack # <<>> /\ Top.pc = "scan" /\ Top.level + 1 \in 0 .. NPrio
    BY <1>4, <1>r, SeqAssumption DEF ScanNext, RunPc, RunFrame
  <2>1. f \in RunFrame /\ f.pc = "scan" /\ f.backup = Top.backup
    BY <2>0 DEF RunFrame
  <2>2. RunsOn(f)
    BY <1>4, <2>0, <2>1 DEF ScanNext, RunsOn, seqVars
  <2> QED BY <2>1, <2>2
<1>5. CASE ScanHit
  <2> DEFINE f == [Top EXCEPT !.pc = "claim", !.lmask = {}, !.level = 0]
  <2>0. Top \in RunFrame /\ stack # <<>> /\ Top.pc = "scan"
    BY <1>5, <1>r DEF ScanHit, RunPc
  <2>1. f \in RunFrame /\ f.pc = "claim" /\ f.backup = Top.backup
    BY <2>0, <1>0 DEF RunFrame, RunPc
  <2>2. RunsOn(f)
    BY <1>5, <2>0, <2>1 DEF ScanHit, RunsOn
  <2> QED BY <2>1, <2>2
<1>6. CASE Claim
  <2> DEFINE f == [Top EXCEPT !.pc = "exec", !.task = currentTaskIdx]
  <2>0. Top \in RunFrame /\ stack # <<>> /\ Top.pc = "claim"
    BY <1>6, <1>r DEF Claim, RunPc
  <2>1. f \in RunFrame /\ f.pc = "exec" /\ f.backup = Top.backup /\ f.task = currentTaskIdx
    BY <2>0 DEF RunFrame, RunPc, TypeOK
  <2>2. RunsOn(f)
    BY <1>6, <2>0, <2>1 DEF Claim, RunsOn
  <2> QED BY <2>1, <2>2
<1>7. CASE TaskReturn
  <2> DEFINE f == [Top EXCEPT !.pc = "load", !.task = NoTask]
  <2>0. Top \in RunFrame /\ stack # <<>>
    BY <1>7, <1>r DEF TaskReturn, RunPc
  <2>1. f \in RunFrame /\ f.pc = "load" /\ f.backup = Top.backup
    BY <2>0 DEF RunFrame, RunPc
  <2>2. RunsOn(f)
    BY <1>7, <2>0, <2>1 DEF TaskReturn, RunsOn, seqVars
  <2> QED BY <2>1, <2>2
<1>8. CASE IdleCheck
  <2> DEFINE f == [Top EXCEPT !.pc = IF /\ taskSet \cap taskMask \cap superMask = {}
                                       /\ evtSet \cap evtWaited = {}
                                     THEN "sleep" ELSE "post"]
  <2>0. Top \in RunFrame /\ stack # <<>>
    BY <1>8, <1>r DEF IdleCheck, RunPc
  <2>1. f \in RunFrame /\ f.pc \in {"sleep", "post"} /\ f.backup = Top.backup
    BY <2>0 DEF RunFrame, RunPc
  <2>2. RunsOn(f)
    BY <1>8, <2>0, <2>1 DEF IdleCheck, RunsOn, seqVars
  <2> QED BY <2>1, <2>2
<1>9. CASE Wake
  <2> DEFINE f == [Top EXCEPT !.pc = "post"]
  <2>0. Top \in RunFrame /\ stack # <<>>
    BY <1>9, <1>r DEF Wake, RunPc
  <2>1. f \in RunFrame /\ f.pc = "post" /\ f.backup = Top.backup
    BY <2>0 DEF RunFrame, RunPc
  <2>2. RunsOn(f)
    BY <1>9, <2>0, <2>1 DEF Wake, RunsOn, seqVars
  <2> QED BY <2>1, <2>2
<1>11. ASSUME NEW e \in Evt, TaskWait(e) \/ StartWait(e) PROVE CallsWait(e)
  BY <1>11 DEF TaskWait, StartWait, CallsWait
<1>12. CASE WaitIdle
  BY <1>12 DEF WaitIdle, CallsRun
<1>14. CASE Raise \/ Service \/ UNCHANGED vars
  BY <1>14 DEF Raise, Service, Call, SetTask, SetEvt, ClrEvt, PauseTask, ResumeTask,
     vars, seqVars, KeepsNesting
<1> QED
  BY <1>1, <1>2, <1>3, <1>4, <1>5, <1>6, <1>7, <1>8, <1>9, <1>11, <1>12, <1>14 DEF Next, Thread

(* The event of the innermost wait among the first n frames of a stack.     *)
Waited(s, n) ==
  LET S == {i \in 1 .. Len(s) : s[i].kind = "wait" /\ i <= n}
  IN IF S = {} THEN {} ELSE {s[Highest(S)].evt}

LEMMA HighestIn ==
  ASSUME NEW n \in Nat, NEW S \in SUBSET (1 .. n), S # {}
  PROVE  Highest(S) \in S /\ \A j \in S : j <= Highest(S)
<1> DEFINE T == {m \in Nat : n - m \in S}
<1>1. PICK t \in S : TRUE
  OBVIOUS
<1>2. n - t \in Nat /\ n - (n - t) = t
  BY <1>1
<1>3. n - t \in T
  BY <1>1, <1>2
<1>4. T \in SUBSET Nat /\ T # {}
  BY <1>3
<1> HIDE DEF T
<1>5. PICK m \in T : \A k \in T : m <= k
  BY <1>4, LeastNatural
<1>6. n - m \in S /\ m \in Nat
  BY <1>5 DEF T
<1>7. ASSUME NEW j \in S PROVE j <= n - m
  <2>1. n - j \in Nat /\ n - (n - j) = j
    OBVIOUS
  <2>2. n - j \in T
    BY <2>1 DEF T
  <2> QED BY <1>5, <1>6, <2>1, <2>2
<1> QED BY <1>6, <1>7 DEF Highest

LEMMA WaitedIsEvt ==
  ASSUME NEW s \in Seq(Frame), NEW n \in 1 .. Len(s), s[n].kind = "wait"
  PROVE  Waited(s, n) = {s[n].evt}
<1> DEFINE S == {i \in 1 .. Len(s) : s[i].kind = "wait" /\ i <= n}
<1>1. n \in S /\ S \in SUBSET (1 .. Len(s)) /\ Len(s) \in Nat
  BY LenProperties
<1>2. Highest(S) \in S /\ \A j \in S : j <= Highest(S)
  BY <1>1, HighestIn
<1>3. Highest(S) = n
  BY <1>1, <1>2
<1> QED BY <1>1, <1>3 DEF Waited

LEMMA WaitedIsOuter ==
  ASSUME NEW s \in Seq(Frame), NEW n \in 1 .. Len(s), s[n].kind # "wait"
  PROVE  Waited(s, n) = Waited(s, n - 1)
<1>1. Len(s) \in Nat
  BY LenProperties
<1>2. ASSUME NEW i \in 1 .. Len(s), s[i].kind = "wait" PROVE i <= n <=> i <= n - 1
  BY <1>1, <1>2
<1>3. {i \in 1 .. Len(s) : s[i].kind = "wait" /\ i <= n}
        = {i \in 1 .. Len(s) : s[i].kind = "wait" /\ i <= n - 1}
  BY <1>2
<1> QED BY <1>3 DEF Waited

LEMMA WaitedSame ==
  ASSUME NEW s \in Seq(Frame), NEW r \in Seq(Frame), NEW n \in Nat,
         n <= Len(s), n <= Len(r),
         \A i \in 1 .. n : /\ r[i].kind = s[i].kind
                           /\ s[i].kind = "wait" => r[i].evt = s[i].evt
  PROVE  Waited(r, n) = Waited(s, n)
<1> DEFINE S == {i \in 1 .. Len(s) : s[i].kind = "wait" /\ i <= n}
           R == {i \in 1 .. Len(r) : r[i].kind = "wait" /\ i <= n}
<1>1. Len(s) \in Nat /\ Len(r) \in Nat
  BY LenProperties
<1>2. \A i : i \in 1 .. Len(s) /\ i <= n <=> i \in 1 .. n
  BY <1>1
<1>3. \A i : i \in 1 .. Len(r) /\ i <= n <=> i \in 1 .. n
  BY <1>1
<1>4. R = S /\ S \in SUBSET (1 .. n)
  BY <1>2, <1>3
<1>5. S # {} => Highest(S) \in S
  BY <1>4, HighestIn
<1>6. S # {} => r[Highest(S)].evt = s[Highest(S)].evt
  BY <1>4, <1>5
<1> QED BY <1>4, <1>6 DEF Waited

LEMMA WaitedIsBelow == \A n : WaitedBelow(n) = Waited(stack, n)
<1>1. \A n : {i \in WaitFrames : i <= n} = {i \in 1 .. Len(stack) : stack[i].kind = "wait" /\ i <= n}
  BY DEF WaitFrames
<1> QED BY <1>1 DEF WaitedBelow, Waited
-----------------------------------------------------------------------------
(* The mask: the outermost run was called under the whole mask.             *)
OutermostIsWhole ==
  \A i \in RunFrames : (\A j \in RunFrames : i <= j) => stack[i].backup = Task

MaskInv == MasksNest /\ OutermostIsWhole

LEMMA MaskStep ==
  ASSUME TypeOK, MaskInv, [Next]_vars
  PROVE  MaskInv'
<1> USE DEF MaskInv
<1>1. CASE KeepsNesting
  BY <1>1 DEF KeepsNesting, MasksNest, OutermostIsWhole, RunFrames
<1>2. ASSUME NEW f \in RunFrame, RunsOn(f) PROVE MaskInv'
  <2>1. /\ Len(stack') = Len(stack) /\ Len(stack) \in Nat \ {0}
        /\ Top' = f /\ \A i \in 1 .. Len(stack) - 1 : stack'[i] = stack[i]
    BY <1>2, GotoFrame, TopFrame DEF RunsOn, Frame
  <2>2. \A i \in 1 .. Len(stack) : i \in 1 .. Len(stack) - 1 \/ i = Len(stack)
    BY <2>1
  <2>3. \A i \in 1 .. Len(stack) :
          stack'[i].kind = stack[i].kind /\ (stack[i].kind = "run" => stack'[i].backup = stack[i].backup)
    BY <1>2, <2>1, <2>2 DEF RunsOn, Top, RunFrame
  <2>4. RunFrames' = RunFrames
    BY <2>1, <2>3 DEF RunFrames
  <2> QED BY <1>2, <2>3, <2>4 DEF RunsOn, MasksNest, OutermostIsWhole, RunFrames
<1>3. CASE CallsRun
  <2>1. /\ Len(stack) \in Nat /\ Len(stack') = Len(stack) + 1
        /\ stack'[Len(stack')] = NewRun
        /\ \A i \in 1 .. Len(stack) : stack'[i] = stack[i]
    BY <1>3, NewFrames, PushFrame DEF CallsRun, Top
  <2>2. NewRun.kind = "run" /\ NewRun.backup = superMask
    BY DEF NewRun
  <2>3. \A i : i \in 1 .. Len(stack') <=> i \in 1 .. Len(stack) \/ i = Len(stack) + 1
    BY <2>1
  <2>4. RunFrames' = RunFrames \cup {Len(stack) + 1}
    BY <2>1, <2>2, <2>3 DEF RunFrames
  <2>5. \A i \in RunFrames : i < Len(stack) + 1 /\ stack'[i] = stack[i] /\ i \in Nat
    BY <2>1 DEF RunFrames
  <2>6. MasksNest'
    <3>1. ASSUME NEW i \in RunFrames' PROVE superMask' \subseteq stack'[i].backup
      BY <1>3, <2>1, <2>2, <2>4, <2>5 DEF CallsRun, MasksNest
    <3>2. ASSUME NEW i \in RunFrames', NEW j \in RunFrames', i < j
          PROVE  stack'[j].backup \subseteq stack'[i].backup
      <4>1. i \in RunFrames
        BY <2>1, <2>4, <2>5, <3>2
      <4>2. CASE j \in RunFrames
        BY <2>5, <3>2, <4>1, <4>2 DEF MasksNest
      <4>3. CASE j = Len(stack) + 1
        BY <2>1, <2>2, <2>5, <4>1, <4>3 DEF MasksNest
      <4> QED BY <2>4, <4>2, <4>3
    <3> QED BY <2>4, <3>1, <3>2 DEF MasksNest
  <2>7. OutermostIsWhole'
    BY <2>1, <2>2, <2>4, <2>5 DEF MasksNest, OutermostIsWhole
  <2> QED BY <2>6, <2>7
<1>4. ASSUME NEW e \in Evt, CallsWait(e) PROVE MaskInv'
  <2>1. /\ Len(stack) \in Nat /\ Len(stack') = Len(stack) + 1
        /\ stack'[Len(stack')] = NewWait(e)
        /\ \A i \in 1 .. Len(stack) : stack'[i] = stack[i]
    BY <1>4, NewFrames, PushFrame DEF CallsWait, EnterWait, Top
  <2>2. NewWait(e).kind = "wait"
    BY DEF NewWait
  <2>3. \A i : i \in 1 .. Len(stack') <=> i \in 1 .. Len(stack) \/ i = Len(stack) + 1
    BY <2>1
  <2>4. RunFrames' = RunFrames /\ \A i \in RunFrames : stack'[i] = stack[i]
    BY <2>1, <2>2, <2>3 DEF RunFrames
  <2> QED BY <1>4, <2>4 DEF CallsWait, EnterWait, MasksNest, OutermostIsWhole
<1>5. CASE RunReturn
  <2>1. /\ Len(stack) \in Nat \ {0} /\ Len(stack') = Len(stack) - 1
        /\ \A i \in 1 .. Len(stack) - 1 : stack'[i] = stack[i]
    BY <1>5, PopFrame DEF RunReturn, InRun
  <2>2. Len(stack) \in RunFrames /\ superMask' = stack[Len(stack)].backup
    BY <1>5, <2>1 DEF RunReturn, InRun, Top, RunFrames
  <2>3. \A i : i \in 1 .. Len(stack) <=> i \in 1 .. Len(stack) - 1 \/ i = Len(stack)
    BY <2>1
  <2>4. RunFrames = RunFrames' \cup {Len(stack)}
    BY <2>1, <2>2, <2>3 DEF RunFrames
  <2>5. \A i \in RunFrames' : i < Len(stack) /\ stack'[i] = stack[i] /\ i \in Nat
    BY <2>1 DEF RunFrames
  <2>6. MasksNest'
    BY <2>1, <2>2, <2>4, <2>5 DEF MasksNest, OutermostIsWhole
  <2>7. OutermostIsWhole'
    BY <2>1, <2>4, <2>5 DEF OutermostIsWhole
  <2> QED BY <2>6, <2>7
<1>6. CASE WaitReturn
  <2>1. /\ Len(stack) \in Nat \ {0} /\ Len(stack') = Len(stack) - 1
        /\ \A i \in 1 .. Len(stack) - 1 : stack'[i] = stack[i]
    BY <1>6, PopFrame DEF WaitReturn, InWait
  <2>2. stack[Len(stack)].kind = "wait"
    BY <1>6 DEF WaitReturn, InWait, Top
  <2>3. \A i : i \in 1 .. Len(stack) <=> i \in 1 .. Len(stack) - 1 \/ i = Len(stack)
    BY <2>1
  <2>4. RunFrames' = RunFrames /\ \A i \in RunFrames : stack'[i] = stack[i]
    BY <2>1, <2>2, <2>3 DEF RunFrames
  <2> QED BY <1>6, <2>4 DEF WaitReturn, MasksNest, OutermostIsWhole
<1> QED BY <1>1, <1>2, <1>3, <1>4, <1>5, <1>6, StepKinds
-----------------------------------------------------------------------------
(* The event waited for, and the task a wait goes back to.                  *)
WaitsSaved ==
  /\ evtWaited = Waited(stack, Len(stack))
  /\ \A i \in 1 .. Len(stack) : stack[i].kind = "wait" => stack[i].waited = Waited(stack, i - 1)

\* Runs and waits alternate, and a wait inside a task remembers that task.
TasksSaved ==
  \A i \in 1 .. Len(stack) - 1 :
    IF stack[i].kind = "run" THEN stack[i + 1].kind = "wait" /\ stack[i + 1].idx = stack[i].task
                             ELSE stack[i + 1].kind = "run"

WaitInv == WaitsSaved /\ TasksSaved /\ RunningTaskKnown

LEMMA WaitStep ==
  ASSUME TypeOK, TypeOK', OthersExecute, WaitInv, [Next]_vars
  PROVE  WaitInv'
<1> USE DEF WaitInv
<1>t. stack \in Seq(Frame) /\ stack' \in Seq(Frame) /\ Len(stack) \in Nat /\ Len(stack') \in Nat
  BY LenProperties DEF TypeOK
<1>1. CASE KeepsNesting
  BY <1>1 DEF KeepsNesting, WaitsSaved, TasksSaved, RunningTaskKnown, InRun, Top
<1>2. ASSUME NEW f \in RunFrame, RunsOn(f) PROVE WaitInv'
  <2>1. /\ Len(stack') = Len(stack) /\ Len(stack) \in Nat \ {0}
        /\ Top' = f /\ \A i \in 1 .. Len(stack) - 1 : stack'[i] = stack[i]
    BY <1>2, GotoFrame, TopFrame DEF RunsOn, Frame
  <2>2. \A i \in 1 .. Len(stack) : i \in 1 .. Len(stack) - 1 \/ i = Len(stack)
    BY <2>1
  <2>3. \A i \in 1 .. Len(stack) :
          stack'[i].kind = stack[i].kind /\ (stack[i].kind = "wait" => stack'[i] = stack[i])
    BY <1>2, <2>1, <2>2 DEF RunsOn, Top, RunFrame
  <2>4. \A n \in 0 .. Len(stack) : Waited(stack', n) = Waited(stack, n)
    <3>1. ASSUME NEW n \in 0 .. Len(stack) PROVE Waited(stack', n) = Waited(stack, n)
      <4>1. n \in Nat /\ n <= Len(stack) /\ \A i \in 1 .. n : i \in 1 .. Len(stack)
        BY <2>1
      <4> QED BY <1>t, <2>1, <2>3, <4>1, WaitedSame
    <3> QED BY <3>1
  <2>5. WaitsSaved'
    <3>1. \A i \in 1 .. Len(stack) : i - 1 \in 0 .. Len(stack)
      BY <2>1
    <3>2. Len(stack) \in 0 .. Len(stack)
      BY <2>1
    <3> QED BY <1>2, <2>1, <2>3, <2>4, <3>1, <3>2 DEF RunsOn, WaitsSaved
  <2>6. TasksSaved'
    <3>1. \A i \in 1 .. Len(stack) - 1 : i \in 1 .. Len(stack) /\ i + 1 \in 1 .. Len(stack)
      BY <2>1
    <3> QED BY <2>1, <2>3, <3>1 DEF TasksSaved
  <2>7. RunningTaskKnown'
    BY <1>2, <2>1 DEF RunsOn, RunningTaskKnown, InRun
  <2> QED BY <2>5, <2>6, <2>7
<1>3. ASSUME NEW f \in Frame, stack' = Append(stack, f),
             stack # <<>> => IF Top.kind = "run" THEN f.kind = "wait" /\ f.idx = Top.task
                                                 ELSE f.kind = "run",
             IF f.kind = "wait" THEN f.waited = evtWaited /\ evtWaited' = {f.evt}
                                ELSE f.pc = "load" /\ UNCHANGED evtWaited
      PROVE  WaitInv'
  <2>1. /\ Len(stack') = Len(stack) + 1 /\ stack' # <<>> /\ Top' = f
        /\ stack'[Len(stack) + 1] = f
        /\ \A i \in 1 .. Len(stack) : stack'[i] = stack[i]
    BY <1>3, PushFrame DEF Top
  <2>2. \A i \in 1 .. Len(stack) + 1 : i \in 1 .. Len(stack) \/ i = Len(stack) + 1
    BY <1>t
  <2>3. ASSUME NEW n \in 0 .. Len(stack) PROVE Waited(stack', n) = Waited(stack, n)
    <3>1. n \in Nat /\ n <= Len(stack) /\ n <= Len(stack') /\ \A i \in 1 .. n : i \in 1 .. Len(stack)
      BY <1>t, <2>1
    <3> QED BY <1>t, <2>1, <3>1, WaitedSame
  <2>4. Waited(stack', Len(stack)) = evtWaited
    BY <1>t, <2>3 DEF WaitsSaved
  <2>5. evtWaited' = Waited(stack', Len(stack'))
    <3>1. Len(stack') \in 1 .. Len(stack') /\ Len(stack') - 1 = Len(stack)
      BY <1>t, <2>1
    <3>2. CASE f.kind = "wait"
      BY <1>t, <1>3, <2>1, <3>1, <3>2, WaitedIsEvt, ZenonT(60)
    <3>3. CASE f.kind # "wait"
      BY <1>t, <1>3, <2>1, <2>4, <3>1, <3>3, WaitedIsOuter
    <3> QED BY <3>2, <3>3
  <2>6. ASSUME NEW i \in 1 .. Len(stack'), stack'[i].kind = "wait"
        PROVE  stack'[i].waited = Waited(stack', i - 1)
    <3>1. CASE i \in 1 .. Len(stack)
      <4>1. i - 1 \in 0 .. Len(stack)
        BY <1>t, <3>1
      <4> QED BY <2>1, <2>3, <2>6, <3>1, <4>1 DEF WaitsSaved
    <3>2. CASE i = Len(stack) + 1
      <4>1. i - 1 = Len(stack)
        BY <1>t, <3>2
      <4> QED BY <1>3, <2>1, <2>4, <2>6, <3>2, <4>1
    <3> QED BY <2>1, <2>2, <3>1, <3>2
  <2>7. TasksSaved'
    <3> SUFFICES ASSUME NEW i \in 1 .. Len(stack') - 1
                 PROVE  IF stack'[i].kind = "run"
                          THEN stack'[i + 1].kind = "wait" /\ stack'[i + 1].idx = stack'[i].task
                          ELSE stack'[i + 1].kind = "run"
      BY DEF TasksSaved
    <3>1. i \in 1 .. Len(stack) /\ (i + 1 \in 1 .. Len(stack) \/ i = Len(stack))
      BY <1>t, <2>1
    <3>2. CASE i = Len(stack)
      <4>1. stack # <<>>
        BY <1>t, <3>1, <3>2, EmptySeq
      <4> QED BY <1>3, <2>1, <3>1, <3>2, <4>1 DEF Top
    <3>3. CASE i # Len(stack)
      <4>1. i \in 1 .. Len(stack) - 1
        BY <1>t, <3>1, <3>3
      <4> QED BY <2>1, <3>1, <3>3, <4>1 DEF TasksSaved
    <3> QED BY <3>2, <3>3
  <2>8. RunningTaskKnown'
    BY <1>3, <2>1 DEF RunningTaskKnown, InRun
  <2> QED BY <2>5, <2>6, <2>7, <2>8 DEF WaitsSaved
<1>4. CASE CallsRun
  <2>1. NewRun \in Frame /\ NewRun.kind = "run" /\ NewRun.pc = "load"
    BY NewFrames DEF NewRun
  <2>2. stack # <<>> => Top.kind = "wait"
    BY <1>4 DEF CallsRun, InWait
  <2> QED BY <1>3, <1>4, <2>1, <2>2 DEF CallsRun
<1>5. ASSUME NEW e \in Evt, CallsWait(e) PROVE WaitInv'
  <2>1. /\ NewWait(e) \in Frame /\ NewWait(e).kind = "wait" /\ NewWait(e).evt = e
        /\ NewWait(e).waited = evtWaited /\ NewWait(e).idx = currentTaskIdx
    BY NewFrames DEF NewWait
  <2>2. stack # <<>> => Top.kind = "run" /\ Top.task = currentTaskIdx
    BY <1>5 DEF CallsWait, InRun, RunningTaskKnown
  <2> QED BY <1>3, <1>5, <2>1, <2>2 DEF CallsWait, EnterWait
<1>6. ASSUME stack # <<>>, stack' = Pop,
             IF Top.kind = "wait" THEN currentTaskIdx' = Top.idx /\ evtWaited' = Top.waited
                                  ELSE UNCHANGED evtWaited
      PROVE  WaitInv'
  <2>1. /\ Len(stack) \in Nat \ {0} /\ Len(stack') = Len(stack) - 1
        /\ \A i \in 1 .. Len(stack) - 1 : stack'[i] = stack[i]
    BY <1>6, PopFrame
  <2>2. ASSUME NEW n \in 0 .. Len(stack) - 1 PROVE Waited(stack', n) = Waited(stack, n)
    <3>1. n \in Nat /\ n <= Len(stack) /\ n <= Len(stack') /\ \A i \in 1 .. n : i \in 1 .. Len(stack) - 1
      BY <2>1
    <3> QED BY <1>t, <2>1, <3>1, WaitedSame
  <2>3. evtWaited' = Waited(stack, Len(stack) - 1)
    <3>1. Len(stack) \in 1 .. Len(stack)
      BY <2>1
    <3>2. CASE Top.kind = "wait"
      BY <1>6, <3>1, <3>2 DEF WaitsSaved, Top
    <3>3. CASE Top.kind # "wait"
      BY <1>t, <1>6, <3>1, <3>3, WaitedIsOuter DEF WaitsSaved, Top
    <3> QED BY <3>2, <3>3
  <2>4. WaitsSaved'
    <3>1. Len(stack) - 1 \in 0 .. Len(stack) - 1
      BY <2>1
    <3>2. \A i \in 1 .. Len(stack) - 1 : i - 1 \in 0 .. Len(stack) - 1 /\ i \in 1 .. Len(stack)
      BY <2>1
    <3> QED BY <2>1, <2>2, <2>3, <3>1, <3>2 DEF WaitsSaved
  <2>5. TasksSaved'
    <3>1. \A i \in 1 .. Len(stack') - 1 : i \in 1 .. Len(stack) - 1 /\ i + 1 \in 1 .. Len(stack) - 1
      BY <2>1
    <3> QED BY <2>1, <3>1 DEF TasksSaved
  <2>6. RunningTaskKnown'
    <3> SUFFICES ASSUME InRun("exec")' PROVE currentTaskIdx' = Top'.task
      BY DEF RunningTaskKnown
    <3>1. /\ Len(stack) - 1 \in 1 .. Len(stack) - 1
          /\ Len(stack) - 1 + 1 = Len(stack)
      BY <1>t, <2>1, EmptySeq DEF InRun
    <3>2. Top' = stack[Len(stack) - 1] /\ Top'.kind = "run"
      BY <2>1, <3>1 DEF InRun, Top
    <3>3. stack[Len(stack)].kind = "wait" /\ stack[Len(stack)].idx = Top'.task
      BY <3>1, <3>2 DEF TasksSaved
    <3> QED BY <1>6, <3>3 DEF Top
  <2> QED BY <2>4, <2>5, <2>6
<1>7. CASE RunReturn
  BY <1>6, <1>7 DEF RunReturn, InRun
<1>8. CASE WaitReturn
  BY <1>6, <1>8 DEF WaitReturn, InWait
<1> QED BY <1>1, <1>2, <1>4, <1>5, <1>7, <1>8, StepKinds
-----------------------------------------------------------------------------
LEMMA NestingInitially == Init => MaskInv /\ WaitInv
<1> SUFFICES ASSUME Init PROVE MaskInv /\ WaitInv
  OBVIOUS
<1>1. stack = <<>> /\ Len(stack) = 0 /\ superMask = Task /\ evtWaited = {}
  BY DEF Init
<1>2. \A i : i \notin 1 .. 0 /\ i \notin 1 .. 0 - 1
  OBVIOUS
<1>3. RunFrames = {}
  BY <1>1, <1>2 DEF RunFrames
<1>4. MaskInv
  BY <1>1, <1>3 DEF MaskInv, MasksNest, OutermostIsWhole
<1>5. Waited(stack, Len(stack)) = {}
  BY <1>1, <1>2 DEF Waited
<1>6. WaitInv
  BY <1>1, <1>2, <1>5 DEF WaitInv, WaitsSaved, TasksSaved, RunningTaskKnown, InRun
<1> QED BY <1>4, <1>6

LEMMA NestingCorrect == Spec => [](MaskInv /\ WaitInv)
<1>1. TypeOK /\ ScanInv /\ MaskInv /\ WaitInv /\ [Next]_vars => (MaskInv /\ WaitInv)'
  BY TypeStep, MaskStep, WaitStep DEF ScanInv
<1> QED BY <1>1, NestingInitially, TypeCorrect, ScanCorrect, PTL DEF Spec

(* However runs and waits are nested, the masks get smaller inwards and the *)
(* outer one comes back, EvtWaited is the innermost wait's event, and a     *)
(* task that executes is the one CurrentTaskIdx names.                      *)
THEOREM NestingAlwaysSound == Spec => []NestingIsSound
<1>1. WaitInv => WaitsAreLifo
  <2> SUFFICES ASSUME WaitInv PROVE WaitsAreLifo
    OBVIOUS
  <2> QED BY WaitedIsBelow DEF WaitInv, WaitsSaved, WaitsAreLifo, WaitFrames
<1>2. MaskInv /\ WaitInv => NestingIsSound
  BY <1>1 DEF MaskInv, WaitInv, NestingIsSound
<1> QED BY <1>2, NestingCorrect, PTL

-----------------------------------------------------------------------------
(* Events: only ClrEvt and the event's own wait take one back.              *)
LEMMA EventKept ==
  ASSUME NEW e \in evtSet, e \notin Clears, [Next]_vars
  PROVE  e \in evtSet' \/ (InWait /\ Top.evt = e /\ stack' = Pop)
BY DEF Next, Thread, MainRun, RunLoad, RunTest, ScanNext, ScanHit, Claim,
   TaskReturn, IdleCheck, Wake, RunReturn, WaitIdle, WaitReturn, TaskWait, StartWait, EnterWait,
   Raise, Service, Call, SetTask, SetEvt, ClrEvt, PauseTask, ResumeTask, vars, seqVars

(* A posted task leaves the pending set only because UTIL_SEQ_Run starts to *)
(* execute it, whatever interrupts the claim.                               *)
THEOREM PostedTasksRun == Spec => PostedTaskRuns
<1> DEFINE Kept == \A t \in taskSet : t \in taskSet' \/ (InRun("exec")' /\ Top'.task = t)
<1>1. TypeOK /\ [Next]_vars => [Kept]_vars
  <2> SUFFICES ASSUME TypeOK, [Next]_vars PROVE Kept \/ UNCHANGED vars
    OBVIOUS
  <2>1. CASE Claim
    <3> DEFINE f == [Top EXCEPT !.pc = "exec", !.task = currentTaskIdx]
    <3>1. Top \in RunFrame /\ stack # <<>>
      BY <2>1, TopFrame DEF Claim, InRun
    <3>2. f \in Frame /\ f.kind = "run" /\ f.pc = "exec" /\ f.task = currentTaskIdx
      BY <3>1 DEF Frame, RunFrame, RunPc, TypeOK
    <3>3. Top' = f /\ stack' # <<>>
      BY <2>1, <3>1, <3>2, GotoFrame DEF Claim
    <3> QED BY <2>1, <3>2, <3>3 DEF Claim, InRun
  <2>2. CASE ~ Claim
    BY <2>2 DEF Next, Thread, MainRun, RunLoad, RunTest, ScanNext, ScanHit,
       TaskReturn, IdleCheck, Wake, RunReturn, WaitIdle, WaitReturn, TaskWait, StartWait, EnterWait,
       Raise, Service, Call, SetTask, SetEvt, ClrEvt, PauseTask, ResumeTask, vars, seqVars
  <2> QED BY <2>1, <2>2
<1> QED BY <1>1, TypeCorrect, PTL DEF Spec, PostedTaskRuns

-----------------------------------------------------------------------------
(* The run of the bypass wait: its event stays set, so it starts no task.   *)
OverBypass ==
  /\ Len(stack) > 1 /\ Top.kind = "run"
  /\ stack[Len(stack) - 1].kind = "wait" /\ stack[Len(stack) - 1].evt = BypassEvt

BypassInv == BypassRunsNothing /\ (OverBypass => BypassEvt \in evtSet)

LEMMA BypassStep ==
  ASSUME AppHook, BypassEvt \notin Clears,
         TypeOK, OthersExecute, WaitInv, BypassInv, [Next]_vars
  PROVE  BypassInv'
<1>t. stack \in Seq(Frame) /\ Len(stack) \in Nat
  BY LenProperties DEF TypeOK
<1>k. ASSUME OverBypass, ~ WaitReturn PROVE BypassEvt \in evtSet'
  <2>1. ~ InWait /\ BypassEvt \in evtSet
    BY <1>k DEF OverBypass, InWait, BypassInv
  <2> QED BY <2>1, EventKept
<1>b. \A i \in 2 .. Len(stack) :
        stack[i].kind = "run" /\ stack[i - 1].kind = "wait" /\ stack[i - 1].evt = BypassEvt
          => stack[i].pc \notin {"scan", "claim", "exec"}
  BY <1>t DEF BypassInv, BypassRunsNothing, BypassRuns, RunFrames
<1>1. CASE KeepsNesting
  <2>1. BypassRunsNothing' /\ (OverBypass' => OverBypass)
    BY <1>1 DEF KeepsNesting, BypassInv, BypassRunsNothing, BypassRuns, RunFrames, OverBypass, Top
  <2>2. OverBypass => ~ WaitReturn
    BY DEF OverBypass, WaitReturn, InWait
  <2> QED BY <1>k, <2>1, <2>2 DEF BypassInv
<1>2. ASSUME NEW f \in RunFrame, RunsOn(f) PROVE BypassInv'
  <2>1. /\ Len(stack') = Len(stack) /\ Len(stack) \in Nat \ {0}
        /\ Top' = f /\ stack'[Len(stack)] = f
        /\ \A i \in 1 .. Len(stack) - 1 : stack'[i] = stack[i]
    BY <1>2, GotoFrame, TopFrame DEF RunsOn, Frame, Top
  <2>2. OverBypass' => OverBypass
    <3>1. OverBypass' => Len(stack) - 1 \in 1 .. Len(stack) - 1
      BY <2>1 DEF OverBypass
    <3> QED BY <1>2, <2>1, <3>1 DEF OverBypass, RunsOn, RunFrame
  <2>3. OverBypass => f.pc \notin {"scan", "claim", "exec"}
    <3> SUFFICES ASSUME OverBypass PROVE f.pc \notin {"scan", "claim", "exec"}
      OBVIOUS
    <3>1. /\ Len(stack) \in 2 .. Len(stack) /\ Len(stack) \in 1 .. Len(stack)
          /\ Len(stack) - 1 \in 1 .. Len(stack)
      BY <2>1 DEF OverBypass
    <3>2. Waited(stack, Len(stack)) = Waited(stack, Len(stack) - 1)
      BY <1>t, <3>1, WaitedIsOuter DEF OverBypass, Top
    <3>3. Waited(stack, Len(stack) - 1) = {BypassEvt}
      BY <1>t, <3>1, WaitedIsEvt DEF OverBypass
    <3>4. evtWaited = {BypassEvt} /\ BypassEvt \in evtSet
      BY <3>2, <3>3 DEF WaitInv, WaitsSaved, BypassInv
    <3>5. Top.pc \notin {"scan", "claim", "exec"}
      BY <1>b, <3>1 DEF OverBypass, Top
    <3> QED BY <1>2, <3>4, <3>5 DEF RunsOn
  <2>4. BypassRunsNothing'
    <3> SUFFICES ASSUME NEW i \in 1 .. Len(stack), stack'[i].kind = "run", i > 1,
                        stack'[i - 1].kind = "wait", stack'[i - 1].evt = BypassEvt
                 PROVE  stack'[i].pc \notin {"scan", "claim", "exec"}
      BY <2>1 DEF BypassRunsNothing, BypassRuns, RunFrames
    <3>1. i - 1 \in 1 .. Len(stack) - 1 /\ i \in 2 .. Len(stack)
      BY <2>1
    <3>2. CASE i = Len(stack)
      <4>1. OverBypass
        BY <2>1, <2>2, <3>1, <3>2 DEF OverBypass
      <4> QED BY <2>1, <2>3, <3>2, <4>1
    <3>3. CASE i # Len(stack)
      <4>1. i \in 1 .. Len(stack) - 1
        BY <2>1, <3>3
      <4> QED BY <1>b, <2>1, <3>1, <4>1
    <3> QED BY <3>2, <3>3
  <2>5. ~ WaitReturn
    BY <1>2 DEF RunsOn, WaitReturn, InWait, RunFrame
  <2> QED BY <1>k, <2>2, <2>4, <2>5 DEF BypassInv
<1>3. ASSUME NEW f \in Frame, stack' = Append(stack, f),
             f.kind = "run" => f.pc = "load",
             f.kind = "run" /\ InWait => EvtIdleSets(Top) \subseteq evtSet'
      PROVE  BypassInv'
  <2>1. /\ Len(stack') = Len(stack) + 1 /\ Top' = f /\ stack'[Len(stack) + 1] = f
        /\ \A i \in 1 .. Len(stack) : stack'[i] = stack[i]
    BY <1>3, PushFrame DEF Top
  <2>2. BypassRunsNothing'
    <3> SUFFICES ASSUME NEW i \in 1 .. Len(stack) + 1, stack'[i].kind = "run", i > 1,
                        stack'[i - 1].kind = "wait", stack'[i - 1].evt = BypassEvt
                 PROVE  stack'[i].pc \notin {"scan", "claim", "exec"}
      BY <2>1 DEF BypassRunsNothing, BypassRuns, RunFrames
    <3>1. i - 1 \in 1 .. Len(stack)
      BY <1>t
    <3>2. CASE i = Len(stack) + 1
      BY <1>3, <2>1, <3>2
    <3>3. CASE i # Len(stack) + 1
      <4>1. i \in 1 .. Len(stack) /\ i \in 2 .. Len(stack)
        BY <1>t, <3>3
      <4> QED BY <1>b, <2>1, <3>1, <4>1
    <3> QED BY <3>2, <3>3
  <2>3. OverBypass' => BypassEvt \in evtSet'
    <3> SUFFICES ASSUME OverBypass' PROVE BypassEvt \in evtSet'
      OBVIOUS
    <3>1. Len(stack') - 1 = Len(stack) /\ Len(stack) \in 1 .. Len(stack)
      BY <1>t, <2>1 DEF OverBypass
    <3>2. InWait /\ Top.evt = BypassEvt /\ f.kind = "run"
      BY <1>t, <2>1, <3>1, EmptySeq DEF OverBypass, InWait, Top
    <3> QED BY <1>3, <3>2 DEF EvtIdleSets
  <2> QED BY <2>2, <2>3 DEF BypassInv
<1>4. CASE CallsRun
  BY <1>3, <1>4, NewFrames DEF CallsRun, NewRun
<1>5. ASSUME NEW e \in Evt, CallsWait(e) PROVE BypassInv'
  <2>1. NewWait(e) \in Frame /\ NewWait(e).kind = "wait"
    BY NewFrames DEF NewWait
  <2> QED BY <1>3, <1>5, <2>1 DEF CallsWait, EnterWait
<1>6. ASSUME stack # <<>>, stack' = Pop PROVE BypassInv'
  <2>1. /\ Len(stack) \in Nat \ {0} /\ Len(stack') = Len(stack) - 1
        /\ \A i \in 1 .. Len(stack) - 1 : stack'[i] = stack[i]
    BY <1>6, PopFrame
  <2>2. BypassRunsNothing'
    <3> SUFFICES ASSUME NEW i \in 1 .. Len(stack) - 1, stack'[i].kind = "run", i > 1,
                        stack'[i - 1].kind = "wait", stack'[i - 1].evt = BypassEvt
                 PROVE  stack'[i].pc \notin {"scan", "claim", "exec"}
      BY <2>1 DEF BypassRunsNothing, BypassRuns, RunFrames
    <3>1. i - 1 \in 1 .. Len(stack) - 1 /\ i \in 2 .. Len(stack)
      BY <2>1
    <3> QED BY <1>b, <2>1, <3>1
  <2>3. ~ OverBypass'
    <3> SUFFICES ASSUME OverBypass' PROVE FALSE
      OBVIOUS
    <3> DEFINE n == Len(stack) - 1
    <3>1. n \in 1 .. Len(stack) - 1 /\ n - 1 \in 1 .. Len(stack) - 1 /\ n \in 2 .. Len(stack) /\ n < Len(stack)
          /\ n \in 1 .. Len(stack)
      BY <2>1 DEF OverBypass
    <3>2. /\ stack[n].kind = "run"
          /\ stack[n - 1].kind = "wait" /\ stack[n - 1].evt = BypassEvt
      BY <2>1, <3>1 DEF OverBypass, Top
    <3>3. stack[n].pc = "exec"
      BY <3>1, <3>2 DEF OthersExecute, RunFrames
    <3> QED BY <1>b, <3>1, <3>2, <3>3
  <2> QED BY <2>2, <2>3 DEF BypassInv
<1>7. CASE RunReturn
  BY <1>6, <1>7 DEF RunReturn, InRun
<1>8. CASE WaitReturn
  BY <1>6, <1>8 DEF WaitReturn, InWait
<1> QED BY <1>1, <1>2, <1>4, <1>5, <1>7, <1>8, StepKinds

(* The run inside the wait for EVENT_SYNCHRO_BYPASS_IDLE starts no task,    *)
(* with the hook of app_entry.c and no one clearing that event.             *)
THEOREM BypassAlwaysIdle ==
  ASSUME AppHook, BypassEvt \notin Clears
  PROVE  Spec => []BypassRunsNothing
<1>1. Init => BypassInv
  <2> SUFFICES ASSUME Init PROVE BypassInv
    OBVIOUS
  <2>1. Len(stack) = 0 /\ RunFrames = {}
    BY DEF Init, RunFrames
  <2> QED BY <2>1 DEF BypassInv, BypassRunsNothing, BypassRuns, OverBypass
<1>2. TypeOK /\ ScanInv /\ WaitInv /\ BypassInv /\ [Next]_vars => BypassInv'
  BY BypassStep DEF ScanInv
<1>3. BypassInv => BypassRunsNothing
  BY DEF BypassInv
<1> QED BY <1>1, <1>2, <1>3, TypeCorrect, ScanCorrect, NestingCorrect, PTL DEF Spec
=============================================================================
