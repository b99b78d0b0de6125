--------------------------- MODULE ZigbeeIpcProofs ---------------------------
(***************************************************************************)
(* Machine-checked, for every value of the constants: what the stack of    *)
(* activations of the M4 can look like, and from it that the call-back of  *)
(* every notification runs once before the M0 gets its buffer back; that a *)
(* command reads the response to itself, and that the waits for a start-up *)
(* and for a system command end with what they waited for unless one is    *)
(* nested in another of its kind.  The second and the third rest on the    *)
(* timer's interrupt, which sends a command of its own, not coming while a *)
(* command or a request is served.                                         *)
(***************************************************************************)
EXTENDS ZigbeeIpc, SequenceTheorems, TLAPS

-----------------------------------------------------------------------------
(* Frames and stacks. *)

FrameOf(fn, pc, arg, id, ok, reg) ==
  [fn |-> fn, pc |-> pc, arg |-> arg, id |-> id, ok |-> ok, reg |-> reg]

LEMMA FieldsReplaced ==
  ASSUME NEW f \in Frame
  PROVE  /\ \A pc \in Pc : [f EXCEPT !.pc = pc] = FrameOf(f.fn, pc, f.arg, f.id, f.ok, f.reg)
         /\ \A id \in Nat : [f EXCEPT !.id = id] = FrameOf(f.fn, f.pc, f.arg, id, f.ok, f.reg)
         /\ \A ok \in BOOLEAN : [f EXCEPT !.ok = ok] = FrameOf(f.fn, f.pc, f.arg, f.id, ok, f.reg)
         /\ \A reg \in SUBSET Channel :
              [f EXCEPT !.reg = reg] = FrameOf(f.fn, f.pc, f.arg, f.id, f.ok, reg)
<1>1. f \in [fn : Fn, pc : Pc, arg : Event \cup Op \cup {"none"}, id : Nat,
             ok : BOOLEAN, reg : SUBSET Channel]
  BY DEF Frame
<1>2. ASSUME NEW pc \in Pc
      PROVE  [f EXCEPT !.pc = pc] = FrameOf(f.fn, pc, f.arg, f.id, f.ok, f.reg)
  BY <1>1 DEF FrameOf
<1>3. ASSUME NEW id \in Nat
      PROVE  [f EXCEPT !.id = id] = FrameOf(f.fn, f.pc, f.arg, id, f.ok, f.reg)
  BY <1>1 DEF FrameOf
<1>4. ASSUME NEW ok \in BOOLEAN
      PROVE  [f EXCEPT !.ok = ok] = FrameOf(f.fn, f.pc, f.arg, f.id, ok, f.reg)
  BY <1>1 DEF FrameOf
<1>5. ASSUME NEW reg \in SUBSET Channel
      PROVE  [f EXCEPT !.reg = reg] = FrameOf(f.fn, f.pc, f.arg, f.id, f.ok, reg)
  BY <1>1 DEF FrameOf
<1> QED BY <1>2, <1>3, <1>4, <1>5

LEMMA FieldsOf ==
  ASSUME NEW fn, NEW pc, NEW arg, NEW id, NEW ok, NEW reg
  PROVE  /\ FrameOf(fn, pc, arg, id, ok, reg).fn = fn
         /\ FrameOf(fn, pc, arg, id, ok, reg).pc = pc
         /\ FrameOf(fn, pc, arg, id, ok, reg).arg = arg
         /\ FrameOf(fn, pc, arg, id, ok, reg).id = id
         /\ FrameOf(fn, pc, arg, id, ok, reg).ok = ok
         /\ FrameOf(fn, pc, arg, id, ok, reg).reg = reg
BY DEF FrameOf

LEMMA FrameTypes ==
  /\ \A f \in Frame : /\ f.fn \in Fn /\ f.pc \in Pc /\ f.arg \in Event \cup Op \cup {"none"}
                      /\ f.id \in Nat /\ f.ok \in BOOLEAN /\ f.reg \in SUBSET Channel
  /\ \A fn \in Fn, pc \in Pc, arg \in Event \cup Op \cup {"none"}, id \in Nat, ok \in BOOLEAN,
        reg \in SUBSET Channel : FrameOf(fn, pc, arg, id, ok, reg) \in Frame
  /\ \A fn \in Fn, arg \in Event \cup Op \cup {"none"}, id \in Nat :
        /\ NewFrame(fn, arg, id) = FrameOf(fn, "begin", arg, id, FALSE, {})
        /\ NewFrame(fn, arg, id) \in Frame
<1>1. \A f \in Frame : /\ f.fn \in Fn /\ f.pc \in Pc /\ f.arg \in Event \cup Op \cup {"none"}
                       /\ f.id \in Nat /\ f.ok \in BOOLEAN /\ f.reg \in SUBSET Channel
  BY DEF Frame
<1>2. \A fn \in Fn, pc \in Pc, arg \in Event \cup Op \cup {"none"}, id \in Nat, ok \in BOOLEAN,
        reg \in SUBSET Channel : FrameOf(fn, pc, arg, id, ok, reg) \in Frame
  BY DEF Frame, FrameOf
<1>3. \A fn \in Fn, arg \in Event \cup Op \cup {"none"}, id \in Nat :
         NewFrame(fn, arg, id) = FrameOf(fn, "begin", arg, id, FALSE, {})
  BY DEF NewFrame, FrameOf
<1>4. "begin" \in Pc /\ FALSE \in BOOLEAN /\ {} \in SUBSET Channel
  BY DEF Pc
<1> QED BY <1>1, <1>2, <1>3, <1>4, ZenonT(60)

LEMMA TopReplaced ==
  ASSUME NEW s \in Seq(Frame), Len(s) >= 1, NEW f \in Frame
  PROVE  /\ [s EXCEPT ![Len(s)] = f] \in Seq(Frame)
         /\ Len([s EXCEPT ![Len(s)] = f]) = Len(s)
         /\ [s EXCEPT ![Len(s)] = f][Len(s)] = f
         /\ \A i \in 1 .. Len(s) - 1 : [s EXCEPT ![Len(s)] = f][i] = s[i]
OBVIOUS

LEMMA Pushed ==
  ASSUME NEW s \in Seq(Frame), NEW f \in Frame
  PROVE  /\ Append(s, f) \in Seq(Frame)
         /\ Len(Append(s, f)) = Len(s) + 1
         /\ Append(s, f)[Len(s) + 1] = f
         /\ \A i \in 1 .. Len(s) : Append(s, f)[i] = s[i]
OBVIOUS

LEMMA Popped ==
  ASSUME NEW s \in Seq(Frame), Len(s) >= 1
  PROVE  /\ SubSeq(s, 1, Len(s) - 1) \in Seq(Frame)
         /\ Len(SubSeq(s, 1, Len(s) - 1)) = Len(s) - 1
         /\ \A i \in 1 .. Len(s) - 1 : SubSeq(s, 1, Len(s) - 1)[i] = s[i]
<1> DEFINE n == Len(s) - 1
<1>1. n \in Nat /\ \A i \in 1 .. n : s[i] \in Frame /\ 1 + i - 1 = i
  OBVIOUS
<1> HIDE DEF n
<1>2. (IF 1 <= n THEN n - 1 + 1 ELSE 0) = n /\ n - 1 + 1 = n
  BY <1>1
<1>3. /\ SubSeq(s, 1, n) \in Seq(Frame)
      /\ Len(SubSeq(s, 1, n)) = IF 1 <= n THEN n - 1 + 1 ELSE 0
      /\ \A i \in 1 .. n - 1 + 1 : SubSeq(s, 1, n)[i] = s[1 + i - 1]
  BY <1>1, SubSeqProperties
<1> QED BY <1>1, <1>2, <1>3 DEF n

-----------------------------------------------------------------------------
(* What a step does to the stack. *)

OnStack == stack \in Seq(Frame) /\ Depth >= 1

LEMMA Frames ==
  ASSUME OnStack
  PROVE  /\ Depth \in Nat /\ Top \in Frame /\ Depth \in 1 .. Depth
         /\ \A i \in 1 .. Depth : stack[i] \in Frame
         /\ \A i \in 1 .. Depth : i = Depth \/ i \in 1 .. Depth - 1
BY DEF Depth, Top, OnStack

\* The running activation goes on to pc.
LEMMA GotoIs ==
  ASSUME OnStack, NEW pc \in Pc
  PROVE  Goto(pc) = [stack EXCEPT ![Depth] = FrameOf(Top.fn, pc, Top.arg, Top.id, Top.ok, {})]
<1> DEFINE f == FrameOf(Top.fn, pc, Top.arg, Top.id, Top.ok, Top.reg)
<1>1. Depth \in 1 .. Len(stack) /\ stack \in [1 .. Len(stack) -> Frame]
  BY DEF Depth, OnStack
<1>2. Goto(pc) = [stack EXCEPT ![Depth] = [[Top EXCEPT !.pc = pc] EXCEPT !.reg = {}]]
  BY <1>1 DEF Goto, Top
<1>3. [Top EXCEPT !.pc = pc] = f /\ f \in Frame
  BY Frames, FieldsReplaced, FrameTypes
<1>4. [f EXCEPT !.reg = {}] = FrameOf(f.fn, f.pc, f.arg, f.id, f.ok, {})
  <2> HIDE DEF f
  <2> QED BY <1>3, FieldsReplaced
<1>5. f.fn = Top.fn /\ f.pc = pc /\ f.arg = Top.arg /\ f.id = Top.id /\ f.ok = Top.ok
  BY FieldsOf
<1> HIDE DEF f
<1> QED BY <1>2, <1>3, <1>4, <1>5

LEMMA GotoMoves ==
  ASSUME OnStack, NEW pc \in Pc, stack' = Goto(pc)
  PROVE  /\ OnStack' /\ Depth' = Depth
         /\ \A i \in 1 .. Depth - 1 : stack'[i] = stack[i]
         /\ stack'[Depth] = FrameOf(Top.fn, pc, Top.arg, Top.id, Top.ok, {})
<1> DEFINE f == FrameOf(Top.fn, pc, Top.arg, Top.id, Top.ok, {})
<1>1. f \in Frame
  BY Frames, FrameTypes
<1> HIDE DEF f
<1>2. stack' = [stack EXCEPT ![Len(stack)] = f]
  BY GotoIs DEF f, Depth
<1> QED BY <1>1, <1>2, TopReplaced DEF Depth, OnStack, f

\* It loads the interrupt mask.
LEMMA LoadMoves ==
  ASSUME OnStack, NEW reg \in SUBSET Channel,
         stack' = [stack EXCEPT ![Depth].pc = "enable", ![Depth].reg = reg]
  PROVE  /\ OnStack' /\ Depth' = Depth
         /\ \A i \in 1 .. Depth - 1 : stack'[i] = stack[i]
         /\ stack'[Depth] = FrameOf(Top.fn, "enable", Top.arg, Top.id, Top.ok, reg)
<1> DEFINE f == FrameOf(Top.fn, "enable", Top.arg, Top.id, Top.ok, Top.reg)
           g == FrameOf(Top.fn, "enable", Top.arg, Top.id, Top.ok, reg)
<1>1. "enable" \in Pc
  BY DEF Pc
<1>2. f \in Frame /\ g \in Frame /\ [Top EXCEPT !.pc = "enable"] = f
  BY <1>1, Frames, FieldsReplaced, FrameTypes
<1>3. [f EXCEPT !.reg = reg] = FrameOf(f.fn, f.pc, f.arg, f.id, f.ok, reg)
  <2> HIDE DEF f
  <2> QED BY <1>2, FieldsReplaced
<1>4. Depth \in 1 .. Len(stack) /\ stack \in [1 .. Len(stack) -> Frame]
  BY DEF Depth, OnStack
<1>5. stack' = [stack EXCEPT ![Depth] = [[Top EXCEPT !.pc = "enable"] EXCEPT !.reg = reg]]
  BY <1>4 DEF Top
<1>6. f.fn = Top.fn /\ f.pc = "enable" /\ f.arg = Top.arg /\ f.id = Top.id /\ f.ok = Top.ok
  BY FieldsOf
<1> HIDE DEF f
<1>7. [[Top EXCEPT !.pc = "enable"] EXCEPT !.reg = reg] = g
  BY <1>2, <1>3, <1>6
<1> HIDE DEF g
<1>8. stack' = [stack EXCEPT ![Len(stack)] = g]
  BY <1>5, <1>7 DEF Depth
<1>9. /\ stack' \in Seq(Frame) /\ Len(stack') = Len(stack) /\ stack'[Len(stack)] = g
      /\ \A i \in 1 .. Len(stack) - 1 : stack'[i] = stack[i]
  <2>1. g \in Frame
    BY <1>2
  <2> DEFINE t == [stack EXCEPT ![Len(stack)] = g]
  <2>2. /\ t \in Seq(Frame) /\ Len(t) = Len(stack) /\ t[Len(stack)] = g
        /\ \A i \in 1 .. Len(stack) - 1 : t[i] = stack[i]
    BY <2>1, TopReplaced DEF Depth, OnStack
  <2> HIDE DEF t
  <2>3. stack' = t
    BY <1>8 DEF t
  <2> QED BY <2>2, <2>3
<1> QED BY <1>9 DEF Depth, OnStack, g

\* A new activation on top.
LEMMA PushMoves ==
  ASSUME OnStack, NEW fn \in Fn, NEW arg \in Event \cup Op \cup {"none"}, NEW id \in Nat,
         stack' = Append(stack, NewFrame(fn, arg, id))
  PROVE  /\ OnStack' /\ Depth' = Depth + 1
         /\ \A i \in 1 .. Depth : stack'[i] = stack[i]
         /\ stack'[Depth + 1] = FrameOf(fn, "begin", arg, id, FALSE, {})
<1> DEFINE g == NewFrame(fn, arg, id)
<1>1. g \in Frame /\ g = FrameOf(fn, "begin", arg, id, FALSE, {})
  BY FrameTypes
<1> HIDE DEF g
<1>2. stack' = Append(stack, g)
  BY DEF g
<1>3. /\ Append(stack, g) \in Seq(Frame) /\ Len(Append(stack, g)) = Len(stack) + 1
      /\ Append(stack, g)[Len(stack) + 1] = g
      /\ \A i \in 1 .. Len(stack) : Append(stack, g)[i] = stack[i]
  BY <1>1, Pushed DEF OnStack
<1>4. Depth + 1 >= 1
  BY Frames
<1> QED BY <1>1, <1>2, <1>3, <1>4 DEF Depth, OnStack

\* It calls and waits for the return at pc, with another id for a start-up.
LEMMA PushOnMoves ==
  ASSUME OnStack, NEW pc \in Pc, NEW d \in Nat, NEW reg \in SUBSET Channel, NEW fn \in Fn,
         NEW arg \in Event \cup Op \cup {"none"},
         stack' = Append([stack EXCEPT ![Depth] = FrameOf(Top.fn, pc, Top.arg, d, Top.ok, reg)],
                         NewFrame(fn, arg, Depth + 1))
  PROVE  /\ OnStack' /\ Depth' = Depth + 1
         /\ \A i \in 1 .. Depth - 1 : stack'[i] = stack[i]
         /\ stack'[Depth] = FrameOf(Top.fn, pc, Top.arg, d, Top.ok, reg)
         /\ stack'[Depth + 1] = FrameOf(fn, "begin", arg, Depth + 1, FALSE, {})
<1> DEFINE f == FrameOf(Top.fn, pc, Top.arg, d, Top.ok, reg)
           g == NewFrame(fn, arg, Depth + 1)
           s == [stack EXCEPT ![Depth] = f]
<1>1. f \in Frame
  BY Frames, FrameTypes
<1>2. g \in Frame /\ g = FrameOf(fn, "begin", arg, Depth + 1, FALSE, {})
  <2>1. Depth + 1 \in Nat
    BY Frames
  <2> QED BY <2>1, FrameTypes
<1>3. s \in Seq(Frame) /\ Len(s) = Depth /\ s[Depth] = f /\ \A i \in 1 .. Depth - 1 : s[i] = stack[i]
  <2> HIDE DEF f
  <2> QED BY <1>1, TopReplaced DEF Depth, OnStack
<1>4. stack' = Append(s, g)
  OBVIOUS
<1> HIDE DEF s, g
<1>5. /\ stack' \in Seq(Frame) /\ Len(stack') = Depth + 1 /\ stack'[Depth + 1] = g
      /\ \A i \in 1 .. Depth : stack'[i] = s[i]
  <2>1. /\ Append(s, g) \in Seq(Frame) /\ Len(Append(s, g)) = Len(s) + 1
        /\ Append(s, g)[Len(s) + 1] = g
        /\ \A i \in 1 .. Len(s) : Append(s, g)[i] = s[i]
    BY <1>2, <1>3, Pushed
  <2> QED BY <1>3, <1>4, <2>1
<1>6. Depth \in 1 .. Depth /\ \A i \in 1 .. Depth - 1 : i \in 1 .. Depth
  BY Frames
<1>7. Depth + 1 >= 1
  BY Frames
<1> QED BY <1>2, <1>3, <1>5, <1>6, <1>7 DEF Depth, OnStack, f

LEMMA CallMoves ==
  ASSUME OnStack, NEW pc \in Pc, NEW fn \in Fn, NEW arg \in Event \cup Op \cup {"none"},
         stack' = Call(pc, fn, arg)
  PROVE  /\ OnStack' /\ Depth' = Depth + 1
         /\ \A i \in 1 .. Depth - 1 : stack'[i] = stack[i]
         /\ stack'[Depth] = FrameOf(Top.fn, pc, Top.arg, Top.id, Top.ok, {})
         /\ stack'[Depth + 1] = FrameOf(fn, "begin", arg, Depth + 1, FALSE, {})
<1>1. Top.id \in Nat /\ {} \in SUBSET Channel
  BY Frames, FrameTypes
<1> QED BY <1>1, GotoIs, PushOnMoves, ZenonT(60) DEF Call

LEMMA StartMoves ==
  ASSUME OnStack, NEW d \in Nat,
         stack' = Append([stack EXCEPT ![Depth].pc = "started", ![Depth].id = d],
                         NewFrame("cmd", "startup", Depth + 1))
  PROVE  /\ OnStack' /\ Depth' = Depth + 1
         /\ \A i \in 1 .. Depth - 1 : stack'[i] = stack[i]
         /\ stack'[Depth] = FrameOf(Top.fn, "started", Top.arg, d, Top.ok, Top.reg)
         /\ stack'[Depth + 1] = FrameOf("cmd", "begin", "startup", Depth + 1, FALSE, {})
<1> DEFINE f == FrameOf(Top.fn, "started", Top.arg, Top.id, Top.ok, Top.reg)
<1>1. "started" \in Pc /\ "cmd" \in Fn /\ "startup" \in Event \cup Op \cup {"none"}
  BY DEF Pc, Fn, Op
<1>2. f \in Frame /\ [Top EXCEPT !.pc = "started"] = f /\ Top.reg \in SUBSET Channel
  BY <1>1, Frames, FieldsReplaced, FrameTypes
<1>3. [f EXCEPT !.id = d] = FrameOf(f.fn, f.pc, f.arg, d, f.ok, f.reg)
  <2> HIDE DEF f
  <2> QED BY <1>2, FieldsReplaced
<1>4. Depth \in 1 .. Len(stack) /\ stack \in [1 .. Len(stack) -> Frame]
  BY DEF Depth, OnStack
<1>5. [stack EXCEPT ![Depth].pc = "started", ![Depth].id = d]
      = [stack EXCEPT ![Depth] = [[Top EXCEPT !.pc = "started"] EXCEPT !.id = d]]
  BY <1>4 DEF Top
<1>6. f.fn = Top.fn /\ f.pc = "started" /\ f.arg = Top.arg /\ f.ok = Top.ok /\ f.reg = Top.reg
  BY FieldsOf
<1> HIDE DEF f
<1>7. [[Top EXCEPT !.pc = "started"] EXCEPT !.id = d]
      = FrameOf(Top.fn, "started", Top.arg, d, Top.ok, Top.reg)
  BY <1>2, <1>3, <1>6
<1>8. stack' = Append([stack EXCEPT ![Depth] = FrameOf(Top.fn, "started", Top.arg, d, Top.ok, Top.reg)],
                      NewFrame("cmd", "startup", Depth + 1))
  BY <1>5, <1>7
<1> QED BY <1>1, <1>2, <1>8, PushOnMoves

\* It returns, ...
LEMMA PopMoves ==
  ASSUME OnStack, Depth > 1, stack' = Caller
  PROVE  /\ OnStack' /\ Depth' = Depth - 1
         /\ \A i \in 1 .. Depth - 1 : stack'[i] = stack[i]
<1>1. Len(stack) \in Nat /\ Len(stack) >= 1
  BY DEF OnStack, Depth
<1> QED BY <1>1, Popped DEF Caller, Depth, OnStack

\* ... a command with the status its caller keeps.
LEMMA AnswerMoves ==
  ASSUME OnStack, Depth > 1, NEW ok \in BOOLEAN, stack' = [Caller EXCEPT ![Depth - 1].ok = ok]
  PROVE  /\ OnStack' /\ Depth' = Depth - 1
         /\ \A i \in 1 .. Depth - 2 : stack'[i] = stack[i]
         /\ stack'[Depth - 1] = FrameOf(stack[Depth - 1].fn, stack[Depth - 1].pc, stack[Depth - 1].arg,
                                        stack[Depth - 1].id, ok, stack[Depth - 1].reg)
<1> DEFINE n == Depth - 1
           p == stack[n]
           f == FrameOf(p.fn, p.pc, p.arg, p.id, ok, p.reg)
<1>1. Depth \in Nat /\ n \in 1 .. Depth /\ n >= 1 /\ p \in Frame
  BY Frames DEF OnStack, Depth
<1>2. Caller \in Seq(Frame) /\ Len(Caller) = n /\ \A i \in 1 .. n : Caller[i] = stack[i]
  BY <1>1, Popped DEF Caller, Depth, OnStack
<1>3. f \in Frame /\ [p EXCEPT !.ok = ok] = f
  BY <1>1, FieldsReplaced, FrameTypes
<1>4. Caller[n] = p
  BY <1>1, <1>2
<1> HIDE DEF f, p
<1>5. stack' = [Caller EXCEPT ![Len(Caller)] = f]
  <2> HIDE DEF n
  <2>1. n \in 1 .. Len(Caller) /\ Caller \in [1 .. Len(Caller) -> Frame]
    BY <1>1, <1>2
  <2>2. stack' = [Caller EXCEPT ![n] = [Caller[n] EXCEPT !.ok = ok]]
    BY <2>1 DEF n
  <2> QED BY <1>2, <1>3, <1>4, <2>2
<1>6. /\ stack' \in Seq(Frame) /\ Len(stack') = n /\ stack'[n] = f
      /\ \A i \in 1 .. n - 1 : stack'[i] = Caller[i]
  BY <1>1, <1>2, <1>3, <1>5, TopReplaced
<1>7. n - 1 = Depth - 2 /\ \A i \in 1 .. n - 1 : i \in 1 .. n
  BY <1>1
<1> QED BY <1>1, <1>2, <1>6, <1>7 DEF Depth, OnStack, f, p

-----------------------------------------------------------------------------
(* The stack: the places of each function, and who calls whom.  A function  *)
(* that is not in a call has nothing on top but the timer's interrupt.      *)

PlacesOf(fn) ==
  CASE fn = "main" -> {"begin"}
    [] fn = "wait" -> {"begin"}
    [] fn = "cmd" -> {"begin", "send", "load", "enable", "return"}
    [] fn = "sys" -> {"begin", "load", "enable", "return"}
    [] fn = "save" -> {"begin", "write", "off", "end"}
    [] fn = "join" -> {"begin", "started", "woken", "save", "end"}
    [] fn = "notify" -> {"begin", "callback", "ack", "load", "enable"}
    [] fn = "request" -> {"begin", "ack", "load", "enable"}
    [] fn = "timer" -> {"begin", "end"}

\* What the function fn at pc has on top.
OnTop(fn, pc, callee, arg) ==
  \/ callee = "timer"
  \/ fn \in {"main", "wait"} /\ callee \in Task
  \/ fn = "cmd" /\ pc = "return" /\ callee = "wait" /\ arg = "ack"
  \/ fn = "sys" /\ pc = "return" /\ callee = "wait" /\ arg = "sys"
  \/ fn = "join" /\ pc = "woken" /\ callee = "wait" /\ arg = "startup"
  \/ fn = "join" /\ pc = "started" /\ callee = "cmd" /\ arg = "startup"
  \/ fn = "join" /\ pc = "save" /\ callee = "cmd" /\ arg = "register"
  \/ fn = "save" /\ pc = "write" /\ callee = "cmd" /\ arg = "get"
  \/ fn = "timer" /\ pc = "end" /\ callee = "cmd" /\ arg = "send"
  \/ fn = "save" /\ pc \in {"off", "end"} /\ callee = "sys"
  \/ fn = "join" /\ pc = "end" /\ callee = "save"
  \/ fn = "notify" /\ pc = "ack" /\ callee = "save"

\* What may run above an activation of the timer's call-back.
InTimer(fn, arg) == fn \in {"cmd", "request"} \/ (fn = "wait" /\ arg = "ack")

StackInv ==
  /\ OnStack
  /\ \A i \in 1 .. Depth : stack[i].fn = "main" <=> i = 1
  /\ \A i \in 1 .. Depth : stack[i].pc \in PlacesOf(stack[i].fn)
  /\ \A i \in 1 .. Depth : stack[i].reg # {} => stack[i].pc = "enable"
  /\ \A i \in 1 .. Depth : stack[i].fn \in {"cmd", "sys"} => stack[i].id = i
  /\ \A i \in 1 .. Depth - 1 :
       OnTop(stack[i].fn, stack[i].pc, stack[i + 1].fn, stack[i + 1].arg)
  /\ \A i, j \in 1 .. Depth :
       i < j /\ stack[i].fn = "timer" => InTimer(stack[j].fn, stack[j].arg)

\* The blocks of ZbStartupWaitInfo are handed out in order, one per press.
Allocated(d) == d \in Info /\ info[d].state # "none"
Joining(i) == stack[i].fn = "join" /\ stack[i].pc = "begin"
Asked == IF "join" \in taskSet THEN 1 ELSE 0
Begun == IF \E i \in 1 .. Depth : Joining(i) THEN 1 ELSE 0

InfoInv ==
  /\ \E k \in 0 .. MaxPress :
       /\ k + Asked + Begun <= presses
       /\ \A d \in Info : info[d].state # "none" <=> d <= k
  /\ \A i \in 1 .. Depth : stack[i].fn = "join" /\ stack[i].pc \in {"started", "woken"}
       => Allocated(stack[i].id)
  /\ ot.op = "startup" => Allocated(ot.info)
  /\ starting # NoInfo => Allocated(starting)
  /\ notif.kind = "startup" => Allocated(notif.info)

\* A notification from the moment it is taken to the end of its call-back.
Processing(f) == f.fn = "notify" /\ f.pc \in {"callback", "ack"}
Served(f) == f.fn = "notify" /\ f.pc # "begin"

\* It is processed once, by one activation, and not signalled meanwhile.
NotifInv ==
  /\ ~ flag["notif"] => notif.processed = 1 /\ cptNotify = 0
  /\ \A i \in 1 .. Depth : Processing(stack[i]) =>
       /\ flag["notif"] /\ ~ enabled["notif"] /\ cptNotify = 0
       /\ notif.processed = (IF stack[i].pc = "callback" THEN 0 ELSE 1)
       /\ \A j \in 1 .. Depth : Served(stack[j]) => j = i
       /\ \A j \in 1 .. Depth : "notif" \notin stack[j].reg
  /\ flag["notif"] /\ (\A i \in 1 .. Depth : ~ Processing(stack[i])) => notif.processed = 0

\* The running activation goes on.
LEMMA MovedOn ==
  ASSUME StackInv, OnStack', Depth' = Depth,
         \A i \in 1 .. Depth - 1 : stack'[i] = stack[i],
         NEW pc \in PlacesOf(Top.fn), NEW reg, reg # {} => pc = "enable",
         stack'[Depth] = FrameOf(Top.fn, pc, Top.arg, Top.id, Top.ok, reg)
  PROVE  StackInv'
<1> USE DEF OnStack
<1>1. /\ Depth \in Nat /\ Depth >= 1 /\ Top = stack[Depth]
      /\ \A i \in 1 .. Depth : i = Depth \/ (i \in 1 .. Depth - 1 /\ stack'[i] = stack[i])
  BY Frames DEF StackInv, Top
<1>2. /\ stack'[Depth].fn = Top.fn /\ stack'[Depth].pc = pc /\ stack'[Depth].arg = Top.arg
      /\ stack'[Depth].id = Top.id /\ stack'[Depth].reg = reg
  BY FieldsOf
<1>3. \A i \in 1 .. Depth : /\ stack'[i].fn = stack[i].fn /\ stack'[i].arg = stack[i].arg
                            /\ stack'[i].id = stack[i].id
  BY <1>1, <1>2
<1>4. \A i \in 1 .. Depth : /\ stack'[i].pc \in PlacesOf(stack'[i].fn)
                            /\ stack'[i].reg # {} => stack'[i].pc = "enable"
  BY <1>1, <1>2 DEF StackInv
<1>5. \A i \in 1 .. Depth - 1 : OnTop(stack'[i].fn, stack'[i].pc, stack'[i + 1].fn, stack'[i + 1].arg)
  <2> TAKE i \in 1 .. Depth - 1
  <2>1. i + 1 \in 1 .. Depth /\ stack'[i] = stack[i]
    BY <1>1
  <2> QED BY <1>3, <2>1 DEF StackInv
<1>6. \A i, j \in 1 .. Depth : i < j /\ stack'[i].fn = "timer" => InTimer(stack'[j].fn, stack'[j].arg)
  BY <1>3 DEF StackInv
<1>7. \A i \in 1 .. Depth : /\ stack'[i].fn = "main" <=> i = 1
                            /\ stack'[i].fn \in {"cmd", "sys"} => stack'[i].id = i
  BY <1>3 DEF StackInv
<1> QED BY <1>4, <1>5, <1>6, <1>7 DEF StackInv

\* It returns.
LEMMA Returned ==
  ASSUME StackInv, OnStack', Depth' = Depth - 1,
         \A i \in 1 .. Depth - 1 : /\ stack'[i].fn = stack[i].fn /\ stack'[i].pc = stack[i].pc
                                   /\ stack'[i].arg = stack[i].arg /\ stack'[i].id = stack[i].id
                                   /\ stack'[i].reg = stack[i].reg
  PROVE  StackInv'
<1> USE DEF OnStack
<1>1. /\ Depth \in Nat /\ \A i \in 1 .. Depth - 1 : i \in 1 .. Depth
      /\ \A i \in 1 .. (Depth - 1) - 1 : i \in 1 .. Depth - 1 /\ i + 1 \in 1 .. Depth - 1
  BY Frames DEF StackInv
<1>2. \A i \in 1 .. (Depth - 1) - 1 :
        OnTop(stack'[i].fn, stack'[i].pc, stack'[i + 1].fn, stack'[i + 1].arg)
  BY <1>1 DEF StackInv
<1>3. \A i, j \in 1 .. Depth - 1 : i < j /\ stack'[i].fn = "timer" => InTimer(stack'[j].fn, stack'[j].arg)
  BY <1>1 DEF StackInv
<1>4. \A i \in 1 .. Depth - 1 : /\ stack'[i].fn = "main" <=> i = 1
                                /\ stack'[i].fn \in {"cmd", "sys"} => stack'[i].id = i
                                /\ stack'[i].pc \in PlacesOf(stack'[i].fn)
                                /\ stack'[i].reg # {} => stack'[i].pc = "enable"
  BY <1>1, ZenonT(60) DEF StackInv
<1> QED BY <1>2, <1>3, <1>4 DEF StackInv

\* It calls, and has an activation of fn on top.
LEMMA Called ==
  ASSUME StackInv, OnStack', Depth' = Depth + 1,
         \A i \in 1 .. Depth - 1 : stack'[i] = stack[i],
         /\ stack'[Depth].fn = Top.fn /\ stack'[Depth].pc \in PlacesOf(Top.fn)
         /\ stack'[Depth].arg = Top.arg
         /\ Top.fn \in {"cmd", "sys"} => stack'[Depth].id = Top.id
         /\ stack'[Depth].reg # {} => stack'[Depth].pc = "enable",
         NEW fn \in Fn \ {"main"}, NEW arg, NEW id, fn \in {"cmd", "sys"} => id = Depth + 1,
         stack'[Depth + 1] = FrameOf(fn, "begin", arg, id, FALSE, {}),
         OnTop(Top.fn, stack'[Depth].pc, fn, arg),
         (\E i \in 1 .. Depth : stack[i].fn = "timer") => InTimer(fn, arg)
  PROVE  StackInv'
<1> USE DEF OnStack
<1>1. /\ Depth \in Nat /\ Depth >= 1 /\ Top = stack[Depth]
      /\ \A i \in 1 .. Depth + 1 : i = Depth + 1 \/ i \in 1 .. Depth
      /\ \A i \in 1 .. Depth : i = Depth \/ (i \in 1 .. Depth - 1 /\ stack'[i] = stack[i])
  BY Frames DEF StackInv, Top
<1>2. /\ stack'[Depth + 1].fn = fn /\ stack'[Depth + 1].pc = "begin" /\ stack'[Depth + 1].arg = arg
      /\ stack'[Depth + 1].id = id /\ stack'[Depth + 1].reg = {}
  <2> DEFINE f == FrameOf(fn, "begin", arg, id, FALSE, {})
  <2>1. f.fn = fn /\ f.pc = "begin" /\ f.arg = arg /\ f.id = id /\ f.reg = {}
    BY DEF FrameOf
  <2> HIDE DEF f
  <2>2. stack'[Depth + 1] = f
    BY DEF f
  <2> QED BY <2>1, <2>2
<1>3. \A i \in 1 .. Depth : /\ stack'[i].fn = stack[i].fn /\ stack'[i].arg = stack[i].arg
                            /\ stack[i].fn \in {"cmd", "sys"} => stack'[i].id = stack[i].id
  BY <1>1
<1>4. \A i \in 1 .. Depth : /\ stack'[i].pc \in PlacesOf(stack'[i].fn)
                            /\ stack'[i].reg # {} => stack'[i].pc = "enable"
  BY <1>1 DEF StackInv
<1>5. "begin" \in PlacesOf(fn)
  BY DEF PlacesOf, Fn
<1>6. \A i \in 1 .. (Depth + 1) - 1 :
        OnTop(stack'[i].fn, stack'[i].pc, stack'[i + 1].fn, stack'[i + 1].arg)
  <2> TAKE i \in 1 .. (Depth + 1) - 1
  <2>1. CASE i = Depth
    BY <1>2, <2>1
  <2>2. CASE i # Depth
    <3>1. i \in 1 .. Depth - 1 /\ i \in 1 .. Depth /\ i + 1 \in 1 .. Depth /\ stack'[i] = stack[i]
      BY <1>1, <2>2
    <3> QED BY <1>3, <3>1 DEF StackInv
  <2> QED BY <2>1, <2>2
<1>7. \A i, j \in 1 .. Depth + 1 : i < j /\ stack'[i].fn = "timer" => InTimer(stack'[j].fn, stack'[j].arg)
  <2> SUFFICES ASSUME NEW i \in 1 .. Depth + 1, NEW j \in 1 .. Depth + 1, i < j, stack'[i].fn = "timer"
               PROVE  InTimer(stack'[j].fn, stack'[j].arg)
    OBVIOUS
  <2>1. i \in 1 .. Depth /\ stack[i].fn = "timer"
    <3>1. i \in 1 .. Depth
      BY <1>1
    <3> QED BY <1>3, <3>1
  <2>2. CASE j = Depth + 1
    BY <1>2, <2>1, <2>2
  <2>3. CASE j # Depth + 1
    BY <1>1, <1>3, <2>1, <2>3 DEF StackInv
  <2> QED BY <2>2, <2>3
<1>8. ASSUME NEW i \in 1 .. Depth + 1
      PROVE  /\ stack'[i].fn = "main" <=> i = 1
             /\ stack'[i].fn \in {"cmd", "sys"} => stack'[i].id = i
  <2>1. CASE i = Depth + 1
    <3>1. i # 1
      BY <1>1, <2>1
    <3> QED BY <1>2, <2>1, <3>1
  <2>2. CASE i # Depth + 1
    <3>1. i \in 1 .. Depth
      BY <1>1, <2>2
    <3>2. stack[i].fn = "main" <=> i = 1
      BY <3>1 DEF StackInv
    <3>3. stack[i].fn \in {"cmd", "sys"} => stack[i].id = i
      BY <3>1 DEF StackInv
    <3> QED BY <1>3, <3>1, <3>2, <3>3
  <2> QED BY <2>1, <2>2
<1>9. \A i \in 1 .. Depth + 1 : /\ stack'[i].pc \in PlacesOf(stack'[i].fn)
                                /\ stack'[i].reg # {} => stack'[i].pc = "enable"
  BY <1>1, <1>2, <1>4, <1>5
<1> QED BY <1>6, <1>7, <1>8, <1>9 DEF StackInv

TypesInv ==
  /\ taskSet \subseteq Task /\ evtSet \subseteq Event
  /\ cptNotify \in Nat /\ cptRequest \in Nat
  /\ flag \in [Channel -> BOOLEAN] /\ enabled \in [Channel -> BOOLEAN]
  /\ ot \in [owner : Nat, op : Op, info : Nat, answered : BOOLEAN, ok : BOOLEAN]
  /\ sysBuf \in [owner : Nat, answered : BOOLEAN]
  /\ notif \in [kind : {"startup", "persist"}, info : Nat, ok : BOOLEAN, processed : Nat]
  /\ info \in [Info -> [state : {"none", "active", "done", "freed", "corrupt"}, ok : BOOLEAN]]
  /\ joined \in BOOLEAN /\ persistCb \in BOOLEAN
  /\ m0 \in {"idle", "serving", "needs", "malloc"} /\ starting \in Info \cup {NoInfo}
  /\ presses \in 0 .. MaxPress

\* There is a block for every network task that starts.
LEMMA NextIsFree ==
  ASSUME TypesInv, StackInv, InfoInv, At("join", "begin")
  PROVE  /\ NextInfo \in Info /\ info[NextInfo].state = "none"
         /\ \A d \in Info : info[d].state # "none" <=> d <= NextInfo - 1
         /\ NextInfo - 1 + Asked + 1 <= presses
<1>1. PICK k \in 0 .. MaxPress : /\ k + Asked + Begun <= presses
                                 /\ \A d \in Info : info[d].state # "none" <=> d <= k
  BY DEF InfoInv
<1>2. Begun = 1 /\ Asked \in {0, 1}
  BY Frames DEF Begun, Asked, Joining, At, StackInv, Top
<1>3. k + 1 \in Info /\ k \in Nat /\ k + Asked + 1 <= presses
  BY <1>1, <1>2, IpcAssumption DEF TypesInv, Info
<1> DEFINE Free(i) == info[i].state = "none" /\ \A j \in Info : info[j].state = "none" => i <= j
<1>4. Free(k + 1)
  <2>1. info[k + 1].state = "none"
    BY <1>1, <1>3
  <2>2. \A j \in Info : info[j].state = "none" => k + 1 <= j
    BY <1>1, <1>3, IpcAssumption DEF Info
  <2> QED BY <2>1, <2>2
<1>5. NextInfo \in Info /\ Free(NextInfo)
  <2> HIDE DEF Free
  <2>1. NextInfo = CHOOSE i \in Info : Free(i)
    BY DEF NextInfo, Free
  <2> QED BY <1>3, <1>4, <2>1
<1>6. NextInfo = k + 1
  <2>1. NextInfo <= k + 1 /\ k + 1 <= NextInfo
    BY <1>3, <1>4, <1>5
  <2> QED BY <1>3, <1>5, <2>1, IpcAssumption DEF Info
<1>7. NextInfo \in Info /\ info[NextInfo].state = "none"
  BY <1>5
<1>8. NextInfo - 1 = k
  BY <1>3, <1>6
<1>9. \A d \in Info : info[d].state # "none" <=> d <= NextInfo - 1
  BY <1>1, <1>8
<1>10. NextInfo - 1 + Asked + 1 <= presses
  BY <1>3, <1>8
<1> QED BY <1>7, <1>9, <1>10

LEMMA BelowTop ==
  ASSUME StackInv
  PROVE  /\ Depth \in Nat /\ Depth >= 1
         /\ Top.fn # "main" => Depth > 1 /\ Depth - 1 \in 1 .. Depth
         /\ Depth > 1 => LET p == stack[Depth - 1] IN OnTop(p.fn, p.pc, Top.fn, Top.arg)
         /\ (\E i \in 1 .. Depth : stack[i].fn = "timer") /\ Top.fn # "timer"
              => InTimer(Top.fn, Top.arg)
         /\ Top = stack[Depth] /\ Depth \in 1 .. Depth
<1>1. Depth \in Nat /\ Depth >= 1 /\ Depth \in 1 .. Depth /\ Top = stack[Depth]
  BY Frames DEF StackInv, OnStack, Top
<1>2. Top.fn # "main" => Depth > 1
  BY <1>1 DEF StackInv
<1>3. ASSUME Depth > 1
      PROVE  LET p == stack[Depth - 1] IN OnTop(p.fn, p.pc, Top.fn, Top.arg)
  <2>1. Depth - 1 \in 1 .. Depth - 1 /\ (Depth - 1) + 1 = Depth
    BY <1>1, <1>3
  <2> QED BY <1>1, <2>1 DEF StackInv
<1>4. ASSUME NEW i \in 1 .. Depth, stack[i].fn = "timer", Top.fn # "timer"
      PROVE  InTimer(Top.fn, Top.arg)
  <2>1. i < Depth
    BY <1>1, <1>4
  <2> QED BY <1>1, <1>4, <2>1 DEF StackInv
<1>5. Depth > 1 => Depth - 1 \in 1 .. Depth
  BY <1>1
<1> QED BY <1>1, <1>2, <1>3, <1>4, <1>5

-----------------------------------------------------------------------------
(* The steps of the stack. *)

\* A step that moves the running activation to pc.
LEMMA GotoStep ==
  ASSUME StackInv, NEW pc \in Pc, pc \in PlacesOf(Top.fn), stack' = Goto(pc)
  PROVE  StackInv'
<1>1. OnStack
  BY DEF StackInv
<1> QED BY <1>1, GotoMoves, MovedOn

LEMMA CallStep ==
  ASSUME StackInv, NEW pc \in Pc, pc \in PlacesOf(Top.fn), NEW fn \in Fn \ {"main"},
         NEW arg \in Event \cup Op \cup {"none"}, OnTop(Top.fn, pc, fn, arg),
         InTimer(Top.fn, Top.arg) \/ Top.fn = "timer" => InTimer(fn, arg),
         stack' = Call(pc, fn, arg)
  PROVE  StackInv'
<1>1. OnStack /\ fn \in Fn
  BY DEF StackInv
<1> DEFINE f == FrameOf(Top.fn, pc, Top.arg, Top.id, Top.ok, {})
<1>2. /\ OnStack' /\ Depth' = Depth + 1
      /\ \A i \in 1 .. Depth - 1 : stack'[i] = stack[i]
      /\ stack'[Depth] = f
      /\ stack'[Depth + 1] = FrameOf(fn, "begin", arg, Depth + 1, FALSE, {})
  BY <1>1, CallMoves
<1>3. f.fn = Top.fn /\ f.pc = pc /\ f.arg = Top.arg /\ f.id = Top.id /\ f.reg = {}
  BY DEF FrameOf
<1> HIDE DEF f
<1>4. (\E i \in 1 .. Depth : stack[i].fn = "timer") => InTimer(fn, arg)
  BY BelowTop
<1> QED BY <1>2, <1>3, <1>4, Called

LEMMA PushStep ==
  ASSUME StackInv, NEW fn \in Fn \ {"main", "cmd", "sys"}, NEW id \in Nat,
         OnTop(Top.fn, Top.pc, fn, "none"),
         (\E i \in 1 .. Depth : stack[i].fn = "timer") => InTimer(fn, "none"),
         stack' = Append(stack, NewFrame(fn, "none", id))
  PROVE  StackInv'
<1>1. OnStack /\ fn \in Fn /\ Depth \in 1 .. Depth /\ Top = stack[Depth]
      /\ \A i \in 1 .. Depth - 1 : i \in 1 .. Depth
  BY BelowTop DEF StackInv
<1>2. /\ OnStack' /\ Depth' = Depth + 1
      /\ \A i \in 1 .. Depth : stack'[i] = stack[i]
      /\ stack'[Depth + 1] = FrameOf(fn, "begin", "none", id, FALSE, {})
  BY <1>1, PushMoves
<1>3. /\ stack'[Depth].fn = Top.fn /\ stack'[Depth].pc \in PlacesOf(Top.fn)
      /\ stack'[Depth].arg = Top.arg /\ stack'[Depth].id = Top.id
      /\ stack'[Depth].reg # {} => stack'[Depth].pc = "enable"
  BY <1>1, <1>2 DEF StackInv
<1>4. OnTop(Top.fn, stack'[Depth].pc, fn, "none")
  BY <1>1, <1>2
<1>5. fn \in Fn \ {"main"} /\ (fn \in {"cmd", "sys"} => id = Depth + 1)
      /\ \A i \in 1 .. Depth - 1 : stack'[i] = stack[i]
  BY <1>1, <1>2
<1> HIDE DEF StackInv
<1> QED BY <1>2, <1>3, <1>4, <1>5, Called

LEMMA PopStep ==
  ASSUME StackInv, Top.fn # "main", stack' = Caller
  PROVE  StackInv'
<1>1. OnStack /\ Depth > 1
  BY BelowTop DEF StackInv
<1>2. OnStack' /\ Depth' = Depth - 1 /\ \A i \in 1 .. Depth - 1 : stack'[i] = stack[i]
  BY <1>1, PopMoves
<1> QED BY <1>2, Returned

LEMMA DispatchStack ==
  ASSUME TypesInv, StackInv, Dispatch
  PROVE  StackInv'
<1>1. PICK t \in Runnable : stack' = Append(stack, NewFrame(t, "none", NoInfo))
  BY DEF Dispatch
<1>2. t \in Task /\ t \in Fn \ {"main", "cmd", "sys"} /\ NoInfo \in Nat
  BY DEF Runnable, TypesInv, Task, Fn, NoInfo
<1>3. Top.fn \in {"main", "wait"}
  BY DEF Dispatch
<1>4. OnTop(Top.fn, Top.pc, t, "none")
  BY <1>2, <1>3 DEF OnTop
<1>5. (\E i \in 1 .. Depth : stack[i].fn = "timer") => InTimer(t, "none")
  <2> SUFFICES ASSUME \E i \in 1 .. Depth : stack[i].fn = "timer"
               PROVE  t = "request"
    BY DEF InTimer
  <2>1. InTimer(Top.fn, Top.arg)
    BY <1>3, BelowTop
  <2>2. Top.fn = "wait" /\ Top.arg = "ack"
    BY <1>3, <2>1 DEF InTimer
  <2>3. t \in EvtIdleMask("ack")
    BY <2>2, BelowTop DEF Runnable
  <2> QED BY <2>3 DEF EvtIdleMask
<1> QED BY <1>1, <1>2, <1>4, <1>5, PushStep

LEMMA LoadStack ==
  ASSUME StackInv, MaskLoad
  PROVE  StackInv'
<1> DEFINE reg == {c \in Channel : enabled[c]}
<1>1. OnStack /\ reg \in SUBSET Channel
  BY DEF StackInv
<1>2. stack' = [stack EXCEPT ![Depth].pc = "enable", ![Depth].reg = reg]
  BY DEF MaskLoad
<1>3. "enable" \in PlacesOf(Top.fn)
  <2>1. "load" \in PlacesOf(Top.fn) /\ Top.fn \in Fn
    BY BelowTop, Frames, FrameTypes DEF MaskLoad, StackInv
  <2> QED BY <2>1 DEF PlacesOf, Fn
<1> HIDE DEF reg
<1> QED BY <1>1, <1>2, <1>3, LoadMoves, MovedOn

LEMMA CmdStack ==
  ASSUME TypesInv, StackInv, CmdFill \/ CmdSend \/ CmdEnable \/ CmdReturn
  PROVE  StackInv'
<1>1. CASE CmdFill
  <2>1. stack' = Goto("send") /\ "send" \in PlacesOf(Top.fn) /\ "send" \in Pc
    BY <1>1 DEF CmdFill, At, PlacesOf, Pc
  <2> QED BY <2>1, GotoStep
<1>2. CASE CmdSend
  <2>1. stack' = Goto("load") /\ "load" \in PlacesOf(Top.fn) /\ "load" \in Pc
    BY <1>2 DEF CmdSend, At, PlacesOf, Pc
  <2> QED BY <2>1, GotoStep
<1>3. CASE CmdEnable
  <2>1. /\ stack' = Call("return", "wait", "ack") /\ "return" \in PlacesOf(Top.fn) /\ "return" \in Pc
        /\ "wait" \in Fn \ {"main"} /\ "ack" \in Event \cup Op \cup {"none"}
        /\ OnTop(Top.fn, "return", "wait", "ack") /\ InTimer("wait", "ack")
    BY <1>3 DEF CmdEnable, At, PlacesOf, Pc, Fn, Event, OnTop, InTimer
  <2> QED BY <2>1, CallStep
<1>4. CASE CmdReturn
  <2>1. OnStack /\ Depth > 1 /\ ot.ok \in BOOLEAN /\ stack' = [Caller EXCEPT ![Depth - 1].ok = ot.ok]
    BY <1>4, BelowTop DEF CmdReturn, At, StackInv, TypesInv
  <2> DEFINE p == stack[Depth - 1]
             f == FrameOf(p.fn, p.pc, p.arg, p.id, ot.ok, p.reg)
  <2>2. /\ OnStack' /\ Depth' = Depth - 1
        /\ \A i \in 1 .. Depth - 2 : stack'[i] = stack[i]
        /\ stack'[Depth - 1] = f
    BY <2>1, AnswerMoves
  <2>3. f.fn = p.fn /\ f.pc = p.pc /\ f.arg = p.arg /\ f.id = p.id /\ f.reg = p.reg
    BY DEF FrameOf
  <2>4. \A i \in 1 .. Depth - 1 : i = Depth - 1 \/ i \in 1 .. Depth - 2
    BY BelowTop
  <2> HIDE DEF f
  <2>5. \A i \in 1 .. Depth - 1 : /\ stack'[i].fn = stack[i].fn /\ stack'[i].pc = stack[i].pc
                                  /\ stack'[i].arg = stack[i].arg /\ stack'[i].id = stack[i].id
                                  /\ stack'[i].reg = stack[i].reg
    BY <2>2, <2>3, <2>4
  <2> QED BY <2>2, <2>5, Returned
<1> QED BY <1>1, <1>2, <1>3, <1>4

LEMMA SysStack ==
  ASSUME StackInv, SysSend \/ SysEnable \/ SysReturn
  PROVE  StackInv'
<1>1. CASE SysSend
  <2>1. stack' = Goto("load") /\ "load" \in PlacesOf(Top.fn) /\ "load" \in Pc
    BY <1>1 DEF SysSend, At, PlacesOf, Pc
  <2> QED BY <2>1, GotoStep
<1>2. CASE SysEnable
  <2>1. /\ stack' = Call("return", "wait", "sys") /\ "return" \in PlacesOf(Top.fn) /\ "return" \in Pc
        /\ "wait" \in Fn \ {"main"} /\ "sys" \in Event \cup Op \cup {"none"}
        /\ OnTop(Top.fn, "return", "wait", "sys") /\ ~ InTimer(Top.fn, Top.arg) /\ Top.fn # "timer"
    BY <1>2 DEF SysEnable, At, PlacesOf, Pc, Fn, Event, OnTop, InTimer
  <2> QED BY <2>1, CallStep
<1>3. CASE SysReturn
  BY <1>3, PopStep DEF SysReturn, At
<1> QED BY <1>1, <1>2, <1>3

LEMMA SaveStack ==
  ASSUME StackInv, SaveGet \/ SaveWrite \/ SaveEraseOff \/ SaveEnd
  PROVE  StackInv'
<1>1. CASE SaveGet
  <2>1. /\ stack' = Call("write", "cmd", "get") /\ "write" \in PlacesOf(Top.fn) /\ "write" \in Pc
        /\ "cmd" \in Fn \ {"main"} /\ "get" \in Event \cup Op \cup {"none"}
        /\ OnTop(Top.fn, "write", "cmd", "get") /\ ~ InTimer(Top.fn, Top.arg) /\ Top.fn # "timer"
    BY <1>1 DEF SaveGet, At, PlacesOf, Pc, Fn, Op, OnTop, InTimer
  <2> QED BY <2>1, CallStep
<1>2. CASE SaveWrite /\ stack' = Call("off", "sys", "none")
  <2>1. /\ stack' = Call("off", "sys", "none") /\ "off" \in PlacesOf(Top.fn) /\ "off" \in Pc
        /\ "sys" \in Fn \ {"main"} /\ "none" \in Event \cup Op \cup {"none"}
        /\ OnTop(Top.fn, "off", "sys", "none") /\ ~ InTimer(Top.fn, Top.arg) /\ Top.fn # "timer"
    BY <1>2 DEF SaveWrite, At, PlacesOf, Pc, Fn, OnTop, InTimer
  <2> QED BY <2>1, CallStep
<1>3. CASE SaveEraseOff
  <2>1. /\ stack' = Call("end", "sys", "none") /\ "end" \in PlacesOf(Top.fn) /\ "end" \in Pc
        /\ "sys" \in Fn \ {"main"} /\ "none" \in Event \cup Op \cup {"none"}
        /\ OnTop(Top.fn, "end", "sys", "none") /\ ~ InTimer(Top.fn, Top.arg) /\ Top.fn # "timer"
    BY <1>3 DEF SaveEraseOff, At, PlacesOf, Pc, Fn, OnTop, InTimer
  <2> QED BY <2>1, CallStep
<1>4. CASE (SaveWrite \/ SaveEnd) /\ stack' = Caller
  BY <1>4, PopStep DEF SaveWrite, SaveEnd, At
<1> QED BY <1>1, <1>2, <1>3, <1>4 DEF SaveWrite, SaveEnd

LEMMA JoinStack ==
  ASSUME TypesInv, StackInv, InfoInv,
         JoinBegin \/ JoinStarted \/ JoinWoken \/ JoinSave \/ JoinEnd
  PROVE  StackInv'
<1> DEFINE Args == Event \cup Op \cup {"none"}
<1>1. CASE JoinBegin /\ ~ joined
  <2>1. At("join", "begin") /\ OnStack /\ OnStack /\ NextInfo \in Nat
    BY <1>1, NextIsFree DEF JoinBegin, StackInv, Info
  <2> DEFINE f == FrameOf(Top.fn, "started", Top.arg, NextInfo, Top.ok, Top.reg)
  <2>2. /\ OnStack' /\ Depth' = Depth + 1
        /\ \A i \in 1 .. Depth - 1 : stack'[i] = stack[i]
        /\ stack'[Depth] = f
        /\ stack'[Depth + 1] = FrameOf("cmd", "begin", "startup", Depth + 1, FALSE, {})
    BY <1>1, <2>1, StartMoves DEF JoinBegin
  <2>3. f.fn = Top.fn /\ f.pc = "started" /\ f.arg = Top.arg /\ f.id = NextInfo /\ f.reg = Top.reg
    BY DEF FrameOf
  <2>4. Top.reg = {}
    BY <2>1, BelowTop DEF At, StackInv
  <2>5. "started" \in PlacesOf(Top.fn) /\ "cmd" \in Fn \ {"main"}
        /\ OnTop(Top.fn, "started", "cmd", "startup") /\ InTimer("cmd", "startup")
        /\ Top.fn \notin {"cmd", "sys"}
    BY <2>1 DEF At, PlacesOf, Fn, OnTop, InTimer
  <2> HIDE DEF f
  <2> QED BY <2>2, <2>3, <2>4, <2>5, Called
<1>2. CASE JoinStarted /\ Top.ok
  <2>1. /\ stack' = Call("woken", "wait", "startup") /\ "woken" \in PlacesOf(Top.fn) /\ "woken" \in Pc
        /\ "wait" \in Fn \ {"main"} /\ "startup" \in Args
        /\ OnTop(Top.fn, "woken", "wait", "startup") /\ ~ InTimer(Top.fn, Top.arg) /\ Top.fn # "timer"
    BY <1>2 DEF JoinStarted, At, PlacesOf, Pc, Fn, Op, OnTop, InTimer
  <2> QED BY <2>1, CallStep
<1>3. CASE JoinWoken /\ info[Top.id].ok
  <2>1. /\ stack' = Call("save", "cmd", "register") /\ "save" \in PlacesOf(Top.fn) /\ "save" \in Pc
        /\ "cmd" \in Fn \ {"main"} /\ "register" \in Args
        /\ OnTop(Top.fn, "save", "cmd", "register") /\ ~ InTimer(Top.fn, Top.arg) /\ Top.fn # "timer"
    BY <1>3 DEF JoinWoken, At, PlacesOf, Pc, Fn, Op, OnTop, InTimer
  <2> QED BY <2>1, CallStep
<1>4. CASE JoinSave
  <2>1. /\ stack' = Call("end", "save", "none") /\ "end" \in PlacesOf(Top.fn) /\ "end" \in Pc
        /\ "save" \in Fn \ {"main"} /\ "none" \in Args
        /\ OnTop(Top.fn, "end", "save", "none") /\ ~ InTimer(Top.fn, Top.arg) /\ Top.fn # "timer"
    BY <1>4 DEF JoinSave, At, PlacesOf, Pc, Fn, OnTop, InTimer
  <2> QED BY <2>1, CallStep
<1>5. CASE Top.fn = "join" /\ stack' = Caller
  BY <1>5, PopStep
<1>6. JoinBegin /\ joined => Top.fn = "join" /\ stack' = Caller
  BY DEF JoinBegin, At
<1>7. JoinStarted /\ ~ Top.ok => Top.fn = "join" /\ stack' = Caller
  BY DEF JoinStarted, At
<1>8. JoinWoken /\ ~ info[Top.id].ok => Top.fn = "join" /\ stack' = Caller
  BY DEF JoinWoken, At
<1>9. JoinEnd => Top.fn = "join" /\ stack' = Caller
  BY DEF JoinEnd, At
<1> QED BY <1>1, <1>2, <1>3, <1>4, <1>5, <1>6, <1>7, <1>8, <1>9

LEMMA TaskStack ==
  ASSUME StackInv, NotifyBegin \/ StartupCallback \/ PersistCallback \/ RequestBegin
                   \/ AckClear \/ AckEnable
  PROVE  StackInv'
<1>1. CASE NotifyBegin /\ cptNotify # 0
  <2>1. stack' = Goto("callback") /\ "callback" \in PlacesOf(Top.fn) /\ "callback" \in Pc
    BY <1>1 DEF NotifyBegin, At, PlacesOf, Pc
  <2> QED BY <2>1, GotoStep
<1>2. CASE StartupCallback
  <2>1. stack' = Goto("ack") /\ "ack" \in PlacesOf(Top.fn) /\ "ack" \in Pc
    BY <1>2 DEF StartupCallback, At, PlacesOf, Pc
  <2> QED BY <2>1, GotoStep
<1>3. CASE PersistCallback
  <2>1. /\ stack' = Call("ack", "save", "none") /\ "ack" \in PlacesOf(Top.fn) /\ "ack" \in Pc
        /\ "save" \in Fn \ {"main"} /\ "none" \in Event \cup Op \cup {"none"}
        /\ OnTop(Top.fn, "ack", "save", "none") /\ ~ InTimer(Top.fn, Top.arg) /\ Top.fn # "timer"
    BY <1>3 DEF PersistCallback, At, PlacesOf, Pc, Fn, OnTop, InTimer
  <2> QED BY <2>1, CallStep
<1>4. CASE RequestBegin /\ cptRequest # 0
  <2>1. stack' = Goto("ack") /\ "ack" \in PlacesOf(Top.fn) /\ "ack" \in Pc
    BY <1>4 DEF RequestBegin, At, PlacesOf, Pc
  <2> QED BY <2>1, GotoStep
<1>5. CASE AckClear
  <2>1. stack' = Goto("load") /\ "load" \in PlacesOf(Top.fn) /\ "load" \in Pc
    BY <1>5 DEF AckClear, At, PlacesOf, Pc
  <2> QED BY <2>1, GotoStep
<1>6. CASE Top.fn \in {"notify", "request"} /\ stack' = Caller
  BY <1>6, PopStep
<1>7. NotifyBegin /\ ~ cptNotify # 0 => Top.fn \in {"notify", "request"} /\ stack' = Caller
  BY DEF NotifyBegin, At
<1>8. RequestBegin /\ ~ cptRequest # 0 => Top.fn \in {"notify", "request"} /\ stack' = Caller
  BY DEF RequestBegin, At
<1>9. AckEnable => Top.fn \in {"notify", "request"} /\ stack' = Caller
  BY DEF AckEnable, At
<1> QED BY <1>1, <1>2, <1>3, <1>4, <1>5, <1>6, <1>7, <1>8, <1>9

LEMMA TimerStack ==
  ASSUME StackInv, TimerExpires \/ TimerCallback \/ TimerReturn
  PROVE  StackInv'
<1>1. CASE TimerExpires
  <2>1. /\ "timer" \in Fn \ {"main", "cmd", "sys"} /\ NoInfo \in Nat
        /\ OnTop(Top.fn, Top.pc, "timer", "none")
        /\ stack' = Append(stack, NewFrame("timer", "none", NoInfo))
        /\ ~ \E i \in 1 .. Depth : stack[i].fn = "timer"
    BY <1>1 DEF TimerExpires, Fn, NoInfo, OnTop, Active
  <2> QED BY <2>1, PushStep
<1>2. CASE TimerCallback
  <2>1. /\ stack' = Call("end", "cmd", "send") /\ "end" \in PlacesOf(Top.fn) /\ "end" \in Pc
        /\ "cmd" \in Fn \ {"main"} /\ "send" \in Event \cup Op \cup {"none"}
        /\ OnTop(Top.fn, "end", "cmd", "send") /\ InTimer("cmd", "send")
    BY <1>2 DEF TimerCallback, At, PlacesOf, Pc, Fn, Op, OnTop, InTimer
  <2> QED BY <2>1, CallStep
<1>3. CASE TimerReturn
  BY <1>3, PopStep DEF TimerReturn, At
<1> QED BY <1>1, <1>2, <1>3

LEMMA StackKept ==
  ASSUME TypesInv, StackInv, InfoInv, [Next]_vars
  PROVE  StackInv'
<1>1. CASE WaitReturn
  BY <1>1, PopStep DEF WaitReturn
<1>2. CASE stack' = stack
  <2>1. Depth' = Depth
    BY <1>2 DEF Depth
  <2> QED BY <1>2, <2>1 DEF StackInv, OnStack
<1>3. RxHandler \/ TxHandler \/ Press \/ M0Serves \/ M0Persist \/ M0Log \/ UNCHANGED vars
      => stack' = stack
  BY DEF RxHandler, TxHandler, Press, M0Serves, M0Take, M0Malloc, M0Allocated, M0Answer, M0SysAnswer,
         M0StartupDone, M0Persist, M0Log, vars
<1> QED BY <1>1, <1>2, <1>3, DispatchStack, LoadStack, CmdStack, SysStack, SaveStack, JoinStack,
           TaskStack, TimerStack DEF Next, Thread

-----------------------------------------------------------------------------
(* The types. *)

Block == [state : {"none", "active", "done", "freed", "corrupt"}, ok : BOOLEAN]

LEMMA ThreadTypes ==
  ASSUME TypesInv, StackInv, InfoInv, Thread
  PROVE  TypesInv'
<1> USE DEF TypesInv, seq, cpt, ipcc, app, radio, counters
<1>1. CASE Dispatch \/ WaitReturn
  BY <1>1 DEF Dispatch, WaitReturn
<1>2. CASE CmdFill
  <2>1. Depth > 1 /\ Depth - 1 \in 1 .. Depth /\ Top.fn = "cmd"
    BY <1>2, BelowTop DEF CmdFill, At
  <2>2. Top.arg \in Op
    BY <2>1, BelowTop DEF OnTop, Op, Task
  <2>3. stack[Depth - 1].id \in Nat /\ Top.id \in Nat
    BY <2>1, Frames, FrameTypes DEF StackInv
  <2>4. ot' = [owner |-> Top.id, op |-> Top.arg, answered |-> FALSE, ok |-> TRUE,
               info |-> stack[Depth - 1].id]
    BY <1>2 DEF CmdFill
  <2>5. ot' \in [owner : Nat, op : Op, info : Nat, answered : BOOLEAN, ok : BOOLEAN]
    BY <2>2, <2>3, <2>4
  <2> QED BY <1>2, <2>5 DEF CmdFill
<1>3. CASE MaskLoad \/ CmdSend \/ CmdEnable \/ CmdReturn \/ SysEnable \/ SysReturn \/ AckClear \/ AckEnable
  BY <1>3, ZenonT(60) DEF MaskLoad, CmdSend, CmdEnable, CmdReturn, SysEnable, SysReturn, AckClear, AckEnable,
              MaskStore
<1>4. CASE SysSend
  <2>1. Top.id \in Nat
    BY Frames, FrameTypes DEF StackInv
  <2> QED BY <1>4, <2>1 DEF SysSend
<1>5. CASE SaveGet \/ SaveWrite \/ SaveEraseOff \/ SaveEnd \/ JoinSave \/ JoinEnd \/ TimerCallback
           \/ TimerReturn
  BY <1>5 DEF SaveGet, SaveWrite, SaveEraseOff, SaveEnd, JoinSave, JoinEnd, TimerCallback, TimerReturn
<1>6. CASE JoinBegin \/ JoinStarted \/ JoinWoken
  <2>1. Top.fn = "join" /\ Top.pc = "woken" => Top.id \in Info /\ info[Top.id].ok \in BOOLEAN
    BY BelowTop DEF InfoInv, Allocated
  <2>2. \A d : [info EXCEPT ![d] = [state |-> "active", ok |-> TRUE]] \in [Info -> Block]
    <3>1. [state |-> "active", ok |-> TRUE] \in Block
      BY DEF Block
    <3> QED BY <3>1 DEF Block
  <2>3. \A d : [info EXCEPT ![d].state = "freed"] \in [Info -> Block]
    <3> TAKE d
    <3>1. d \in Info => [info[d] EXCEPT !.state = "freed"] \in Block
      BY DEF Block
    <3> QED BY <3>1 DEF Block
  <2>4. info' \in [Info -> Block]
    <3>1. info' = info \/ info' = [info EXCEPT ![NextInfo] = [state |-> "active", ok |-> TRUE]]
          \/ info' = [info EXCEPT ![Top.id].state = "freed"]
      BY <1>6 DEF JoinBegin, JoinStarted, JoinWoken
    <3>2. info \in [Info -> Block]
      BY DEF Block
    <3>3. [info EXCEPT ![NextInfo] = [state |-> "active", ok |-> TRUE]] \in [Info -> Block]
      BY <2>2
    <3>4. [info EXCEPT ![Top.id].state = "freed"] \in [Info -> Block]
      BY <2>3
    <3> QED BY <3>1, <3>2, <3>3, <3>4
  <2>5. joined' \in BOOLEAN
    BY <1>6, <2>1 DEF JoinBegin, JoinStarted, JoinWoken, At
  <2> QED BY <1>6, <2>4, <2>5 DEF JoinBegin, JoinStarted, JoinWoken, Block
<1>7. CASE NotifyBegin \/ RequestBegin
  BY <1>7 DEF NotifyBegin, RequestBegin
<1>8. CASE StartupCallback \/ PersistCallback
  <2>1. [notif EXCEPT !.processed = @ + 1]
        \in [kind : {"startup", "persist"}, info : Nat, ok : BOOLEAN, processed : Nat]
    OBVIOUS
  <2>2. \A d : [info EXCEPT ![d] = [state |-> IF @.state = "freed" THEN "corrupt" ELSE "done",
                                   ok |-> notif.ok]] \in [Info -> Block]
    <3> TAKE d
    <3>1. [state |-> IF info[d].state = "freed" THEN "corrupt" ELSE "done", ok |-> notif.ok] \in Block
      BY DEF Block
    <3> QED BY <3>1 DEF Block
  <2>3. info' \in [Info -> Block]
    <3>1. info \in [Info -> Block]
      BY DEF Block
    <3>2. info' = info \/ info' = [info EXCEPT ![notif.info] =
             [state |-> IF @.state = "freed" THEN "corrupt" ELSE "done", ok |-> notif.ok]]
      BY <1>8 DEF StartupCallback, PersistCallback
    <3> QED BY <2>2, <3>1, <3>2
  <2>4. taskSet' = taskSet /\ evtSet' \subseteq Event
    BY <1>8 DEF StartupCallback, PersistCallback, Event
  <2> QED BY <1>8, <2>1, <2>3, <2>4 DEF StartupCallback, PersistCallback, Block
<1> QED BY <1>1, <1>2, <1>3, <1>4, <1>5, <1>6, <1>7, <1>8 DEF Thread

LEMMA TypesKept ==
  ASSUME TypesInv, StackInv, InfoInv, [Next]_vars
  PROVE  TypesInv'
<1> USE DEF TypesInv, seq, cpt, ipcc, app, radio, counters
<1>1. CASE RxHandler \/ TxHandler
  <2>1. taskSet' \subseteq Task /\ cptNotify' \in Nat /\ cptRequest' \in Nat
    <3>1. taskSet' \in {taskSet, taskSet \cup {"notify"}, taskSet \cup {"request"}}
      BY <1>1 DEF RxHandler, TxHandler
    <3>2. cptNotify' \in {cptNotify, cptNotify + 1} /\ cptRequest' \in {cptRequest, cptRequest + 1}
      BY <1>1 DEF RxHandler, TxHandler
    <3>3. taskSet' \subseteq Task
      BY <3>1 DEF Task
    <3> QED BY <3>2, <3>3
  <2>2. enabled' \in [Channel -> BOOLEAN] /\ evtSet' \subseteq Event
    <3>1. CASE RxHandler
      BY <3>1 DEF RxHandler
    <3>2. CASE TxHandler
      <4>1. evtSet' \subseteq Event
        BY <3>2 DEF TxHandler, Event
      <4>2. \A c \in Channel : (enabled[c] /\ ~(c \in {"sys", "cmd"} /\ TxPending(c))) \in BOOLEAN
        OBVIOUS
      <4> QED BY <3>2, <4>1, <4>2 DEF TxHandler
    <3> QED BY <1>1, <3>1, <3>2
  <2> QED BY <1>1, <2>1, <2>2 DEF RxHandler, TxHandler
<1>2. CASE Press \/ TimerExpires
  <2>1. taskSet' \subseteq Task /\ presses' \in 0 .. MaxPress
    <3>1. taskSet' \in {taskSet, taskSet \cup {"join"}}
      BY <1>2 DEF Press, TimerExpires
    <3>2. presses' = presses \/ (presses' = presses + 1 /\ presses < MaxPress)
      BY <1>2 DEF Press, TimerExpires
    <3>3. taskSet' \subseteq Task
      BY <3>1 DEF Task
    <3> QED BY <3>2, <3>3, IpcAssumption
  <2> QED BY <1>2, <2>1 DEF Press, TimerExpires
<1>3. CASE M0Take \/ M0Malloc \/ M0Allocated \/ M0SysAnswer \/ M0Log
  BY <1>3 DEF M0Take, M0Malloc, M0Allocated, M0SysAnswer, M0Log
<1>4. CASE M0Answer
  <2>1. ot.op = "startup" => ot.info \in Info
    BY DEF InfoInv, Allocated
  <2>2. PICK ok \in BOOLEAN :
          /\ ot' = [ot EXCEPT !.answered = TRUE, !.ok = ok]
          /\ starting' = IF ot.op = "startup" /\ ok THEN ot.info ELSE starting
    BY <1>4 DEF M0Answer
  <2>3. ot' \in [owner : Nat, op : Op, info : Nat, answered : BOOLEAN, ok : BOOLEAN]
    BY <2>2
  <2>4. starting' \in Info \cup {NoInfo}
    BY <2>1, <2>2
  <2>5. persistCb' \in BOOLEAN /\ m0' = "idle" /\ flag' \in [Channel -> BOOLEAN]
    BY <1>4 DEF M0Answer
  <2> QED BY <1>4, <2>3, <2>4, <2>5 DEF M0Answer
<1>5. CASE M0StartupDone \/ M0Persist
  <2>1. starting \in Nat /\ NoInfo \in Nat
    BY IpcAssumption DEF Info, NoInfo
  <2>2. \A ok \in BOOLEAN :
          /\ [kind |-> "startup", info |-> starting, ok |-> ok, processed |-> 0]
               \in [kind : {"startup", "persist"}, info : Nat, ok : BOOLEAN, processed : Nat]
          /\ [kind |-> "persist", info |-> NoInfo, ok |-> TRUE, processed |-> 0]
               \in [kind : {"startup", "persist"}, info : Nat, ok : BOOLEAN, processed : Nat]
    BY <2>1
  <2>3. notif' \in [kind : {"startup", "persist"}, info : Nat, ok : BOOLEAN, processed : Nat]
    BY <1>5, <2>2 DEF M0StartupDone, M0Persist
  <2>4. flag' \in [Channel -> BOOLEAN] /\ starting' \in Info \cup {NoInfo}
    BY <1>5 DEF M0StartupDone, M0Persist
  <2> QED BY <1>5, <2>3, <2>4 DEF M0StartupDone, M0Persist
<1>6. CASE UNCHANGED vars
  BY <1>6 DEF vars
<1> QED BY <1>1, <1>2, <1>3, <1>4, <1>5, <1>6, ThreadTypes DEF Next, M0Serves

-----------------------------------------------------------------------------
(* What each action does to the stack, field by field. *)

Holds(f, fn, pc, arg, id, ok, reg) ==
  f.fn = fn /\ f.pc = pc /\ f.arg = arg /\ f.id = id /\ f.ok = ok /\ f.reg = reg

KeepsBelow == \A i \in 1 .. Depth - 1 : stack'[i] = stack[i]

GoesTo(pc, reg) ==
  /\ Depth' = Depth /\ KeepsBelow
  /\ Holds(stack'[Depth], Top.fn, pc, Top.arg, Top.id, Top.ok, reg)

CallsAt(pc, id, fn, arg) ==
  /\ Depth' = Depth + 1 /\ KeepsBelow
  /\ Holds(stack'[Depth], Top.fn, pc, Top.arg, id, Top.ok, {})
  /\ Holds(stack'[Depth + 1], fn, "begin", arg, Depth + 1, FALSE, {})

Enters(fn) ==
  /\ Depth' = Depth + 1
  /\ \A i \in 1 .. Depth : stack'[i] = stack[i]
  /\ Holds(stack'[Depth + 1], fn, "begin", "none", NoInfo, FALSE, {})

Leaves == Depth' = Depth - 1 /\ KeepsBelow

Answers(ok) ==
  /\ Depth' = Depth - 1
  /\ \A i \in 1 .. Depth - 2 : stack'[i] = stack[i]
  /\ LET p == stack[Depth - 1] IN Holds(stack'[Depth - 1], p.fn, p.pc, p.arg, p.id, ok, p.reg)

LEMMA GotoGoes ==
  ASSUME OnStack, NEW pc \in Pc, stack' = Goto(pc)
  PROVE  GoesTo(pc, {})
<1> DEFINE f == FrameOf(Top.fn, pc, Top.arg, Top.id, Top.ok, {})
<1>1. Depth' = Depth /\ KeepsBelow /\ stack'[Depth] = f
  BY GotoMoves DEF KeepsBelow
<1>2. Holds(f, Top.fn, pc, Top.arg, Top.id, Top.ok, {})
  BY DEF FrameOf, Holds
<1> HIDE DEF f
<1> QED BY <1>1, <1>2 DEF GoesTo

LEMMA CallCalls ==
  ASSUME OnStack, NEW pc \in Pc, NEW fn \in Fn, NEW arg \in Event \cup Op \cup {"none"},
         stack' = Call(pc, fn, arg)
  PROVE  CallsAt(pc, Top.id, fn, arg)
<1> DEFINE f == FrameOf(Top.fn, pc, Top.arg, Top.id, Top.ok, {})
           g == FrameOf(fn, "begin", arg, Depth + 1, FALSE, {})
<1>1. Depth' = Depth + 1 /\ KeepsBelow /\ stack'[Depth] = f /\ stack'[Depth + 1] = g
  BY CallMoves DEF KeepsBelow
<1>2. /\ Holds(f, Top.fn, pc, Top.arg, Top.id, Top.ok, {})
      /\ Holds(g, fn, "begin", arg, Depth + 1, FALSE, {})
  BY DEF FrameOf, Holds
<1> HIDE DEF f, g
<1> QED BY <1>1, <1>2 DEF CallsAt

LEMMA PushEnters ==
  ASSUME OnStack, NEW fn \in Fn, stack' = Append(stack, NewFrame(fn, "none", NoInfo))
  PROVE  Enters(fn)
<1> DEFINE g == FrameOf(fn, "begin", "none", NoInfo, FALSE, {})
<1>1. Depth' = Depth + 1 /\ stack'[Depth + 1] = g /\ \A i \in 1 .. Depth : stack'[i] = stack[i]
  BY PushMoves DEF NoInfo
<1>2. Holds(g, fn, "begin", "none", NoInfo, FALSE, {})
  BY DEF FrameOf, Holds
<1> HIDE DEF g
<1> QED BY <1>1, <1>2 DEF Enters

LEMMA Effects ==
  ASSUME TypesInv, StackInv, InfoInv
  PROVE  /\ Dispatch => \E t \in Runnable : taskSet' = taskSet \ {t} /\ Enters(t)
         /\ WaitReturn => Leaves
         /\ MaskLoad => GoesTo("enable", {c \in Channel : enabled[c]})
         /\ CmdFill => GoesTo("send", {})
         /\ CmdSend => GoesTo("load", {})
         /\ CmdEnable => CallsAt("return", Top.id, "wait", "ack")
         /\ CmdReturn => Answers(ot.ok)
         /\ SysSend => GoesTo("load", {})
         /\ SysEnable => CallsAt("return", Top.id, "wait", "sys")
         /\ SysReturn => Leaves
         /\ SaveGet => CallsAt("write", Top.id, "cmd", "get")
         /\ SaveWrite => Leaves \/ CallsAt("off", Top.id, "sys", "none")
         /\ SaveEraseOff => CallsAt("end", Top.id, "sys", "none")
         /\ SaveEnd => Leaves
         /\ JoinBegin => IF joined THEN Leaves ELSE CallsAt("started", NextInfo, "cmd", "startup")
         /\ JoinStarted => IF Top.ok THEN CallsAt("woken", Top.id, "wait", "startup") ELSE Leaves
         /\ JoinWoken => IF info[Top.id].ok THEN CallsAt("save", Top.id, "cmd", "register") ELSE Leaves
         /\ JoinSave => CallsAt("end", Top.id, "save", "none")
         /\ JoinEnd => Leaves
         /\ NotifyBegin => IF cptNotify # 0 THEN GoesTo("callback", {}) ELSE Leaves
         /\ StartupCallback => GoesTo("ack", {})
         /\ PersistCallback => CallsAt("ack", Top.id, "save", "none")
         /\ RequestBegin => IF cptRequest # 0 THEN GoesTo("ack", {}) ELSE Leaves
         /\ AckClear => GoesTo("load", {})
         /\ AckEnable => Leaves
         /\ TimerExpires => Enters("timer")
         /\ TimerCallback => CallsAt("end", Top.id, "cmd", "send")
         /\ TimerReturn => Leaves
<1>0. OnStack /\ (Top.fn # "main" => Depth > 1)
  BY BelowTop DEF StackInv
<1>1. Dispatch => \E t \in Runnable : taskSet' = taskSet \ {t} /\ Enters(t)
  <2>1. \A t \in Runnable : t \in Fn
    BY DEF Runnable, TypesInv, Task, Fn
  <2> QED BY <1>0, <2>1, PushEnters DEF Dispatch
<1>2. Top.fn # "main" /\ stack' = Caller => Leaves
  BY <1>0, PopMoves DEF Leaves, KeepsBelow
<1>3. MaskLoad => GoesTo("enable", {c \in Channel : enabled[c]})
  <2> DEFINE reg == {c \in Channel : enabled[c]}
             f == FrameOf(Top.fn, "enable", Top.arg, Top.id, Top.ok, reg)
  <2>1. reg \in SUBSET Channel
    OBVIOUS
  <2>2. Holds(f, Top.fn, "enable", Top.arg, Top.id, Top.ok, reg)
    BY DEF FrameOf, Holds
  <2>3. MaskLoad => stack' = [stack EXCEPT ![Depth].pc = "enable", ![Depth].reg = reg]
    BY DEF MaskLoad
  <2> HIDE DEF reg
  <2>4. MaskLoad => Depth' = Depth /\ KeepsBelow /\ stack'[Depth] = f
    BY <1>0, <2>1, <2>3, LoadMoves DEF KeepsBelow
  <2> HIDE DEF f
  <2>5. MaskLoad => GoesTo("enable", reg)
    BY <2>2, <2>4 DEF GoesTo
  <2> QED BY <2>5 DEF reg
<1>4. \A pc \in {"send", "load", "callback", "ack"} : stack' = Goto(pc) => GoesTo(pc, {})
  BY <1>0, GotoGoes DEF Pc
<1>5. \A pc \in Pc, fn \in Fn, arg \in Event \cup Op \cup {"none"} :
        stack' = Call(pc, fn, arg) => CallsAt(pc, Top.id, fn, arg)
  BY <1>0, CallCalls
<1>6. /\ {"return", "write", "off", "end", "woken", "save", "ack"} \subseteq Pc
      /\ {"wait", "cmd", "sys", "save", "timer"} \subseteq Fn
      /\ {"ack", "sys", "startup", "get", "register", "send", "none"} \subseteq Event \cup Op \cup {"none"}
  BY DEF Pc, Fn, Event, Op
<1>7. CmdReturn => Answers(ot.ok)
  <2> DEFINE p == stack[Depth - 1]
             f == FrameOf(p.fn, p.pc, p.arg, p.id, ot.ok, p.reg)
  <2>1. Holds(f, p.fn, p.pc, p.arg, p.id, ot.ok, p.reg)
    BY DEF FrameOf, Holds
  <2>2. ot.ok \in BOOLEAN
    BY DEF TypesInv
  <2>3. CmdReturn => Depth' = Depth - 1 /\ stack'[Depth - 1] = f /\ \A i \in 1 .. Depth - 2 : stack'[i] = stack[i]
    BY <1>0, <2>2, AnswerMoves DEF CmdReturn, At
  <2> HIDE DEF f
  <2> QED BY <2>1, <2>3 DEF Answers
<1>8. JoinBegin => IF joined THEN Leaves ELSE CallsAt("started", NextInfo, "cmd", "startup")
  <2>1. JoinBegin /\ joined => Leaves
    BY <1>2 DEF JoinBegin, At
  <2>2. ASSUME JoinBegin, ~ joined
        PROVE  CallsAt("started", NextInfo, "cmd", "startup")
    <3> DEFINE f == FrameOf(Top.fn, "started", Top.arg, NextInfo, Top.ok, Top.reg)
               g == FrameOf("cmd", "begin", "startup", Depth + 1, FALSE, {})
    <3>1. NextInfo \in Nat /\ Top.reg = {}
      <4>1. At("join", "begin")
        BY <2>2 DEF JoinBegin
      <4>2. NextInfo \in Nat
        BY <4>1, NextIsFree DEF Info
      <4> QED BY <4>1, <4>2, BelowTop DEF At, StackInv
    <3>2. Depth' = Depth + 1 /\ KeepsBelow /\ stack'[Depth] = f /\ stack'[Depth + 1] = g
      BY <1>0, <2>2, <3>1, StartMoves DEF JoinBegin, KeepsBelow
    <3>3. /\ Holds(f, Top.fn, "started", Top.arg, NextInfo, Top.ok, {})
          /\ Holds(g, "cmd", "begin", "startup", Depth + 1, FALSE, {})
      BY <3>1 DEF FrameOf, Holds
    <3> HIDE DEF f, g
    <3> QED BY <3>2, <3>3 DEF CallsAt
  <2> QED BY <2>1, <2>2
<1>9. TimerExpires => Enters("timer")
  BY <1>0, <1>6, PushEnters DEF TimerExpires
<1>10. /\ WaitReturn => Leaves
       /\ SysReturn => Leaves
       /\ SaveEnd => Leaves
       /\ JoinEnd => Leaves
       /\ AckEnable => Leaves
       /\ TimerReturn => Leaves
  BY <1>2 DEF WaitReturn, SysReturn, SaveEnd, JoinEnd, AckEnable, TimerReturn, At
<1>11. /\ CmdFill => GoesTo("send", {})
       /\ CmdSend => GoesTo("load", {})
       /\ SysSend => GoesTo("load", {})
       /\ StartupCallback => GoesTo("ack", {})
       /\ AckClear => GoesTo("load", {})
  BY <1>4 DEF CmdFill, CmdSend, SysSend, StartupCallback, AckClear
<1>12. NotifyBegin => IF cptNotify # 0 THEN GoesTo("callback", {}) ELSE Leaves
  BY <1>2, <1>4 DEF NotifyBegin, At
<1>13. RequestBegin => IF cptRequest # 0 THEN GoesTo("ack", {}) ELSE Leaves
  BY <1>2, <1>4 DEF RequestBegin, At
<1>14. /\ CmdEnable => CallsAt("return", Top.id, "wait", "ack")
       /\ SysEnable => CallsAt("return", Top.id, "wait", "sys")
       /\ SaveGet => CallsAt("write", Top.id, "cmd", "get")
       /\ SaveEraseOff => CallsAt("end", Top.id, "sys", "none")
       /\ JoinSave => CallsAt("end", Top.id, "save", "none")
       /\ PersistCallback => CallsAt("ack", Top.id, "save", "none")
       /\ TimerCallback => CallsAt("end", Top.id, "cmd", "send")
  BY <1>5, <1>6 DEF CmdEnable, SysEnable, SaveGet, SaveEraseOff, JoinSave, PersistCallback, TimerCallback
<1>15. SaveWrite => Leaves \/ CallsAt("off", Top.id, "sys", "none")
  BY <1>2, <1>5, <1>6 DEF SaveWrite, At
<1>16. JoinStarted => IF Top.ok THEN CallsAt("woken", Top.id, "wait", "startup") ELSE Leaves
  BY <1>2, <1>5, <1>6 DEF JoinStarted, At
<1>17. JoinWoken => IF info[Top.id].ok THEN CallsAt("save", Top.id, "cmd", "register") ELSE Leaves
  BY <1>2, <1>5, <1>6 DEF JoinWoken, At
<1> QED BY <1>1, <1>3, <1>7, <1>8, <1>9, <1>10, <1>11, <1>12, <1>13, <1>14, <1>15, <1>16, <1>17

-----------------------------------------------------------------------------
(* The blocks of the start-ups. *)

\* Which activations the network tasks have, up to the end of their wait.
EarlyJoin(f) == f.fn = "join" /\ f.pc \in {"begin", "started", "woken"}

SameJoins ==
  \A i \in 1 .. Depth' : EarlyJoin(stack'[i]) =>
    /\ i \in 1 .. Depth /\ EarlyJoin(stack[i])
    /\ stack'[i].pc = stack[i].pc /\ stack'[i].id = stack[i].id

LEMMA JoinsSame ==
  ASSUME StackInv
  PROVE  /\ \A pc, reg : pc \notin {"begin", "started", "woken"} /\ GoesTo(pc, reg) => SameJoins
         /\ \A pc, id, fn, arg :
              pc \notin {"begin", "started", "woken"} /\ fn # "join" /\ CallsAt(pc, id, fn, arg)
              => SameJoins
         /\ \A fn : fn # "join" /\ Enters(fn) => SameJoins
         /\ Leaves => SameJoins
         /\ \A ok : Answers(ok) /\ Top.fn # "main" => SameJoins
<1>1. /\ Depth \in Nat /\ Depth >= 1
      /\ \A i \in 1 .. Depth + 1 : i = Depth + 1 \/ i \in 1 .. Depth
      /\ \A i \in 1 .. Depth : i = Depth \/ i \in 1 .. Depth - 1
      /\ \A i \in 1 .. Depth - 1 : i = Depth - 1 \/ i \in 1 .. Depth - 2
      /\ \A i \in 1 .. Depth - 1 : i \in 1 .. Depth
  BY BelowTop
<1>2. ASSUME NEW pc, NEW reg, pc \notin {"begin", "started", "woken"}, GoesTo(pc, reg)
      PROVE  SameJoins
  BY <1>1, <1>2 DEF GoesTo, KeepsBelow, SameJoins, EarlyJoin, Holds
<1>3. ASSUME NEW pc, NEW id, NEW fn, NEW arg, pc \notin {"begin", "started", "woken"}, fn # "join",
             CallsAt(pc, id, fn, arg)
      PROVE  SameJoins
  BY <1>1, <1>3 DEF CallsAt, KeepsBelow, SameJoins, EarlyJoin, Holds
<1>4. ASSUME NEW fn, fn # "join", Enters(fn)
      PROVE  SameJoins
  BY <1>1, <1>4 DEF Enters, SameJoins, EarlyJoin, Holds
<1>5. ASSUME Leaves PROVE SameJoins
  BY <1>1, <1>5 DEF Leaves, KeepsBelow, SameJoins, EarlyJoin
<1>6. ASSUME NEW ok, Answers(ok), Top.fn # "main" PROVE SameJoins
  BY <1>1, <1>6 DEF Answers, SameJoins, EarlyJoin, Holds
<1> QED BY <1>2, <1>3, <1>4, <1>5, <1>6

\* Only one network task can be at its begin, and nothing is dispatched on it.
LEMMA OneBegins ==
  ASSUME StackInv, NEW i \in 1 .. Depth, Joining(i), i # Depth
  PROVE  Top.fn = "timer" \/ InTimer(Top.fn, Top.arg)
<1>1. i \in 1 .. Depth - 1 /\ i + 1 \in 1 .. Depth
  BY BelowTop
<1>2. stack[i + 1].fn = "timer"
  BY <1>1 DEF StackInv, OnTop, Joining, Task
<1> QED BY <1>1, <1>2, BelowTop

\* A block, once allocated, stays so.
LEMMA StaysAllocated ==
  ASSUME TypesInv, StackInv, InfoInv, [Next]_vars, NEW d \in Info, info[d].state # "none"
  PROVE  info'[d].state # "none"
<1>1. info' = info => info'[d].state # "none"
  BY Zenon
<1>2. \/ info' = info
      \/ info' = [info EXCEPT ![NextInfo] = [state |-> "active", ok |-> TRUE]]
      \/ info' = [info EXCEPT ![Top.id].state = "freed"]
      \/ info' = [info EXCEPT ![notif.info] =
                    [state |-> IF @.state = "freed" THEN "corrupt" ELSE "done", ok |-> notif.ok]]
  BY DEF Next, Thread, M0Serves, vars, app,
         Dispatch, WaitReturn, MaskLoad, CmdFill, CmdSend, CmdEnable, CmdReturn, SysSend, SysEnable,
         SysReturn, SaveGet, SaveWrite, SaveEraseOff, SaveEnd, JoinBegin, JoinStarted, JoinWoken,
         JoinSave, JoinEnd, NotifyBegin, StartupCallback, PersistCallback, RequestBegin, AckClear,
         AckEnable, TimerCallback, TimerReturn, RxHandler, TxHandler, Press, TimerExpires, M0Take,
         M0Malloc, M0Allocated, M0Answer, M0SysAnswer, M0StartupDone, M0Persist, M0Log
<1>3. info' = [info EXCEPT ![NextInfo] = [state |-> "active", ok |-> TRUE]] => info'[d].state # "none"
  BY DEF TypesInv
<1>4. info' = [info EXCEPT ![Top.id].state = "freed"] => info'[d].state # "none"
  BY DEF TypesInv
<1>5. info' = [info EXCEPT ![notif.info] =
                [state |-> IF @.state = "freed" THEN "corrupt" ELSE "done", ok |-> notif.ok]]
      => info'[d].state # "none"
  BY DEF TypesInv
<1> QED BY <1>1, <1>2, <1>3, <1>4, <1>5

\* All the steps but the three that make a network task go on its way.
LEMMA JoinsQuiet ==
  ASSUME TypesInv, StackInv, InfoInv, [Next]_vars
  PROVE  \/ SameJoins
         \/ Dispatch /\ Enters("join") /\ "join" \in Runnable /\ taskSet' = taskSet \ {"join"}
         \/ JoinBegin /\ ~ joined /\ CallsAt("started", NextInfo, "cmd", "startup")
         \/ JoinStarted /\ Top.ok /\ CallsAt("woken", Top.id, "wait", "startup")
<1> SUFFICES ASSUME ~ SameJoins
             PROVE  \/ Dispatch /\ Enters("join") /\ "join" \in Runnable /\ taskSet' = taskSet \ {"join"}
                    \/ JoinBegin /\ ~ joined /\ CallsAt("started", NextInfo, "cmd", "startup")
                    \/ JoinStarted /\ Top.ok /\ CallsAt("woken", Top.id, "wait", "startup")
  OBVIOUS
<1>2. stack' # stack
  <2> SUFFICES ASSUME stack' = stack PROVE FALSE
    OBVIOUS
  <2>1. Depth' = Depth
    BY DEF Depth
  <2> QED BY <2>1 DEF SameJoins
<1>3. ~ (RxHandler \/ TxHandler \/ Press \/ M0Serves \/ M0Persist \/ M0Log \/ UNCHANGED vars)
  BY <1>2 DEF RxHandler, TxHandler, Press, M0Serves, M0Take, M0Malloc, M0Allocated, M0Answer,
              M0SysAnswer, M0StartupDone, M0Persist, M0Log, vars
<1>4. ~ TimerExpires
  BY Effects, JoinsSame
<1>5. ~ WaitReturn
  BY Effects, JoinsSame
<1>6. ~ MaskLoad
  BY Effects, JoinsSame
<1>7. ~ CmdFill
  BY Effects, JoinsSame
<1>8. ~ CmdSend
  BY Effects, JoinsSame
<1>9. ~ CmdEnable
  BY Effects, JoinsSame
<1>10. ~ SysSend
  BY Effects, JoinsSame
<1>11. ~ SysEnable
  BY Effects, JoinsSame
<1>12. ~ SysReturn
  BY Effects, JoinsSame
<1>13. ~ SaveGet
  BY Effects, JoinsSame
<1>14. ~ SaveWrite
  BY Effects, JoinsSame
<1>15. ~ SaveEraseOff
  BY Effects, JoinsSame
<1>16. ~ SaveEnd
  BY Effects, JoinsSame
<1>17. ~ JoinWoken
  BY Effects, JoinsSame
<1>18. ~ JoinSave
  BY Effects, JoinsSame
<1>19. ~ JoinEnd
  BY Effects, JoinsSame
<1>20. ~ NotifyBegin
  BY Effects, JoinsSame
<1>21. ~ StartupCallback
  BY Effects, JoinsSame
<1>22. ~ PersistCallback
  BY Effects, JoinsSame
<1>23. ~ RequestBegin
  BY Effects, JoinsSame
<1>24. ~ AckClear
  BY Effects, JoinsSame
<1>25. ~ AckEnable
  BY Effects, JoinsSame
<1>26. ~ TimerCallback
  BY Effects, JoinsSame
<1>27. ~ TimerReturn
  BY Effects, JoinsSame
<1>28. ~ CmdReturn
  BY Effects, JoinsSame DEF CmdReturn, At
<1>29. Dispatch \/ JoinBegin \/ JoinStarted
  BY <1>3, <1>4, <1>5, <1>6, <1>7, <1>8, <1>9, <1>10, <1>11, <1>12, <1>13, <1>14, <1>15, <1>16, <1>17, <1>18, <1>19, <1>20, <1>21, <1>22, <1>23, <1>24, <1>25, <1>26, <1>27, <1>28 DEF Next, Thread
<1>30. Dispatch => Enters("join") /\ "join" \in Runnable /\ taskSet' = taskSet \ {"join"}
  BY Effects, JoinsSame
<1>31. JoinBegin => ~ joined /\ CallsAt("started", NextInfo, "cmd", "startup")
  BY Effects, JoinsSame
<1>32. JoinStarted => Top.ok /\ CallsAt("woken", Top.id, "wait", "startup")
  BY Effects, JoinsSame
<1> QED BY <1>29, <1>30, <1>31, <1>32

\* Where the bits of the network task and the blocks change.
LEMMA BlocksQuiet ==
  ASSUME TypesInv, StackInv, InfoInv, [Next]_vars
  PROVE  /\ Press \/ (("join" \in taskSet' => "join" \in taskSet) /\ presses' = presses)
         /\ (JoinBegin /\ ~ joined) \/ \A d \in Info : info'[d].state # "none" => info[d].state # "none"
<1>1. Press \/ (("join" \in taskSet' => "join" \in taskSet) /\ presses' = presses)
  <2>1. \/ Press
        \/ presses' = presses /\ taskSet' \subseteq taskSet \cup {"notify", "request"}
    BY DEF Next, Thread, M0Serves, vars, seq, counters,
         Dispatch, WaitReturn, MaskLoad, CmdFill, CmdSend, CmdEnable, CmdReturn, SysSend, SysEnable,
         SysReturn, SaveGet, SaveWrite, SaveEraseOff, SaveEnd, JoinBegin, JoinStarted, JoinWoken,
         JoinSave, JoinEnd, NotifyBegin, StartupCallback, PersistCallback, RequestBegin, AckClear,
         AckEnable, TimerCallback, TimerReturn, RxHandler, TxHandler, TimerExpires, M0Take,
         M0Malloc, M0Allocated, M0Answer, M0SysAnswer, M0StartupDone, M0Persist, M0Log
  <2> QED BY <2>1, Zenon
<1>2. \/ info' = info
      \/ JoinBegin /\ ~ joined
      \/ /\ JoinStarted \/ JoinWoken
         /\ info' = [info EXCEPT ![Top.id].state = "freed"]
      \/ /\ StartupCallback
         /\ info' = [info EXCEPT ![notif.info] =
                       [state |-> IF @.state = "freed" THEN "corrupt" ELSE "done", ok |-> notif.ok]]
  <2>1. CASE Dispatch \/ WaitReturn \/ MaskLoad \/ CmdFill \/ CmdSend \/ CmdEnable \/ CmdReturn
               \/ SysSend \/ SysEnable \/ SysReturn
    BY <2>1 DEF app, Dispatch, WaitReturn, MaskLoad, CmdFill, CmdSend, CmdEnable, CmdReturn,
         SysSend, SysEnable, SysReturn
  <2>2. CASE SaveGet \/ SaveWrite \/ SaveEraseOff \/ SaveEnd \/ JoinSave \/ JoinEnd \/ NotifyBegin
               \/ PersistCallback \/ RequestBegin \/ AckClear \/ AckEnable
    BY <2>2 DEF app, SaveGet, SaveWrite, SaveEraseOff, SaveEnd, JoinSave, JoinEnd, NotifyBegin,
         PersistCallback, RequestBegin, AckClear, AckEnable
  <2>3. CASE TimerCallback \/ TimerReturn \/ RxHandler \/ TxHandler \/ Press \/ TimerExpires
               \/ M0Serves \/ M0Persist \/ M0Log
    BY <2>3 DEF app, TimerCallback, TimerReturn, RxHandler, TxHandler, Press, TimerExpires,
         M0Serves, M0Take, M0Malloc, M0Allocated, M0Answer, M0SysAnswer, M0StartupDone,
         M0Persist, M0Log
  <2>4. CASE JoinBegin \/ JoinStarted \/ JoinWoken \/ StartupCallback
    BY <2>4 DEF app, JoinBegin, JoinStarted, JoinWoken, StartupCallback
  <2>5. CASE UNCHANGED vars
    BY <2>5 DEF vars, app
  <2> QED BY <2>1, <2>2, <2>3, <2>4, <2>5 DEF Next, Thread
<1>3. ASSUME JoinStarted \/ JoinWoken, info' = [info EXCEPT ![Top.id].state = "freed"],
             NEW d \in Info, info'[d].state # "none"
      PROVE  info[d].state # "none"
  <2>1. Top.fn = "join" /\ Top.pc \in {"started", "woken"}
    BY <1>3 DEF JoinStarted, JoinWoken, At
  <2>2. Allocated(Top.id)
    BY <2>1, BelowTop DEF InfoInv
  <2> QED BY <1>3, <2>2 DEF Allocated, TypesInv
<1>4. ASSUME StartupCallback, NEW d \in Info, info'[d].state # "none"
      PROVE  info[d].state # "none"
  <2>1. Allocated(notif.info)
    BY <1>4 DEF StartupCallback, InfoInv
  <2>2. d # notif.info => info'[d] = info[d]
    BY <1>4 DEF StartupCallback, TypesInv
  <2> QED BY <1>4, <2>1, <2>2 DEF Allocated
<1> QED BY <1>1, <1>2, <1>3, <1>4

LEMMA BlocksKept ==
  ASSUME TypesInv, StackInv, InfoInv, [Next]_vars
  PROVE  \E k \in 0 .. MaxPress :
           /\ k + Asked' + Begun' <= presses'
           /\ \A d \in Info : info'[d].state # "none" <=> d <= k
<1>1. PICK k \in 0 .. MaxPress : /\ k + Asked + Begun <= presses
                                 /\ \A d \in Info : info[d].state # "none" <=> d <= k
  BY DEF InfoInv
<1>2. /\ Asked \in {0, 1} /\ Begun \in {0, 1} /\ Asked' \in {0, 1} /\ Begun' \in {0, 1}
      /\ Asked \in Nat /\ Begun \in Nat /\ Asked' \in Nat /\ Begun' \in Nat
      /\ k \in Nat /\ presses \in Nat /\ presses <= MaxPress
  BY <1>1, IpcAssumption DEF Asked, Begun, TypesInv
<1>3. Asked = 1 <=> "join" \in taskSet
  BY DEF Asked
<1>4. Asked' = 1 <=> "join" \in taskSet'
  BY DEF Asked
<1>5. Begun = 1 <=> \E i \in 1 .. Depth : Joining(i)
  BY DEF Begun
<1>6. Begun' = 1 <=> \E i \in 1 .. Depth' : stack'[i].fn = "join" /\ stack'[i].pc = "begin"
  BY DEF Begun, Joining
<1>7. \A d \in Info : info[d].state # "none" => info'[d].state # "none"
  BY StaysAllocated
<1>8. SameJoins => Begun' <= Begun
  BY <1>2, <1>5, <1>6 DEF SameJoins, EarlyJoin, Joining
<1>9. CASE SameJoins /\ ~ (JoinBegin /\ ~ joined)
  <2>1. \A d \in Info : info'[d].state # "none" <=> d <= k
    BY <1>1, <1>7, <1>9, BlocksQuiet
  <2>2. Press => presses' = presses + 1
    BY DEF Press
  <2>3. Asked' <= Asked + (presses' - presses) /\ presses' \in Nat
    BY <1>2, <1>3, <1>4, <2>2, BlocksQuiet
  <2>4. k + Asked' + Begun' <= presses'
    <3>1. Begun' <= Begun /\ k + Asked + Begun <= presses
      BY <1>1, <1>8, <1>9
    <3>2. \A a, a1, b, b1, c, p, p1 \in Nat :
            a1 <= a + (p1 - p) /\ b1 <= b /\ c + a + b <= p => c + a1 + b1 <= p1
      OBVIOUS
    <3>3. /\ Asked \in Nat /\ Asked' \in Nat /\ Begun \in Nat /\ Begun' \in Nat
          /\ k \in Nat /\ presses \in Nat /\ presses' \in Nat
      BY <1>2, <2>3
    <3> QED BY <2>3, <3>1, <3>2, <3>3
  <2> QED BY <1>1, <2>1, <2>4
<1>10. CASE Dispatch /\ Enters("join") /\ "join" \in Runnable /\ taskSet' = taskSet \ {"join"}
  <2>1. ~ \E i \in 1 .. Depth : Joining(i)
    <3> SUFFICES ASSUME NEW i \in 1 .. Depth, Joining(i)
                 PROVE  FALSE
      OBVIOUS
    <3>1. Top.fn \in {"main", "wait"}
      BY <1>10 DEF Dispatch
    <3>2. i # Depth
      BY <3>1, BelowTop DEF Joining
    <3>3. Top.fn = "wait" /\ Top.arg = "ack"
      BY <3>1, <3>2, OneBegins DEF InTimer
    <3>4. "join" \in EvtIdleMask("ack")
      BY <1>10, <3>3, BelowTop DEF Runnable
    <3> QED BY <3>4 DEF EvtIdleMask
  <2>2. Begun = 0 /\ Asked' = 0 /\ Asked = 1
    BY <1>2, <1>3, <1>4, <1>5, <1>10, <2>1 DEF Runnable
  <2>3. info' = info /\ presses' = presses
    BY <1>10 DEF Dispatch, app, counters
  <2>4. k + Asked' + Begun' <= presses'
    <3>1. k + Asked + Begun <= presses /\ Begun' <= 1
      BY <1>1, <1>2
    <3>2. \A b, c, p \in Nat : c + 1 + 0 <= p /\ b <= 1 => c + 0 + b <= p
      OBVIOUS
    <3> QED BY <1>2, <2>2, <2>3, <3>1, <3>2
  <2> QED BY <1>1, <2>3, <2>4
<1>11. CASE JoinBegin /\ ~ joined
  <2>1. At("join", "begin")
    BY <1>11 DEF JoinBegin
  <2>2. /\ NextInfo \in Info
        /\ \A d \in Info : info[d].state # "none" <=> d <= NextInfo - 1
        /\ NextInfo - 1 + Asked + 1 <= presses
    BY <2>1, NextIsFree
  <2>3. info' = [info EXCEPT ![NextInfo] = [state |-> "active", ok |-> TRUE]]
        /\ taskSet' = taskSet /\ presses' = presses
    BY <1>11 DEF JoinBegin, seq, counters
  <2>4. \A d \in Info : info'[d].state # "none" <=> d <= NextInfo
    <3> TAKE d \in Info
    <3>1. CASE d = NextInfo
      BY <2>2, <2>3, <3>1, IpcAssumption DEF TypesInv, Info
    <3>2. CASE d # NextInfo
      <4>1. info'[d] = info[d]
        BY <2>3, <3>2 DEF TypesInv
      <4> QED BY <2>2, <3>2, <4>1, IpcAssumption DEF Info
    <3> QED BY <3>1, <3>2
  <2>5. Begun' = 0
    <3> SUFFICES ASSUME NEW i \in 1 .. Depth', stack'[i].fn = "join" /\ stack'[i].pc = "begin"
                 PROVE  FALSE
      BY <1>2, <1>6
    <3>1. CallsAt("started", NextInfo, "cmd", "startup")
      BY <1>11, Effects
    <3>2. i \in 1 .. Depth - 1 /\ stack'[i] = stack[i]
      BY <3>1, BelowTop DEF CallsAt, KeepsBelow, Holds
    <3>3. i \in 1 .. Depth /\ i # Depth /\ Joining(i)
      BY <3>2, BelowTop DEF Joining
    <3> QED BY <2>1, <3>3, OneBegins DEF At, InTimer
  <2>6. NextInfo + Asked' + Begun' <= presses' /\ NextInfo \in 0 .. MaxPress
    <3>1. NextInfo \in 1 .. MaxPress /\ NextInfo \in 0 .. MaxPress /\ NextInfo \in Nat
      BY <2>2, IpcAssumption DEF Info
    <3>2. Asked' = Asked
      BY <1>2, <1>3, <1>4, <2>3
    <3>3. \A n, a, p \in Nat : n - 1 + a + 1 <= p => n + a + 0 <= p
      OBVIOUS
    <3>4. NextInfo + Asked + 0 <= presses
      BY <1>2, <2>2, <3>1, <3>3
    <3> QED BY <2>3, <2>5, <3>1, <3>2, <3>4
  <2> QED BY <2>4, <2>6
<1>12. JoinStarted /\ Top.ok /\ CallsAt("woken", Top.id, "wait", "startup")
       => Begun' <= Begun /\ info' = info /\ taskSet' = taskSet /\ presses' = presses
  <2> SUFFICES ASSUME JoinStarted, Top.ok, CallsAt("woken", Top.id, "wait", "startup")
               PROVE  Begun' <= Begun /\ info' = info /\ taskSet' = taskSet /\ presses' = presses
    OBVIOUS
  <2>1. info' = info /\ taskSet' = taskSet /\ presses' = presses
    BY DEF JoinStarted, app, seq, counters
  <2>2. ASSUME NEW i \in 1 .. Depth', stack'[i].fn = "join" /\ stack'[i].pc = "begin"
        PROVE  i \in 1 .. Depth /\ Joining(i)
    <3>1. i \in 1 .. Depth - 1 /\ stack'[i] = stack[i]
      BY <2>2, BelowTop DEF CallsAt, KeepsBelow, Holds
    <3> QED BY <2>2, <3>1, BelowTop DEF Joining
  <2> QED BY <1>2, <1>5, <1>6, <2>1, <2>2
<1>13. CASE JoinStarted /\ Top.ok /\ CallsAt("woken", Top.id, "wait", "startup")
  <2>1. k + Asked' + Begun' <= presses'
    <3>1. Begun' <= Begun /\ Asked' = Asked /\ presses' = presses /\ k + Asked + Begun <= presses
      BY <1>1, <1>2, <1>3, <1>4, <1>12, <1>13
    <3>2. \A a, b, b1, c, p \in Nat : b1 <= b /\ c + a + b <= p => c + a + b1 <= p
      OBVIOUS
    <3> QED BY <1>2, <3>1, <3>2
  <2> QED BY <1>1, <1>12, <1>13, <2>1
<1> QED BY <1>9, <1>10, <1>11, <1>13, JoinsQuiet

LEMMA InfoKept ==
  ASSUME TypesInv, StackInv, InfoInv, [Next]_vars
  PROVE  InfoInv'
<1> DEFINE Still(d) == d \in Info /\ info'[d].state # "none"
<1>1. \A d : Allocated(d) => Still(d)
  BY StaysAllocated DEF Allocated
<1>2. ASSUME NEW i \in 1 .. Depth', stack'[i].fn = "join", stack'[i].pc \in {"started", "woken"}
      PROVE  Still(stack'[i].id)
  <2>1. CASE SameJoins
    <3>1. i \in 1 .. Depth /\ EarlyJoin(stack[i]) /\ stack'[i].pc = stack[i].pc /\ stack'[i].id = stack[i].id
      BY <1>2, <2>1 DEF SameJoins, EarlyJoin
    <3>2. Allocated(stack[i].id)
      BY <1>2, <3>1 DEF InfoInv, EarlyJoin
    <3> QED BY <1>1, <3>1, <3>2
  <2>2. CASE Enters("join")
    <3>1. i \in 1 .. Depth /\ stack'[i] = stack[i]
      BY <1>2, <2>2, BelowTop DEF Enters, Holds
    <3>2. Allocated(stack[i].id)
      BY <1>2, <3>1 DEF InfoInv
    <3> QED BY <1>1, <3>1, <3>2
  <2>3. CASE JoinBegin /\ ~ joined /\ CallsAt("started", NextInfo, "cmd", "startup")
    <3>1. CASE i = Depth
      <4>1. NextInfo \in Info
        BY <2>3, NextIsFree DEF JoinBegin
      <4>2. info' = [info EXCEPT ![NextInfo] = [state |-> "active", ok |-> TRUE]]
        BY <2>3 DEF JoinBegin
      <4>3. info'[NextInfo].state # "none"
        BY <4>1, <4>2 DEF TypesInv
      <4>4. stack'[i].id = NextInfo
        BY <2>3, <3>1 DEF CallsAt, Holds
      <4> QED BY <4>1, <4>3, <4>4 DEF Allocated
    <3>2. CASE i # Depth
      <4>1. i \in 1 .. Depth /\ stack'[i] = stack[i]
        BY <1>2, <2>3, <3>2, BelowTop DEF CallsAt, KeepsBelow, Holds
      <4>2. Allocated(stack[i].id)
        BY <1>2, <4>1 DEF InfoInv
      <4> QED BY <1>1, <4>1, <4>2
    <3> QED BY <3>1, <3>2
  <2>4. CASE JoinStarted /\ CallsAt("woken", Top.id, "wait", "startup")
    <3>1. CASE i = Depth
      <4>1. Allocated(Top.id)
        BY <2>4, BelowTop DEF InfoInv, JoinStarted, At
      <4>2. stack'[i].id = Top.id
        BY <2>4, <3>1 DEF CallsAt, Holds
      <4> QED BY <1>1, <4>1, <4>2
    <3>2. CASE i # Depth
      <4>1. i \in 1 .. Depth /\ stack'[i] = stack[i]
        BY <1>2, <2>4, <3>2, BelowTop DEF CallsAt, KeepsBelow, Holds
      <4>2. Allocated(stack[i].id)
        BY <1>2, <4>1 DEF InfoInv
      <4> QED BY <1>1, <4>1, <4>2
    <3> QED BY <3>1, <3>2
  <2> QED BY <2>1, <2>2, <2>3, <2>4, JoinsQuiet
<1>3. ot'.op = "startup" => Still(ot'.info)
  <2>1. CASE ot' = ot
    <3>1. ot.op = "startup" => Allocated(ot.info)
      BY DEF InfoInv
    <3> QED BY <1>1, <2>1, <3>1
  <2>2. CASE CmdFill
    <3>1. ot'.op = Top.arg /\ ot'.info = stack[Depth - 1].id /\ Top.fn = "cmd"
      BY <2>2 DEF CmdFill, At
    <3>2. Top.arg = "startup" => stack[Depth - 1].fn = "join" /\ stack[Depth - 1].pc = "started"
                                 /\ Depth - 1 \in 1 .. Depth
      BY <3>1, BelowTop DEF OnTop, Task
    <3>3. Top.arg = "startup" => Allocated(stack[Depth - 1].id)
      BY <3>2 DEF InfoInv
    <3> QED BY <1>1, <3>1, <3>3
  <2>3. CASE M0Answer
    <3>1. ot'.op = ot.op /\ ot'.info = ot.info
      BY <2>3 DEF M0Answer, TypesInv
    <3>2. ot.op = "startup" => Allocated(ot.info)
      BY DEF InfoInv
    <3> QED BY <1>1, <3>1, <3>2
  <2> QED BY <2>1, <2>2, <2>3 DEF Next, Thread, M0Serves, vars,
         Dispatch, WaitReturn, MaskLoad, CmdSend, CmdEnable, CmdReturn, SysSend, SysEnable,
         SysReturn, SaveGet, SaveWrite, SaveEraseOff, SaveEnd, JoinBegin, JoinStarted, JoinWoken,
         JoinSave, JoinEnd, NotifyBegin, StartupCallback, PersistCallback, RequestBegin, AckClear,
         AckEnable, TimerCallback, TimerReturn, RxHandler, TxHandler, Press, TimerExpires, M0Take,
         M0Malloc, M0Allocated, M0SysAnswer, M0StartupDone, M0Persist, M0Log
<1>4. starting' # NoInfo => Still(starting')
  <2>1. \/ starting' \in {starting, NoInfo}
        \/ ot.op = "startup" /\ starting' = ot.info
    BY DEF Next, Thread, M0Serves, vars, radio,
         Dispatch, WaitReturn, MaskLoad, CmdFill, CmdSend, CmdEnable, CmdReturn, SysSend, SysEnable,
         SysReturn, SaveGet, SaveWrite, SaveEraseOff, SaveEnd, JoinBegin, JoinStarted, JoinWoken,
         JoinSave, JoinEnd, NotifyBegin, StartupCallback, PersistCallback, RequestBegin, AckClear,
         AckEnable, TimerCallback, TimerReturn, RxHandler, TxHandler, Press, TimerExpires, M0Take,
         M0Malloc, M0Allocated, M0Answer, M0SysAnswer, M0StartupDone, M0Persist, M0Log
  <2> QED BY <1>1, <2>1, SMTT(60) DEF InfoInv
<1>5. notif'.kind = "startup" => Still(notif'.info)
  <2>1. CASE notif'.kind = notif.kind /\ notif'.info = notif.info
    <3>1. notif.kind = "startup" => Allocated(notif.info)
      BY DEF InfoInv
    <3> QED BY <1>1, <2>1, <3>1
  <2>2. CASE M0StartupDone
    <3>1. notif'.info = starting /\ starting # NoInfo
      BY <2>2 DEF M0StartupDone
    <3>2. Allocated(starting)
      BY <3>1 DEF InfoInv
    <3> QED BY <1>1, <3>1, <3>2
  <2>3. CASE M0Persist
    BY <2>3 DEF M0Persist
  <2>4. StartupCallback \/ PersistCallback => notif'.kind = notif.kind /\ notif'.info = notif.info
    BY SMTT(60) DEF StartupCallback, PersistCallback, TypesInv
  <2>5. notif' = notif \/ StartupCallback \/ PersistCallback \/ M0StartupDone \/ M0Persist
    BY DEF Next, Thread, M0Serves, vars,
         Dispatch, WaitReturn, MaskLoad, CmdFill, CmdSend, CmdEnable, CmdReturn, SysSend, SysEnable,
         SysReturn, SaveGet, SaveWrite, SaveEraseOff, SaveEnd, JoinBegin, JoinStarted, JoinWoken,
         JoinSave, JoinEnd, NotifyBegin, RequestBegin, AckClear, AckEnable, TimerCallback,
         TimerReturn, RxHandler, TxHandler, Press, TimerExpires, M0Take, M0Malloc, M0Allocated,
         M0Answer, M0SysAnswer, M0Log
  <2> QED BY <2>1, <2>2, <2>3, <2>4, <2>5
<1> QED BY <1>2, <1>3, <1>4, <1>5, BlocksKept DEF InfoInv, Allocated

-----------------------------------------------------------------------------
(* The notification. *)

NotifySame ==
  /\ \A i \in 1 .. Depth' : Served(stack'[i]) => i \in 1 .. Depth /\ Served(stack[i])
  /\ \A i \in 1 .. Depth' : Processing(stack'[i]) => stack'[i].pc = stack[i].pc
  /\ \A i \in 1 .. Depth : Processing(stack[i]) => i \in 1 .. Depth' /\ Processing(stack'[i])
  /\ \A i \in 1 .. Depth' : "notif" \in stack'[i].reg =>
        enabled["notif"] \/ (i \in 1 .. Depth /\ "notif" \in stack[i].reg)

LEMMA NotifySteps ==
  ASSUME StackInv
  PROVE  /\ \A pc, reg : /\ GoesTo(pc, reg)
                         /\ Top.fn = "notify" => Top.pc = "load" /\ pc = "enable"
                         /\ "notif" \in reg => enabled["notif"]
                         => NotifySame
         /\ \A pc, id, fn, arg : Top.fn # "notify" /\ CallsAt(pc, id, fn, arg) => NotifySame
         /\ \A fn : Enters(fn) => NotifySame
         /\ ~ Processing(Top) /\ Leaves => NotifySame
         /\ \A ok : Top.fn = "cmd" /\ Answers(ok) => NotifySame
<1>1. /\ Depth \in Nat /\ Depth >= 1 /\ Top = stack[Depth] /\ Depth \in 1 .. Depth
      /\ \A i \in 1 .. Depth + 1 : i = Depth + 1 \/ i \in 1 .. Depth
      /\ \A i \in 1 .. Depth : i \in 1 .. Depth + 1
      /\ \A i \in 1 .. Depth : i = Depth \/ i \in 1 .. Depth - 1
      /\ \A i \in 1 .. Depth - 1 : i = Depth - 1 \/ i \in 1 .. Depth - 2
      /\ \A i \in 1 .. Depth - 1 : i \in 1 .. Depth
  BY BelowTop
<1>2. ASSUME NEW pc, NEW reg, GoesTo(pc, reg),
             Top.fn = "notify" => Top.pc = "load" /\ pc = "enable", "notif" \in reg => enabled["notif"]
      PROVE  NotifySame
  BY <1>1, <1>2 DEF GoesTo, KeepsBelow, NotifySame, Served, Processing, Holds
<1>3. ASSUME NEW pc, NEW id, NEW fn, NEW arg, Top.fn # "notify", CallsAt(pc, id, fn, arg)
      PROVE  NotifySame
  BY <1>1, <1>3 DEF CallsAt, KeepsBelow, NotifySame, Served, Processing, Holds
<1>4. ASSUME NEW fn, Enters(fn) PROVE NotifySame
  BY <1>1, <1>4 DEF Enters, NotifySame, Served, Processing, Holds
<1>5. ASSUME ~ Processing(Top), Leaves PROVE NotifySame
  BY <1>1, <1>5 DEF Leaves, KeepsBelow, NotifySame, Served, Processing
<1>6. ASSUME NEW ok, Top.fn = "cmd", Answers(ok) PROVE NotifySame
  BY <1>1, <1>6 DEF Answers, NotifySame, Served, Processing, Holds
<1> QED BY <1>2, <1>3, <1>4, <1>5, <1>6

LEMMA NotifQuiet ==
  ASSUME NotifInv, NotifySame, flag'["notif"] = flag["notif"], cptNotify' = cptNotify, notif' = notif,
         (\E i \in 1 .. Depth : Processing(stack[i])) => (enabled'["notif"] => enabled["notif"])
  PROVE  NotifInv'
<1>1. ASSUME NEW i \in 1 .. Depth', Processing(stack'[i])
      PROVE  /\ flag'["notif"] /\ ~ enabled'["notif"] /\ cptNotify' = 0
             /\ notif'.processed = (IF stack'[i].pc = "callback" THEN 0 ELSE 1)
             /\ \A j \in 1 .. Depth' : Served(stack'[j]) => j = i
             /\ \A j \in 1 .. Depth' : "notif" \notin stack'[j].reg
  <2>1. i \in 1 .. Depth /\ Processing(stack[i]) /\ stack'[i].pc = stack[i].pc
    BY <1>1 DEF NotifySame, Served, Processing
  <2>2. /\ flag["notif"] /\ ~ enabled["notif"] /\ cptNotify = 0
        /\ notif.processed = (IF stack[i].pc = "callback" THEN 0 ELSE 1)
        /\ \A j \in 1 .. Depth : Served(stack[j]) => j = i
        /\ \A j \in 1 .. Depth : "notif" \notin stack[j].reg
    BY <2>1 DEF NotifInv
  <2> QED BY <2>1, <2>2 DEF NotifySame
<1>2. flag'["notif"] /\ (\A i \in 1 .. Depth' : ~ Processing(stack'[i])) => notif'.processed = 0
  BY DEF NotifySame, NotifInv
<1>3. ~ flag'["notif"] => notif'.processed = 1 /\ cptNotify' = 0
  BY DEF NotifInv
<1> QED BY <1>1, <1>2, <1>3 DEF NotifInv, Served, Processing

LEMMA StoreQuiet ==
  ASSUME StackInv, NotifInv, NEW c \in Channel, MaskStore(c), c # "notif" \/ Top.pc = "enable",
         c = "notif" => Top.fn = "notify"
  PROVE  (\E i \in 1 .. Depth : Processing(stack[i])) => (enabled'["notif"] => enabled["notif"])
<1> SUFFICES ASSUME NEW i \in 1 .. Depth, Processing(stack[i]) PROVE ~ enabled'["notif"]
  OBVIOUS
<1>1. /\ \A j \in 1 .. Depth : Served(stack[j]) => j = i
      /\ \A j \in 1 .. Depth : "notif" \notin stack[j].reg
  BY DEF NotifInv
<1>2. "notif" \notin Top.reg
  BY <1>1, BelowTop
<1>3. c # "notif"
  <2> SUFFICES ASSUME c = "notif" PROVE FALSE
    OBVIOUS
  <2>1. Served(Top) /\ ~ Processing(Top)
    BY DEF Served, Processing
  <2> QED BY <1>1, <2>1, BelowTop
<1>4. "notif" \in Channel
  BY DEF Channel
<1> QED BY <1>2, <1>3, <1>4 DEF MaskStore

\* Where a function that is not in a call has been left, the timer runs.
LEMMA NoneLeftOff ==
  ASSUME StackInv, Top.fn \notin {"timer", "cmd", "request", "wait"}, NEW i \in 1 .. Depth, i # Depth
  PROVE  stack[i].pc \notin {"load", "enable"} /\ ~ (stack[i].fn = "notify" /\ stack[i].pc # "ack")
<1>1. i \in 1 .. Depth - 1 /\ i + 1 \in 1 .. Depth /\ (i + 1 = Depth \/ i + 1 < Depth)
  BY BelowTop
<1>2. OnTop(stack[i].fn, stack[i].pc, stack[i + 1].fn, stack[i + 1].arg)
  BY <1>1 DEF StackInv
<1>3. stack[i + 1].fn # "timer"
  <2>1. CASE i + 1 = Depth
    BY <2>1, BelowTop
  <2>2. CASE i + 1 < Depth
    <3>1. stack[i + 1].fn = "timer" => InTimer(Top.fn, Top.arg)
      BY <1>1, <2>2, BelowTop DEF StackInv
    <3> QED BY <3>1 DEF InTimer
  <2> QED BY <1>1, <2>1, <2>2
<1>4. stack[i].fn \in {"main", "wait"} => stack[i].pc = "begin"
  <2>1. stack[i].pc \in PlacesOf(stack[i].fn)
    BY DEF StackInv
  <2> QED BY <2>1 DEF PlacesOf
<1> QED BY <1>2, <1>3, <1>4 DEF OnTop

LEMMA NotifyBeginNotif ==
  ASSUME TypesInv, StackInv, InfoInv, NotifInv, NotifyBegin, ~ Pending
  PROVE  NotifInv'
<1>0. At("notify", "begin") /\ ~ Processing(Top) /\ cptNotify' = 0 /\ flag' = flag /\ enabled' = enabled
      /\ notif' = notif
  BY DEF NotifyBegin, At, Processing, ipcc
<1>1. CASE cptNotify = 0
  <2>1. Leaves
    BY <1>1, Effects
  <2> QED BY <1>0, <1>1, <2>1, NotifySteps, NotifQuiet
<1>2. CASE cptNotify # 0
  <2>1. GoesTo("callback", {})
    BY <1>2, Effects
  <2>2. flag["notif"] /\ ~ enabled["notif"]
    BY <1>2 DEF NotifInv, Pending, RxPending
  <2>3. \A i \in 1 .. Depth : ~ Processing(stack[i])
    BY <1>2 DEF NotifInv
  <2>4. notif.processed = 0
    BY <2>2, <2>3 DEF NotifInv
  <2>5. \A i \in 1 .. Depth : i # Depth => ~ Served(stack[i]) /\ "notif" \notin stack[i].reg
    <3> SUFFICES ASSUME NEW i \in 1 .. Depth, i # Depth
                 PROVE  ~ Served(stack[i]) /\ "notif" \notin stack[i].reg
      OBVIOUS
    <3>1. stack[i].pc \notin {"load", "enable"} /\ ~ (stack[i].fn = "notify" /\ stack[i].pc # "ack")
      BY <1>0, NoneLeftOff DEF At
    <3>2. stack[i].reg = {}
      BY <3>1 DEF StackInv
    <3> QED BY <2>3, <3>1, <3>2 DEF Served, Processing
  <2>6. /\ Depth' = Depth /\ Depth \in 1 .. Depth
        /\ \A i \in 1 .. Depth : i # Depth => stack'[i] = stack[i]
        /\ stack'[Depth].fn = "notify" /\ stack'[Depth].pc = "callback" /\ stack'[Depth].reg = {}
    BY <1>0, <2>1, BelowTop DEF GoesTo, KeepsBelow, Holds, At
  <2>7. \A i \in 1 .. Depth : /\ Served(stack'[i]) => i = Depth
                              /\ Processing(stack'[i]) => i = Depth
                              /\ "notif" \notin stack'[i].reg
    BY <2>5, <2>6 DEF Served, Processing
  <2>8. Processing(stack'[Depth])
    BY <2>6 DEF Processing
  <2> QED BY <1>0, <2>2, <2>4, <2>6, <2>7, <2>8 DEF NotifInv, Served, Processing
<1> QED BY <1>1, <1>2

LEMMA CallbackNotif ==
  ASSUME TypesInv, StackInv, InfoInv, NotifInv, StartupCallback \/ PersistCallback
  PROVE  NotifInv'
<1>1. /\ Top.fn = "notify" /\ Top.pc = "callback" /\ cptNotify' = cptNotify /\ flag' = flag
      /\ enabled' = enabled /\ notif'.processed = notif.processed + 1
  BY DEF StartupCallback, PersistCallback, At, cpt, ipcc, TypesInv
<1>2. Depth \in 1 .. Depth /\ Processing(stack[Depth]) /\ stack[Depth].pc = "callback"
  BY <1>1, BelowTop DEF Processing
<1>3. /\ flag["notif"] /\ ~ enabled["notif"] /\ cptNotify = 0 /\ notif.processed = 0
      /\ \A j \in 1 .. Depth : Served(stack[j]) => j = Depth
      /\ \A j \in 1 .. Depth : "notif" \notin stack[j].reg
  BY <1>2 DEF NotifInv
<1>4. /\ Depth \in 1 .. Depth'
      /\ \A i \in 1 .. Depth' : i # Depth => ~ Served(stack'[i]) /\ "notif" \notin stack'[i].reg
      /\ stack'[Depth].fn = "notify" /\ stack'[Depth].pc = "ack" /\ stack'[Depth].reg = {}
  <2>1. CASE StartupCallback
    <3>1. GoesTo("ack", {})
      BY <2>1, Effects
    <3> QED BY <1>1, <1>3, <3>1, BelowTop DEF GoesTo, KeepsBelow, Holds
  <2>2. CASE PersistCallback
    <3>1. CallsAt("ack", Top.id, "save", "none")
      BY <2>2, Effects
    <3>2. \A i \in 1 .. Depth + 1 : i = Depth \/ i = Depth + 1 \/ (i \in 1 .. Depth - 1 /\ i \in 1 .. Depth)
      BY BelowTop
    <3>3. ~ Served(stack'[Depth + 1]) /\ stack'[Depth + 1].reg = {}
      BY <3>1 DEF CallsAt, Holds, Served
    <3>4. Depth \in 1 .. Depth + 1
      BY BelowTop
    <3> QED BY <1>1, <1>3, <3>1, <3>2, <3>3, <3>4 DEF CallsAt, KeepsBelow, Holds
  <2> QED BY <2>1, <2>2
<1>5. Processing(stack'[Depth]) /\ \A i \in 1 .. Depth' : Processing(stack'[i]) => i = Depth
  BY <1>4 DEF Processing, Served
<1> QED BY <1>1, <1>3, <1>4, <1>5 DEF NotifInv, Served, Processing

LEMMA AckNotif ==
  ASSUME TypesInv, StackInv, InfoInv, NotifInv, AckClear
  PROVE  NotifInv'
<1>1. /\ Top.fn \in {"notify", "request"} /\ Top.pc = "ack" /\ cptNotify' = cptNotify /\ notif' = notif
      /\ enabled' = enabled /\ flag' = [flag EXCEPT ![ChannelOf(Top.fn)] = FALSE]
      /\ GoesTo("load", {})
  BY Effects DEF AckClear, At, cpt
<1>2. CASE Top.fn = "request"
  <2>1. flag'["notif"] = flag["notif"]
    BY <1>1, <1>2 DEF ChannelOf, TypesInv
  <2> QED BY <1>1, <1>2, <2>1, NotifySteps, NotifQuiet
<1>3. CASE Top.fn = "notify"
  <2>1. Depth \in 1 .. Depth /\ Processing(stack[Depth]) /\ stack[Depth].pc = "ack"
    BY <1>1, <1>3, BelowTop DEF Processing
  <2>2. cptNotify = 0 /\ notif.processed = 1 /\ \A j \in 1 .. Depth : Served(stack[j]) => j = Depth
    BY <2>1 DEF NotifInv
  <2>3. ~ flag'["notif"]
    BY <1>1, <1>3 DEF ChannelOf, TypesInv, Channel
  <2>4. Depth' = Depth /\ \A i \in 1 .. Depth : ~ Processing(stack'[i])
    BY <1>1, <2>2, BelowTop DEF GoesTo, KeepsBelow, Holds, Processing, Served
  <2> QED BY <1>1, <2>2, <2>3, <2>4 DEF NotifInv, Processing
<1> QED BY <1>1, <1>2, <1>3

LEMMA ThreadNotif ==
  ASSUME TypesInv, StackInv, InfoInv, NotifInv, Thread
  PROVE  NotifInv'
<1>1. ASSUME NotifySame, flag'["notif"] = flag["notif"], UNCHANGED <<cptNotify, notif, enabled>>
      PROVE  NotifInv'
  BY <1>1, NotifQuiet
<1>2. CASE NotifyBegin \/ StartupCallback \/ PersistCallback \/ AckClear
  BY <1>2, NotifyBeginNotif, CallbackNotif, AckNotif DEF Thread
<1>3. CASE Dispatch
  <2>1. PICK t : Enters(t)
    BY <1>3, Effects
  <2> QED BY <1>1, <1>3, <2>1, NotifySteps DEF Dispatch, cpt, ipcc
<1>4. CASE WaitReturn \/ SysReturn \/ SaveEnd \/ JoinEnd \/ TimerReturn
  <2>1. Leaves
    BY <1>4, Effects
  <2>2. ~ Processing(Top)
    BY <1>4 DEF WaitReturn, SysReturn, SaveEnd, JoinEnd, TimerReturn, At, Processing
  <2> QED BY <1>1, <1>4, <2>1, <2>2, NotifySteps
          DEF WaitReturn, SysReturn, SaveEnd, JoinEnd, TimerReturn, cpt, ipcc
<1>5. CASE MaskLoad
  <2>1. GoesTo("enable", {c \in Channel : enabled[c]}) /\ Top.pc = "load"
    BY <1>5, Effects DEF MaskLoad
  <2> QED BY <1>1, <1>5, <2>1, NotifySteps DEF MaskLoad, cpt, ipcc
<1>6. CASE CmdFill \/ CmdSend \/ SysSend
  <2>1. Top.fn # "notify"
    BY <1>6 DEF CmdFill, CmdSend, SysSend, At
  <2>2. GoesTo("send", {}) \/ GoesTo("load", {})
    BY <1>6, Effects
  <2>3. flag'["notif"] = flag["notif"]
    <3>1. flag \in [Channel -> BOOLEAN]
      BY DEF TypesInv
    <3>2. CASE CmdFill
      BY <3>2 DEF CmdFill, ipcc
    <3>3. CASE CmdSend
      BY <3>1, <3>3 DEF CmdSend, Channel
    <3>4. CASE SysSend
      BY <3>1, <3>4 DEF SysSend, Channel
    <3> QED BY <1>6, <3>2, <3>3, <3>4
  <2> QED BY <1>1, <1>6, <2>1, <2>2, <2>3, NotifySteps DEF CmdFill, CmdSend, SysSend, cpt, ipcc
<1>7. CASE CmdEnable
  <2>1. CallsAt("return", Top.id, "wait", "ack") /\ Top.fn # "notify" /\ MaskStore("cmd")
        /\ cptNotify' = cptNotify /\ notif' = notif /\ flag' = flag
    BY <1>7, Effects DEF CmdEnable, At, cpt
  <2> QED BY <2>1, NotifySteps, StoreQuiet, NotifQuiet DEF Channel
<1>8. CASE SysEnable
  <2>1. CallsAt("return", Top.id, "wait", "sys") /\ Top.fn # "notify" /\ MaskStore("sys")
        /\ cptNotify' = cptNotify /\ notif' = notif /\ flag' = flag
    BY <1>8, Effects DEF SysEnable, At, cpt
  <2> QED BY <2>1, NotifySteps, StoreQuiet, NotifQuiet DEF Channel
<1>9. CASE AckEnable
  <2>1. /\ Leaves /\ ~ Processing(Top) /\ Top.pc = "enable" /\ Top.fn \in {"notify", "request"}
        /\ MaskStore(ChannelOf(Top.fn))
        /\ cptNotify' = cptNotify /\ notif' = notif /\ flag' = flag
    BY <1>9, Effects DEF AckEnable, At, Processing, cpt
  <2>2. ChannelOf(Top.fn) \in Channel /\ (ChannelOf(Top.fn) = "notif" => Top.fn = "notify")
    BY DEF ChannelOf, Channel
  <2> QED BY <2>1, <2>2, NotifySteps, StoreQuiet, NotifQuiet
<1>10. CASE CmdReturn
  <2>1. Answers(ot.ok) /\ Top.fn = "cmd"
    BY <1>10, Effects DEF CmdReturn, At
  <2> QED BY <1>1, <1>10, <2>1, NotifySteps DEF CmdReturn, cpt, ipcc
<1>11. CASE SaveGet \/ SaveWrite \/ SaveEraseOff \/ JoinBegin \/ JoinStarted \/ JoinWoken \/ JoinSave
            \/ TimerCallback
  <2>1. Top.fn # "notify" /\ ~ Processing(Top)
    BY <1>11 DEF SaveGet, SaveWrite, SaveEraseOff, JoinBegin, JoinStarted, JoinWoken, JoinSave,
                 TimerCallback, At, Processing
  <2>2. Leaves \/ \E pc, id, fn, arg : CallsAt(pc, id, fn, arg)
    BY <1>11, Effects
  <2>3. NotifySame
    BY <2>1, <2>2, NotifySteps
  <2> QED BY <1>1, <1>11, <2>3 DEF SaveGet, SaveWrite, SaveEraseOff, JoinBegin, JoinStarted, JoinWoken,
                 JoinSave, TimerCallback, cpt, ipcc
<1>12. CASE RequestBegin
  <2>1. Top.fn # "notify" /\ ~ Processing(Top) /\ (Leaves \/ GoesTo("ack", {}))
    BY <1>12, Effects DEF RequestBegin, At, Processing
  <2> QED BY <1>1, <1>12, <2>1, NotifySteps DEF RequestBegin, ipcc
<1> QED BY <1>2, <1>3, <1>4, <1>5, <1>6, <1>7, <1>8, <1>9, <1>10, <1>11, <1>12 DEF Thread

LEMMA NotifKept ==
  ASSUME TypesInv, StackInv, InfoInv, NotifInv, [Next]_vars
  PROVE  NotifInv'
<1>1. ASSUME stack' = stack PROVE NotifySame
  <2>1. Depth' = Depth
    BY <1>1 DEF Depth
  <2> QED BY <1>1, <2>1 DEF NotifySame
<1>2. ASSUME NotifySame, flag'["notif"] = flag["notif"], UNCHANGED <<cptNotify, notif>>,
             enabled'["notif"] => enabled["notif"]
      PROVE  NotifInv'
  BY <1>2, NotifQuiet
<1>3. CASE RxHandler
  <2>1. CASE RxPending("notif") /\ enabled' = [enabled EXCEPT !["notif"] = FALSE]
    <3>1. flag["notif"] /\ enabled["notif"] /\ flag' = flag /\ notif' = notif /\ stack' = stack
      BY <1>3, <2>1 DEF RxHandler, RxPending
    <3>2. Depth' = Depth
      BY <3>1 DEF Depth
    <3>3. \A i \in 1 .. Depth : ~ Processing(stack[i])
      BY <3>1 DEF NotifInv
    <3> QED BY <3>1, <3>2, <3>3 DEF NotifInv, Processing
  <2>2. CASE enabled' = [enabled EXCEPT !["request"] = FALSE] /\ cptNotify' = cptNotify
    <3>1. enabled'["notif"] = enabled["notif"] /\ flag' = flag /\ notif' = notif /\ stack' = stack
      BY <1>3, <2>2 DEF RxHandler, TypesInv
    <3> QED BY <1>1, <1>2, <2>2, <3>1
  <2> QED BY <1>3, <2>1, <2>2 DEF RxHandler
<1>4. CASE TxHandler
  <2>1. enabled'["notif"] => enabled["notif"]
    BY <1>4 DEF TxHandler, TypesInv, Channel
  <2> QED BY <1>1, <1>2, <1>4, <2>1 DEF TxHandler, cpt
<1>5. CASE M0StartupDone \/ M0Persist
  <2>1. ~ flag["notif"] /\ flag' = [flag EXCEPT !["notif"] = TRUE] /\ notif'.processed = 0 /\ stack' = stack
    BY <1>5 DEF M0StartupDone, M0Persist
  <2>2. flag'["notif"]
    BY <2>1 DEF TypesInv, Channel
  <2>3. Depth' = Depth
    BY <2>1 DEF Depth
  <2>4. \A i \in 1 .. Depth : ~ Processing(stack[i])
    BY <2>1 DEF NotifInv
  <2> QED BY <2>1, <2>2, <2>3, <2>4 DEF NotifInv, Processing
<1>6. CASE TimerExpires
  <2>1. Enters("timer")
    BY <1>6, Effects
  <2> QED BY <1>2, <1>6, <2>1, NotifySteps DEF TimerExpires, cpt, ipcc
<1>7. CASE Press \/ M0Take \/ M0Allocated \/ UNCHANGED vars
  BY <1>1, <1>2, <1>7 DEF Press, M0Take, M0Allocated, vars, cpt, ipcc
<1>8. CASE M0Malloc \/ M0Answer \/ M0SysAnswer \/ M0Log
  <2>1. flag'["notif"] = flag["notif"]
    <3>1. flag \in [Channel -> BOOLEAN]
      BY DEF TypesInv
    <3>2. CASE M0Malloc
      BY <3>1, <3>2 DEF M0Malloc, Channel
    <3>3. CASE M0Answer
      BY <3>1, <3>3 DEF M0Answer, Channel
    <3>4. CASE M0SysAnswer
      BY <3>1, <3>4 DEF M0SysAnswer, Channel
    <3>5. CASE M0Log
      BY <3>1, <3>5 DEF M0Log, Channel
    <3> QED BY <1>8, <3>2, <3>3, <3>4, <3>5
  <2> QED BY <1>1, <1>2, <1>8, <2>1 DEF M0Malloc, M0Answer, M0SysAnswer, M0Log, cpt
<1> QED BY <1>3, <1>4, <1>5, <1>6, <1>7, <1>8, ThreadNotif DEF Next, M0Serves

-----------------------------------------------------------------------------
IpcInv == TypesInv /\ StackInv /\ InfoInv /\ NotifInv

LEMMA IpcInit == Init => IpcInv
<1> SUFFICES ASSUME Init PROVE IpcInv
  OBVIOUS
<1>1. stack = <<FrameOf("main", "begin", "none", 1, FALSE, {})>>
  BY DEF Init, NewFrame, FrameOf
<1>2. FrameOf("main", "begin", "none", 1, FALSE, {}) \in Frame
  BY FrameTypes DEF Fn, Pc
<1> DEFINE f == FrameOf("main", "begin", "none", 1, FALSE, {})
<1>3. f.fn = "main" /\ f.pc = "begin" /\ f.reg = {}
  BY DEF FrameOf
<1> HIDE DEF f
<1>4. stack \in Seq(Frame) /\ Depth = 1 /\ stack[1] = f
  <2>1. \A x \in Frame : <<x>> \in Seq(Frame) /\ Len(<<x>>) = 1 /\ <<x>>[1] = x
    OBVIOUS
  <2>2. f \in Frame /\ stack = <<f>>
    BY <1>1, <1>2 DEF f
  <2> QED BY <2>1, <2>2 DEF Depth
<1>5. StackInv
  BY <1>3, <1>4 DEF StackInv, OnStack, PlacesOf
<1>6. TypesInv
  <2>1. taskSet \subseteq Task /\ evtSet \subseteq Event /\ cptNotify \in Nat /\ cptRequest \in Nat
    BY DEF Init
  <2>2. flag \in [Channel -> BOOLEAN] /\ enabled \in [Channel -> BOOLEAN]
    BY DEF Init
  <2>3. ot \in [owner : Nat, op : Op, info : Nat, answered : BOOLEAN, ok : BOOLEAN]
    BY DEF Init, Op, NoInfo
  <2>4. sysBuf \in [owner : Nat, answered : BOOLEAN]
    BY DEF Init
  <2>5. notif \in [kind : {"startup", "persist"}, info : Nat, ok : BOOLEAN, processed : Nat]
    BY DEF Init, NoInfo
  <2>6. info \in [Info -> [state : {"none", "active", "done", "freed", "corrupt"}, ok : BOOLEAN]]
    BY DEF Init
  <2>7. joined \in BOOLEAN /\ persistCb \in BOOLEAN /\ starting \in Info \cup {NoInfo}
        /\ m0 \in {"idle", "serving", "needs", "malloc"}
    BY DEF Init
  <2>8. presses \in 0 .. MaxPress
    BY IpcAssumption DEF Init
  <2> QED BY <2>1, <2>2, <2>3, <2>4, <2>5, <2>6, <2>7, <2>8 DEF TypesInv
<1>7. InfoInv
  <2>1. Asked = 0 /\ Begun = 0 /\ presses = 0
    BY <1>3, <1>4 DEF Init, Asked, Begun, Joining
  <2>2. \A d \in Info : info[d].state # "none" <=> d <= 0
    BY DEF Init, Info
  <2>3. 0 \in 0 .. MaxPress /\ 0 + Asked + Begun <= presses
    BY <2>1, IpcAssumption
  <2>4. ot.op = "get" /\ starting = NoInfo /\ notif.kind = "persist"
    BY DEF Init
  <2> QED BY <1>3, <1>4, <2>2, <2>3, <2>4 DEF InfoInv
<1>8. NotifInv
  BY <1>3, <1>4 DEF Init, NotifInv, Processing, Channel
<1> QED BY <1>5, <1>6, <1>7, <1>8 DEF IpcInv

LEMMA IpcAlways == Spec => []IpcInv
<1>1. IpcInv /\ [Next]_vars => IpcInv'
  BY TypesKept, StackKept, InfoKept, NotifKept DEF IpcInv
<1> QED BY <1>1, IpcInit, PTL DEF Spec

(* The radio core never gets the buffer of a notification back before its   *)
(* call-back has run, and it runs once: whatever the interrupts of the      *)
(* channels and of the timer come between, even the store of an interrupt   *)
(* mask that undoes what a handler has masked.                              *)
THEOREM EachNotificationAlwaysOnce == Spec => []EachNotificationOnce
<1>1. IpcInv => EachNotificationOnce
  BY DEF IpcInv, NotifInv, EachNotificationOnce
<1> QED BY <1>1, IpcAlways, PTL

-----------------------------------------------------------------------------
(* One command at a time.  From here on the timer's interrupt does not come *)
(* while a command or a request is served: nothing but the wait for the     *)
(* acknowledgement and the requests it lets through runs above a command.   *)

InCommand(f) == f.fn = "request" \/ (f.fn = "wait" /\ f.arg = "ack")

ShapeInv ==
  /\ \A i \in 1 .. Depth - 1 : stack[i].pc # "enable" /\ stack[i].fn # "request"
  /\ \A i, j \in 1 .. Depth : i < j /\ stack[i].fn = "cmd" => InCommand(stack[j])

\* Nothing will signal the acknowledgement, and it has not been signalled.
Unarmed == /\ ~ enabled["cmd"] /\ "ack" \notin evtSet
           /\ \A i \in 1 .. Depth : "cmd" \notin stack[i].reg
Idle == Unarmed /\ ~ flag["cmd"]

\* What holds while the activation f at depth i serves its command.
Phase(f, i) ==
  /\ f.pc \in {"begin", "send"} => Idle
  /\ f.pc \in {"load", "enable"} => Unarmed
  /\ f.pc = "return" /\ i = Depth => Idle
  /\ f.pc # "begin" => ot.owner = i
  /\ f.pc \in {"load", "enable", "return"} => flag["cmd"] \/ ot.answered

CmdInv ==
  /\ m0 # "idle" => flag["cmd"]
  /\ "ack" \in evtSet => ~ flag["cmd"]
  /\ (\A i \in 1 .. Depth : stack[i].fn # "cmd") => Idle
  /\ \A i \in 1 .. Depth : stack[i].fn = "cmd" => Phase(stack[i], i)

-----------------------------------------------------------------------------
(* The shape of the stack. *)

LEMMA ShapeSteps ==
  ASSUME StackInv, ShapeInv
  PROVE  /\ \A pc, reg : GoesTo(pc, reg) => ShapeInv'
         /\ Top.fn # "main" /\ Leaves => ShapeInv'
         /\ \A ok : Top.fn = "cmd" /\ Answers(ok) => ShapeInv'
         /\ \A pc, id, fn, arg :
              /\ CallsAt(pc, id, fn, arg) /\ pc # "enable"
              /\ Top.fn \notin {"main", "wait", "request"}
              /\ Top.fn = "cmd" => fn = "wait" /\ arg = "ack"
              => ShapeInv'
         /\ \A fn : /\ Enters(fn) /\ Top.pc # "enable" /\ Top.fn # "request"
                    /\ (\E i \in 1 .. Depth : stack[i].fn = "cmd") => fn = "request"
                    => ShapeInv'
<1>1. /\ Depth \in Nat /\ Depth >= 1 /\ Top = stack[Depth] /\ Depth \in 1 .. Depth
      /\ \A i \in 1 .. Depth + 1 : i = Depth + 1 \/ i \in 1 .. Depth
      /\ \A i \in 1 .. Depth : i \in 1 .. Depth + 1
      /\ \A i \in 1 .. Depth : i = Depth \/ i \in 1 .. Depth - 1
      /\ \A i \in 1 .. Depth - 1 : i = Depth - 1 \/ i \in 1 .. Depth - 2
      /\ \A i \in 1 .. Depth - 1 : i \in 1 .. Depth
  BY BelowTop
<1>2. ASSUME NEW pc, NEW reg, GoesTo(pc, reg)
      PROVE  ShapeInv'
  <2>1. \A i \in 1 .. Depth' : stack'[i].fn = stack[i].fn /\ stack'[i].arg = stack[i].arg
    BY <1>1, <1>2 DEF GoesTo, KeepsBelow, Holds
  <2> QED BY <1>1, <1>2, <2>1 DEF GoesTo, KeepsBelow, ShapeInv, InCommand
<1>3. ASSUME Top.fn # "main", Leaves PROVE ShapeInv'
  BY <1>1, <1>3, BelowTop DEF Leaves, KeepsBelow, ShapeInv, InCommand
<1>4. ASSUME NEW ok, Top.fn = "cmd", Answers(ok) PROVE ShapeInv'
  <2>1. /\ Depth' = Depth - 1 /\ Depth - 1 \in 1 .. Depth
        /\ \A i \in 1 .. Depth' : stack'[i].fn = stack[i].fn /\ stack'[i].arg = stack[i].arg
                                  /\ stack'[i].pc = stack[i].pc
    BY <1>1, <1>4, BelowTop DEF Answers, Holds
  <2> QED BY <1>1, <2>1 DEF ShapeInv, InCommand
<1>5. ASSUME NEW pc, NEW id, NEW fn, NEW arg, CallsAt(pc, id, fn, arg), pc # "enable",
             Top.fn \notin {"main", "wait", "request"},
             Top.fn = "cmd" => fn = "wait" /\ arg = "ack"
      PROVE  ShapeInv'
  <2>1. /\ Depth' = Depth + 1
        /\ \A i \in 1 .. Depth : stack'[i].fn = stack[i].fn /\ stack'[i].arg = stack[i].arg
        /\ \A i \in 1 .. Depth - 1 : stack'[i].pc = stack[i].pc
        /\ stack'[Depth].pc = pc
        /\ stack'[Depth + 1].fn = fn /\ stack'[Depth + 1].arg = arg
    BY <1>1, <1>5 DEF CallsAt, KeepsBelow, Holds
  <2>2. \A i \in 1 .. Depth - 1 : stack[i].fn # "cmd"
    BY <1>1, <1>5 DEF ShapeInv, InCommand
  <2>3. \A i \in 1 .. Depth' - 1 : stack'[i].pc # "enable" /\ stack'[i].fn # "request"
    BY <1>1, <1>5, <2>1 DEF ShapeInv
  <2>4. \A i, j \in 1 .. Depth' : i < j /\ stack'[i].fn = "cmd" => i = Depth /\ j = Depth + 1 /\ Top.fn = "cmd"
    BY <1>1, <2>1, <2>2
  <2> QED BY <1>5, <2>1, <2>3, <2>4 DEF ShapeInv, InCommand
<1>6. ASSUME NEW fn, Enters(fn), Top.pc # "enable", Top.fn # "request",
             (\E i \in 1 .. Depth : stack[i].fn = "cmd") => fn = "request"
      PROVE  ShapeInv'
  <2>1. /\ Depth' = Depth + 1
        /\ \A i \in 1 .. Depth : stack'[i] = stack[i]
        /\ stack'[Depth + 1].fn = fn
    BY <1>1, <1>6 DEF Enters, Holds
  <2>2. \A i \in 1 .. Depth' - 1 : stack'[i].pc # "enable" /\ stack'[i].fn # "request"
    BY <1>1, <1>6, <2>1 DEF ShapeInv
  <2>3. \A i, j \in 1 .. Depth' : i < j /\ stack'[i].fn = "cmd" =>
           /\ i \in 1 .. Depth /\ stack[i].fn = "cmd"
           /\ (j \in 1 .. Depth \/ j = Depth + 1)
    BY <1>1, <2>1
  <2>4. ASSUME NEW i \in 1 .. Depth', NEW j \in 1 .. Depth', i < j, stack'[i].fn = "cmd"
        PROVE  InCommand(stack'[j])
    <3>1. i \in 1 .. Depth /\ stack[i].fn = "cmd" /\ (j \in 1 .. Depth \/ j = Depth + 1)
      BY <2>3, <2>4
    <3>2. CASE j \in 1 .. Depth
      BY <2>1, <2>4, <3>1, <3>2 DEF ShapeInv
    <3>3. CASE j = Depth + 1
      BY <1>6, <2>1, <3>1, <3>3 DEF InCommand
    <3> QED BY <3>1, <3>2, <3>3
  <2> QED BY <2>2, <2>4 DEF ShapeInv
<1> QED BY <1>2, <1>3, <1>4, <1>5, <1>6

\* What runs while a command waits is what its wait lets through.
LEMMA OnlyRequests ==
  ASSUME StackInv, ShapeInv, NEW k \in 1 .. Depth, stack[k].fn = "cmd", Dispatch
  PROVE  Runnable \subseteq {"request"}
<1>1. Top.fn # "cmd" /\ Top = stack[Depth]
  BY DEF Dispatch, Top
<1>2. k \in 1 .. Depth - 1 /\ k + 1 \in 1 .. Depth /\ k < k + 1
  BY <1>1, BelowTop
<1>3. InCommand(stack[k + 1]) /\ OnTop("cmd", stack[k].pc, stack[k + 1].fn, stack[k + 1].arg)
  BY <1>2 DEF ShapeInv, StackInv
<1>4. stack[k + 1].fn = "wait" /\ stack[k + 1].arg = "ack"
  BY <1>3 DEF InCommand, OnTop, Task
<1> QED BY <1>2, <1>4 DEF Runnable, EvtIdleMask

LEMMA ShapeKept ==
  ASSUME ~ TimerPreempts, TypesInv, StackInv, InfoInv, ShapeInv, [Next]_vars
  PROVE  ShapeInv'
<1>1. ASSUME stack' = stack PROVE ShapeInv'
  <2>1. Depth' = Depth
    BY <1>1 DEF Depth
  <2> QED BY <1>1, <2>1 DEF ShapeInv, InCommand
<1>2. CASE MaskLoad \/ CmdFill \/ CmdSend \/ SysSend \/ StartupCallback \/ AckClear
  BY <1>2, Effects, ShapeSteps
<1>3. CASE WaitReturn \/ SysReturn \/ SaveEnd \/ JoinEnd \/ AckEnable \/ TimerReturn
  BY <1>3, Effects, ShapeSteps DEF WaitReturn, SysReturn, SaveEnd, JoinEnd, AckEnable, TimerReturn, At
<1>4. CASE NotifyBegin \/ RequestBegin
  BY <1>4, Effects, ShapeSteps DEF NotifyBegin, RequestBegin, At
<1>5. CASE CmdReturn
  BY <1>5, Effects, ShapeSteps DEF CmdReturn, At
<1>6. CASE CmdEnable \/ SysEnable \/ SaveGet \/ SaveEraseOff \/ JoinSave \/ PersistCallback \/ TimerCallback
  BY <1>6, Effects, ShapeSteps
     DEF CmdEnable, SysEnable, SaveGet, SaveEraseOff, JoinSave, PersistCallback, TimerCallback, At
<1>7. CASE SaveWrite \/ JoinBegin \/ JoinStarted \/ JoinWoken
  BY <1>7, Effects, ShapeSteps DEF SaveWrite, JoinBegin, JoinStarted, JoinWoken, At
<1>8. CASE Dispatch
  <2>1. PICK t \in Runnable : Enters(t)
    BY <1>8, Effects
  <2>2. (\E i \in 1 .. Depth : stack[i].fn = "cmd") => t = "request"
    BY <1>8, <2>1, OnlyRequests
  <2>3. Top.pc # "enable" /\ Top.fn # "request"
    BY <1>8, BelowTop DEF Dispatch, StackInv, PlacesOf
  <2> QED BY <2>1, <2>2, <2>3, ShapeSteps
<1>9. CASE TimerExpires
  <2>1. Enters("timer") /\ Top.pc # "enable" /\ ~ Active("cmd") /\ ~ Active("request")
    BY <1>9, Effects DEF TimerExpires
  <2>2. Top.fn # "request" /\ \A i \in 1 .. Depth : stack[i].fn # "cmd"
    BY <2>1, BelowTop DEF Active
  <2> QED BY <2>1, <2>2, ShapeSteps
<1>10. CASE RxHandler \/ TxHandler \/ Press \/ M0Serves \/ M0Persist \/ M0Log \/ UNCHANGED vars
  BY <1>1, <1>10 DEF RxHandler, TxHandler, Press, M0Serves, M0Take, M0Malloc, M0Allocated, M0Answer,
                     M0SysAnswer, M0StartupDone, M0Persist, M0Log, vars
<1> QED BY <1>2, <1>3, <1>4, <1>5, <1>6, <1>7, <1>8, <1>9, <1>10 DEF Next, Thread

-----------------------------------------------------------------------------
(* The command. *)

\* A step that leaves the commands, and what they have on top, as they are.
CmdSame ==
  /\ \A i \in 1 .. Depth' : stack'[i].fn = "cmd" =>
        /\ i \in 1 .. Depth /\ stack[i].fn = "cmd" /\ stack'[i].pc = stack[i].pc
        /\ i = Depth' => i = Depth
  /\ \A i \in 1 .. Depth : stack[i].fn = "cmd" => i \in 1 .. Depth' /\ stack'[i].fn = "cmd"
  /\ \A i \in 1 .. Depth' : "cmd" \in stack'[i].reg =>
        enabled["cmd"] \/ (i \in 1 .. Depth /\ "cmd" \in stack[i].reg)

\* The channel of the commands and what is known of it stay as they are.
CmdStill ==
  /\ flag'["cmd"] = flag["cmd"]
  /\ enabled'["cmd"] => enabled["cmd"] \/ \E i \in 1 .. Depth : "cmd" \in stack[i].reg
  /\ "ack" \in evtSet' => "ack" \in evtSet

LEMMA CmdQuiet ==
  ASSUME CmdInv, CmdSame, CmdStill, UNCHANGED ot, m0' # "idle" => m0 # "idle"
  PROVE  CmdInv'
<1>1. Unarmed => Unarmed'
  BY DEF Unarmed, CmdSame, CmdStill
<1>2. Idle => Idle'
  BY <1>1 DEF Idle, CmdStill
<1>3. (\A i \in 1 .. Depth' : stack'[i].fn # "cmd") => Idle'
  BY <1>2 DEF CmdInv, CmdSame
<1>4. ASSUME NEW i \in 1 .. Depth', stack'[i].fn = "cmd"
      PROVE  Phase(stack[i], i)' /\ i \in 1 .. Depth
  <2>1. /\ i \in 1 .. Depth /\ stack[i].fn = "cmd" /\ stack'[i].pc = stack[i].pc
        /\ i = Depth' => i = Depth
    BY <1>4 DEF CmdSame
  <2>2. Phase(stack[i], i)
    BY <2>1 DEF CmdInv
  <2> QED BY <1>1, <1>2, <2>1, <2>2 DEF Phase, CmdStill
<1>5. /\ m0' # "idle" => flag'["cmd"]
      /\ "ack" \in evtSet' => ~ flag'["cmd"]
  BY DEF CmdInv, CmdStill
<1> QED BY <1>3, <1>4, <1>5 DEF CmdInv

LEMMA CmdSteps ==
  ASSUME StackInv
  PROVE  /\ \A pc, reg : /\ GoesTo(pc, reg) /\ Top.fn # "cmd"
                         /\ "cmd" \in reg => enabled["cmd"]
                         => CmdSame
         /\ \A pc, id, fn, arg : Top.fn # "cmd" /\ fn # "cmd" /\ CallsAt(pc, id, fn, arg) => CmdSame
         /\ \A fn : Enters(fn) /\ fn # "cmd" => CmdSame
         /\ Leaves /\ Top.fn # "cmd" /\ stack[Depth - 1].fn # "cmd" => CmdSame
<1>1. /\ Depth \in Nat /\ Depth >= 1 /\ Top = stack[Depth] /\ Depth \in 1 .. Depth
      /\ \A i \in 1 .. Depth + 1 : i = Depth + 1 \/ i \in 1 .. Depth
      /\ \A i \in 1 .. Depth : i \in 1 .. Depth + 1 /\ i # Depth + 1
      /\ \A i \in 1 .. Depth : i = Depth \/ i \in 1 .. Depth - 1
      /\ \A i \in 1 .. Depth - 1 : i \in 1 .. Depth /\ i # Depth
  BY BelowTop
<1>2. ASSUME NEW pc, NEW reg, GoesTo(pc, reg), Top.fn # "cmd", "cmd" \in reg => enabled["cmd"]
      PROVE  CmdSame
  BY <1>1, <1>2 DEF GoesTo, KeepsBelow, CmdSame, Holds
<1>3. ASSUME NEW pc, NEW id, NEW fn, NEW arg, Top.fn # "cmd", fn # "cmd", CallsAt(pc, id, fn, arg)
      PROVE  CmdSame
  BY <1>1, <1>3 DEF CallsAt, KeepsBelow, CmdSame, Holds
<1>4. ASSUME NEW fn, Enters(fn), fn # "cmd" PROVE CmdSame
  BY <1>1, <1>4 DEF Enters, CmdSame, Holds
<1>5. ASSUME Leaves, Top.fn # "cmd", stack[Depth - 1].fn # "cmd" PROVE CmdSame
  BY <1>1, <1>5 DEF Leaves, KeepsBelow, CmdSame
<1> QED BY <1>2, <1>3, <1>4, <1>5

\* No command is under way when something else than a request runs.
LEMMA NoCommand ==
  ASSUME StackInv, ShapeInv, CmdInv, Top.fn # "cmd", ~ InCommand(Top)
  PROVE  Idle /\ \A i \in 1 .. Depth : stack[i].fn # "cmd"
<1>1. Depth \in 1 .. Depth /\ Top = stack[Depth] /\ \A i \in 1 .. Depth : i = Depth \/ i < Depth
  BY BelowTop
<1>2. \A i \in 1 .. Depth : stack[i].fn # "cmd"
  BY <1>1 DEF ShapeInv
<1> QED BY <1>2 DEF CmdInv

\* A command starts.
LEMMA CmdStarts ==
  ASSUME StackInv, ShapeInv, CmdInv, Top.fn # "cmd", ~ InCommand(Top), NEW pc, NEW id, NEW arg,
         CallsAt(pc, id, "cmd", arg), CmdStill, m0' # "idle" => m0 # "idle"
  PROVE  CmdInv'
<1>1. Idle /\ \A i \in 1 .. Depth : stack[i].fn # "cmd"
  BY NoCommand
<1>2. /\ Depth \in Nat /\ Depth \in 1 .. Depth
      /\ \A i \in 1 .. Depth + 1 : i = Depth + 1 \/ i \in 1 .. Depth
      /\ \A i \in 1 .. Depth : i = Depth \/ i \in 1 .. Depth - 1
  BY BelowTop
<1>3. /\ Depth' = Depth + 1
      /\ \A i \in 1 .. Depth - 1 : stack'[i] = stack[i]
      /\ stack'[Depth].fn # "cmd" /\ stack'[Depth].reg = {}
      /\ stack'[Depth + 1].fn = "cmd" /\ stack'[Depth + 1].pc = "begin" /\ stack'[Depth + 1].reg = {}
  BY BelowTop DEF CallsAt, KeepsBelow, Holds
<1>4. \A i \in 1 .. Depth' : "cmd" \notin stack'[i].reg
  BY <1>1, <1>2, <1>3 DEF Idle, Unarmed
<1>5. Idle'
  BY <1>1, <1>4 DEF Idle, Unarmed, CmdStill
<1>6. \A i \in 1 .. Depth' : stack'[i].fn = "cmd" => stack'[i].pc = "begin"
  BY <1>1, <1>2, <1>3
<1>7. m0' = "idle" /\ "ack" \notin evtSet'
  BY <1>1 DEF CmdInv, Idle, Unarmed, CmdStill
<1>8. (\A i \in 1 .. Depth : stack[i].fn = "cmd" => Phase(stack[i], i))'
  BY <1>5, <1>6 DEF Phase
<1> QED BY <1>5, <1>7, <1>8 DEF CmdInv

\* The command's own steps: it fills the buffer, rings, and loads a mask.
LEMMA CmdGoes ==
  ASSUME TypesInv, StackInv, InfoInv, ShapeInv, CmdInv, Top.fn = "cmd", CmdFill \/ CmdSend \/ MaskLoad
  PROVE  CmdInv'
<1>1. /\ Depth \in Nat /\ Depth \in 1 .. Depth /\ Top = stack[Depth]
      /\ \A i \in 1 .. Depth : i = Depth \/ (i \in 1 .. Depth - 1 /\ i < Depth)
  BY BelowTop
<1>2. \A i \in 1 .. Depth - 1 : stack[i].fn # "cmd"
  BY <1>1 DEF ShapeInv, InCommand
<1>3. Phase(Top, Depth) /\ Top.id = Depth
  BY <1>1 DEF CmdInv, StackInv
<1>4. ASSUME NEW pc, NEW reg, GoesTo(pc, reg)
      PROVE  /\ Depth' = Depth /\ stack'[Depth].fn = "cmd" /\ stack'[Depth].pc = pc
             /\ stack'[Depth].reg = reg
             /\ \A i \in 1 .. Depth - 1 : stack'[i] = stack[i]
             /\ \A i \in 1 .. Depth' : stack'[i].fn = "cmd" => i = Depth
             /\ (\A i \in 1 .. Depth : "cmd" \notin stack[i].reg) /\ "cmd" \notin reg
                  => \A i \in 1 .. Depth' : "cmd" \notin stack'[i].reg
  <2>1. Depth' = Depth /\ \A i \in 1 .. Depth - 1 : stack'[i] = stack[i]
    BY <1>4 DEF GoesTo, KeepsBelow
  <2>2. stack'[Depth].fn = "cmd" /\ stack'[Depth].pc = pc /\ stack'[Depth].reg = reg
    BY <1>4 DEF GoesTo, Holds
  <2> QED BY <1>1, <1>2, <2>1, <2>2
<1>5. CASE CmdFill
  <2>1. GoesTo("send", {}) /\ At("cmd", "begin") /\ ot' = [owner |-> Top.id, op |-> Top.arg,
          answered |-> FALSE, ok |-> TRUE, info |-> stack[Depth - 1].id]
        /\ UNCHANGED <<evtSet, flag, enabled, m0>>
    BY <1>5, Effects DEF CmdFill, seq, ipcc, radio
  <2>2. ot'.owner = Depth
    BY <1>3, <2>1
  <2>3. Idle
    BY <1>3, <2>1 DEF Phase, At
  <2>4. Idle'
    BY <1>4, <2>1, <2>3 DEF Idle, Unarmed
  <2>5. Phase(stack[Depth], Depth)'
    BY <1>4, <2>1, <2>2, <2>4 DEF Phase
  <2> QED BY <1>4, <2>1, <2>4, <2>5 DEF CmdInv, Idle, Unarmed
<1>6. CASE CmdSend
  <2>1. /\ GoesTo("load", {}) /\ At("cmd", "send") /\ flag' = [flag EXCEPT !["cmd"] = TRUE]
        /\ UNCHANGED <<evtSet, enabled, m0, ot>>
    BY <1>6, Effects DEF CmdSend, seq, radio
  <2>2. flag'["cmd"]
    BY <2>1 DEF TypesInv, Channel
  <2>3. Idle /\ ot.owner = Depth
    BY <1>3, <2>1 DEF Phase, At
  <2>4. Unarmed'
    BY <1>4, <2>1, <2>3 DEF Idle, Unarmed
  <2>5. Phase(stack[Depth], Depth)'
    BY <1>4, <2>1, <2>2, <2>3, <2>4 DEF Phase
  <2>6. Depth' = Depth /\ stack'[Depth].fn = "cmd" /\ \A i \in 1 .. Depth' : stack'[i].fn = "cmd" => i = Depth
    BY <1>4, <2>1
  <2> QED BY <1>1, <2>2, <2>4, <2>5, <2>6 DEF CmdInv, Unarmed
<1>7. CASE MaskLoad
  <2> DEFINE reg == {c \in Channel : enabled[c]}
  <2>1. /\ GoesTo("enable", reg) /\ Top.pc = "load"
        /\ UNCHANGED <<evtSet, enabled, flag, m0, ot>>
    BY <1>7, Effects DEF MaskLoad, seq, ipcc, radio
  <2>2. Unarmed /\ ot.owner = Depth /\ (flag["cmd"] \/ ot.answered)
    BY <1>3, <2>1 DEF Phase
  <2>3. "cmd" \notin reg
    BY <2>2 DEF Unarmed
  <2> HIDE DEF reg
  <2>4. Unarmed'
    BY <1>4, <2>1, <2>2, <2>3 DEF Unarmed
  <2>5. Phase(stack[Depth], Depth)'
    BY <1>4, <2>1, <2>2, <2>4 DEF Phase
  <2>6. Depth' = Depth /\ stack'[Depth].fn = "cmd" /\ \A i \in 1 .. Depth' : stack'[i].fn = "cmd" => i = Depth
    BY <1>4, <2>1
  <2>7. /\ m0' # "idle" => flag'["cmd"]
        /\ "ack" \in evtSet' => ~ flag'["cmd"]
    BY <2>1 DEF CmdInv
  <2> QED BY <1>1, <2>5, <2>6, <2>7 DEF CmdInv
<1> QED BY <1>5, <1>6, <1>7

\* It unmasks the interrupt and waits for the acknowledgement.
LEMMA CmdWaits ==
  ASSUME TypesInv, StackInv, InfoInv, ShapeInv, CmdInv, CmdEnable
  PROVE  CmdInv'
<1>1. /\ Depth \in Nat /\ Depth \in 1 .. Depth /\ Top = stack[Depth]
      /\ \A i \in 1 .. Depth + 1 : i = Depth + 1 \/ i = Depth \/ (i \in 1 .. Depth - 1 /\ i < Depth)
      /\ \A i \in 1 .. Depth - 1 : i < Depth /\ i \in 1 .. Depth
      /\ Depth # Depth + 1 /\ Depth \in 1 .. Depth + 1
  BY BelowTop
<1>2. /\ CallsAt("return", Top.id, "wait", "ack") /\ Top.fn = "cmd" /\ Top.pc = "enable"
      /\ UNCHANGED <<evtSet, flag, m0, ot>>
  BY Effects DEF CmdEnable, At, seq, radio
<1>3. \A i \in 1 .. Depth - 1 : stack[i].fn # "cmd"
  BY <1>1, <1>2 DEF ShapeInv, InCommand
<1>4. Phase(Top, Depth)
  BY <1>1, <1>2 DEF CmdInv
<1>5. Unarmed /\ ot.owner = Depth /\ (flag["cmd"] \/ ot.answered)
  BY <1>2, <1>4 DEF Phase
<1>6. /\ Depth' = Depth + 1
      /\ stack'[Depth].fn = "cmd" /\ stack'[Depth].pc = "return" /\ stack'[Depth + 1].fn = "wait"
      /\ \A i \in 1 .. Depth - 1 : stack'[i] = stack[i]
  BY <1>2 DEF CallsAt, KeepsBelow, Holds
<1>7. \A i \in 1 .. Depth' : stack'[i].fn = "cmd" => i = Depth
  BY <1>1, <1>3, <1>6
<1>8. PICK k \in 1 .. Depth : k = Depth
  BY <1>1
<1>9. Phase(stack[k], k)'
  <2>1. k # Depth' /\ ot'.owner = k /\ (flag'["cmd"] \/ ot'.answered) /\ stack'[k].pc = "return"
    BY <1>1, <1>2, <1>5, <1>6, <1>8
  <2> QED BY <2>1 DEF Phase
<1>10. k \in 1 .. Depth' /\ m0' = m0 /\ "ack" \notin evtSet' /\ flag'["cmd"] = flag["cmd"]
  BY <1>1, <1>2, <1>5, <1>6, <1>8 DEF Unarmed
<1>11. (m0 # "idle" => flag["cmd"]) /\ stack'[k].fn = "cmd" /\ \A i \in 1 .. Depth' : stack'[i].fn = "cmd" => i = k
  BY <1>6, <1>7, <1>8 DEF CmdInv
<1> QED BY <1>9, <1>10, <1>11 DEF CmdInv

\* The acknowledgement ends the wait: the answer to this command is in the buffer.
LEMMA CmdWoken ==
  ASSUME TypesInv, StackInv, InfoInv, ShapeInv, CmdInv, ~ Pending, WaitReturn, Top.arg = "ack"
  PROVE  CmdInv'
<1>1. /\ Depth \in Nat /\ Depth > 1 /\ Top = stack[Depth] /\ Depth \in 1 .. Depth
      /\ Depth - 1 \in 1 .. Depth /\ Top.fn = "wait"
      /\ \A i \in 1 .. Depth - 1 : i \in 1 .. Depth /\ (i = Depth - 1 \/ i < Depth - 1)
      /\ OnTop(stack[Depth - 1].fn, stack[Depth - 1].pc, Top.fn, Top.arg)
  BY BelowTop DEF WaitReturn
<1>2. stack[Depth - 1].fn = "cmd" /\ stack[Depth - 1].pc = "return"
  BY <1>1 DEF OnTop, Task
<1>3. \A i \in 1 .. Depth - 1 : stack[i].fn = "cmd" => i = Depth - 1
  BY <1>1, <1>2 DEF ShapeInv, InCommand
<1>4. Leaves /\ evtSet' = evtSet \ {"ack"} /\ "ack" \in evtSet /\ UNCHANGED <<flag, enabled, m0, ot>>
  BY Effects DEF WaitReturn, ipcc, radio
<1>5. Depth' = Depth - 1 /\ \A i \in 1 .. Depth - 1 : stack'[i] = stack[i]
  BY <1>4 DEF Leaves, KeepsBelow
<1>6. Phase(stack[Depth - 1], Depth - 1) /\ ~ flag["cmd"]
  BY <1>1, <1>2, <1>4 DEF CmdInv
<1>7. ~ enabled["cmd"]
  BY <1>6 DEF Pending, TxPending
<1>8. \A i \in 1 .. Depth - 1 : "cmd" \notin stack[i].reg
  BY <1>1 DEF ShapeInv, StackInv
<1>9. Idle'
  BY <1>4, <1>5, <1>6, <1>7, <1>8 DEF Idle, Unarmed
<1>10. PICK k \in 1 .. Depth : k = Depth - 1
  BY <1>1
<1>11. Phase(stack[k], k)'
  <2>1. ot'.owner = k /\ ot'.answered
    BY <1>2, <1>4, <1>6, <1>10 DEF Phase
  <2> QED BY <1>9, <2>1 DEF Phase, Idle
<1>12. \A i \in 1 .. Depth' : stack'[i].fn = "cmd" => i = k
  BY <1>3, <1>5, <1>10
<1>13. m0' = "idle" /\ "ack" \notin evtSet'
  BY <1>4, <1>6 DEF CmdInv
<1> QED BY <1>9, <1>11, <1>12, <1>13 DEF CmdInv

\* The command returns.
LEMMA CmdLeaves ==
  ASSUME TypesInv, StackInv, InfoInv, ShapeInv, CmdInv, CmdReturn
  PROVE  CmdInv'
<1>1. /\ Depth \in Nat /\ Depth > 1 /\ Top = stack[Depth] /\ Depth \in 1 .. Depth
      /\ Depth - 1 \in 1 .. Depth /\ Top.fn = "cmd" /\ Top.pc = "return"
      /\ \A i \in 1 .. Depth - 1 : i \in 1 .. Depth /\ i < Depth /\ (i = Depth - 1 \/ i \in 1 .. Depth - 2)
  BY BelowTop DEF CmdReturn, At
<1>2. \A i \in 1 .. Depth - 1 : stack[i].fn # "cmd"
  BY <1>1 DEF ShapeInv, InCommand
<1>3. Answers(ot.ok) /\ UNCHANGED <<evtSet, flag, enabled, m0>>
  BY Effects DEF CmdReturn, seq, ipcc, radio
<1>4. /\ Depth' = Depth - 1
      /\ \A i \in 1 .. Depth - 1 : stack'[i].fn = stack[i].fn /\ stack'[i].reg = stack[i].reg
  BY <1>1, <1>3 DEF Answers, Holds
<1>5. Idle
  BY <1>1 DEF CmdInv, Phase
<1>6. Idle'
  BY <1>1, <1>3, <1>4, <1>5 DEF Idle, Unarmed
<1>7. \A i \in 1 .. Depth' : stack'[i].fn # "cmd"
  BY <1>2, <1>4
<1>8. m0' = "idle" /\ "ack" \notin evtSet'
  BY <1>3, <1>5 DEF CmdInv, Idle, Unarmed
<1> QED BY <1>6, <1>7, <1>8 DEF CmdInv

\* The M0 answers.
LEMMA CmdAnswered ==
  ASSUME TypesInv, CmdInv, M0Answer
  PROVE  CmdInv'
<1>1. flag["cmd"] /\ m0' = "idle" /\ UNCHANGED <<stack, evtSet, enabled>>
  BY DEF CmdInv, M0Answer, seq
<1>2. Depth' = Depth
  BY <1>1 DEF Depth
<1>3. ~ flag'["cmd"] /\ ot'.owner = ot.owner /\ ot'.answered
  <2>1. PICK ok : ot' = [ot EXCEPT !.answered = TRUE, !.ok = ok]
    BY DEF M0Answer
  <2>2. flag' = [flag EXCEPT !["cmd"] = FALSE] /\ "cmd" \in Channel
    BY DEF M0Answer, Channel
  <2> QED BY <2>1, <2>2 DEF TypesInv
<1>4. ~ Idle
  BY <1>1 DEF Idle
<1>5. Unarmed => Unarmed'
  BY <1>1, <1>2 DEF Unarmed
<1>6. ASSUME NEW i \in 1 .. Depth, stack[i].fn = "cmd" PROVE Phase(stack[i], i)'
  <2>1. Phase(stack[i], i)
    BY <1>6 DEF CmdInv
  <2> QED BY <1>1, <1>2, <1>3, <1>4, <1>5, <2>1 DEF Phase
<1>7. \E i \in 1 .. Depth : stack[i].fn = "cmd"
  BY <1>4 DEF CmdInv
<1> QED BY <1>1, <1>2, <1>3, <1>6, <1>7 DEF CmdInv

\* A step that leaves the stack and the channel of the commands alone.
LEMMA CmdAside ==
  ASSUME CmdInv, stack' = stack, CmdStill, UNCHANGED ot, m0' # "idle" => m0 # "idle"
  PROVE  CmdInv'
<1>1. Depth' = Depth
  BY DEF Depth
<1>2. CmdSame
  BY <1>1 DEF CmdSame
<1> QED BY <1>2, CmdQuiet

\* Another caller's store of the interrupt mask.
LEMMA StoreStill ==
  ASSUME StackInv, NEW c \in Channel, c # "cmd", MaskStore(c), flag' = flag, evtSet' = evtSet
  PROVE  CmdStill
<1>1. "cmd" \in Channel /\ Top = stack[Depth] /\ Depth \in 1 .. Depth
  BY BelowTop DEF Channel
<1>2. enabled'["cmd"] => "cmd" \in stack[Depth].reg
  BY <1>1 DEF MaskStore
<1> QED BY <1>1, <1>2 DEF CmdStill

\* A function that leaves does not leave a command on top, but for its wait.
LEMMA LeavesSame ==
  ASSUME StackInv, ShapeInv, CmdInv, Top.fn \notin {"cmd", "main"}, Leaves,
         Top.fn = "wait" => Top.arg # "ack"
  PROVE  CmdSame
<1>1. /\ Depth - 1 \in 1 .. Depth
      /\ OnTop(stack[Depth - 1].fn, stack[Depth - 1].pc, Top.fn, Top.arg)
  BY BelowTop
<1>2. stack[Depth - 1].fn # "cmd"
  <2>1. CASE Top.fn = "request"
    BY <1>1, <2>1 DEF OnTop, Task
  <2>2. CASE Top.fn # "request"
    BY <1>1, <2>2, NoCommand DEF InCommand
  <2> QED BY <2>1, <2>2
<1> QED BY <1>2, CmdSteps

LEMMA CmdThread ==
  ASSUME ~ TimerPreempts, TypesInv, StackInv, InfoInv, ShapeInv, CmdInv, Thread
  PROVE  CmdInv'
<1>1. CASE CmdFill \/ CmdSend \/ (MaskLoad /\ Top.fn = "cmd")
  BY <1>1, CmdGoes DEF CmdFill, CmdSend, At
<1>2. CASE CmdEnable \/ CmdReturn \/ (WaitReturn /\ Top.arg = "ack")
  BY <1>2, CmdWaits, CmdLeaves, CmdWoken DEF Thread
<1>3. ASSUME UNCHANGED <<evtSet, flag, enabled>>
      PROVE  CmdStill
  BY <1>3 DEF CmdStill
<1>4. CASE SaveGet \/ (JoinBegin /\ ~ joined) \/ (JoinWoken /\ info[Top.id].ok) \/ TimerCallback
  <2>1. Top.fn \in {"save", "join", "timer"} /\ \E pc, id, arg : CallsAt(pc, id, "cmd", arg)
    BY <1>4, Effects DEF SaveGet, JoinBegin, JoinWoken, TimerCallback, At
  <2>2. UNCHANGED <<evtSet, flag, enabled, m0>>
    BY <1>4 DEF SaveGet, JoinBegin, JoinWoken, TimerCallback, seq, ipcc, radio
  <2> QED BY <1>3, <2>1, <2>2, CmdStarts DEF InCommand
<1>5. CASE MaskLoad /\ Top.fn # "cmd"
  <2>1. GoesTo("enable", {c \in Channel : enabled[c]})
    BY <1>5, Effects
  <2>2. CmdSame
    BY <1>5, <2>1, CmdSteps
  <2>3. UNCHANGED <<evtSet, flag, enabled, ot, m0>>
    BY <1>5 DEF MaskLoad, seq, ipcc, radio
  <2> QED BY <1>3, <2>2, <2>3, CmdQuiet
<1>6. CASE SysSend \/ StartupCallback \/ AckClear
  <2>1. Top.fn # "cmd" /\ \E pc : GoesTo(pc, {})
    BY <1>6, Effects DEF SysSend, StartupCallback, AckClear, At
  <2>2. CmdSame
    BY <2>1, CmdSteps
  <2>3. flag'["cmd"] = flag["cmd"]
    <3>1. flag \in [Channel -> BOOLEAN]
      BY DEF TypesInv
    <3>2. CASE SysSend
      BY <3>1, <3>2 DEF SysSend, Channel
    <3>3. CASE StartupCallback
      BY <3>3 DEF StartupCallback, ipcc
    <3>4. CASE AckClear
      <4>1. flag' = [flag EXCEPT ![ChannelOf(Top.fn)] = FALSE] /\ ChannelOf(Top.fn) # "cmd"
        BY <3>4 DEF AckClear, ChannelOf
      <4> QED BY <3>1, <4>1 DEF Channel
    <3> QED BY <1>6, <3>2, <3>3, <3>4
  <2>4. ("ack" \in evtSet' => "ack" \in evtSet) /\ UNCHANGED <<enabled, ot, m0>>
    BY <1>6 DEF SysSend, StartupCallback, AckClear, seq, ipcc, radio
  <2> QED BY <2>2, <2>3, <2>4, CmdQuiet DEF CmdStill
<1>7. CASE NotifyBegin \/ RequestBegin
  <2>1. Top.fn \in {"notify", "request"} /\ (Leaves \/ \E pc : GoesTo(pc, {}))
    BY <1>7, Effects DEF NotifyBegin, RequestBegin, At
  <2>2. CmdSame
    BY <2>1, CmdSteps, LeavesSame
  <2>3. UNCHANGED <<evtSet, flag, enabled, ot, m0>>
    BY <1>7 DEF NotifyBegin, RequestBegin, seq, ipcc, radio
  <2> QED BY <1>3, <2>2, <2>3, CmdQuiet
<1>8. CASE SysReturn \/ SaveEnd \/ JoinEnd \/ TimerReturn \/ SaveWrite \/ SaveEraseOff \/ JoinStarted \/ JoinSave
           \/ PersistCallback \/ (JoinBegin /\ joined) \/ (JoinWoken /\ ~ info[Top.id].ok)
  <2>1. /\ Top.fn \notin {"cmd", "main", "wait"}
        /\ Leaves \/ \E pc, id, fn, arg : fn # "cmd" /\ CallsAt(pc, id, fn, arg)
    BY <1>8, Effects DEF SysReturn, SaveEnd, JoinEnd, TimerReturn, SaveWrite, SaveEraseOff, JoinStarted,
                         JoinSave, PersistCallback, JoinBegin, JoinWoken, At
  <2>2. CmdSame
    BY <2>1, CmdSteps, LeavesSame
  <2>3. UNCHANGED <<evtSet, flag, enabled, ot, m0>>
    BY <1>8 DEF SysReturn, SaveEnd, JoinEnd, TimerReturn, SaveWrite, SaveEraseOff, JoinStarted,
                JoinSave, PersistCallback, JoinBegin, JoinWoken, seq, ipcc, radio
  <2> QED BY <1>3, <2>2, <2>3, CmdQuiet
<1>9. CASE WaitReturn /\ Top.arg # "ack"
  <2>1. Leaves /\ Top.fn = "wait" /\ evtSet' = evtSet \ {Top.arg} /\ UNCHANGED <<flag, enabled, ot, m0>>
    BY <1>9, Effects DEF WaitReturn, ipcc, radio
  <2>2. CmdSame
    BY <1>9, <2>1, LeavesSame
  <2> QED BY <2>1, <2>2, CmdQuiet DEF CmdStill
<1>10. CASE SysEnable
  <2>1. CallsAt("return", Top.id, "wait", "sys") /\ Top.fn # "cmd" /\ MaskStore("sys")
        /\ UNCHANGED <<evtSet, flag, ot, m0>>
    BY <1>10, Effects DEF SysEnable, At, seq, radio
  <2>2. CmdSame
    BY <2>1, CmdSteps
  <2> QED BY <2>1, <2>2, StoreStill, CmdQuiet DEF Channel
<1>11. CASE AckEnable
  <2>1. Leaves /\ Top.fn \in {"notify", "request"} /\ MaskStore(ChannelOf(Top.fn))
        /\ UNCHANGED <<evtSet, flag, ot, m0>>
    BY <1>11, Effects DEF AckEnable, At, seq, radio
  <2>2. CmdSame
    BY <2>1, LeavesSame
  <2>3. ChannelOf(Top.fn) \in Channel /\ ChannelOf(Top.fn) # "cmd"
    BY DEF ChannelOf, Channel
  <2> QED BY <2>1, <2>2, <2>3, StoreStill, CmdQuiet
<1>12. CASE Dispatch
  <2>1. PICK t \in Runnable : Enters(t)
    BY <1>12, Effects
  <2>2. t # "cmd"
    BY <2>1 DEF Runnable, TypesInv, Task
  <2>3. CmdSame
    BY <2>1, <2>2, CmdSteps
  <2>4. UNCHANGED <<evtSet, flag, enabled, ot, m0>>
    BY <1>12 DEF Dispatch, ipcc, radio
  <2> QED BY <1>3, <2>3, <2>4, CmdQuiet
<1> QED BY <1>1, <1>2, <1>4, <1>5, <1>6, <1>7, <1>8, <1>9, <1>10, <1>11, <1>12 DEF Thread

LEMMA CmdKept ==
  ASSUME ~ TimerPreempts, TypesInv, StackInv, InfoInv, ShapeInv, CmdInv, [Next]_vars
  PROVE  CmdInv'
<1>1. CASE RxHandler
  <2>1. UNCHANGED <<stack, evtSet, flag, ot, m0>>
    BY <1>1 DEF RxHandler, radio
  <2>2. \E c \in {"notif", "request"} : enabled' = [enabled EXCEPT ![c] = FALSE]
    BY <1>1 DEF RxHandler
  <2>3. enabled'["cmd"] = enabled["cmd"]
    BY <2>2 DEF TypesInv, Channel
  <2> QED BY <2>1, <2>3, CmdAside DEF CmdStill
<1>2. CASE TxHandler
  <2>1. /\ enabled'["cmd"] <=> enabled["cmd"] /\ flag["cmd"]
        /\ "ack" \in evtSet' <=> "ack" \in evtSet \/ TxPending("cmd")
        /\ UNCHANGED <<stack, flag, ot, m0>>
    BY <1>2 DEF TxHandler, TxPending, Channel, radio
  <2>2. Depth' = Depth
    BY <2>1 DEF Depth
  <2>3. Unarmed => Unarmed'
    BY <2>1, <2>2 DEF Unarmed, TxPending
  <2>4. Idle => Idle'
    BY <2>1, <2>3 DEF Idle
  <2>5. ASSUME NEW i \in 1 .. Depth, stack[i].fn = "cmd" PROVE Phase(stack[i], i)'
    <3>1. Phase(stack[i], i)
      BY <2>5 DEF CmdInv
    <3> QED BY <2>1, <2>2, <2>3, <2>4, <3>1 DEF Phase
  <2> QED BY <2>1, <2>2, <2>4, <2>5 DEF CmdInv, TxPending
<1>3. CASE M0Answer
  BY <1>3, CmdAnswered
<1>4. CASE M0Take
  <2>1. flag["cmd"] /\ UNCHANGED <<stack, evtSet, flag, enabled, ot>>
    BY <1>4 DEF M0Take, seq, ipcc
  <2>2. Depth' = Depth
    BY <2>1 DEF Depth
  <2>3. (\A i \in 1 .. Depth : stack[i].fn = "cmd" => Phase(stack[i], i))'
    BY <2>1, <2>2 DEF CmdInv, Phase, Idle, Unarmed
  <2> QED BY <2>1, <2>2, <2>3 DEF CmdInv, Idle, Unarmed
<1>5. CASE M0Malloc \/ M0SysAnswer \/ M0StartupDone \/ M0Persist \/ M0Log
  <2>1. UNCHANGED <<stack, evtSet, enabled, ot>> /\ (m0' # "idle" => m0 # "idle")
    BY <1>5 DEF M0Malloc, M0SysAnswer, M0StartupDone, M0Persist, M0Log, seq, radio
  <2>2. \E c \in Channel \ {"cmd"}, b \in BOOLEAN : flag' = [flag EXCEPT ![c] = b]
    BY <1>5 DEF M0Malloc, M0SysAnswer, M0StartupDone, M0Persist, M0Log, Channel
  <2>3. flag'["cmd"] = flag["cmd"]
    BY <2>2 DEF TypesInv, Channel
  <2> QED BY <2>1, <2>3, CmdAside DEF CmdStill
<1>6. CASE M0Allocated \/ Press \/ UNCHANGED vars
  <2>1. UNCHANGED <<stack, evtSet, enabled, flag, ot>> /\ (m0' # "idle" => m0 # "idle")
    BY <1>6 DEF M0Allocated, Press, vars, seq, ipcc, radio
  <2> QED BY <2>1, CmdAside DEF CmdStill
<1>7. CASE TimerExpires
  <2>1. Enters("timer") /\ UNCHANGED <<evtSet, enabled, flag, ot, m0>>
    BY <1>7, Effects DEF TimerExpires, seq, ipcc, radio
  <2>2. CmdSame
    BY <2>1, CmdSteps
  <2> QED BY <2>1, <2>2, CmdQuiet DEF CmdStill
<1> QED BY <1>1, <1>2, <1>3, <1>4, <1>5, <1>6, <1>7, CmdThread DEF Next, M0Serves

-----------------------------------------------------------------------------
LEMMA CmdInit == Init => ShapeInv /\ CmdInv
<1> SUFFICES ASSUME Init PROVE ShapeInv /\ CmdInv
  OBVIOUS
<1>1. Depth = 1 /\ stack[1].fn = "main" /\ stack[1].reg = {}
  <2>1. stack = <<NewFrame("main", "none", 1)>>
    BY DEF Init
  <2>2. NewFrame("main", "none", 1).fn = "main" /\ NewFrame("main", "none", 1).reg = {}
    BY DEF NewFrame
  <2>3. \A x : Len(<<x>>) = 1 /\ <<x>>[1] = x
    OBVIOUS
  <2> QED BY <2>1, <2>2, <2>3 DEF Depth
<1>2. ShapeInv
  BY <1>1 DEF ShapeInv
<1>3. Idle
  <2>1. "cmd" \in Channel
    BY DEF Channel
  <2>2. ~ flag["cmd"] /\ ~ enabled["cmd"] /\ evtSet = {}
    BY <2>1 DEF Init
  <2>3. \A i \in 1 .. Depth : stack[i].reg = {}
    BY <1>1
  <2> QED BY <2>2, <2>3 DEF Idle, Unarmed
<1> QED BY <1>1, <1>2, <1>3 DEF CmdInv, Init

LEMMA CmdAlways ==
  ASSUME ~ TimerPreempts
  PROVE  Spec => [](IpcInv /\ ShapeInv /\ CmdInv)
<1>1. (IpcInv /\ ShapeInv /\ CmdInv) /\ [Next]_vars => (IpcInv /\ ShapeInv /\ CmdInv)'
  BY TypesKept, StackKept, InfoKept, NotifKept, ShapeKept, CmdKept DEF IpcInv
<1> QED BY <1>1, IpcInit, CmdInit, PTL DEF Spec

(* ZIGBEE_CmdTransfer returns with the response to its own command in the   *)
(* shared buffer (zb_ipc_m4_get_retval): however notifications, requests,   *)
(* start-ups, saves and button presses come between, no other command uses  *)
(* the buffer before, and no acknowledgement of an earlier one or one       *)
(* signalled a second time wakes the wait.  It rests on the timer's         *)
(* interrupt, which sends a command of its own, not coming while a command  *)
(* or a request is served; nothing else is assumed of the constants.        *)
THEOREM ResponseAlwaysItsOwn ==
  ASSUME ~ TimerPreempts
  PROVE  Spec => []ResponseIsForItsCommand
<1>1. IpcInv /\ ShapeInv /\ CmdInv => ResponseIsForItsCommand
  <2> SUFFICES ASSUME IpcInv, CmdInv, At("cmd", "return")
               PROVE  ot.answered /\ ot.owner = Top.id
    BY DEF ResponseIsForItsCommand
  <2>1. Top = stack[Depth] /\ Depth \in 1 .. Depth /\ Top.fn = "cmd" /\ Top.pc = "return"
    BY BelowTop DEF IpcInv, At
  <2>2. Phase(Top, Depth) /\ Top.id = Depth
    BY <2>1 DEF CmdInv, IpcInv, StackInv
  <2> QED BY <2>1, <2>2 DEF Phase, Idle
<1> QED BY <1>1, CmdAlways, PTL

-----------------------------------------------------------------------------
(* What is counted.  A store of the mask may undo what a handler has masked *)
(* once, so a message is counted at most twice, and never while it is       *)
(* served.                                                                  *)

Cpt(c) == IF c = "notif" THEN cptNotify ELSE cptRequest
FnOf(c) == IF c = "notif" THEN "notify" ELSE "request"
Busy(f, c) == f.fn = FnOf(c) /\ f.pc # "begin"
Loaded(c) == \E i \in 1 .. Depth : c \in stack[i].reg

CountInv(c) ==
  /\ Cpt(c) \in 0 .. 2
  /\ enabled[c] \/ Loaded(c) => Cpt(c) <= 1
  /\ (enabled[c] /\ Loaded(c)) \/ ~ flag[c] => Cpt(c) = 0
  /\ \A i \in 1 .. Depth : Busy(stack[i], c) =>
       /\ Cpt(c) = 0 /\ ~ enabled[c] /\ ~ Loaded(c)
       /\ \A j \in 1 .. Depth : Busy(stack[j], c) => j = i

CountsInv == CountInv("notif") /\ CountInv("request")

\* A mask is held by the running activation only, between its load and its store.
LEMMA MaskOnTop ==
  ASSUME StackInv, ShapeInv
  PROVE  /\ \A i \in 1 .. Depth - 1 : stack[i].reg = {}
         /\ Top.pc # "enable" => Top.reg = {}
         /\ \A c : Loaded(c) <=> c \in Top.reg
<1>1. /\ Depth \in 1 .. Depth /\ Top = stack[Depth]
      /\ \A i \in 1 .. Depth : i = Depth \/ i \in 1 .. Depth - 1
      /\ \A i \in 1 .. Depth - 1 : i \in 1 .. Depth
  BY BelowTop
<1>2. \A i \in 1 .. Depth - 1 : stack[i].reg = {}
  BY <1>1 DEF ShapeInv, StackInv
<1>3. Top.pc # "enable" => Top.reg = {}
  BY <1>1 DEF StackInv
<1>4. ASSUME NEW c PROVE Loaded(c) <=> c \in Top.reg
  BY <1>1, <1>2 DEF Loaded
<1> QED BY <1>2, <1>3, <1>4

\* No step of the thread but the load of a mask leaves one held.
LEMMA NoMaskHeld ==
  ASSUME StackInv, ShapeInv
  PROVE  /\ \A pc : GoesTo(pc, {}) => \A c : ~ Loaded(c)'
         /\ \A pc, id, fn, arg : CallsAt(pc, id, fn, arg) => \A c : ~ Loaded(c)'
         /\ \A fn : Top.pc # "enable" /\ Enters(fn) => \A c : ~ Loaded(c)'
         /\ Leaves => \A c : ~ Loaded(c)'
         /\ \A ok : Top.fn # "main" /\ Answers(ok) => \A c : ~ Loaded(c)'
<1>1. /\ Depth \in Nat /\ Depth \in 1 .. Depth /\ Top = stack[Depth]
      /\ \A i \in 1 .. Depth + 1 : i = Depth + 1 \/ i \in 1 .. Depth
      /\ \A i \in 1 .. Depth : i = Depth \/ i \in 1 .. Depth - 1
      /\ \A i \in 1 .. Depth - 1 : i = Depth - 1 \/ i \in 1 .. Depth - 2
  BY BelowTop
<1>2. \A i \in 1 .. Depth - 1 : stack[i].reg = {}
  BY MaskOnTop
<1>3. ASSUME NEW pc, GoesTo(pc, {}), NEW c PROVE ~ Loaded(c)'
  <2>1. \A i \in 1 .. Depth' : stack'[i].reg = {}
    BY <1>1, <1>2, <1>3 DEF GoesTo, KeepsBelow, Holds
  <2> QED BY <2>1 DEF Loaded
<1>4. ASSUME NEW pc, NEW id, NEW fn, NEW arg, CallsAt(pc, id, fn, arg), NEW c PROVE ~ Loaded(c)'
  <2>1. \A i \in 1 .. Depth' : stack'[i].reg = {}
    BY <1>1, <1>2, <1>4 DEF CallsAt, KeepsBelow, Holds
  <2> QED BY <2>1 DEF Loaded
<1>5. ASSUME NEW fn, Top.pc # "enable", Enters(fn), NEW c PROVE ~ Loaded(c)'
  <2>1. Top.reg = {}
    BY <1>5, MaskOnTop
  <2>2. \A i \in 1 .. Depth' : stack'[i].reg = {}
    BY <1>1, <1>2, <1>5, <2>1 DEF Enters, Holds
  <2> QED BY <2>2 DEF Loaded
<1>6. ASSUME Leaves, NEW c PROVE ~ Loaded(c)'
  <2>1. \A i \in 1 .. Depth' : stack'[i].reg = {}
    BY <1>1, <1>2, <1>6 DEF Leaves, KeepsBelow
  <2> QED BY <2>1 DEF Loaded
<1>7. ASSUME NEW ok, Top.fn # "main", Answers(ok), NEW c PROVE ~ Loaded(c)'
  <2>1. Depth - 1 \in 1 .. Depth - 1
    BY <1>7, BelowTop
  <2>2. \A i \in 1 .. Depth' : stack'[i].reg = {}
    BY <1>1, <1>2, <1>7, <2>1 DEF Answers, Holds
  <2> QED BY <2>2 DEF Loaded
<1> QED BY <1>3, <1>4, <1>5, <1>6, <1>7

\* A step after which no more activations serve channel c than before.
BusySame(c) ==
  \A i \in 1 .. Depth' : Busy(stack'[i], c) => i \in 1 .. Depth /\ Busy(stack[i], c)

LEMMA BusySteps ==
  ASSUME StackInv, NEW c \in {"notif", "request"}
  PROVE  /\ \A pc, reg : GoesTo(pc, reg) /\ (Top.pc = "begin" => Top.fn # FnOf(c)) => BusySame(c)
         /\ \A pc, id, fn, arg : CallsAt(pc, id, fn, arg) /\ (Top.pc = "begin" => Top.fn # FnOf(c))
              => BusySame(c)
         /\ \A fn : Enters(fn) => BusySame(c)
         /\ Leaves => BusySame(c)
         /\ \A ok : Top.fn # "main" /\ Answers(ok) => BusySame(c)
<1>1. /\ Depth \in Nat /\ Depth \in 1 .. Depth /\ Top = stack[Depth]
      /\ \A i \in 1 .. Depth + 1 : i = Depth + 1 \/ i \in 1 .. Depth
      /\ \A i \in 1 .. Depth : i = Depth \/ i \in 1 .. Depth - 1
      /\ \A i \in 1 .. Depth - 1 : i \in 1 .. Depth /\ (i = Depth - 1 \/ i \in 1 .. Depth - 2)
  BY BelowTop
<1>2. ASSUME NEW pc, NEW reg, GoesTo(pc, reg), Top.pc = "begin" => Top.fn # FnOf(c)
      PROVE  BusySame(c)
  BY <1>1, <1>2 DEF GoesTo, KeepsBelow, BusySame, Holds, Busy
<1>3. ASSUME NEW pc, NEW id, NEW fn, NEW arg, CallsAt(pc, id, fn, arg), Top.pc = "begin" => Top.fn # FnOf(c)
      PROVE  BusySame(c)
  BY <1>1, <1>3 DEF CallsAt, KeepsBelow, BusySame, Holds, Busy
<1>4. ASSUME NEW fn, Enters(fn) PROVE BusySame(c)
  BY <1>1, <1>4 DEF Enters, BusySame, Holds, Busy
<1>5. ASSUME Leaves PROVE BusySame(c)
  BY <1>1, <1>5 DEF Leaves, KeepsBelow, BusySame
<1>6. ASSUME NEW ok, Top.fn # "main", Answers(ok) PROVE BusySame(c)
  <2>1. Depth - 1 \in 1 .. Depth
    BY <1>6, BelowTop
  <2> QED BY <1>1, <1>6, <2>1 DEF Answers, BusySame, Holds, Busy
<1> QED BY <1>2, <1>3, <1>4, <1>5, <1>6

\* Steps that only let go of what is counted, served and masked.
LEMMA CountQuiet ==
  ASSUME NEW c \in {"notif", "request"}, CountInv(c), BusySame(c), Loaded(c)' => Loaded(c),
         enabled'[c] => enabled[c], Cpt(c)' = Cpt(c), flag[c] => flag'[c]
  PROVE  CountInv(c)'
<1>1. ASSUME NEW i \in 1 .. Depth', Busy(stack'[i], c)
      PROVE  /\ Cpt(c)' = 0 /\ ~ enabled'[c] /\ ~ Loaded(c)'
             /\ \A j \in 1 .. Depth' : Busy(stack'[j], c) => j = i
  BY <1>1 DEF CountInv, BusySame
<1>2. /\ Cpt(c)' \in 0 .. 2
      /\ enabled'[c] \/ Loaded(c)' => Cpt(c)' <= 1
      /\ (enabled'[c] /\ Loaded(c)') \/ ~ flag'[c] => Cpt(c)' = 0
  BY DEF CountInv
<1> QED BY <1>1, <1>2 DEF CountInv, Busy

\* The store of a mask.
LEMMA CountStore ==
  ASSUME NEW c \in {"notif", "request"}, NEW d \in Channel, StackInv, ShapeInv, CountInv(c), BusySame(c),
         ~ Loaded(c)', MaskStore(d), d = c => Busy(Top, c) /\ Leaves, Cpt(c)' = Cpt(c), flag' = flag
  PROVE  CountInv(c)'
<1>1. c \in Channel /\ (Loaded(c) <=> c \in Top.reg) /\ Depth \in Nat /\ Depth \in 1 .. Depth /\ Top = stack[Depth]
  BY MaskOnTop, BelowTop DEF Channel
<1>2. enabled'[c] <=> d = c \/ Loaded(c)
  BY <1>1 DEF MaskStore
<1>3. d = c => Cpt(c) = 0
  BY <1>1 DEF CountInv
<1>4. ASSUME NEW i \in 1 .. Depth', Busy(stack'[i], c)
      PROVE  /\ Cpt(c)' = 0 /\ ~ enabled'[c]
             /\ \A j \in 1 .. Depth' : Busy(stack'[j], c) => j = i
  <2>1. i \in 1 .. Depth /\ Busy(stack[i], c)
    BY <1>4 DEF BusySame
  <2>2. d # c
    <3> SUFFICES ASSUME d = c PROVE FALSE
      OBVIOUS
    <3>1. i = Depth /\ Depth' = Depth - 1
      BY <1>1, <2>1 DEF CountInv, Leaves
    <3> QED BY <1>1, <3>1
  <2> QED BY <1>2, <2>1, <2>2 DEF CountInv, BusySame
<1>5. /\ Cpt(c)' \in 0 .. 2
      /\ enabled'[c] \/ Loaded(c)' => Cpt(c)' <= 1
      /\ ~ flag'[c] => Cpt(c)' = 0
  BY <1>2, <1>3 DEF CountInv
<1> QED BY <1>4, <1>5 DEF CountInv, Busy

\* A message is taken to be served.
LEMMA CountTaken ==
  ASSUME NEW c \in {"notif", "request"}, TypesInv, StackInv, ShapeInv, CountInv(c), ~ Pending,
         Top.fn = FnOf(c), Top.pc = "begin", Cpt(c)' = 0, UNCHANGED <<flag, enabled>>,
         NEW pc, IF Cpt(c) # 0 THEN GoesTo(pc, {}) ELSE Leaves
  PROVE  CountInv(c)'
<1>1. ~ Loaded(c) /\ ~ Loaded(c)'
  BY MaskOnTop, NoMaskHeld
<1>2. CASE Cpt(c) = 0
  <2>1. BusySame(c) /\ Cpt(c)' = Cpt(c)
    BY <1>2, BusySteps
  <2> QED BY <1>1, <2>1, CountQuiet
<1>3. CASE Cpt(c) # 0
  <2>1. flag[c] /\ \A i \in 1 .. Depth : ~ Busy(stack[i], c)
    BY <1>3 DEF CountInv
  <2>2. ~ enabled[c]
    BY <2>1 DEF Pending, RxPending
  <2>3. /\ Depth' = Depth /\ Depth \in Nat
        /\ \A i \in 1 .. Depth - 1 : stack'[i] = stack[i] /\ i \in 1 .. Depth
        /\ \A i \in 1 .. Depth : i = Depth \/ i \in 1 .. Depth - 1
    BY <1>3, BelowTop DEF GoesTo, KeepsBelow
  <2>4. \A i \in 1 .. Depth' : Busy(stack'[i], c) => i = Depth
    BY <2>1, <2>3
  <2>5. \A i \in 1 .. Depth' : Busy(stack'[i], c) => \A j \in 1 .. Depth' : Busy(stack'[j], c) => j = i
    BY <2>4
  <2>6. Cpt(c)' \in 0 .. 2 /\ Cpt(c)' <= 1
    OBVIOUS
  <2> QED BY <1>1, <2>2, <2>5, <2>6 DEF CountInv, Busy
<1> QED BY <1>2, <1>3

\* A channel is freed.
LEMMA CountFreed ==
  ASSUME NEW c \in {"notif", "request"}, StackInv, ShapeInv, CountInv(c), BusySame(c), ~ Loaded(c)',
         Cpt(c)' = Cpt(c), enabled' = enabled,
         flag[c] => flag'[c] \/ \E i \in 1 .. Depth : Busy(stack[i], c)
  PROVE  CountInv(c)'
<1>1. ASSUME NEW i \in 1 .. Depth', Busy(stack'[i], c)
      PROVE  /\ Cpt(c)' = 0 /\ ~ enabled'[c] /\ ~ Loaded(c)'
             /\ \A j \in 1 .. Depth' : Busy(stack'[j], c) => j = i
  BY <1>1 DEF CountInv, BusySame
<1>2. /\ Cpt(c)' \in 0 .. 2
      /\ enabled'[c] \/ Loaded(c)' => Cpt(c)' <= 1
      /\ (enabled'[c] /\ Loaded(c)') \/ ~ flag'[c] => Cpt(c)' = 0
  BY DEF CountInv
<1> QED BY <1>1, <1>2 DEF CountInv, Busy

LEMMA CountThread ==
  ASSUME TypesInv, StackInv, InfoInv, ShapeInv, Thread, NEW c \in {"notif", "request"}, CountInv(c)
  PROVE  CountInv(c)'
<1> DEFINE Calm == BusySame(c) /\ ~ Loaded(c)'
<1>1. ASSUME Calm, UNCHANGED <<flag, enabled>>, Cpt(c)' = Cpt(c) PROVE CountInv(c)'
  BY <1>1, CountQuiet
<1>2. UNCHANGED cpt => Cpt(c)' = Cpt(c)
  BY DEF cpt, Cpt
<1>3. CASE WaitReturn \/ SysReturn \/ SaveEnd \/ JoinEnd \/ TimerReturn
  <2>1. Calm
    BY <1>3, Effects, BusySteps, NoMaskHeld
  <2> QED BY <1>1, <1>2, <1>3, <2>1 DEF WaitReturn, SysReturn, SaveEnd, JoinEnd, TimerReturn, ipcc
<1>4. CASE CmdReturn
  <2>1. Calm
    BY <1>4, Effects, BusySteps, NoMaskHeld DEF CmdReturn, At
  <2> QED BY <1>1, <1>2, <1>4, <2>1 DEF CmdReturn, ipcc
<1>5. CASE Dispatch
  <2>1. Top.pc # "enable"
    BY <1>5, BelowTop DEF Dispatch, StackInv, PlacesOf
  <2>2. Calm
    BY <1>5, <2>1, Effects, BusySteps, NoMaskHeld
  <2> QED BY <1>1, <1>2, <1>5, <2>2 DEF Dispatch, ipcc
<1>6. CASE SaveGet \/ SaveWrite \/ SaveEraseOff \/ JoinBegin \/ JoinStarted \/ JoinWoken \/ JoinSave
            \/ TimerCallback \/ PersistCallback
  <2>1. Top.pc = "begin" => Top.fn # FnOf(c)
    BY <1>6 DEF SaveGet, SaveWrite, SaveEraseOff, JoinBegin, JoinStarted, JoinWoken, JoinSave,
                TimerCallback, PersistCallback, At, FnOf
  <2>2. Leaves \/ \E pc, id, fn, arg : CallsAt(pc, id, fn, arg)
    BY <1>6, Effects
  <2>3. Calm
    BY <2>1, <2>2, BusySteps, NoMaskHeld
  <2> QED BY <1>1, <1>2, <1>6, <2>3 DEF SaveGet, SaveWrite, SaveEraseOff, JoinBegin, JoinStarted,
                JoinWoken, JoinSave, TimerCallback, PersistCallback, ipcc
<1>7. CASE CmdFill \/ StartupCallback
  <2>1. (Top.pc = "begin" => Top.fn # FnOf(c)) /\ \E pc : GoesTo(pc, {})
    BY <1>7, Effects DEF CmdFill, StartupCallback, At, FnOf
  <2>2. Calm
    BY <2>1, BusySteps, NoMaskHeld
  <2> QED BY <1>1, <1>2, <1>7, <2>2 DEF CmdFill, StartupCallback, ipcc
<1>8. CASE CmdSend \/ SysSend \/ AckClear
  <2>1. (Top.pc = "begin" => Top.fn # FnOf(c)) /\ GoesTo("load", {})
    BY <1>8, Effects DEF CmdSend, SysSend, AckClear, At, FnOf
  <2>2. Calm
    BY <2>1, BusySteps, NoMaskHeld
  <2>3. flag \in [Channel -> BOOLEAN] /\ c \in Channel
    BY DEF TypesInv, Channel
  <2>4. flag[c] => flag'[c] \/ \E i \in 1 .. Depth : Busy(stack[i], c)
    <3>1. CASE CmdSend \/ SysSend
      BY <2>3, <3>1 DEF CmdSend, SysSend
    <3>2. CASE AckClear
      <4>1. /\ flag' = [flag EXCEPT ![ChannelOf(Top.fn)] = FALSE]
            /\ Top.fn \in {"notify", "request"} /\ Top.pc = "ack"
        BY <3>2 DEF AckClear, At
      <4>2. CASE ChannelOf(Top.fn) = c
        <5>1. Top.fn = FnOf(c)
          BY <4>1, <4>2 DEF ChannelOf, FnOf
        <5>2. Busy(stack[Depth], c) /\ Depth \in 1 .. Depth
          BY <4>1, <5>1, BelowTop DEF Busy
        <5> QED BY <5>2
      <4>3. CASE ChannelOf(Top.fn) # c
        BY <2>3, <4>1, <4>3
      <4> QED BY <4>2, <4>3
    <3> QED BY <1>8, <3>1, <3>2
  <2>5. enabled' = enabled /\ Cpt(c)' = Cpt(c)
    BY <1>2, <1>8 DEF CmdSend, SysSend, AckClear
  <2> QED BY <2>2, <2>4, <2>5, CountFreed
<1>9. CASE CmdEnable \/ SysEnable
  <2>1. (\E fn, arg : CallsAt("return", Top.id, fn, arg)) /\ Top.fn # FnOf(c)
    BY <1>9, Effects DEF CmdEnable, SysEnable, At, FnOf
  <2>2. Calm
    BY <2>1, BusySteps, NoMaskHeld
  <2>3. (\E d \in Channel : d # c /\ MaskStore(d)) /\ flag' = flag /\ Cpt(c)' = Cpt(c)
    BY <1>2, <1>9 DEF CmdEnable, SysEnable, Channel
  <2> QED BY <2>2, <2>3, CountStore
<1>10. CASE AckEnable
  <2>1. Leaves /\ Top.fn \in {"notify", "request"} /\ Top.pc = "enable"
        /\ MaskStore(ChannelOf(Top.fn)) /\ flag' = flag /\ Cpt(c)' = Cpt(c)
    BY <1>2, <1>10, Effects DEF AckEnable, At
  <2>2. Calm
    BY <2>1, BusySteps, NoMaskHeld
  <2>3. ChannelOf(Top.fn) \in Channel /\ (ChannelOf(Top.fn) = c => Busy(Top, c))
    BY <2>1 DEF ChannelOf, Channel, Busy, FnOf
  <2> QED BY <2>1, <2>2, <2>3, CountStore
<1>11. CASE MaskLoad
  <2>1. GoesTo("enable", {d \in Channel : enabled[d]}) /\ Top.pc = "load"
        /\ UNCHANGED <<flag, enabled>> /\ Cpt(c)' = Cpt(c)
    BY <1>2, <1>11, Effects DEF MaskLoad, ipcc
  <2>2. BusySame(c)
    BY <2>1, BusySteps
  <2>3. Loaded(c)' => enabled[c]
    <3>1. /\ Depth' = Depth /\ stack'[Depth].reg = {d \in Channel : enabled[d]}
          /\ \A i \in 1 .. Depth - 1 : stack'[i] = stack[i]
      BY <2>1 DEF GoesTo, KeepsBelow, Holds
    <3>2. \A i \in 1 .. Depth' : i = Depth \/ i \in 1 .. Depth - 1
      BY <3>1, BelowTop
    <3> QED BY <3>1, <3>2, MaskOnTop DEF Loaded
  <2>4. enabled[c] => ~ flag[c]
    BY DEF Thread, Pending, RxPending
  <2>5. ASSUME NEW i \in 1 .. Depth', Busy(stack'[i], c)
        PROVE  /\ Cpt(c)' = 0 /\ ~ enabled'[c] /\ ~ Loaded(c)'
               /\ \A j \in 1 .. Depth' : Busy(stack'[j], c) => j = i
    BY <2>1, <2>2, <2>3, <2>5 DEF CountInv, BusySame
  <2>6. /\ Cpt(c)' \in 0 .. 2
        /\ enabled'[c] \/ Loaded(c)' => Cpt(c)' <= 1
        /\ (enabled'[c] /\ Loaded(c)') \/ ~ flag'[c] => Cpt(c)' = 0
    BY <2>1, <2>3, <2>4 DEF CountInv
  <2> QED BY <2>5, <2>6 DEF CountInv, Busy
<1>12. CASE NotifyBegin \/ RequestBegin
  <2>1. CASE Top.fn = FnOf(c)
    <3>1. Cpt(c)' = 0 /\ Top.pc = "begin" /\ UNCHANGED <<flag, enabled>>
      BY <1>12, <2>1 DEF NotifyBegin, RequestBegin, At, FnOf, Cpt, ipcc
    <3>2. \E pc : IF Cpt(c) # 0 THEN GoesTo(pc, {}) ELSE Leaves
      BY <1>12, <2>1, Effects DEF NotifyBegin, RequestBegin, At, FnOf, Cpt
    <3> QED BY <2>1, <3>1, <3>2, CountTaken DEF Thread
  <2>2. CASE Top.fn # FnOf(c)
    <3>1. Cpt(c)' = Cpt(c) /\ UNCHANGED <<flag, enabled>>
      BY <1>12, <2>2 DEF NotifyBegin, RequestBegin, At, FnOf, Cpt, ipcc
    <3>2. Leaves \/ \E pc : GoesTo(pc, {})
      BY <1>12, Effects
    <3>3. Calm
      BY <2>2, <3>2, BusySteps, NoMaskHeld
    <3> QED BY <1>1, <3>1, <3>3
  <2> QED BY <2>1, <2>2
<1> QED BY <1>3, <1>4, <1>5, <1>6, <1>7, <1>8, <1>9, <1>10, <1>11, <1>12 DEF Thread

LEMMA CountKept ==
  ASSUME ~ TimerPreempts, TypesInv, StackInv, InfoInv, ShapeInv, [Next]_vars,
         NEW c \in {"notif", "request"}, CountInv(c)
  PROVE  CountInv(c)'
<1>1. ASSUME stack' = stack PROVE BusySame(c) /\ (Loaded(c)' <=> Loaded(c))
  <2>1. Depth' = Depth
    BY <1>1 DEF Depth
  <2> QED BY <1>1, <2>1 DEF BusySame, Loaded
<1>2. flag \in [Channel -> BOOLEAN] /\ enabled \in [Channel -> BOOLEAN] /\ c \in Channel
  BY DEF TypesInv, Channel
<1>3. CASE RxHandler
  <2>1. UNCHANGED <<stack, flag>>
    BY <1>3 DEF RxHandler
  <2>2. BusySame(c) /\ (Loaded(c)' <=> Loaded(c))
    BY <1>1, <2>1
  <2>3. PICK d \in {"notif", "request"} :
          RxPending(d) /\ enabled' = [enabled EXCEPT ![d] = FALSE] /\ Cpt(d)' = Cpt(d) + 1
          /\ \A e \in {"notif", "request"} : e # d => Cpt(e)' = Cpt(e)
    <3>1. CASE RxPending("notif") /\ enabled' = [enabled EXCEPT !["notif"] = FALSE]
               /\ cptNotify' = cptNotify + 1 /\ cptRequest' = cptRequest
      BY <3>1 DEF Cpt
    <3>2. CASE RxPending("request") /\ enabled' = [enabled EXCEPT !["request"] = FALSE]
               /\ cptRequest' = cptRequest + 1 /\ cptNotify' = cptNotify
      BY <3>2 DEF Cpt
    <3> QED BY <1>3, <3>1, <3>2 DEF RxHandler
  <2>4. CASE d # c
    <3>1. enabled'[c] = enabled[c] /\ Cpt(c)' = Cpt(c)
      BY <1>2, <2>3, <2>4
    <3> QED BY <2>1, <2>2, <3>1, CountQuiet
  <2>5. CASE d = c
    <3>1. flag[c] /\ enabled[c] /\ ~ enabled'[c] /\ Cpt(c)' = Cpt(c) + 1
      BY <1>2, <2>3, <2>5 DEF RxPending
    <3>2. \A i \in 1 .. Depth' : ~ Busy(stack'[i], c)
      BY <2>2, <3>1 DEF BusySame, CountInv
    <3>3. /\ Cpt(c)' \in 0 .. 2
          /\ Loaded(c)' => Cpt(c)' <= 1
      BY <2>2, <3>1 DEF CountInv
    <3> QED BY <2>1, <3>1, <3>2, <3>3 DEF CountInv, Busy
  <2> QED BY <2>4, <2>5
<1>4. CASE TxHandler
  <2>1. (enabled'[c] => enabled[c]) /\ UNCHANGED <<stack, flag>> /\ Cpt(c)' = Cpt(c)
    BY <1>2, <1>4 DEF TxHandler, Cpt, cpt
  <2> QED BY <1>1, <2>1, CountQuiet
<1>5. CASE M0Malloc \/ M0Answer \/ M0SysAnswer \/ M0StartupDone \/ M0Persist \/ M0Log
  <2>1. UNCHANGED <<stack, enabled>> /\ Cpt(c)' = Cpt(c)
    BY <1>5 DEF M0Malloc, M0Answer, M0SysAnswer, M0StartupDone, M0Persist, M0Log, Cpt, cpt
  <2>2. flag[c] => flag'[c]
    <3>1. \/ \E d \in Channel : flag' = [flag EXCEPT ![d] = TRUE]
          \/ \E d \in {"cmd", "sys"} : flag' = [flag EXCEPT ![d] = FALSE]
      BY <1>5 DEF M0Malloc, M0Answer, M0SysAnswer, M0StartupDone, M0Persist, M0Log, Channel
    <3> QED BY <1>2, <3>1
  <2> QED BY <1>1, <2>1, <2>2, CountQuiet
<1>6. CASE M0Take \/ M0Allocated \/ Press \/ UNCHANGED vars
  <2>1. UNCHANGED <<stack, enabled, flag>> /\ Cpt(c)' = Cpt(c)
    BY <1>6 DEF M0Take, M0Allocated, Press, vars, Cpt, cpt, ipcc
  <2> QED BY <1>1, <2>1, CountQuiet
<1>7. CASE TimerExpires
  <2>1. Enters("timer") /\ Top.pc # "enable" /\ UNCHANGED <<flag, enabled>> /\ Cpt(c)' = Cpt(c)
    BY <1>7, Effects DEF TimerExpires, Cpt, cpt, ipcc
  <2>2. BusySame(c) /\ ~ Loaded(c)'
    BY <2>1, BusySteps, NoMaskHeld
  <2> QED BY <2>1, <2>2, CountQuiet
<1> QED BY <1>3, <1>4, <1>5, <1>6, <1>7, CountThread DEF Next, M0Serves

-----------------------------------------------------------------------------
(* The command in the buffer. *)

\* The command in the buffer is the one of the activation that sent it.
SentInv ==
  \A i \in 1 .. Depth : stack[i].fn = "cmd" /\ stack[i].pc # "begin" =>
     ot.op = stack[i].arg /\ ot.info = stack[i - 1].id

\* A step that leaves the commands that were sent, and their callers, as they are.
SentSame ==
  \A i \in 1 .. Depth' : stack'[i].fn = "cmd" /\ stack'[i].pc # "begin" =>
     /\ i \in 1 .. Depth /\ stack[i].fn = "cmd" /\ stack[i].pc # "begin"
     /\ stack'[i].arg = stack[i].arg /\ stack'[i - 1].id = stack[i - 1].id

LEMMA SentSteps ==
  ASSUME StackInv
  PROVE  /\ \A pc, reg : GoesTo(pc, reg) /\ (Top.fn = "cmd" => Top.pc # "begin") => SentSame
         /\ \A pc, id, fn, arg : CallsAt(pc, id, fn, arg) /\ (Top.fn = "cmd" => Top.pc # "begin") => SentSame
         /\ \A fn : Enters(fn) => SentSame
         /\ Leaves => SentSame
         /\ \A ok : Top.fn # "main" /\ Answers(ok) => SentSame
<1>1. /\ Depth \in Nat /\ Depth \in 1 .. Depth /\ Top = stack[Depth]
      /\ \A i \in 1 .. Depth + 1 : i = Depth + 1 \/ i \in 1 .. Depth
      /\ \A i \in 1 .. Depth : i = Depth \/ i \in 1 .. Depth - 1
      /\ \A i \in 1 .. Depth - 1 : i \in 1 .. Depth /\ (i = Depth - 1 \/ i \in 1 .. Depth - 2)
  BY BelowTop
<1>2. \A i \in 1 .. Depth : stack[i].fn = "cmd" => i - 1 \in 1 .. Depth /\ i - 1 \in 1 .. Depth - 1
  BY <1>1 DEF StackInv
<1>3. ASSUME NEW pc, NEW reg, GoesTo(pc, reg), Top.fn = "cmd" => Top.pc # "begin" PROVE SentSame
  <2>1. \A i \in 1 .. Depth' : /\ stack'[i].fn = stack[i].fn /\ stack'[i].arg = stack[i].arg
                               /\ stack'[i].id = stack[i].id
    BY <1>1, <1>3 DEF GoesTo, KeepsBelow, Holds
  <2>2. Depth' = Depth /\ \A i \in 1 .. Depth - 1 : stack'[i] = stack[i]
    BY <1>3 DEF GoesTo, KeepsBelow
  <2> QED BY <1>1, <1>2, <1>3, <2>1, <2>2 DEF SentSame
<1>4. ASSUME NEW pc, NEW id, NEW fn, NEW arg, CallsAt(pc, id, fn, arg), Top.fn = "cmd" => Top.pc # "begin"
      PROVE  SentSame
  <2>1. /\ Depth' = Depth + 1 /\ \A i \in 1 .. Depth - 1 : stack'[i] = stack[i]
        /\ stack'[Depth].fn = Top.fn /\ stack'[Depth].arg = Top.arg /\ stack'[Depth + 1].pc = "begin"
    BY <1>4 DEF CallsAt, KeepsBelow, Holds
  <2> QED BY <1>1, <1>2, <1>4, <2>1 DEF SentSame
<1>5. ASSUME NEW fn, Enters(fn) PROVE SentSame
  <2>1. /\ Depth' = Depth + 1 /\ \A i \in 1 .. Depth : stack'[i] = stack[i]
        /\ stack'[Depth + 1].pc = "begin"
    BY <1>5 DEF Enters, Holds
  <2> QED BY <1>1, <1>2, <2>1 DEF SentSame
<1>6. ASSUME Leaves PROVE SentSame
  <2>1. Depth' = Depth - 1 /\ \A i \in 1 .. Depth - 1 : stack'[i] = stack[i]
    BY <1>6 DEF Leaves, KeepsBelow
  <2>2. \A i \in 1 .. Depth' : stack[i].fn = "cmd" => i - 1 \in 1 .. Depth - 1
    BY <1>1, <1>2, <2>1
  <2> QED BY <1>1, <2>1, <2>2 DEF SentSame
<1>7. ASSUME NEW ok, Top.fn # "main", Answers(ok) PROVE SentSame
  <2>1. /\ Depth' = Depth - 1 /\ Depth - 1 \in 1 .. Depth
        /\ \A i \in 1 .. Depth - 1 : /\ stack'[i].fn = stack[i].fn /\ stack'[i].arg = stack[i].arg
                                     /\ stack'[i].id = stack[i].id /\ stack'[i].pc = stack[i].pc
    BY <1>1, <1>7, BelowTop DEF Answers, Holds
  <2>2. \A i \in 1 .. Depth' : stack[i].fn = "cmd" => i - 1 \in 1 .. Depth - 1
    BY <1>1, <1>2, <2>1
  <2> QED BY <1>1, <2>1, <2>2 DEF SentSame
<1> QED BY <1>3, <1>4, <1>5, <1>6, <1>7

LEMMA SentKept ==
  ASSUME TypesInv, StackInv, InfoInv, ShapeInv, SentInv, [Next]_vars
  PROVE  SentInv'
<1>1. ASSUME SentSame, ot'.op = ot.op, ot'.info = ot.info PROVE SentInv'
  BY <1>1 DEF SentSame, SentInv
<1>2. ASSUME stack' = stack, ot'.op = ot.op, ot'.info = ot.info PROVE SentInv'
  <2>1. Depth' = Depth
    BY <1>2 DEF Depth
  <2> QED BY <1>2, <2>1 DEF SentInv
<1>3. CASE CmdFill
  <2>1. /\ GoesTo("send", {}) /\ Top.fn = "cmd"
        /\ ot' = [owner |-> Top.id, op |-> Top.arg, answered |-> FALSE, ok |-> TRUE,
                  info |-> stack[Depth - 1].id]
    BY <1>3, Effects DEF CmdFill, At
  <2>2. ot'.op = Top.arg /\ ot'.info = stack[Depth - 1].id
    BY <2>1
  <2>3. /\ Depth' = Depth /\ stack'[Depth].arg = Top.arg /\ stack'[Depth].fn = "cmd"
        /\ \A i \in 1 .. Depth - 1 : stack'[i] = stack[i]
    BY <2>1 DEF GoesTo, KeepsBelow, Holds
  <2>4. /\ \A i \in 1 .. Depth : i = Depth \/ (i \in 1 .. Depth - 1 /\ i < Depth)
        /\ Depth \in 1 .. Depth /\ Depth - 1 \in 1 .. Depth - 1 /\ Top = stack[Depth]
    BY <2>1, BelowTop
  <2>5. \A i \in 1 .. Depth - 1 : stack[i].fn # "cmd"
    BY <2>1, <2>4 DEF ShapeInv, InCommand
  <2>6. \A i \in 1 .. Depth' : stack'[i].fn = "cmd" => i = Depth
    BY <2>3, <2>4, <2>5
  <2> QED BY <2>2, <2>3, <2>4, <2>6 DEF SentInv
<1>4. CASE M0Answer
  <2>1. stack' = stack /\ \E ok : ot' = [ot EXCEPT !.answered = TRUE, !.ok = ok]
    BY <1>4 DEF M0Answer
  <2>2. ot'.op = ot.op /\ ot'.info = ot.info
    BY <2>1 DEF TypesInv
  <2> QED BY <1>2, <2>1, <2>2
<1>5. CASE RxHandler \/ TxHandler \/ Press \/ M0Take \/ M0Malloc \/ M0Allocated \/ M0SysAnswer
            \/ M0StartupDone \/ M0Persist \/ M0Log \/ UNCHANGED vars
  BY <1>2, <1>5 DEF RxHandler, TxHandler, Press, M0Take, M0Malloc, M0Allocated, M0SysAnswer,
                    M0StartupDone, M0Persist, M0Log, vars
<1>6. CASE WaitReturn \/ SysReturn \/ SaveEnd \/ JoinEnd \/ TimerReturn \/ AckEnable \/ Dispatch
            \/ TimerExpires
  <2>1. SentSame
    BY <1>6, Effects, SentSteps
  <2> QED BY <1>1, <1>6, <2>1 DEF WaitReturn, SysReturn, SaveEnd, JoinEnd, TimerReturn, AckEnable, Dispatch,
                                  TimerExpires
<1>7. CASE CmdReturn
  <2>1. SentSame
    BY <1>7, Effects, SentSteps DEF CmdReturn, At
  <2> QED BY <1>1, <1>7, <2>1 DEF CmdReturn
<1>8. CASE SaveGet \/ SaveWrite \/ SaveEraseOff \/ JoinBegin \/ JoinStarted \/ JoinWoken \/ JoinSave
            \/ TimerCallback \/ PersistCallback \/ CmdEnable \/ SysEnable
  <2>1. Top.fn = "cmd" => Top.pc # "begin"
    BY <1>8 DEF SaveGet, SaveWrite, SaveEraseOff, JoinBegin, JoinStarted, JoinWoken, JoinSave,
                TimerCallback, PersistCallback, CmdEnable, SysEnable, At
  <2>2. Leaves \/ \E pc, id, fn, arg : CallsAt(pc, id, fn, arg)
    BY <1>8, Effects
  <2>3. SentSame
    BY <2>1, <2>2, SentSteps
  <2> QED BY <1>1, <1>8, <2>3 DEF SaveGet, SaveWrite, SaveEraseOff, JoinBegin, JoinStarted, JoinWoken,
                JoinSave, TimerCallback, PersistCallback, CmdEnable, SysEnable
<1>9. CASE CmdSend \/ SysSend \/ AckClear \/ StartupCallback \/ MaskLoad \/ NotifyBegin \/ RequestBegin
  <2>1. Top.fn = "cmd" => Top.pc # "begin"
    BY <1>9 DEF CmdSend, SysSend, AckClear, StartupCallback, MaskLoad, NotifyBegin, RequestBegin, At
  <2>2. Leaves \/ \E pc, reg : GoesTo(pc, reg)
    BY <1>9, Effects
  <2>3. SentSame
    BY <2>1, <2>2, SentSteps
  <2> QED BY <1>1, <1>9, <2>3 DEF CmdSend, SysSend, AckClear, StartupCallback, MaskLoad, NotifyBegin,
                                  RequestBegin
<1> QED BY <1>3, <1>4, <1>5, <1>6, <1>7, <1>8, <1>9 DEF Next, Thread, M0Serves

-----------------------------------------------------------------------------
(* The waits in which every task may run. *)

\* A network task that waits for its start-up, or is about to.
Early(f) == f.fn = "join" /\ f.pc \in {"started", "woken"}

(* No start-up is asked for and waited for inside another one, and no       *)
(* system command inside another one.                                       *)
NotNested ==
  \A i, j \in 1 .. Depth :
    /\ Early(stack[i]) /\ Early(stack[j]) => i = j
    /\ stack[i].fn = "sys" /\ stack[j].fn = "sys" => i = j

-----------------------------------------------------------------------------
(* System commands. *)

\* The function at depth i waits.
Waits(i) == i < Depth /\ stack[i + 1].fn = "wait"

SysUnarmed == ~ enabled["sys"] /\ "sys" \notin evtSet /\ ~ Loaded("sys")
SysIdle == SysUnarmed /\ ~ flag["sys"]

SysPhase(f, i) ==
  /\ f.pc = "begin" => SysIdle
  /\ f.pc \in {"load", "enable"} => SysUnarmed
  /\ f.pc = "return" /\ ~ Waits(i) => SysIdle
  /\ f.pc # "begin" => sysBuf.owner = i /\ (flag["sys"] \/ sysBuf.answered)

SysInv ==
  /\ "sys" \in evtSet => ~ flag["sys"]
  /\ (\A i \in 1 .. Depth : stack[i].fn # "sys") => SysIdle
  /\ \A i \in 1 .. Depth : stack[i].fn = "sys" => SysPhase(stack[i], i)

\* A step that leaves the system command, and its wait, as they are.
SysSame ==
  /\ \A i \in 1 .. Depth' : stack'[i].fn = "sys" =>
       /\ i \in 1 .. Depth /\ stack[i].fn = "sys" /\ stack'[i].pc = stack[i].pc
       /\ Waits(i) => Waits(i)'
  /\ \A i \in 1 .. Depth : stack[i].fn = "sys" => i \in 1 .. Depth' /\ stack'[i].fn = "sys"
  /\ Loaded("sys")' => Loaded("sys") \/ enabled["sys"]

SysStill ==
  /\ flag'["sys"] = flag["sys"]
  /\ enabled'["sys"] => enabled["sys"] \/ Loaded("sys")
  /\ "sys" \in evtSet' => "sys" \in evtSet

LEMMA SysSteps ==
  ASSUME StackInv, ShapeInv
  PROVE  /\ \A pc, reg : GoesTo(pc, reg) /\ Top.fn # "sys" /\ reg \subseteq {c \in Channel : enabled[c]} => SysSame
         /\ \A pc, id, fn, arg : CallsAt(pc, id, fn, arg) /\ Top.fn # "sys" /\ fn # "sys" => SysSame
         /\ \A fn : Top.pc # "enable" /\ Enters(fn) /\ fn # "sys" => SysSame
         /\ Leaves /\ Top.fn # "sys" /\ (Top.fn = "wait" => stack[Depth - 1].fn # "sys") => SysSame
         /\ \A ok : Top.fn = "cmd" /\ Answers(ok) => SysSame
<1>1. /\ Depth \in Nat /\ Depth \in 1 .. Depth /\ Top = stack[Depth]
      /\ \A i \in 1 .. Depth + 1 : i = Depth + 1 \/ i \in 1 .. Depth
      /\ \A i \in 1 .. Depth : i \in 1 .. Depth + 1 /\ (i = Depth \/ i \in 1 .. Depth - 1)
      /\ \A i \in 1 .. Depth - 1 : i \in 1 .. Depth /\ i + 1 \in 1 .. Depth /\ i < Depth /\ i < Depth + 1
      /\ \A i \in 1 .. Depth : i < Depth => i \in 1 .. Depth - 1
      /\ \A i \in 1 .. Depth - 1 : i = Depth - 1 \/ (i \in 1 .. Depth - 2 /\ i < Depth - 1 /\ i + 1 \in 1 .. Depth - 1)
      /\ (Depth - 1) + 1 = Depth
  BY BelowTop
<1>2. ASSUME NEW pc, NEW reg, GoesTo(pc, reg), Top.fn # "sys", reg \subseteq {c \in Channel : enabled[c]}
      PROVE  SysSame
  <2>1. /\ Depth' = Depth /\ stack'[Depth].reg = reg /\ \A i \in 1 .. Depth - 1 : stack'[i] = stack[i]
        /\ \A i \in 1 .. Depth : stack'[i].fn = stack[i].fn /\ (stack[i].fn = "sys" => stack'[i].pc = stack[i].pc)
    BY <1>1, <1>2 DEF GoesTo, KeepsBelow, Holds
  <2>2. Loaded("sys")' => Loaded("sys") \/ enabled["sys"]
    BY <1>1, <1>2, <2>1 DEF Loaded
  <2> QED BY <1>1, <2>1, <2>2 DEF SysSame, Waits
<1>3. ASSUME NEW pc, NEW id, NEW fn, NEW arg, CallsAt(pc, id, fn, arg), Top.fn # "sys", fn # "sys"
      PROVE  SysSame
  <2>1. /\ Depth' = Depth + 1 /\ stack'[Depth + 1].fn = fn
        /\ \A i \in 1 .. Depth : stack'[i].fn = stack[i].fn /\ (stack[i].fn = "sys" => stack'[i].pc = stack[i].pc)
    BY <1>1, <1>3 DEF CallsAt, KeepsBelow, Holds
  <2>2. ~ Loaded("sys")'
    BY <1>3, NoMaskHeld
  <2> QED BY <1>1, <1>3, <2>1, <2>2 DEF SysSame, Waits
<1>4. ASSUME NEW fn, Top.pc # "enable", Enters(fn), fn # "sys" PROVE SysSame
  <2>1. /\ Depth' = Depth + 1 /\ stack'[Depth + 1].fn = fn
        /\ \A i \in 1 .. Depth : stack'[i] = stack[i]
    BY <1>4 DEF Enters, Holds
  <2>2. ~ Loaded("sys")'
    BY <1>4, NoMaskHeld
  <2> QED BY <1>1, <1>4, <2>1, <2>2 DEF SysSame, Waits
<1>5. ASSUME Leaves, Top.fn # "sys", Top.fn = "wait" => stack[Depth - 1].fn # "sys" PROVE SysSame
  <2>1. Depth' = Depth - 1 /\ \A i \in 1 .. Depth - 1 : stack'[i] = stack[i]
    BY <1>5 DEF Leaves, KeepsBelow
  <2>2. ~ Loaded("sys")'
    BY <1>5, NoMaskHeld
  <2>3. ASSUME NEW i \in 1 .. Depth - 1, stack[i].fn = "sys", Waits(i) PROVE Waits(i)'
    <3>1. i # Depth - 1
      BY <1>1, <1>5, <2>3 DEF Waits
    <3> QED BY <1>1, <2>1, <2>3, <3>1 DEF Waits
  <2> QED BY <1>1, <1>5, <2>1, <2>2, <2>3 DEF SysSame
<1>6. ASSUME NEW ok, Top.fn = "cmd", Answers(ok) PROVE SysSame
  <2>1. /\ Depth' = Depth - 1
        /\ \A i \in 1 .. Depth - 1 : stack'[i].fn = stack[i].fn /\ stack'[i].pc = stack[i].pc
    BY <1>1, <1>6, BelowTop DEF Answers, Holds
  <2>2. ~ Loaded("sys")'
    BY <1>6, NoMaskHeld
  <2>3. ASSUME NEW i \in 1 .. Depth - 1, stack[i].fn = "sys", Waits(i) PROVE Waits(i)'
    <3>1. i # Depth - 1
      BY <1>1, <1>6, <2>3 DEF Waits
    <3> QED BY <1>1, <2>1, <2>3, <3>1 DEF Waits
  <2> QED BY <1>1, <1>6, <2>1, <2>2, <2>3 DEF SysSame
<1> QED BY <1>2, <1>3, <1>4, <1>5, <1>6

LEMMA SysQuiet ==
  ASSUME SysInv, SysSame, SysStill, UNCHANGED sysBuf
  PROVE  SysInv'
<1>1. SysUnarmed => SysUnarmed'
  BY DEF SysUnarmed, SysSame, SysStill
<1>2. SysIdle => SysIdle'
  BY <1>1 DEF SysIdle, SysStill
<1>3. (\A i \in 1 .. Depth' : stack'[i].fn # "sys") => SysIdle'
  BY <1>2 DEF SysInv, SysSame
<1>4. ASSUME NEW i \in 1 .. Depth', stack'[i].fn = "sys"
      PROVE  SysPhase(stack[i], i)'
  <2>1. /\ i \in 1 .. Depth /\ stack[i].fn = "sys" /\ stack'[i].pc = stack[i].pc
        /\ ~ Waits(i)' => ~ Waits(i)
    BY <1>4 DEF SysSame
  <2>2. SysPhase(stack[i], i)
    BY <2>1 DEF SysInv
  <2> QED BY <1>1, <1>2, <2>1, <2>2 DEF SysPhase, SysStill
<1>5. "sys" \in evtSet' => ~ flag'["sys"]
  BY DEF SysInv, SysStill
<1> QED BY <1>3, <1>4, <1>5 DEF SysInv

\* A system command is sent.
LEMMA SysBegins ==
  ASSUME StackInv, ShapeInv, NotNested', SysInv, Top.fn = "save", NEW pc, NEW id, NEW arg,
         CallsAt(pc, id, "sys", arg), UNCHANGED <<flag, enabled, evtSet>>
  PROVE  SysInv'
<1>1. /\ Depth \in Nat /\ Depth \in 1 .. Depth /\ Top = stack[Depth] /\ Depth + 1 \in 1 .. Depth + 1
      /\ \A i \in 1 .. Depth : i \in 1 .. Depth + 1 /\ i # Depth + 1 /\ (i = Depth \/ i \in 1 .. Depth - 1)
      /\ \A i \in 1 .. Depth + 1 : i = Depth + 1 \/ i = Depth \/ i \in 1 .. Depth - 1
      /\ \A i \in 1 .. Depth - 1 : i \in 1 .. Depth
  BY BelowTop
<1>2. /\ Depth' = Depth + 1 /\ \A i \in 1 .. Depth - 1 : stack'[i] = stack[i]
      /\ stack'[Depth].fn = "save" /\ stack'[Depth + 1].pc = "begin" /\ stack'[Depth + 1].fn = "sys"
  BY DEF CallsAt, KeepsBelow, Holds
<1>3. \A i \in 1 .. Depth : stack'[i].fn # "sys"
  BY <1>1, <1>2 DEF NotNested
<1>4. SysIdle /\ \A i \in 1 .. Depth : stack[i].fn # "sys"
  BY <1>1, <1>2, <1>3 DEF SysInv
<1>5. \A i \in 1 .. Depth' : stack'[i].fn = "sys" => stack'[i].pc = "begin"
  BY <1>4, <1>1, <1>2
<1>6. ~ Loaded("sys")'
  BY NoMaskHeld
<1>7. SysIdle'
  BY <1>4, <1>6 DEF SysIdle, SysUnarmed
<1>8. (\A i \in 1 .. Depth : stack[i].fn = "sys" => SysPhase(stack[i], i))'
  BY <1>5, <1>7 DEF SysPhase
<1> QED BY <1>7, <1>8 DEF SysInv, SysIdle, SysUnarmed

\* Its own steps.
LEMMA SysGoes ==
  ASSUME TypesInv, StackInv, InfoInv, ShapeInv, NotNested, SysInv, Top.fn = "sys",
         SysSend \/ MaskLoad \/ SysEnable
  PROVE  SysInv'
<1>1. PICK k \in 1 .. Depth : k = Depth
  BY BelowTop
<1>2. /\ Depth \in Nat /\ Top = stack[k] /\ stack[k].fn = "sys" /\ Top.id = k
      /\ \A i \in 1 .. Depth + 1 : i = Depth + 1 \/ i = k \/ i \in 1 .. Depth - 1
      /\ \A i \in 1 .. Depth - 1 : i \in 1 .. Depth /\ i # k
      /\ k \in 1 .. Depth + 1 /\ k # Depth + 1 /\ k < Depth + 1 /\ k + 1 = Depth + 1
  BY <1>1, BelowTop DEF StackInv
<1>3. SysPhase(stack[k], k) /\ \A i \in 1 .. Depth : stack[i].fn = "sys" => i = k
  BY <1>2 DEF SysInv, NotNested
<1>4. CASE SysSend
  <2>1. /\ GoesTo("load", {}) /\ Top.pc = "begin" /\ flag' = [flag EXCEPT !["sys"] = TRUE]
        /\ sysBuf' = [owner |-> Top.id, answered |-> FALSE] /\ UNCHANGED <<enabled, evtSet>>
    BY <1>4, Effects DEF SysSend, At, seq
  <2>2. flag'["sys"] /\ sysBuf'.owner = k
    BY <1>2, <2>1 DEF TypesInv, Channel
  <2>3. SysIdle /\ ~ Loaded("sys")'
    BY <1>2, <1>3, <2>1, NoMaskHeld DEF SysPhase
  <2>4. SysUnarmed'
    BY <2>1, <2>3 DEF SysIdle, SysUnarmed
  <2>5. /\ Depth' = Depth /\ stack'[k].pc = "load" /\ stack'[k].fn = "sys"
        /\ \A i \in 1 .. Depth - 1 : stack'[i] = stack[i]
    BY <1>1, <1>2, <2>1 DEF GoesTo, KeepsBelow, Holds
  <2>6. \A i \in 1 .. Depth' : stack'[i].fn = "sys" => i = k
    BY <1>2, <1>3, <2>5
  <2>7. SysPhase(stack[k], k)'
    BY <2>2, <2>4, <2>5 DEF SysPhase
  <2> QED BY <2>4, <2>5, <2>6, <2>7 DEF SysInv, SysUnarmed
<1>5. CASE MaskLoad
  <2> DEFINE reg == {c \in Channel : enabled[c]}
  <2>1. GoesTo("enable", reg) /\ Top.pc = "load" /\ UNCHANGED <<flag, enabled, evtSet, sysBuf>>
    BY <1>5, Effects DEF MaskLoad, seq, ipcc
  <2>2. SysUnarmed /\ sysBuf.owner = k /\ (flag["sys"] \/ sysBuf.answered)
    BY <1>2, <1>3, <2>1 DEF SysPhase
  <2>3. "sys" \notin reg
    BY <2>2 DEF SysUnarmed
  <2> HIDE DEF reg
  <2>4. /\ Depth' = Depth /\ stack'[k].pc = "enable" /\ stack'[k].fn = "sys" /\ stack'[k].reg = reg
        /\ \A i \in 1 .. Depth - 1 : stack'[i] = stack[i]
    BY <1>1, <1>2, <2>1 DEF GoesTo, KeepsBelow, Holds
  <2>5. ~ Loaded("sys")'
    BY <1>2, <2>2, <2>3, <2>4 DEF SysUnarmed, Loaded
  <2>6. SysUnarmed'
    BY <2>1, <2>2, <2>5 DEF SysUnarmed
  <2>7. \A i \in 1 .. Depth' : stack'[i].fn = "sys" => i = k
    BY <1>2, <1>3, <2>4
  <2>8. SysPhase(stack[k], k)'
    BY <2>1, <2>2, <2>4, <2>6 DEF SysPhase
  <2> QED BY <2>4, <2>6, <2>7, <2>8 DEF SysInv, SysUnarmed
<1>6. CASE SysEnable
  <2>1. /\ CallsAt("return", Top.id, "wait", "sys") /\ Top.pc = "enable"
        /\ UNCHANGED <<flag, evtSet, sysBuf>>
    BY <1>6, Effects DEF SysEnable, At, seq
  <2>2. SysUnarmed /\ sysBuf.owner = k /\ (flag["sys"] \/ sysBuf.answered)
    BY <1>2, <1>3, <2>1 DEF SysPhase
  <2>3. /\ Depth' = Depth + 1 /\ stack'[k].pc = "return" /\ stack'[k].fn = "sys"
        /\ stack'[Depth + 1].fn = "wait" /\ \A i \in 1 .. Depth - 1 : stack'[i] = stack[i]
    BY <1>1, <1>2, <2>1 DEF CallsAt, KeepsBelow, Holds
  <2>4. Waits(k)' /\ k \in 1 .. Depth'
    BY <1>2, <2>3 DEF Waits
  <2>5. \A i \in 1 .. Depth' : stack'[i].fn = "sys" => i = k
    BY <1>2, <1>3, <2>3
  <2>6. SysPhase(stack[k], k)'
    BY <2>1, <2>2, <2>3, <2>4 DEF SysPhase
  <2> QED BY <2>1, <2>2, <2>3, <2>4, <2>5, <2>6 DEF SysInv, SysUnarmed
<1> QED BY <1>4, <1>5, <1>6

\* The response ends its wait.
LEMMA SysWoken ==
  ASSUME TypesInv, StackInv, InfoInv, ShapeInv, NotNested, SysInv, ~ Pending, WaitReturn,
         stack[Depth - 1].fn = "sys"
  PROVE  SysInv'
<1>1. PICK k \in 1 .. Depth : k = Depth - 1
  BY BelowTop DEF WaitReturn
<1>2. /\ Depth \in Nat /\ Top = stack[Depth] /\ Top.fn = "wait" /\ stack[k].fn = "sys"
      /\ \A i \in 1 .. Depth - 1 : i \in 1 .. Depth
      /\ k \in 1 .. Depth - 1 /\ OnTop(stack[k].fn, stack[k].pc, Top.fn, Top.arg)
  BY <1>1, BelowTop DEF WaitReturn
<1>3. stack[k].pc = "return" /\ Top.arg = "sys"
  BY <1>2 DEF OnTop, Task
<1>4. Leaves /\ "sys" \in evtSet /\ evtSet' = evtSet \ {"sys"} /\ UNCHANGED <<flag, enabled, sysBuf>>
  BY <1>3, Effects DEF WaitReturn, ipcc
<1>5. ~ flag["sys"] /\ ~ enabled["sys"]
  BY <1>4 DEF SysInv, Pending, TxPending
<1>6. SysIdle'
  BY <1>4, <1>5, NoMaskHeld DEF SysIdle, SysUnarmed
<1>7. SysPhase(stack[k], k) /\ \A i \in 1 .. Depth : stack[i].fn = "sys" => i = k
  BY <1>2 DEF SysInv, NotNested
<1>8. Depth' = Depth - 1 /\ \A i \in 1 .. Depth - 1 : stack'[i] = stack[i]
  BY <1>4 DEF Leaves, KeepsBelow
<1>9. \A i \in 1 .. Depth' : stack'[i].fn = "sys" => i = k
  BY <1>2, <1>7, <1>8
<1>10. SysPhase(stack[k], k)'
  <2>1. sysBuf'.owner = k /\ sysBuf'.answered
    BY <1>3, <1>4, <1>5, <1>7 DEF SysPhase
  <2> QED BY <1>6, <2>1 DEF SysPhase, SysIdle
<1> QED BY <1>6, <1>9, <1>10 DEF SysInv, SysIdle, SysUnarmed

\* It returns.
LEMMA SysLeaves ==
  ASSUME TypesInv, StackInv, InfoInv, ShapeInv, NotNested, SysInv, SysReturn
  PROVE  SysInv'
<1>1. /\ Depth \in Nat /\ Top = stack[Depth] /\ Depth \in 1 .. Depth /\ Top.fn = "sys" /\ Top.pc = "return"
      /\ \A i \in 1 .. Depth - 1 : i \in 1 .. Depth /\ i # Depth
  BY BelowTop DEF SysReturn, At
<1>2. Leaves /\ UNCHANGED <<flag, enabled, evtSet>>
  BY Effects DEF SysReturn, seq, ipcc
<1>3. SysIdle
  BY <1>1 DEF SysInv, SysPhase, Waits
<1>4. SysIdle'
  BY <1>2, <1>3, NoMaskHeld DEF SysIdle, SysUnarmed
<1>5. \A i \in 1 .. Depth' : stack'[i].fn # "sys"
  BY <1>1, <1>2 DEF NotNested, Leaves, KeepsBelow
<1> QED BY <1>4, <1>5 DEF SysInv, SysIdle, SysUnarmed

LEMMA SysThread ==
  ASSUME ~ TimerPreempts, TypesInv, StackInv, InfoInv, ShapeInv, NotNested, NotNested', SysInv, Thread
  PROVE  SysInv'
<1>1. ASSUME SysSame, UNCHANGED <<flag, enabled, sysBuf>>, "sys" \in evtSet' => "sys" \in evtSet PROVE SysInv'
  BY <1>1, SysQuiet DEF SysStill
<1>2. CASE SysSend \/ SysEnable \/ SysReturn \/ (MaskLoad /\ Top.fn = "sys")
            \/ (WaitReturn /\ stack[Depth - 1].fn = "sys")
  BY <1>2, SysGoes, SysLeaves, SysWoken DEF SysSend, SysEnable, At, Thread
<1>3. CASE SaveEnd \/ JoinEnd \/ TimerReturn
  <2>1. Leaves /\ Top.fn \notin {"sys", "wait"}
    BY <1>3, Effects DEF SaveEnd, JoinEnd, TimerReturn, At
  <2>2. SysSame
    BY <2>1, SysSteps
  <2> QED BY <1>1, <1>3, <2>2 DEF SaveEnd, JoinEnd, TimerReturn, seq, ipcc
<1>4. CASE WaitReturn /\ stack[Depth - 1].fn # "sys"
  <2>1. Leaves /\ Top.fn = "wait" /\ evtSet' = evtSet \ {Top.arg}
    BY <1>4, Effects DEF WaitReturn
  <2>2. SysSame
    BY <1>4, <2>1, SysSteps
  <2> QED BY <1>1, <1>4, <2>1, <2>2 DEF WaitReturn, ipcc
<1>5. CASE MaskLoad /\ Top.fn # "sys"
  <2>1. SysSame
    BY <1>5, Effects, SysSteps
  <2> QED BY <1>1, <1>5, <2>1 DEF MaskLoad, seq, ipcc
<1>6. CASE CmdReturn
  <2>1. SysSame
    BY <1>6, Effects, SysSteps DEF CmdReturn, At
  <2> QED BY <1>1, <1>6, <2>1 DEF CmdReturn, seq, ipcc
<1>7. CASE Dispatch
  <2>1. Top.pc # "enable"
    BY <1>7, BelowTop DEF Dispatch, StackInv, PlacesOf
  <2>2. PICK t \in Runnable : Enters(t)
    BY <1>7, Effects
  <2>3. t # "sys"
    BY <2>2 DEF Runnable, TypesInv, Task
  <2>4. SysSame
    BY <2>1, <2>2, <2>3, SysSteps
  <2> QED BY <1>1, <1>7, <2>4 DEF Dispatch, ipcc
<1>8. CASE SaveEraseOff \/ SaveWrite
  <2>1. Top.fn = "save" /\ (Leaves \/ \E pc : CallsAt(pc, Top.id, "sys", "none"))
    BY <1>8, Effects DEF SaveEraseOff, SaveWrite, At
  <2>2. UNCHANGED <<flag, enabled, evtSet, sysBuf>>
    BY <1>8 DEF SaveEraseOff, SaveWrite, seq, ipcc
  <2>3. Leaves => SysSame
    BY <2>1, SysSteps
  <2> QED BY <1>1, <2>1, <2>2, <2>3, SysBegins
<1>9. CASE SaveGet \/ JoinBegin \/ JoinStarted \/ JoinWoken \/ JoinSave \/ TimerCallback \/ PersistCallback
  <2>1. /\ Top.fn \notin {"sys", "wait"}
        /\ Leaves \/ \E pc, id, fn, arg : fn # "sys" /\ CallsAt(pc, id, fn, arg)
    BY <1>9, Effects DEF SaveGet, JoinBegin, JoinStarted, JoinWoken, JoinSave, TimerCallback, PersistCallback, At
  <2>2. SysSame
    BY <2>1, SysSteps
  <2> QED BY <1>1, <1>9, <2>2 DEF SaveGet, JoinBegin, JoinStarted, JoinWoken, JoinSave, TimerCallback,
                                  PersistCallback, seq, ipcc
<1>10. CASE CmdFill \/ NotifyBegin \/ RequestBegin \/ StartupCallback
  <2>1. Top.fn \notin {"sys", "wait"} /\ (Leaves \/ \E pc : GoesTo(pc, {}))
    BY <1>10, Effects DEF CmdFill, NotifyBegin, RequestBegin, StartupCallback, At
  <2>2. SysSame
    BY <2>1, SysSteps
  <2>3. UNCHANGED <<flag, enabled, sysBuf>> /\ ("sys" \in evtSet' => "sys" \in evtSet)
    BY <1>10 DEF CmdFill, NotifyBegin, RequestBegin, StartupCallback, seq, ipcc
  <2> QED BY <1>1, <2>2, <2>3
<1>11. CASE CmdSend \/ AckClear
  <2>1. Top.fn \notin {"sys", "wait"} /\ GoesTo("load", {})
    BY <1>11, Effects DEF CmdSend, AckClear, At
  <2>2. SysSame
    BY <2>1, SysSteps
  <2>3. \E c \in Channel \ {"sys"}, b \in BOOLEAN : flag' = [flag EXCEPT ![c] = b]
    <3>1. ChannelOf(Top.fn) \in Channel \ {"sys"} /\ "cmd" \in Channel \ {"sys"}
      BY DEF ChannelOf, Channel
    <3> QED BY <1>11, <3>1 DEF CmdSend, AckClear
  <2>4. flag'["sys"] = flag["sys"]
    BY <2>3 DEF TypesInv, Channel
  <2>5. UNCHANGED <<enabled, evtSet, sysBuf>>
    BY <1>11 DEF CmdSend, AckClear, seq
  <2> QED BY <2>2, <2>4, <2>5, SysQuiet DEF SysStill
<1>12. CASE CmdEnable \/ AckEnable
  <2>1. /\ Top.fn \notin {"sys", "wait"} /\ (Leaves \/ \E pc, id, arg : CallsAt(pc, id, "wait", arg))
        /\ UNCHANGED <<flag, evtSet, sysBuf>>
    BY <1>12, Effects DEF CmdEnable, AckEnable, At, seq
  <2>2. SysSame
    BY <2>1, SysSteps
  <2>3. \E c \in Channel \ {"sys"} : MaskStore(c)
    <3>1. ChannelOf(Top.fn) \in Channel \ {"sys"} /\ "cmd" \in Channel \ {"sys"}
      BY DEF ChannelOf, Channel
    <3> QED BY <1>12, <3>1 DEF CmdEnable, AckEnable
  <2>4. enabled'["sys"] => Loaded("sys")
    BY <2>3, MaskOnTop DEF MaskStore, Channel
  <2> QED BY <2>1, <2>2, <2>4, SysQuiet DEF SysStill
<1> QED BY <1>2, <1>3, <1>4, <1>5, <1>6, <1>7, <1>8, <1>9, <1>10, <1>11, <1>12 DEF Thread

LEMMA SysKept ==
  ASSUME ~ TimerPreempts, TypesInv, StackInv, InfoInv, ShapeInv, NotNested, NotNested', SysInv, [Next]_vars
  PROVE  SysInv'
<1>1. ASSUME stack' = stack
      PROVE  SysSame /\ (Loaded("sys")' <=> Loaded("sys")) /\ Depth' = Depth /\ \A i : Waits(i)' <=> Waits(i)
  <2>1. Depth' = Depth
    BY <1>1 DEF Depth
  <2> QED BY <1>1, <2>1 DEF SysSame, Loaded, Waits
<1>2. CASE TxHandler
  <2>1. /\ enabled'["sys"] <=> enabled["sys"] /\ flag["sys"]
        /\ "sys" \in evtSet' <=> "sys" \in evtSet \/ TxPending("sys")
        /\ UNCHANGED <<stack, flag, sysBuf>>
    BY <1>2 DEF TxHandler, TxPending, Channel
  <2>2. SysUnarmed => SysUnarmed'
    BY <1>1, <2>1 DEF SysUnarmed, TxPending
  <2>3. SysIdle => SysIdle'
    BY <2>1, <2>2 DEF SysIdle
  <2>4. ASSUME NEW i \in 1 .. Depth, stack[i].fn = "sys" PROVE SysPhase(stack[i], i)'
    <3>1. SysPhase(stack[i], i)
      BY <2>4 DEF SysInv
    <3> QED BY <1>1, <2>1, <2>2, <2>3, <3>1 DEF SysPhase
  <2> QED BY <1>1, <2>1, <2>3, <2>4 DEF SysInv, TxPending
<1>3. CASE M0SysAnswer
  <2>1. /\ flag["sys"] /\ flag' = [flag EXCEPT !["sys"] = FALSE]
        /\ sysBuf' = [sysBuf EXCEPT !.answered = TRUE] /\ UNCHANGED <<stack, enabled, evtSet>>
    BY <1>3 DEF M0SysAnswer, seq
  <2>2. ~ flag'["sys"] /\ sysBuf'.owner = sysBuf.owner /\ sysBuf'.answered
    BY <2>1 DEF TypesInv, Channel
  <2>3. ~ SysIdle /\ (SysUnarmed => SysUnarmed')
    BY <1>1, <2>1 DEF SysIdle, SysUnarmed
  <2>4. ASSUME NEW i \in 1 .. Depth, stack[i].fn = "sys" PROVE SysPhase(stack[i], i)'
    <3>1. SysPhase(stack[i], i)
      BY <2>4 DEF SysInv
    <3> QED BY <1>1, <2>1, <2>2, <2>3, <3>1 DEF SysPhase
  <2>5. \E i \in 1 .. Depth : stack[i].fn = "sys"
    BY <2>3 DEF SysInv
  <2> QED BY <1>1, <2>1, <2>2, <2>4, <2>5 DEF SysInv
<1>4. CASE RxHandler
  <2>1. UNCHANGED <<stack, evtSet, flag, sysBuf>>
        /\ \E c \in {"notif", "request"} : enabled' = [enabled EXCEPT ![c] = FALSE]
    BY <1>4 DEF RxHandler
  <2>2. enabled'["sys"] = enabled["sys"]
    BY <2>1 DEF TypesInv, Channel
  <2> QED BY <1>1, <2>1, <2>2, SysQuiet DEF SysStill
<1>5. CASE M0Malloc \/ M0Answer \/ M0StartupDone \/ M0Persist \/ M0Log
  <2>1. UNCHANGED <<stack, evtSet, enabled, sysBuf>>
    BY <1>5 DEF M0Malloc, M0Answer, M0StartupDone, M0Persist, M0Log, seq
  <2>2. \E c \in Channel \ {"sys"}, b \in BOOLEAN : flag' = [flag EXCEPT ![c] = b]
    BY <1>5 DEF M0Malloc, M0Answer, M0StartupDone, M0Persist, M0Log, Channel
  <2>3. flag'["sys"] = flag["sys"]
    BY <2>2 DEF TypesInv, Channel
  <2> QED BY <1>1, <2>1, <2>3, SysQuiet DEF SysStill
<1>6. CASE M0Take \/ M0Allocated \/ Press \/ UNCHANGED vars
  <2>1. UNCHANGED <<stack, evtSet, enabled, flag, sysBuf>>
    BY <1>6 DEF M0Take, M0Allocated, Press, vars, seq, ipcc
  <2> QED BY <1>1, <2>1, SysQuiet DEF SysStill
<1>7. CASE TimerExpires
  <2>1. Enters("timer") /\ Top.pc # "enable" /\ UNCHANGED <<evtSet, enabled, flag, sysBuf>>
    BY <1>7, Effects DEF TimerExpires, seq, ipcc
  <2>2. SysSame
    BY <2>1, SysSteps
  <2> QED BY <2>1, <2>2, SysQuiet DEF SysStill
<1> QED BY <1>2, <1>3, <1>4, <1>5, <1>6, <1>7, SysThread DEF Next, M0Serves

-----------------------------------------------------------------------------
(* Start-ups. *)

\* The M0's notification of a start-up, until its call-back has run.
StartupOut == flag["notif"] /\ notif.kind = "startup" /\ notif.processed = 0

\* Nothing is left of any start-up.
Fresh == starting = NoInfo /\ ~ StartupOut /\ "startup" \notin evtSet

\* The network task waits, or will, for the start-up with the block d.
Awaits(i, d) == Early(stack[i]) /\ stack[i].id = d /\ info[d].state = "active"

\* It is still in the command that asks for the start-up.
Asking(i) == i < Depth /\ stack[i + 1].fn = "cmd"
Open(f) == f.pc \in {"begin", "send"} \/ flag["cmd"] \/ ~ ot.ok

StartInv ==
  /\ starting # NoInfo =>
       (\E i \in 1 .. Depth : Awaits(i, starting)) /\ ~ StartupOut /\ "startup" \notin evtSet
  /\ StartupOut => (\E i \in 1 .. Depth : Awaits(i, notif.info)) /\ "startup" \notin evtSet
  /\ "startup" \in evtSet => \E i \in 1 .. Depth :
       stack[i].fn = "join" /\ stack[i].pc = "woken" /\ Waits(i) /\ info[stack[i].id].state = "done"
  /\ \A i \in 1 .. Depth : stack[i].fn = "join" /\ stack[i].pc = "started" =>
       /\ info[stack[i].id].state = "active" /\ "startup" \notin evtSet
       /\ Asking(i) /\ Open(stack[i + 1]) => Fresh
       /\ ~ Asking(i) /\ ~ stack[i].ok => Fresh
  /\ \A i \in 1 .. Depth : stack[i].fn = "join" /\ stack[i].pc = "woken" /\ ~ Waits(i) =>
       Fresh /\ info[stack[i].id].state = "done"
  /\ \A d \in Info : info[d].state # "corrupt"

\* Nothing is left of a start-up when no network task is at it.
LEMMA NoneEarly ==
  ASSUME StartInv, \A i \in 1 .. Depth : ~ Early(stack[i])
  PROVE  Fresh
BY DEF StartInv, Fresh, Awaits, Early

\* A step that leaves the network task where it is, and what it has on top.
StartSame ==
  /\ \A i \in 1 .. Depth' : Early(stack'[i]) =>
       /\ i \in 1 .. Depth /\ Early(stack[i])
       /\ stack'[i].pc = stack[i].pc /\ stack'[i].id = stack[i].id
       /\ Waits(i) => Waits(i)'
       /\ Asking(i)' => /\ Asking(i)
                        /\ stack'[i + 1].pc \in {"begin", "send"} => stack[i + 1].pc \in {"begin", "send"}
       /\ ~ Asking(i)' => ~ Asking(i) /\ stack'[i].ok = stack[i].ok
  /\ \A i \in 1 .. Depth : Early(stack[i]) => i \in 1 .. Depth' /\ Early(stack'[i])

LEMMA StartSteps ==
  ASSUME StackInv
  PROVE  /\ \A pc, reg : /\ GoesTo(pc, reg) /\ Top.fn # "join"
                         /\ pc \in {"begin", "send"} => Top.pc \in {"begin", "send"}
                         => StartSame
         /\ \A pc, id, fn, arg : /\ CallsAt(pc, id, fn, arg) /\ pc \notin {"begin", "send"}
                                 /\ Top.fn = "join" =>
                                      Top.pc \notin {"started", "woken"} /\ pc \notin {"started", "woken"}
                                 => StartSame
         /\ \A fn : Enters(fn) /\ fn # "cmd" => StartSame
         /\ Leaves /\ ~ Early(Top) /\ Top.fn # "cmd" /\ (Top.fn = "wait" => stack[Depth - 1].fn # "join")
              => StartSame
         /\ \A ok : Top.fn = "cmd" /\ Answers(ok) /\ ~ Early(stack[Depth - 1]) => StartSame
<1>1. /\ Depth \in Nat /\ Depth \in 1 .. Depth /\ Top = stack[Depth]
      /\ \A i \in 1 .. Depth + 1 : i = Depth + 1 \/ i \in 1 .. Depth
      /\ \A i \in 1 .. Depth : i \in 1 .. Depth + 1 /\ (i = Depth \/ i \in 1 .. Depth - 1)
      /\ \A i \in 1 .. Depth - 1 : i \in 1 .. Depth /\ i + 1 \in 1 .. Depth /\ i < Depth /\ i < Depth + 1
      /\ \A i \in 1 .. Depth : i < Depth => i \in 1 .. Depth - 1
      /\ \A i \in 1 .. Depth - 1 : i = Depth - 1 \/ (i \in 1 .. Depth - 2 /\ i < Depth - 1 /\ i + 1 \in 1 .. Depth - 1)
      /\ (Depth - 1) + 1 = Depth
      /\ \A i \in 1 .. Depth - 2 : i \in 1 .. Depth - 1
  BY BelowTop
<1>2. ASSUME NEW pc, NEW reg, GoesTo(pc, reg), Top.fn # "join",
             pc \in {"begin", "send"} => Top.pc \in {"begin", "send"}
      PROVE  StartSame
  <2>1. /\ Depth' = Depth /\ stack'[Depth].pc = pc /\ \A i \in 1 .. Depth - 1 : stack'[i] = stack[i]
        /\ stack'[Depth].fn = Top.fn
    BY <1>2 DEF GoesTo, KeepsBelow, Holds
  <2>2. \A i \in 1 .. Depth : stack'[i].fn = stack[i].fn
    BY <1>1, <2>1
  <2>3. \A i \in 1 .. Depth : Early(stack[i]) \/ Early(stack'[i]) => i \in 1 .. Depth - 1 /\ stack'[i] = stack[i]
    BY <1>1, <1>2, <2>1 DEF Early
  <2>4. \A i \in 1 .. Depth - 1 : stack'[i + 1].pc \in {"begin", "send"} => stack[i + 1].pc \in {"begin", "send"}
    BY <1>1, <1>2, <2>1
  <2> QED BY <1>1, <2>1, <2>2, <2>3, <2>4 DEF StartSame, Waits, Asking
<1>3. ASSUME NEW pc, NEW id, NEW fn, NEW arg, CallsAt(pc, id, fn, arg), pc \notin {"begin", "send"},
             Top.fn = "join" => Top.pc \notin {"started", "woken"} /\ pc \notin {"started", "woken"}
      PROVE  StartSame
  <2>1. /\ Depth' = Depth + 1 /\ stack'[Depth].pc = pc /\ \A i \in 1 .. Depth - 1 : stack'[i] = stack[i]
        /\ stack'[Depth].fn = Top.fn /\ stack'[Depth + 1].pc = "begin"
    BY <1>3 DEF CallsAt, KeepsBelow, Holds
  <2>2. \A i \in 1 .. Depth : stack'[i].fn = stack[i].fn
    BY <1>1, <2>1
  <2>3. /\ \A i \in 1 .. Depth : Early(stack[i]) => i \in 1 .. Depth - 1 /\ stack'[i] = stack[i]
        /\ \A i \in 1 .. Depth' : Early(stack'[i]) => i \in 1 .. Depth - 1 /\ stack'[i] = stack[i]
    BY <1>1, <1>3, <2>1 DEF Early
  <2>4. \A i \in 1 .. Depth - 1 : stack'[i + 1].pc \in {"begin", "send"} => stack[i + 1].pc \in {"begin", "send"}
    BY <1>1, <1>3, <2>1
  <2> QED BY <1>1, <2>1, <2>2, <2>3, <2>4 DEF StartSame, Waits, Asking
<1>4. ASSUME NEW fn, Enters(fn), fn # "cmd" PROVE StartSame
  <2>1. /\ Depth' = Depth + 1 /\ stack'[Depth + 1].pc = "begin" /\ stack'[Depth + 1].fn = fn
        /\ \A i \in 1 .. Depth : stack'[i] = stack[i]
    BY <1>4 DEF Enters, Holds
  <2>2. \A i \in 1 .. Depth' : Early(stack'[i]) => i \in 1 .. Depth
    BY <1>1, <2>1 DEF Early
  <2> QED BY <1>1, <1>4, <2>1, <2>2 DEF StartSame, Waits, Asking
<1>5. ASSUME Leaves, ~ Early(Top), Top.fn # "cmd", Top.fn = "wait" => stack[Depth - 1].fn # "join" PROVE StartSame
  <2>1. Depth' = Depth - 1 /\ \A i \in 1 .. Depth - 1 : stack'[i] = stack[i]
    BY <1>5 DEF Leaves, KeepsBelow
  <2>2. ASSUME NEW i \in 1 .. Depth - 1, Early(stack[i])
        PROVE  /\ Waits(i) => Waits(i)'
               /\ Asking(i)' => Asking(i) /\ stack'[i + 1] = stack[i + 1]
               /\ ~ Asking(i)' => ~ Asking(i)
    BY <1>1, <1>5, <2>1, <2>2 DEF Waits, Asking, Early
  <2> QED BY <1>1, <1>5, <2>1, <2>2 DEF StartSame
<1>6. ASSUME NEW ok, Top.fn = "cmd", Answers(ok), ~ Early(stack[Depth - 1]) PROVE StartSame
  <2>1. /\ Depth' = Depth - 1 /\ \A i \in 1 .. Depth - 2 : stack'[i] = stack[i]
        /\ \A i \in 1 .. Depth - 1 : stack'[i].fn = stack[i].fn /\ stack'[i].pc = stack[i].pc
    BY <1>1, <1>6, BelowTop DEF Answers, Holds
  <2>2. /\ \A i \in 1 .. Depth : Early(stack[i]) => i \in 1 .. Depth - 2
        /\ \A i \in 1 .. Depth' : Early(stack'[i]) => i \in 1 .. Depth - 2
    BY <1>1, <1>6, <2>1 DEF Early
  <2>3. \A i \in 1 .. Depth - 2 : i < Depth - 1 /\ i + 1 \in 1 .. Depth - 1 /\ i < Depth
    BY <1>1
  <2> QED BY <1>1, <2>1, <2>2, <2>3 DEF StartSame, Waits, Asking
<1> QED BY <1>2, <1>3, <1>4, <1>5, <1>6

LEMMA StartQuiet ==
  ASSUME StartInv, StartSame, starting' = starting, StartupOut' <=> StartupOut,
         StartupOut => notif'.info = notif.info, info' = info,
         "startup" \in evtSet' <=> "startup" \in evtSet,
         \A i \in 1 .. Depth : Asking(i) /\ (flag'["cmd"] \/ ~ ot'.ok) => Open(stack[i + 1])
  PROVE  StartInv'
<1>1. Fresh' <=> Fresh
  BY DEF Fresh
<1>2. ASSUME NEW i \in 1 .. Depth, NEW d, Awaits(i, d) PROVE i \in 1 .. Depth' /\ Awaits(i, d)'
  BY <1>2 DEF StartSame, Awaits, Early
<1>3. (starting # NoInfo =>
         (\E i \in 1 .. Depth : Awaits(i, starting)) /\ ~ StartupOut /\ "startup" \notin evtSet)'
  BY <1>2 DEF StartInv
<1>4. (StartupOut => (\E i \in 1 .. Depth : Awaits(i, notif.info)) /\ "startup" \notin evtSet)'
  BY <1>2 DEF StartInv
<1>5. ("startup" \in evtSet => \E i \in 1 .. Depth :
         stack[i].fn = "join" /\ stack[i].pc = "woken" /\ Waits(i) /\ info[stack[i].id].state = "done")'
  <2> SUFFICES ASSUME "startup" \in evtSet
               PROVE  \E i \in 1 .. Depth' : stack'[i].fn = "join" /\ stack'[i].pc = "woken" /\ Waits(i)'
                                             /\ info'[stack'[i].id].state = "done"
    OBVIOUS
  <2>1. PICK i \in 1 .. Depth : stack[i].fn = "join" /\ stack[i].pc = "woken" /\ Waits(i)
                                /\ info[stack[i].id].state = "done"
    BY DEF StartInv
  <2>2. i \in 1 .. Depth' /\ Early(stack'[i])
    BY <2>1 DEF StartSame, Early
  <2> QED BY <2>1, <2>2 DEF StartSame, Early
<1>6. ASSUME NEW i \in 1 .. Depth', stack'[i].fn = "join", stack'[i].pc = "started"
      PROVE  /\ info'[stack'[i].id].state = "active" /\ "startup" \notin evtSet'
             /\ Asking(i)' /\ Open(stack[i + 1])' => Fresh'
             /\ ~ Asking(i)' /\ ~ stack'[i].ok => Fresh'
  <2>1. /\ i \in 1 .. Depth /\ stack[i].fn = "join" /\ stack[i].pc = "started" /\ stack'[i].id = stack[i].id
        /\ Asking(i)' => /\ Asking(i)
                         /\ stack'[i + 1].pc \in {"begin", "send"} => stack[i + 1].pc \in {"begin", "send"}
        /\ ~ Asking(i)' => ~ Asking(i) /\ stack'[i].ok = stack[i].ok
    BY <1>6 DEF StartSame, Early
  <2>2. Asking(i)' /\ Open(stack[i + 1])' => Asking(i) /\ Open(stack[i + 1])
    BY <2>1 DEF Open
  <2> QED BY <1>1, <2>1, <2>2 DEF StartInv
<1>7. ASSUME NEW i \in 1 .. Depth', stack'[i].fn = "join", stack'[i].pc = "woken", ~ Waits(i)'
      PROVE  Fresh' /\ info'[stack'[i].id].state = "done"
  BY <1>1, <1>7 DEF StartInv, StartSame, Early
<1>8. \A d \in Info : info'[d].state # "corrupt"
  BY DEF StartInv
<1> QED BY <1>3, <1>4, <1>5, <1>6, <1>7, <1>8 DEF StartInv

-----------------------------------------------------------------------------
\* A start-up ends, and leaves nothing.
LEMMA StartOver ==
  ASSUME Fresh', \A i \in 1 .. Depth' : ~ Early(stack'[i]), \A d \in Info : info'[d].state # "corrupt"
  PROVE  StartInv'
BY DEF StartInv, Fresh, Early

\* The network task at its start-up, when it runs, is the only one.
LEMMA JoinOnTop ==
  ASSUME StackInv, NotNested, Early(Top)
  PROVE  /\ Depth \in Nat /\ Depth \in 1 .. Depth /\ Top = stack[Depth] /\ ~ Waits(Depth) /\ ~ Asking(Depth)
         /\ \A i \in 1 .. Depth : Early(stack[i]) => i = Depth
         /\ \A i \in 1 .. Depth - 1 : i \in 1 .. Depth /\ ~ Early(stack[i])
         /\ \A i \in 1 .. Depth + 1 : i = Depth + 1 \/ i = Depth \/ i \in 1 .. Depth - 1
         /\ \A pc, id, fn, arg : /\ CallsAt(pc, id, fn, arg) /\ fn # "join"
              => \A i \in 1 .. Depth' : Early(stack'[i]) => i = Depth
         /\ Leaves => \A i \in 1 .. Depth' : ~ Early(stack'[i])
<1>1. /\ Depth \in Nat /\ Depth \in 1 .. Depth /\ Top = stack[Depth]
      /\ \A i \in 1 .. Depth - 1 : i \in 1 .. Depth /\ i # Depth
      /\ \A i \in 1 .. Depth + 1 : i = Depth + 1 \/ i = Depth \/ i \in 1 .. Depth - 1
      /\ ~ (Depth < Depth)
  BY BelowTop
<1>2. \A i \in 1 .. Depth : Early(stack[i]) => i = Depth
  BY <1>1 DEF NotNested
<1>3. ASSUME NEW pc, NEW id, NEW fn, NEW arg, CallsAt(pc, id, fn, arg), fn # "join"
      PROVE  \A i \in 1 .. Depth' : Early(stack'[i]) => i = Depth
  BY <1>1, <1>2, <1>3 DEF CallsAt, KeepsBelow, Holds, Early
<1>4. Leaves => \A i \in 1 .. Depth' : ~ Early(stack'[i])
  BY <1>1, <1>2 DEF Leaves, KeepsBelow, Early
<1> QED BY <1>1, <1>2, <1>3, <1>4 DEF Waits, Asking, Early

LEMMA StartBegins ==
  ASSUME TypesInv, StackInv, InfoInv, NotNested', StartInv, JoinBegin, ~ joined
  PROVE  StartInv'
<1>1. /\ Top.fn = "join" /\ Top.pc = "begin" /\ CallsAt("started", NextInfo, "cmd", "startup")
      /\ info' = [info EXCEPT ![NextInfo] = [state |-> "active", ok |-> TRUE]]
      /\ UNCHANGED <<starting, flag, notif, evtSet>>
  BY Effects DEF JoinBegin, At, seq, ipcc, radio
<1>2. NextInfo \in Info
  BY <1>1, NextIsFree DEF At
<1>3. /\ Depth' = Depth + 1 /\ \A i \in 1 .. Depth - 1 : stack'[i] = stack[i]
      /\ stack'[Depth].fn = "join" /\ stack'[Depth].pc = "started" /\ stack'[Depth].id = NextInfo
  BY <1>1 DEF CallsAt, KeepsBelow, Holds
<1>4. /\ Depth \in Nat /\ Depth \in 1 .. Depth + 1 /\ Top = stack[Depth]
      /\ \A i \in 1 .. Depth : i \in 1 .. Depth + 1 /\ (i = Depth \/ (i \in 1 .. Depth - 1 /\ i # Depth))
  BY BelowTop
<1>5. \A i \in 1 .. Depth' : Early(stack'[i]) => i = Depth
  BY <1>3, <1>4 DEF NotNested, Early
<1>6. Fresh'
  <2>1. \A i \in 1 .. Depth : ~ Early(stack[i])
    BY <1>1, <1>5, <1>3, <1>4 DEF Early
  <2>2. Fresh
    BY <2>1, NoneEarly
  <2> QED BY <1>1, <2>2 DEF Fresh, StartupOut
<1>7. info'[NextInfo].state = "active" /\ \A d \in Info : info'[d].state # "corrupt"
  BY <1>1, <1>2 DEF TypesInv, StartInv
<1>8. \A i \in 1 .. Depth' : stack'[i].fn = "join" /\ stack'[i].pc \in {"started", "woken"} =>
         stack'[i].pc = "started" /\ info'[stack'[i].id].state = "active"
  BY <1>7, <1>5, <1>3 DEF Early
<1> QED BY <1>6, <1>7, <1>8 DEF StartInv, Fresh

LEMMA StartWaits ==
  ASSUME TypesInv, StackInv, InfoInv, NotNested, StartInv, JoinStarted
  PROVE  StartInv'
<1>1. /\ Early(Top) /\ Top.fn = "join" /\ Top.pc = "started" /\ UNCHANGED <<starting, flag, notif, evtSet>>
      /\ IF Top.ok THEN CallsAt("woken", Top.id, "wait", "startup") /\ info' = info
         ELSE Leaves /\ info' = [info EXCEPT ![Top.id].state = "freed"]
  BY Effects DEF JoinStarted, At, Early, seq, ipcc, radio, app
<1>2. /\ info[Top.id].state = "active" /\ "startup" \notin evtSet /\ (~ Top.ok => Fresh)
      /\ \A d \in Info : info[d].state # "corrupt"
  BY <1>1, JoinOnTop DEF StartInv
<1>3. CASE ~ Top.ok
  <2>1. Fresh'
    BY <1>1, <1>2, <1>3 DEF Fresh, StartupOut
  <2>2. \A d \in Info : info'[d].state # "corrupt"
    BY <1>1, <1>2, <1>3 DEF TypesInv
  <2> QED BY <1>1, <1>3, <2>1, <2>2, JoinOnTop, StartOver
<1>4. CASE Top.ok
  <2>1. PICK k \in 1 .. Depth : k = Depth
    BY <1>1, JoinOnTop
  <2>2. /\ Depth' = Depth + 1 /\ stack'[k].fn = "join" /\ stack'[k].pc = "woken" /\ stack'[k].id = Top.id
        /\ stack'[k + 1].fn = "wait" /\ k \in 1 .. Depth' /\ k < Depth' /\ Top = stack[k]
    BY <1>1, <1>4, <2>1, JoinOnTop DEF CallsAt, Holds
  <2>3. Waits(k)' /\ Early(stack'[k])
    BY <2>2 DEF Waits, Early
  <2>4. \A i \in 1 .. Depth' : Early(stack'[i]) => i = k
    BY <1>1, <1>4, <2>1, JoinOnTop
  <2>5. ASSUME NEW i \in 1 .. Depth, NEW d, Awaits(i, d) PROVE k \in 1 .. Depth' /\ Awaits(k, d)'
    <3>1. i = k
      BY <1>1, <2>1, <2>5, JoinOnTop DEF Awaits
    <3> QED BY <1>1, <1>4, <2>2, <2>3, <2>5, <3>1 DEF Awaits
  <2>6. StartupOut' <=> StartupOut
    BY <1>1 DEF StartupOut
  <2>7. (starting # NoInfo =>
           (\E i \in 1 .. Depth : Awaits(i, starting)) /\ ~ StartupOut /\ "startup" \notin evtSet)'
    BY <1>1, <2>5, <2>6 DEF StartInv
  <2>8. (StartupOut => (\E i \in 1 .. Depth : Awaits(i, notif.info)) /\ "startup" \notin evtSet)'
    BY <1>1, <2>5, <2>6 DEF StartInv
  <2>9. \A i \in 1 .. Depth' : stack'[i].fn = "join" /\ stack'[i].pc \in {"started", "woken"} =>
           stack'[i].pc = "woken" /\ Waits(i)'
    BY <2>2, <2>3, <2>4 DEF Early
  <2> QED BY <1>1, <1>2, <1>4, <2>7, <2>8, <2>9 DEF StartInv
<1> QED BY <1>3, <1>4

LEMMA StartEnds ==
  ASSUME TypesInv, StackInv, InfoInv, NotNested, StartInv, JoinWoken
  PROVE  StartInv'
<1>1. /\ Early(Top) /\ Top.fn = "join" /\ Top.pc = "woken" /\ UNCHANGED <<starting, flag, notif, evtSet>>
      /\ Leaves \/ CallsAt("save", Top.id, "cmd", "register")
      /\ info' = [info EXCEPT ![Top.id].state = "freed"]
  BY Effects DEF JoinWoken, At, Early, seq, ipcc, radio
<1>2. Fresh /\ \A d \in Info : info[d].state # "corrupt"
  BY <1>1, JoinOnTop DEF StartInv
<1>3. Fresh'
  BY <1>1, <1>2 DEF Fresh, StartupOut
<1>4. \A d \in Info : info'[d].state # "corrupt"
  BY <1>1, <1>2 DEF TypesInv
<1>5. \A i \in 1 .. Depth' : ~ Early(stack'[i])
  <2>1. CASE CallsAt("save", Top.id, "cmd", "register")
    <3>1. \A i \in 1 .. Depth' : Early(stack'[i]) => i = Depth
      BY <1>1, <2>1, JoinOnTop
    <3>2. stack'[Depth].pc = "save"
      BY <2>1 DEF CallsAt, Holds
    <3> QED BY <3>1, <3>2 DEF Early
  <2> QED BY <1>1, <2>1, JoinOnTop
<1> QED BY <1>3, <1>4, <1>5, StartOver

\* The wait for the start-up returns.
LEMMA StartWoken ==
  ASSUME TypesInv, StackInv, InfoInv, NotNested, StartInv, WaitReturn, stack[Depth - 1].fn = "join"
  PROVE  StartInv'
<1>1. /\ Top.fn = "wait" /\ Top.arg \in evtSet /\ evtSet' = evtSet \ {Top.arg} /\ Leaves
      /\ UNCHANGED <<starting, flag, notif, info>>
  BY Effects DEF WaitReturn, ipcc, app, radio
<1>2. PICK k \in 1 .. Depth : k = Depth - 1
  BY <1>1, BelowTop
<1>3. /\ Depth \in Nat /\ k \in 1 .. Depth - 1 /\ \A i \in 1 .. Depth - 1 : i \in 1 .. Depth
      /\ stack[k].fn = "join" /\ OnTop(stack[k].fn, stack[k].pc, Top.fn, Top.arg)
  BY <1>1, <1>2, BelowTop
<1>4. stack[k].pc = "woken" /\ Top.arg = "startup"
  BY <1>1, <1>3 DEF OnTop, Task
<1>5. /\ starting = NoInfo /\ ~ StartupOut
      /\ \E i \in 1 .. Depth : Early(stack[i]) /\ info[stack[i].id].state = "done"
  BY <1>1, <1>4 DEF StartInv, Early
<1>6. info[stack[k].id].state = "done" /\ \A i \in 1 .. Depth : Early(stack[i]) => i = k
  BY <1>3, <1>4, <1>5 DEF NotNested, Early
<1>7. Fresh'
  BY <1>1, <1>4, <1>5 DEF Fresh, StartupOut
<1>8. \A i \in 1 .. Depth' : Early(stack'[i]) =>
         i = k /\ stack'[i].pc = "woken" /\ info'[stack'[i].id].state = "done"
  BY <1>1, <1>3, <1>4, <1>6 DEF Leaves, KeepsBelow
<1> QED BY <1>1, <1>7, <1>8 DEF StartInv, Fresh, Early

\* The refused start-up is reported, or the accepted one.
LEMMA StartAnswers ==
  ASSUME TypesInv, StackInv, InfoInv, NotNested, StartInv, CmdReturn
  PROVE  StartInv'
<1>1. /\ Top.fn = "cmd" /\ Top.pc = "return" /\ Answers(ot.ok)
      /\ UNCHANGED <<starting, flag, notif, evtSet, info, ot>>
  BY Effects DEF CmdReturn, At, seq, ipcc, app, radio
<1>2. PICK k \in 1 .. Depth : k = Depth - 1
  BY <1>1, BelowTop
<1>3. /\ Depth \in Nat /\ k \in 1 .. Depth - 1 /\ k + 1 = Depth /\ k < Depth /\ Top = stack[Depth]
      /\ \A i \in 1 .. Depth - 1 : i \in 1 .. Depth /\ (i = k \/ i \in 1 .. Depth - 2)
      /\ OnTop(stack[k].fn, stack[k].pc, Top.fn, Top.arg)
  BY <1>1, <1>2, BelowTop
<1>4. CASE ~ Early(stack[k])
  <2>1. StartSame
    BY <1>1, <1>2, <1>4, StartSteps
  <2>2. StartupOut' <=> StartupOut
    BY <1>1 DEF StartupOut
  <2>3. \A i \in 1 .. Depth : Asking(i) /\ (flag'["cmd"] \/ ~ ot'.ok) => Open(stack[i + 1])
    BY <1>1 DEF Open
  <2> QED BY <1>1, <2>1, <2>2, <2>3, StartQuiet
<1>5. CASE Early(stack[k])
  <2>1. stack[k].fn = "join" /\ stack[k].pc = "started" /\ Asking(k) /\ Early(stack[k])
    BY <1>1, <1>3, <1>5 DEF OnTop, Task, Early, Asking
  <2>2. \A i \in 1 .. Depth : Early(stack[i]) => i = k
    BY <2>1 DEF NotNested
  <2>3. /\ Depth' = k /\ stack'[k].fn = "join" /\ stack'[k].pc = "started" /\ stack'[k].id = stack[k].id
        /\ stack'[k].ok = ot.ok
        /\ \A i \in 1 .. Depth' : i \in 1 .. Depth /\ (Early(stack'[i]) => i = k)
    BY <1>1, <1>2, <1>3, <2>1, <2>2 DEF Answers, Holds, Early
  <2>4. /\ info[stack[k].id].state = "active" /\ "startup" \notin evtSet /\ (~ ot.ok => Fresh)
    <3>1. ~ ot.ok => Open(stack[k + 1])
      BY DEF Open
    <3> QED BY <2>1, <3>1 DEF StartInv
  <2>5. Fresh' <=> Fresh
    BY <1>1 DEF Fresh, StartupOut
  <2>6. StartupOut' <=> StartupOut
    BY <1>1 DEF StartupOut
  <2>7. k \in 1 .. Depth' /\ ~ Asking(k)'
    BY <1>3, <2>3 DEF Asking
  <2>8. ASSUME NEW i \in 1 .. Depth, NEW d, Awaits(i, d) PROVE Awaits(k, d)'
    <3>1. i = k
      BY <2>2, <2>8 DEF Awaits
    <3> QED BY <1>1, <2>3, <2>8, <3>1 DEF Awaits, Early
  <2>9. (starting # NoInfo =>
           (\E i \in 1 .. Depth : Awaits(i, starting)) /\ ~ StartupOut /\ "startup" \notin evtSet)'
    BY <1>1, <2>6, <2>7, <2>8 DEF StartInv
  <2>10. (StartupOut => (\E i \in 1 .. Depth : Awaits(i, notif.info)) /\ "startup" \notin evtSet)'
    BY <1>1, <2>6, <2>7, <2>8 DEF StartInv
  <2>11. ASSUME NEW i \in 1 .. Depth', stack'[i].fn = "join", stack'[i].pc \in {"started", "woken"}
         PROVE  /\ stack'[i].pc = "started" /\ info'[stack'[i].id].state = "active" /\ ~ Asking(i)'
                /\ ~ stack'[i].ok => Fresh'
    BY <1>1, <2>3, <2>4, <2>5, <2>7, <2>11 DEF Early
  <2> QED BY <1>1, <2>4, <2>9, <2>10, <2>11 DEF StartInv
<1> QED BY <1>4, <1>5

\* ZbStartupWaitCb finds the network task that waits.
LEMMA StartCalledBack ==
  ASSUME TypesInv, StackInv, InfoInv, NotifInv, ShapeInv, NotNested, StartInv, StartupCallback
  PROVE  StartInv'
<1>1. /\ Top.fn = "notify" /\ Top.pc = "callback" /\ notif.kind = "startup" /\ GoesTo("ack", {})
      /\ info' = [info EXCEPT ![notif.info] = [state |-> IF @.state = "freed" THEN "corrupt" ELSE "done",
                                               ok |-> notif.ok]]
      /\ evtSet' = evtSet \cup {"startup"} /\ notif' = [notif EXCEPT !.processed = @ + 1]
      /\ UNCHANGED <<starting, flag>>
  BY Effects DEF StartupCallback, At, ipcc, radio
<1>2. /\ Depth \in Nat /\ Depth \in 1 .. Depth /\ Top = stack[Depth]
      /\ \A i \in 1 .. Depth : i = Depth \/ i \in 1 .. Depth - 1
      /\ \A i \in 1 .. Depth - 1 : i \in 1 .. Depth /\ i + 1 \in 1 .. Depth /\ i < Depth
                                   /\ (i + 1 = Depth \/ i + 1 < Depth)
  BY BelowTop
<1>3. Processing(Top)
  BY <1>1 DEF Processing
<1>4. flag["notif"] /\ notif.processed = 0
  BY <1>1, <1>2, <1>3 DEF NotifInv
<1>5. StartupOut /\ starting = NoInfo
  BY <1>1, <1>4 DEF StartupOut, StartInv
<1>6. PICK k \in 1 .. Depth : Awaits(k, notif.info)
  BY <1>5 DEF StartInv
<1>7. k \in 1 .. Depth - 1 /\ stack[k].fn = "join" /\ stack[k].pc \in {"started", "woken"}
      /\ OnTop(stack[k].fn, stack[k].pc, stack[k + 1].fn, stack[k + 1].arg)
  BY <1>1, <1>2, <1>6 DEF Awaits, Early, StackInv
<1>8. stack[k + 1].fn \notin {"cmd", "timer"}
  BY <1>1, <1>2, <1>7 DEF ShapeInv, InCommand, StackInv, InTimer
<1>9. stack[k].pc = "woken" /\ stack[k + 1].fn = "wait"
  BY <1>7, <1>8 DEF OnTop, Task
<1>10. notif.info \in Info /\ info[notif.info].state = "active" /\ stack[k].id = notif.info
  BY <1>1, <1>6 DEF InfoInv, Allocated, Awaits
<1>11. info'[notif.info].state = "done" /\ \A d \in Info : info'[d].state # "corrupt"
  BY <1>1, <1>10 DEF TypesInv, StartInv
<1>12. /\ Depth' = Depth /\ k \in 1 .. Depth' /\ stack'[k] = stack[k] /\ stack'[k + 1].fn = stack[k + 1].fn
       /\ \A i \in 1 .. Depth' : Early(stack'[i]) => i = k
  <2>1. \A i \in 1 .. Depth : Early(stack[i]) => i = k
    BY <1>7 DEF NotNested, Early
  <2>2. /\ Depth' = Depth /\ \A i \in 1 .. Depth : stack'[i].fn = stack[i].fn
        /\ \A i \in 1 .. Depth - 1 : stack'[i] = stack[i]
    BY <1>1, <1>2 DEF GoesTo, KeepsBelow, Holds
  <2> QED BY <1>1, <1>2, <1>7, <2>1, <2>2 DEF Early
<1>13. Waits(k)'
  BY <1>2, <1>7, <1>9, <1>12 DEF Waits
<1>14. ~ StartupOut'
  BY <1>1, <1>4 DEF StartupOut, TypesInv
<1>15. stack'[k].fn = "join" /\ stack'[k].pc = "woken" /\ info'[stack'[k].id].state = "done"
  BY <1>7, <1>9, <1>10, <1>11, <1>12
<1> QED BY <1>1, <1>5, <1>11, <1>12, <1>13, <1>14, <1>15 DEF StartInv, Early

\* The M0 answers the command: the start-up it accepts is the one awaited.
LEMMA StartAccepted ==
  ASSUME TypesInv, StackInv, InfoInv, CmdInv, SentInv, NotNested, StartInv, M0Answer, ot.op = "startup"
  PROVE  StartInv'
<1>1. /\ flag["cmd"] /\ flag' = [flag EXCEPT !["cmd"] = FALSE] /\ UNCHANGED <<stack, evtSet, notif, info>>
      /\ \E ok \in BOOLEAN : /\ ot' = [ot EXCEPT !.answered = TRUE, !.ok = ok]
                             /\ starting' = IF ok THEN ot.info ELSE starting
  <2>1. flag["cmd"]
    BY DEF M0Answer, CmdInv
  <2>2. {FALSE, starting = NoInfo} \subseteq BOOLEAN
    OBVIOUS
  <2> QED BY <2>1, <2>2 DEF M0Answer, seq, app
<1>2. Depth' = Depth /\ Depth \in Nat
  BY <1>1, BelowTop DEF Depth
<1>3. PICK k \in 1 .. Depth : stack[k].fn = "cmd" /\ stack[k].pc \notin {"begin", "send"}
  BY <1>1 DEF CmdInv, Idle, Phase
<1>4. k # 1
  BY <1>3 DEF StackInv
<1>5. PICK i \in 1 .. Depth - 1 : i + 1 = k
  BY <1>2, <1>3, <1>4
<1>6. /\ i \in 1 .. Depth /\ i < Depth /\ k - 1 = i
      /\ OnTop(stack[i].fn, stack[i].pc, stack[k].fn, stack[k].arg)
  BY <1>2, <1>5 DEF StackInv
<1>7. stack[k].arg = "startup" /\ ot.info = stack[i].id
  BY <1>3, <1>6 DEF SentInv
<1>8. stack[i].fn = "join" /\ stack[i].pc = "started" /\ Asking(i) /\ Open(stack[i + 1])
  BY <1>1, <1>3, <1>5, <1>6, <1>7 DEF OnTop, Task, Asking, Open
<1>9. Fresh /\ info[ot.info].state = "active" /\ \A j \in 1 .. Depth : Early(stack[j]) => j = i
  BY <1>6, <1>7, <1>8 DEF StartInv, NotNested, Early
<1>10. ~ StartupOut' /\ "startup" \notin evtSet' /\ ~ flag'["cmd"] /\ \A d \in Info : info'[d].state # "corrupt"
  BY <1>1, <1>9 DEF Fresh, StartupOut, StartInv, TypesInv, Channel
<1>11. i \in 1 .. Depth' /\ Awaits(i, ot.info)' /\ Asking(i)' /\ stack'[i + 1].pc \notin {"begin", "send"}
  BY <1>1, <1>2, <1>3, <1>5, <1>6, <1>7, <1>8, <1>9 DEF Awaits, Early, Asking
<1>12. \A j \in 1 .. Depth' : Early(stack'[j]) =>
          j = i /\ stack'[j].pc = "started" /\ info'[stack'[j].id].state = "active"
  BY <1>1, <1>2, <1>7, <1>8, <1>9
<1>13. CASE starting' = NoInfo
  BY <1>10, <1>12, <1>13 DEF StartInv, Fresh, Early
<1>14. CASE starting' # NoInfo
  <2>1. starting' = ot.info /\ ot'.ok
    BY <1>1, <1>9, <1>14 DEF Fresh, TypesInv
  <2>2. ~ Open(stack[i + 1])'
    BY <1>10, <1>11, <2>1 DEF Open
  <2>3. (\E j \in 1 .. Depth : Awaits(j, starting))'
    <3>1. Awaits(i, starting)'
      BY <1>1, <1>11, <2>1 DEF Awaits
    <3> QED BY <1>11, <3>1
  <2> QED BY <1>10, <1>11, <1>12, <2>2, <2>3 DEF StartInv, Early
<1> QED BY <1>13, <1>14

\* It reports the start-up.
LEMMA StartReported ==
  ASSUME TypesInv, StackInv, StartInv, M0StartupDone
  PROVE  StartInv'
<1>1. /\ starting # NoInfo /\ starting' = NoInfo /\ notif'.kind = "startup" /\ notif'.info = starting
      /\ flag' = [flag EXCEPT !["notif"] = TRUE] /\ UNCHANGED <<stack, evtSet, ot, info>>
  BY DEF M0StartupDone, seq, app
<1>2. Depth' = Depth /\ flag'["cmd"] = flag["cmd"]
  BY <1>1 DEF Depth, TypesInv, Channel
<1>3. ~ Fresh /\ "startup" \notin evtSet /\ \E i \in 1 .. Depth : Awaits(i, starting)
  BY <1>1 DEF Fresh, StartInv
<1>4. (\E i \in 1 .. Depth : Awaits(i, notif.info))'
  <2>1. PICK i \in 1 .. Depth : Awaits(i, starting)
    BY <1>3
  <2>2. Awaits(i, notif.info)'
    BY <1>1, <2>1 DEF Awaits
  <2> QED BY <1>2, <2>1, <2>2
<1>5. \A i : (Asking(i)' <=> Asking(i)) /\ (Waits(i)' <=> Waits(i)) /\ (Open(stack[i + 1])' <=> Open(stack[i + 1]))
  BY <1>1, <1>2 DEF Asking, Waits, Open
<1> QED BY <1>1, <1>2, <1>3, <1>4, <1>5 DEF StartInv

LEMMA StartStill ==
  ASSUME StartInv, StartSame, UNCHANGED <<starting, info, ot>>, "startup" \in evtSet' <=> "startup" \in evtSet,
         flag'["cmd"] = flag["cmd"], StartupOut' <=> StartupOut, StartupOut => notif'.info = notif.info
  PROVE  StartInv'
<1>1. \A i \in 1 .. Depth : Asking(i) /\ (flag'["cmd"] \/ ~ ot'.ok) => Open(stack[i + 1])
  BY DEF Open
<1> QED BY <1>1, StartQuiet

\* A command that has not rung the M0 yet.
LEMMA StartRings ==
  ASSUME TypesInv, StackInv, InfoInv, ShapeInv, StartInv, CmdFill \/ CmdSend
  PROVE  StartInv'
<1>1. /\ Top.fn = "cmd" /\ Top.pc \in {"begin", "send"} /\ \E pc : GoesTo(pc, {})
      /\ UNCHANGED <<starting, notif, evtSet, info>>
  BY Effects DEF CmdFill, CmdSend, At, seq, app, radio
<1>2. StartSame
  BY <1>1, StartSteps
<1>3. ASSUME NEW i \in 1 .. Depth, Asking(i) PROVE Open(stack[i + 1])
  <2>1. /\ Depth \in Nat /\ Depth \in 1 .. Depth /\ Top = stack[Depth]
        /\ i + 1 \in 1 .. Depth /\ (i + 1 = Depth \/ i + 1 < Depth)
    BY <1>3, BelowTop DEF Asking
  <2>2. i + 1 = Depth
    BY <1>1, <1>3, <2>1 DEF ShapeInv, InCommand, Asking
  <2> QED BY <1>1, <2>1, <2>2 DEF Open
<1>4. flag'["notif"] = flag["notif"]
  <2>1. CASE CmdFill
    BY <2>1 DEF CmdFill, ipcc
  <2>2. CASE CmdSend
    BY <2>2 DEF CmdSend, TypesInv, Channel
  <2> QED BY <2>1, <2>2
<1>5. StartupOut' <=> StartupOut
  BY <1>1, <1>4 DEF StartupOut
<1> QED BY <1>1, <1>2, <1>3, <1>5, StartQuiet

LEMMA StartThread ==
  ASSUME TypesInv, StackInv, InfoInv, NotifInv, ShapeInv, NotNested, NotNested', StartInv, Thread
  PROVE  StartInv'
<1>1. ASSUME StartSame, UNCHANGED <<starting, info, ot, notif, flag>>,
             "startup" \in evtSet' <=> "startup" \in evtSet
      PROVE  StartInv'
  <2>1. StartupOut' <=> StartupOut
    BY <1>1 DEF StartupOut
  <2> QED BY <1>1, <2>1, StartStill
<1>2. CASE CmdFill \/ CmdSend
  BY <1>2, StartRings
<1>3. CASE CmdReturn \/ StartupCallback \/ JoinStarted \/ JoinWoken \/ (JoinBegin /\ ~ joined)
  BY <1>3, StartAnswers, StartCalledBack, StartWaits, StartEnds, StartBegins
<1>4. CASE WaitReturn
  <2>1. CASE stack[Depth - 1].fn = "join"
    BY <1>4, <2>1, StartWoken
  <2>2. CASE stack[Depth - 1].fn # "join"
    <3>1. Leaves /\ Top.fn = "wait" /\ evtSet' = evtSet \ {Top.arg} /\ UNCHANGED <<starting, info, ot, notif, flag>>
      BY <1>4, Effects DEF WaitReturn, ipcc, app, radio
    <3>2. Top.arg # "startup"
      BY <2>2, <3>1, BelowTop DEF OnTop, Task
    <3>3. StartSame
      BY <2>2, <3>1, StartSteps DEF Early
    <3> QED BY <1>1, <3>1, <3>2, <3>3
  <2> QED BY <2>1, <2>2
<1>5. CASE (JoinBegin /\ joined) \/ SysReturn \/ SaveEnd \/ JoinEnd \/ AckEnable \/ TimerReturn
  <2>1. Leaves /\ Top.fn \notin {"cmd", "wait"} /\ ~ Early(Top)
    BY <1>5, Effects DEF JoinBegin, SysReturn, SaveEnd, JoinEnd, AckEnable, TimerReturn, At, Early
  <2>2. StartSame
    BY <2>1, StartSteps
  <2>3. UNCHANGED <<starting, info, ot, notif, flag, evtSet>>
    BY <1>5 DEF JoinBegin, SysReturn, SaveEnd, JoinEnd, AckEnable, TimerReturn, seq, ipcc, app, radio
  <2> QED BY <1>1, <2>2, <2>3
<1>6. CASE MaskLoad \/ SysSend
  <2>1. Top.fn # "join"
    BY <1>6, BelowTop DEF MaskLoad, SysSend, At, StackInv, PlacesOf
  <2>2. GoesTo("enable", {c \in Channel : enabled[c]}) \/ GoesTo("load", {})
    BY <1>6, Effects
  <2>3. StartSame
    BY <2>1, <2>2, StartSteps
  <2>4. UNCHANGED <<starting, info, ot, notif, evtSet>>
    BY <1>6 DEF MaskLoad, SysSend, seq, app, radio
  <2>5. flag'["cmd"] = flag["cmd"] /\ flag'["notif"] = flag["notif"]
    <3>1. CASE MaskLoad
      BY <3>1 DEF MaskLoad, ipcc
    <3>2. CASE SysSend
      BY <3>2 DEF SysSend, TypesInv, Channel
    <3> QED BY <1>6, <3>1, <3>2
  <2>6. StartupOut' <=> StartupOut
    BY <2>4, <2>5 DEF StartupOut
  <2> QED BY <2>3, <2>4, <2>5, <2>6, StartStill
<1>7. CASE Dispatch
  <2>1. PICK t \in Runnable : Enters(t)
    BY <1>7, Effects
  <2>2. t # "cmd"
    BY <2>1 DEF Runnable, TypesInv, Task
  <2>3. StartSame
    BY <2>1, <2>2, StartSteps
  <2> QED BY <1>1, <1>7, <2>3 DEF Dispatch, ipcc, app, radio
<1>8. CASE SaveGet \/ SaveEraseOff \/ JoinSave \/ TimerCallback \/ CmdEnable \/ SysEnable
  <2>1. /\ \E pc, id, fn, arg : pc \notin {"begin", "send", "started", "woken"} /\ CallsAt(pc, id, fn, arg)
        /\ Top.pc \notin {"started", "woken"}
    BY <1>8, Effects DEF SaveGet, SaveEraseOff, JoinSave, TimerCallback, CmdEnable, SysEnable, At
  <2>2. StartSame
    BY <2>1, StartSteps
  <2>3. UNCHANGED <<starting, info, ot, notif, flag, evtSet>>
    BY <1>8 DEF SaveGet, SaveEraseOff, JoinSave, TimerCallback, CmdEnable, SysEnable, seq, ipcc, app, radio
  <2> QED BY <1>1, <2>2, <2>3
<1>9. CASE SaveWrite
  <2>1. Top.fn = "save" /\ (Leaves \/ CallsAt("off", Top.id, "sys", "none"))
    BY <1>9, Effects DEF SaveWrite, At
  <2>2. StartSame
    BY <2>1, StartSteps DEF Early
  <2> QED BY <1>1, <1>9, <2>2 DEF SaveWrite, seq, ipcc, app, radio
<1>10. CASE NotifyBegin \/ RequestBegin
  <2>1. Top.fn \in {"notify", "request"} /\ (Leaves \/ GoesTo("callback", {}) \/ GoesTo("ack", {}))
    BY <1>10, Effects DEF NotifyBegin, RequestBegin, At
  <2>2. StartSame
    BY <2>1, StartSteps DEF Early
  <2>3. UNCHANGED <<starting, info, ot, notif, flag, evtSet>>
    BY <1>10 DEF NotifyBegin, RequestBegin, seq, ipcc, app, radio
  <2> QED BY <1>1, <2>2, <2>3
<1>11. CASE PersistCallback
  <2>1. /\ Top.fn = "notify" /\ CallsAt("ack", Top.id, "save", "none") /\ notif.kind = "persist"
        /\ notif' = [notif EXCEPT !.processed = @ + 1] /\ UNCHANGED <<starting, info, ot, flag, evtSet>>
    BY <1>11, Effects DEF PersistCallback, At, seq, ipcc, app, radio
  <2>2. StartSame
    BY <2>1, StartSteps
  <2>3. ~ StartupOut /\ ~ StartupOut'
    BY <2>1 DEF StartupOut, TypesInv
  <2> QED BY <2>1, <2>2, <2>3, StartStill
<1>12. CASE AckClear
  <2>1. /\ Top.fn \in {"notify", "request"} /\ Top.pc = "ack" /\ GoesTo("load", {})
        /\ flag' = [flag EXCEPT ![ChannelOf(Top.fn)] = FALSE]
        /\ UNCHANGED <<starting, info, ot, notif, evtSet>>
    BY <1>12, Effects DEF AckClear, At, seq, app, radio
  <2>2. StartSame
    BY <2>1, StartSteps
  <2>3. flag'["cmd"] = flag["cmd"] /\ (Top.fn = "request" => flag'["notif"] = flag["notif"])
        /\ (Top.fn = "notify" => ~ flag'["notif"])
    BY <2>1 DEF ChannelOf, TypesInv, Channel
  <2>4. Top.fn = "notify" => notif.processed = 1
    BY <2>1, BelowTop DEF NotifInv, Processing
  <2>5. StartupOut' <=> StartupOut
    <3>1. notif' = notif /\ (flag'["notif"] = flag["notif"] \/ notif.processed = 1)
      BY <2>1, <2>3, <2>4
    <3> QED BY <3>1 DEF StartupOut
  <2> QED BY <2>1, <2>2, <2>3, <2>5, StartStill
<1> QED BY <1>2, <1>3, <1>4, <1>5, <1>6, <1>7, <1>8, <1>9, <1>10, <1>11, <1>12 DEF Thread

LEMMA StartKept ==
  ASSUME TypesInv, StackInv, InfoInv, NotifInv, ShapeInv, CmdInv, SentInv, StartInv,
         NotNested, NotNested', [Next]_vars
  PROVE  StartInv'
<1>1. ASSUME stack' = stack PROVE StartSame
  <2>1. Depth' = Depth
    BY <1>1 DEF Depth
  <2> QED BY <1>1, <2>1 DEF StartSame, Waits, Asking
<1>2. CASE M0Answer
  <2>1. CASE ot.op = "startup"
    BY <1>2, <2>1, StartAccepted
  <2>2. CASE ot.op # "startup"
    <3>1. /\ ot' = [ot EXCEPT !.answered = TRUE, !.ok = TRUE] /\ flag' = [flag EXCEPT !["cmd"] = FALSE]
          /\ UNCHANGED <<stack, starting, info, notif, evtSet>>
      BY <1>2, <2>2 DEF M0Answer, seq, app
    <3>2. ot'.ok /\ ~ flag'["cmd"] /\ flag'["notif"] = flag["notif"]
      BY <3>1 DEF TypesInv, Channel
    <3>3. StartupOut' <=> StartupOut
      BY <3>1, <3>2 DEF StartupOut
    <3> QED BY <1>1, <3>1, <3>2, <3>3, StartQuiet
  <2> QED BY <2>1, <2>2
<1>3. CASE M0StartupDone
  BY <1>3, StartReported
<1>4. CASE M0Persist
  <2>1. /\ ~ flag["notif"] /\ notif'.kind = "persist" /\ flag' = [flag EXCEPT !["notif"] = TRUE]
        /\ UNCHANGED <<stack, starting, info, ot, evtSet>>
    BY <1>4 DEF M0Persist, seq, app, radio
  <2>2. flag'["cmd"] = flag["cmd"]
    BY <2>1 DEF TypesInv, Channel
  <2>3. ~ StartupOut /\ ~ StartupOut'
    BY <2>1 DEF StartupOut
  <2> QED BY <1>1, <2>1, <2>2, <2>3, StartStill
<1>5. CASE M0Malloc \/ M0SysAnswer \/ M0Log
  <2>1. /\ \E c \in Channel \ {"cmd", "notif"}, b \in BOOLEAN : flag' = [flag EXCEPT ![c] = b]
        /\ UNCHANGED <<stack, starting, info, ot, notif, evtSet>>
    BY <1>5 DEF M0Malloc, M0SysAnswer, M0Log, seq, app, radio, Channel
  <2>2. flag'["cmd"] = flag["cmd"] /\ flag'["notif"] = flag["notif"]
    BY <2>1 DEF TypesInv, Channel
  <2>3. StartupOut' <=> StartupOut
    BY <2>1, <2>2 DEF StartupOut
  <2> QED BY <1>1, <2>1, <2>2, <2>3, StartStill
<1>6. CASE M0Take \/ M0Allocated \/ Press \/ RxHandler \/ TxHandler \/ TimerExpires \/ UNCHANGED vars
  <2>1. UNCHANGED <<starting, info, ot, notif, flag>> /\ (stack' = stack \/ TimerExpires)
    BY <1>6 DEF M0Take, M0Allocated, Press, RxHandler, TxHandler, TimerExpires, vars, ipcc, app, radio
  <2>2. "startup" \in evtSet' <=> "startup" \in evtSet
    BY <1>6 DEF M0Take, M0Allocated, Press, RxHandler, TxHandler, TimerExpires, vars, seq
  <2>3. StartSame
    BY <1>1, <2>1, Effects, StartSteps
  <2>4. StartupOut' <=> StartupOut
    BY <2>1 DEF StartupOut
  <2> QED BY <2>1, <2>2, <2>3, <2>4, StartStill
<1> QED BY <1>2, <1>3, <1>4, <1>5, <1>6, StartThread DEF Next, M0Serves

-----------------------------------------------------------------------------
(* Both waits end with what they waited for. *)

WaitInv == IpcInv /\ ShapeInv /\ CmdInv /\ CountsInv /\ SentInv /\ SysInv /\ StartInv

LEMMA WaitInit == Init => WaitInv
<1> SUFFICES ASSUME Init PROVE WaitInv
  OBVIOUS
<1>1. Depth = 1 /\ stack[1].fn = "main" /\ stack[1].reg = {}
  <2>1. stack = <<NewFrame("main", "none", 1)>>
    BY DEF Init
  <2>2. NewFrame("main", "none", 1).fn = "main" /\ NewFrame("main", "none", 1).reg = {}
    BY DEF NewFrame
  <2>3. \A x : Len(<<x>>) = 1 /\ <<x>>[1] = x
    OBVIOUS
  <2> QED BY <2>1, <2>2, <2>3 DEF Depth
<1>2. \A i \in 1 .. Depth : stack[i].fn = "main" /\ stack[i].reg = {}
  BY <1>1
<1>3. /\ \A c \in Channel : ~ flag[c]
      /\ ~ enabled["sys"] /\ evtSet = {} /\ cptNotify = 0 /\ cptRequest = 0
      /\ notif.kind = "persist" /\ starting = NoInfo /\ ~ persistCb
      /\ \A d \in Info : info[d].state = "none"
  BY DEF Init, Channel
<1>4. ASSUME NEW c \in {"notif", "request"} PROVE CountInv(c)
  BY <1>2, <1>3 DEF CountInv, Cpt, Busy, FnOf, Loaded, Channel
<1>5. CountsInv
  BY <1>4 DEF CountsInv
<1>6. SentInv
  BY <1>2 DEF SentInv
<1>7. SysInv
  BY <1>2, <1>3 DEF SysInv, SysIdle, SysUnarmed, Loaded, Channel
<1>8. StartInv
  BY <1>2, <1>3 DEF StartInv, StartupOut, Channel
<1> QED BY <1>5, <1>6, <1>7, <1>8, IpcInit, CmdInit DEF WaitInv

LEMMA WaitSound ==
  ASSUME WaitInv
  PROVE  WaitsGetTheirOwn
<1> USE DEF WaitInv, IpcInv
<1>1. TypeOK
  <2>1. cptNotify \in 0 .. 2 /\ cptRequest \in 0 .. 2
    BY DEF CountsInv, CountInv, Cpt
  <2>2. notif.processed \in 0 .. 1
    BY DEF NotifInv
  <2>3. notif \in [kind : {"startup", "persist"}, info : Nat, ok : BOOLEAN, processed : 0 .. 1]
    BY <2>2 DEF TypesInv
  <2> QED BY <2>1, <2>3 DEF TypeOK, TypesInv, StackInv, OnStack
<1>2. Depth \in 1 .. Depth /\ Top = stack[Depth] /\ ~ Waits(Depth)
  BY BelowTop DEF Waits
<1>3. StartupWaitIsBlocking
  BY <1>2 DEF StartupWaitIsBlocking, StartInv, At
<1>4. SysWaitGetsItsResponse
  <2>1. ASSUME At("sys", "return") PROVE sysBuf.answered /\ sysBuf.owner = Top.id
    BY <1>2, <2>1 DEF SysInv, SysPhase, SysIdle, StackInv, At
  <2> QED BY <2>1 DEF SysWaitGetsItsResponse
<1> QED BY <1>1, <1>3, <1>4 DEF WaitsGetTheirOwn

LEMMA WaitKept ==
  ASSUME ~ TimerPreempts, NotNested, NotNested', WaitInv, [Next]_vars
  PROVE  WaitInv'
<1> USE DEF WaitInv, IpcInv
<1>1. IpcInv'
  BY TypesKept, StackKept, InfoKept, NotifKept
<1>2. ShapeInv' /\ CmdInv' /\ SentInv'
  BY ShapeKept, CmdKept, SentKept
<1>3. CountsInv'
  <2>1. ASSUME NEW c \in {"notif", "request"} PROVE CountInv(c)'
    <3>1. CountInv(c)
      BY DEF CountsInv
    <3> QED BY <3>1, CountKept
  <2> QED BY <2>1 DEF CountsInv
<1>4. SysInv' /\ StartInv'
  BY SysKept, StartKept
<1> QED BY <1>1, <1>2, <1>3, <1>4

(* ZbStartupWait and shci_cmd_resp_wait, the two waits in which every task  *)
(* may run, go wrong in one way only: as long as no start-up is waited for  *)
(* inside another one, and no system command inside another one, the        *)
(* network task reads the result of its own start-up and frees a block that *)
(* nothing writes to any more, and a system command has its own response.   *)
(* That holds with buttons pressed and persistent data changed at any time, *)
(* during a start-up and a save too.  The timer's interrupt does not come   *)
(* while a command or a request is served.                                  *)
THEOREM WaitsGoWrongOnlyNested ==
  ASSUME ~ TimerPreempts
  PROVE  Init /\ [][Next]_vars /\ []NotNested => []WaitsGetTheirOwn
<1>1. NotNested /\ NotNested' /\ WaitInv /\ [Next]_vars => WaitInv'
  BY WaitKept
<1>2. WaitInv => WaitsGetTheirOwn
  BY WaitSound
<1> QED BY <1>1, <1>2, WaitInit, PTL
=============================================================================
