-------------------------- MODULE VmuRuntimeProofs --------------------------
(* Proofs about VmuRuntime, for any number of interrupt sources, any call   *)
(* depth and any budget.                                                    *)
EXTENDS VmuRuntime, SequenceTheorems, FiniteSetTheorems, WellFoundedInduction,
        TLAPS

(* The inductive invariant.  The C stack has a definite shape: a run's      *)
(* entry frame can only be at the bottom, and the bottom frame was entered  *)
(* by the runtime and not by a tail call, so that a return ends somewhere.  *)

StackShape ==
  /\ pc = "host" => cstack = <<>>
  /\ cstack = <<>> => pc \in {"host", "check"}
  /\ run_active <=> (cstack # <<>> /\ cstack[1].kind = "entry")
  /\ \A n \in 1 .. Len(cstack) : cstack[n].kind = "entry" => n = 1
  /\ cstack # <<>> => cstack[1].kind \in {"entry", "isr"}

\* The flag guards the C stack: while it is clear, every handler frame there
\* is has been released, and only a released one has another above it.
HandlerMarked ==
  /\ released \subseteq Handlers
  /\ ~in_isr => Handlers \subseteq released
  /\ HandlersNestOnlyAfterReti

Slack == IF HandlerRunning THEN MaxBlock ELSE 0

\* How far past the deadline control can be at each point of a run.  Only a
\* handler that has not got past its first block runs beyond it, and no code
\* that could be interrupted does.
BudgetLeft ==
  run_active => /\ pc = "transfer" => left > 0
                /\ pc = "code" => left >= - Slack /\ (~in_isr => left >= 0)
                /\ pc = "check" => left >= - MaxBlock - Slack

IInv == TypeOK /\ StackShape /\ HandlerMarked /\ BudgetLeft

-----------------------------------------------------------------------------
(* Facts about frames, the stack and SP.                                    *)

\* Every way of entering a frame makes one that the C stack may hold.
LEMMA FrameFacts ==
  /\ \A k \in {"entry", "call", "tail"} :
       Plain(k) \in Frame /\ Plain(k).kind = k
  /\ \A i \in Irqs : Isr(i) \in Frame /\ Isr(i).kind = "isr" /\ Isr(i).irq = i
BY DEF Plain, Isr, Frame

\* Pushing a frame leaves the frames below it alone.
LEMMA PushFrame ==
  ASSUME NEW s \in Seq(Frame), NEW f \in Frame
  PROVE  /\ Append(s, f) \in Seq(Frame)
         /\ Append(s, f) # <<>>
         /\ Len(Append(s, f)) = Len(s) + 1
         /\ Append(s, f)[Len(s) + 1] = f
         /\ \A n \in 1 .. Len(s) : Append(s, f)[n] = s[n]
OBVIOUS

\* Returning from frame n leaves the frames below it alone.
LEMMA PopFrames ==
  ASSUME NEW s \in Seq(Frame), NEW n \in 1 .. Len(s)
  PROVE  /\ SubSeq(s, 1, n - 1) \in Seq(Frame)
         /\ Len(SubSeq(s, 1, n - 1)) = n - 1
         /\ \A m \in 1 .. n - 1 : SubSeq(s, 1, n - 1)[m] = s[m]
<1>1. \A i \in 1 .. n - 1 : s[i] \in Frame
  BY ElementOfSeq
<1> QED
  BY <1>1, SubSeqProperties

\* A new frame is a handler or leaves the handlers there are.
LEMMA HandlersPush ==
  ASSUME TypeOK, NEW f \in Frame, cstack' = Append(cstack, f)
  PROVE  /\ f.kind = "isr" => Handlers' = Handlers \cup {Len(cstack) + 1}
         /\ f.kind # "isr" => Handlers' = Handlers
         /\ Handlers \subseteq 1 .. Len(cstack)
         /\ \A n \in Handlers : cstack'[n] = cstack[n]
<1>1. cstack \in Seq(Frame) /\ Len(cstack) \in Nat
  BY DEF TypeOK
<1>2. /\ cstack' \in Seq(Frame) /\ Len(cstack') = Len(cstack) + 1
      /\ cstack'[Len(cstack) + 1] = f
      /\ \A n \in 1 .. Len(cstack) : cstack'[n] = cstack[n]
  BY <1>1, PushFrame
<1>3. /\ DOMAIN cstack = 1 .. Len(cstack)
      /\ DOMAIN cstack' = (1 .. Len(cstack)) \cup {Len(cstack) + 1}
  BY <1>1, <1>2, LenProperties
<1> QED BY <1>2, <1>3 DEF Handlers

\* Every non-empty set of numbers has a least element.
LEMMA NatLeast ==
  ASSUME NEW P \in SUBSET Nat, P # {}
  PROVE  \E i \in P : \A j \in P : i <= j
<1> DEFINE R == OpToRel(<, Nat)
<1>1. \E i \in P : \A j \in P : <<j, i>> \notin R
  <2> HIDE DEF R
  <2>1. IsWellFoundedOn(R, Nat)
    BY NatLessThanWellFounded DEF R
  <2> QED BY <2>1, WFMin
<1>2. \A i, j \in P : <<j, i>> \notin R => i <= j
  BY DEF OpToRel
<1> QED BY <1>1, <1>2

\* The most urgent of a non-empty set of sources is one of them, and no other
\* one goes first.
LEMMA MostUrgentIn ==
  ASSUME NEW P \in SUBSET Irqs, P # {}
  PROVE  MostUrgent(P) \in P /\ \A j \in P : MostUrgent(P) <= j
<1>1. P \in SUBSET Nat
  BY RuntimeConstants DEF Irqs
<1> QED BY <1>1, NatLeast DEF MostUrgent

\* A return ends at a frame that is on the stack and not a tail call's.
LEMMA ReturnIndexIn ==
  ASSUME TypeOK, StackShape, cstack # <<>>
  PROVE  /\ ReturnIndex \in 1 .. Len(cstack) /\ Returning.kind # "tail"
         /\ \A m \in ReturnIndex + 1 .. Len(cstack) : cstack[m].kind = "tail"
<1> DEFINE Above == {k \in 0 .. Len(cstack) - 1 :
                       cstack[Len(cstack) - k].kind # "tail"}
<1>1. cstack \in Seq(Frame) /\ Len(cstack) \in Nat \ {0}
  BY EmptySeq DEF TypeOK
<1>2. Len(cstack) - 1 \in Above
  BY <1>1 DEF StackShape
<1>3. PICK k \in Above : \A j \in Above : k <= j
  <2>1. Above \in SUBSET Nat
    BY <1>1
  <2> HIDE DEF Above
  <2> QED BY <2>1, <1>2, NatLeast
<1>4. /\ Len(cstack) - k \in 1 .. Len(cstack)
      /\ cstack[Len(cstack) - k].kind # "tail"
  BY <1>1, <1>3
<1>5. \A m \in Len(cstack) - k + 1 .. Len(cstack) : cstack[m].kind = "tail"
  <2> SUFFICES ASSUME NEW m \in Len(cstack) - k + 1 .. Len(cstack),
                      cstack[m].kind # "tail"
               PROVE  FALSE
    OBVIOUS
  <2>1. Len(cstack) - m \in 0 .. Len(cstack) - 1 /\ k \in Nat
    BY <1>1, <1>4
  <2>2. Len(cstack) - (Len(cstack) - m) = m
    BY <1>1
  <2>3. Len(cstack) - m \in Above
    BY <2>1, <2>2
  <2>4. Len(cstack) - m < k
    BY <1>1, <2>1
  <2>5. k <= Len(cstack) - m
    BY <2>3, <1>3
  <2> QED BY <1>1, <2>1, <2>4, <2>5
<1> HIDE DEF Above
<1> QED BY <1>4, <1>5 DEF ReturnIndex, Returning

\* A return leaves the handlers below the frame it returns from; above that
\* one there were none.
LEMMA HandlersPop ==
  ASSUME TypeOK, StackShape, cstack # <<>>,
         cstack' = SubSeq(cstack, 1, ReturnIndex - 1)
  PROVE  /\ Handlers' = Handlers \cap Remaining
         /\ Returning.kind = "isr" =>
              /\ ReturnIndex \in Handlers
              /\ \A m \in Handlers : m <= ReturnIndex
              /\ Handlers \cap Remaining = Handlers \ {ReturnIndex}
         /\ Returning.kind # "isr" => Handlers \cap Remaining = Handlers
         /\ \A m \in Handlers' : cstack'[m] = cstack[m]
<1> DEFINE n == ReturnIndex
<1>1. cstack \in Seq(Frame) /\ Len(cstack) \in Nat
  BY DEF TypeOK
<1>2. /\ n \in 1 .. Len(cstack) /\ Returning = cstack[n]
      /\ \A m \in n + 1 .. Len(cstack) : cstack[m].kind = "tail"
  BY ReturnIndexIn DEF Returning
<1>3. /\ cstack' \in Seq(Frame) /\ Len(cstack') = n - 1
      /\ \A m \in 1 .. n - 1 : cstack'[m] = cstack[m]
  BY <1>1, <1>2, PopFrames
<1>4. DOMAIN cstack = 1 .. Len(cstack) /\ DOMAIN cstack' = 1 .. n - 1
  BY <1>1, <1>3, LenProperties
<1>5. Remaining = 1 .. n - 1
  BY DEF Remaining
<1> HIDE DEF n
<1>6. \A m \in Handlers : m \in 1 .. n
  BY <1>1, <1>2, <1>4 DEF Handlers
<1>7. Handlers' = Handlers \cap Remaining
  BY <1>1, <1>2, <1>3, <1>4, <1>5 DEF Handlers
<1>8. \A m \in Handlers' : cstack'[m] = cstack[m]
  BY <1>3, <1>5, <1>7
<1>9. \A m \in Handlers : m <= n /\ (m \in Remaining <=> m # n)
  BY <1>1, <1>2, <1>5, <1>6
<1>10. n \in Handlers <=> cstack[n].kind = "isr"
  BY <1>2, <1>4 DEF Handlers
<1> QED BY <1>2, <1>7, <1>8, <1>9, <1>10 DEF n

\* SP stays a byte, whatever is pushed or popped.
LEMMA SPRange ==
  ASSUME NEW s \in 0 .. SPSize - 1
  PROVE  PushPair(s) \in 0 .. SPSize - 1 /\ PopPair(s) \in 0 .. SPSize - 1
BY RuntimeConstants DEF PushPair, PopPair

-----------------------------------------------------------------------------
(* Every step preserves the invariant.                                      *)

\* The invariant holds at power-on.
LEMMA InitIInv == Init => IInv
<1> SUFFICES ASSUME Init PROVE IInv
  OBVIOUS
<1>1. InitialSP \in 0 .. SPSize - 1
  BY RuntimeConstants DEF InitialSP
<1>2. cstack \in Seq(Frame) /\ Len(cstack) = 0
  BY EmptySeq DEF Init
<1>3. \A b \in {in_isr, ie, astray, run_active} : b \in BOOLEAN /\ ~b
  BY Zenon DEF Init
<1>4. TypeOK
  BY <1>1, <1>2, <1>3 DEF Init, TypeOK
<1>5. Handlers = {}
  BY <1>2, LenProperties DEF Handlers
<1>6. StackShape /\ HandlerMarked /\ BudgetLeft
  BY <1>2, <1>5 DEF Init, StackShape, HandlerMarked, BudgetLeft,
                    HandlersNestOnlyAfterReti
<1> QED BY <1>4, <1>6 DEF IInv

\* The part of vmu_rt_tick before its deadline check.
LEMMA TickIInv ==
  ASSUME IInv, pc \in {"host", "code"}, NEW c \in 0 .. MaxBlock,
         NEW R \in SUBSET Irqs, Tick(c, R),
         base' \in 0 .. SPSize - 1, astray' \in BOOLEAN, released' = released
  PROVE  IInv'
<1> DEFINE P == pending \cup R
<1> USE RuntimeConstants
<1>1. P \in SUBSET Irqs /\ cstack \in Seq(Frame) /\ Len(cstack) \in Nat
  BY DEF IInv, TypeOK
<1>2. left' \in Int /\ (run_active => left' = left - c)
  BY DEF Tick, Charge, IInv, TypeOK
<1>3. CASE StartHandler(P)
  <2>1. MostUrgent(P) \in P
    BY <1>1, <1>3, MostUrgentIn DEF StartHandler, CanTake
  <2> DEFINE f == Isr(MostUrgent(P))
  <2>2. f \in Frame /\ f.kind = "isr"
    BY <1>1, <2>1, FrameFacts
  <2>3. cstack' = Append(cstack, f) /\ in_isr' /\ ~in_isr /\ pc' = "code"
    BY <1>3 DEF StartHandler, CanTake
  <2> HIDE DEF f
  <2>4. /\ cstack' \in Seq(Frame) /\ cstack' # <<>>
        /\ Len(cstack') = Len(cstack) + 1
        /\ cstack'[Len(cstack) + 1] = f
        /\ \A n \in 1 .. Len(cstack) : cstack'[n] = cstack[n]
    BY <1>1, <2>2, <2>3, PushFrame
  <2>5. TypeOK'
    <3>1. released' \in SUBSET (1 .. Len(cstack'))
      BY <1>1, <2>4 DEF IInv, TypeOK
    <3>2. pending' \in SUBSET Irqs /\ sp' \in 0 .. SPSize - 1 /\ in_isr' = TRUE
      BY <1>1, <1>3, SPRange DEF IInv, TypeOK, StartHandler, Taken
    <3> QED BY <1>2, <2>3, <2>4, <3>1, <3>2 DEF IInv, TypeOK, Tick, machine
  <2>6. StackShape'
    BY <1>1, <2>2, <2>3, <2>4, EmptySeq DEF IInv, TypeOK, StackShape, Tick
  <2>7. /\ Handlers' = Handlers \cup {Len(cstack) + 1}
        /\ Handlers \subseteq 1 .. Len(cstack)
    BY <2>2, <2>3, HandlersPush DEF IInv
  <2>8. HandlerRunning' /\ HandlerMarked'
    <3>1. released = Handlers
      BY <2>3, Zenon DEF IInv, HandlerMarked
    <3>2. \A m, n \in Handlers' : m < n => m \in released'
      BY <1>1, <2>7, <3>1
    <3> QED BY <2>3, <2>7, <3>1, <3>2
            DEF HandlerRunning, HandlerMarked, HandlersNestOnlyAfterReti
  <2>9. run_active => left >= 0
    BY <2>3 DEF IInv, StackShape, BudgetLeft
  <2>10. BudgetLeft'
    BY <1>2, <2>3, <2>8, <2>9 DEF BudgetLeft, Slack, IInv, TypeOK, Tick
  <2> QED BY <2>5, <2>6, <2>8, <2>10 DEF IInv
<1>4. CASE NoHandlerStarted(P)
  <2>1. cstack' = cstack /\ pc' = "check" /\ UNCHANGED <<in_isr, run_active>>
    BY <1>4 DEF NoHandlerStarted, Tick
  <2>2. TypeOK'
    BY <1>1, <1>2, <1>4
       DEF IInv, TypeOK, NoHandlerStarted, PutBack, Tick, machine
  <2>3. Handlers' = Handlers
    BY <2>1 DEF Handlers
  <2>4. StackShape' /\ HandlerMarked'
    BY <2>1, <2>3 DEF IInv, StackShape, HandlerMarked, HandlersNestOnlyAfterReti
  <2>5. run_active => pc = "code"
    BY DEF IInv, StackShape
  <2>6. BudgetLeft'
    BY <1>2, <2>1, <2>3, <2>5
       DEF IInv, TypeOK, BudgetLeft, Slack, HandlerRunning
  <2> QED BY <2>2, <2>4, <2>6 DEF IInv
<1> QED BY <1>3, <1>4 DEF Tick

\* A call or a tail call: a frame that is neither an entry nor a handler.
LEMMA PushIInv ==
  ASSUME IInv, pc = "transfer", NEW k \in {"call", "tail"},
         cstack' = Append(cstack, Plain(k)), pc' = "code",
         sp' \in 0 .. SPSize - 1,
         UNCHANGED <<in_isr, pending, machine, run_active, left, result, history>>
  PROVE  IInv'
<1>1. cstack \in Seq(Frame) /\ Len(cstack) \in Nat \ {0}
  BY EmptySeq DEF IInv, TypeOK, StackShape
<1>2. Plain(k) \in Frame /\ Plain(k).kind = k
  BY FrameFacts
<1>3. /\ cstack' \in Seq(Frame) /\ cstack' # <<>>
      /\ Len(cstack') = Len(cstack) + 1
      /\ cstack'[Len(cstack) + 1] = Plain(k)
      /\ \A n \in 1 .. Len(cstack) : cstack'[n] = cstack[n]
  BY <1>1, <1>2, PushFrame
<1>4. TypeOK'
  BY <1>3 DEF IInv, TypeOK, machine, history
<1>5. StackShape'
  BY <1>1, <1>2, <1>3, EmptySeq DEF IInv, TypeOK, StackShape
<1>6. HandlerMarked'
  <2>1. Handlers' = Handlers
    BY <1>2, HandlersPush DEF IInv
  <2> QED BY <2>1 DEF IInv, HandlerMarked, HandlersNestOnlyAfterReti, history
<1>7. BudgetLeft'
  BY RuntimeConstants DEF IInv, TypeOK, BudgetLeft, Slack
<1> QED BY <1>4, <1>5, <1>6, <1>7 DEF IInv

\* The C return of the innermost function, whoever called it.  It may only
\* clear the flag of handlers it leaves on the stack if it releases them.
LEMMA ReturnIInv ==
  ASSUME IInv, pc = "transfer", NEW flag, flag \in BOOLEAN, Return(flag),
         NEW R \in SUBSET Handlers, released \subseteq R,
         released' = R \cap Remaining,
         Returning.kind = "isr" \/ R = Handlers \/ flag = in_isr,
         sp' \in 0 .. SPSize - 1, astray' \in BOOLEAN,
         UNCHANGED <<pending, machine, base>>
  PROVE  IInv'
<1> DEFINE n == ReturnIndex
<1>1. cstack \in Seq(Frame) /\ cstack # <<>> /\ Len(cstack) \in Nat \ {0}
  BY EmptySeq DEF IInv, TypeOK, StackShape
<1>2. n \in 1 .. Len(cstack) /\ cstack[n].kind # "tail"
  BY <1>1, ReturnIndexIn DEF IInv, Returning
<1>3. /\ cstack' \in Seq(Frame) /\ Len(cstack') = n - 1
      /\ \A m \in 1 .. n - 1 : cstack'[m] = cstack[m]
  BY <1>1, <1>2, PopFrames DEF Return
<1>4. /\ cstack' = <<>> <=> n = 1
      /\ Remaining = DOMAIN cstack' /\ DOMAIN cstack' = 1 .. Len(cstack')
  BY <1>1, <1>2, <1>3, EmptySeq, LenProperties DEF Remaining
<1> HIDE DEF n
<1>5. TypeOK'
  <2>1. in_isr' \in BOOLEAN /\ run_active' \in BOOLEAN
    BY Zenon DEF IInv, TypeOK, Return
  <2>2. left' \in Int /\ result' \in {-1, 0, 1}
    BY DEF IInv, TypeOK, Return
  <2>3. pc' \in {"host", "code", "check"}
    BY DEF Return
  <2>4. released' \in SUBSET (1 .. Len(cstack'))
    BY <1>4
  <2> QED BY <1>3, <2>1, <2>2, <2>3, <2>4 DEF IInv, TypeOK, machine
<1>6. Handlers' = Handlers \cap Remaining
  BY <1>1, HandlersPop DEF IInv, Return
<1>7. HandlerMarked'
  <2>1. \A m, k \in Handlers' : m < k => m \in released'
    BY <1>6 DEF IInv, HandlerMarked, HandlersNestOnlyAfterReti
  <2>2. released' \subseteq Handlers'
    BY <1>6
  <2>3. ASSUME ~in_isr' PROVE Handlers' \subseteq released'
    <3>1. CASE Returning.kind = "isr"
      <4>1. ReturnIndex \in Handlers /\ \A m \in Handlers' : m < ReturnIndex
        <5>1. \A m \in Handlers' : m \in Remaining
          BY <1>6
        <5> QED BY <1>1, <1>2, <3>1, <5>1, HandlersPop
                DEF IInv, Return, Remaining, n
      <4>2. \A m \in Handlers' : m \in released /\ m \in Remaining
        BY <1>6, <4>1 DEF IInv, HandlerMarked, HandlersNestOnlyAfterReti
      <4> QED BY <4>2
    <3>2. CASE R = Handlers
      BY <1>6, <3>2
    <3>3. CASE Returning.kind # "isr" /\ flag = in_isr
      <4>1. ~in_isr
        BY <2>3, <3>3, Zenon DEF Return
      <4> QED BY <1>6, <4>1 DEF IInv, HandlerMarked
    <3> QED BY <3>1, <3>2, <3>3
  <2> QED BY <2>1, <2>2, <2>3 DEF HandlerMarked, HandlersNestOnlyAfterReti
<1>8. run_active => left > 0
  BY DEF IInv, BudgetLeft
<1>9. CASE cstack[n].kind = "entry"
  <2>1. n = 1 /\ pc' = "host" /\ ~run_active' /\ run_active
    BY <1>1, <1>2, <1>9 DEF IInv, StackShape, Return, Returning, n
  <2> QED BY <1>3, <1>4, <1>5, <1>7, <2>1
          DEF IInv, StackShape, BudgetLeft
<1>10. CASE cstack[n].kind = "call"
  <2>1. pc' = "code" /\ UNCHANGED <<run_active, left>>
    BY <1>2, <1>10 DEF Return, Returning, n
  <2>2. n # 1
    BY <1>1, <1>10 DEF IInv, StackShape
  <2>3. StackShape'
    BY <1>1, <1>2, <1>3, <1>4, <2>1, <2>2 DEF IInv, StackShape
  <2>4. BudgetLeft'
    BY <1>5, <1>8, <2>1, RuntimeConstants DEF TypeOK, BudgetLeft, Slack
  <2> QED BY <1>5, <1>7, <2>3, <2>4 DEF IInv
<1>11. CASE cstack[n].kind = "isr"
  <2>1. pc' = "check" /\ UNCHANGED <<run_active, left>>
    BY <1>2, <1>11 DEF Return, Returning, n
  <2>2. StackShape'
    BY <1>1, <1>2, <1>3, <1>4, <1>11, <2>1 DEF IInv, StackShape
  <2>3. BudgetLeft'
    BY <1>5, <1>8, <2>1, RuntimeConstants DEF TypeOK, BudgetLeft, Slack
  <2> QED BY <1>5, <1>7, <2>2, <2>3 DEF IInv
<1> QED
  <2>1. cstack[n].kind \in {"entry", "call", "tail", "isr"}
    BY <1>1, <1>2, ElementOfSeq DEF Frame
  <2> QED BY <2>1, <1>2, <1>9, <1>10, <1>11

\* What the host does between runs, and WriteIE, leave the stack alone.
LEMMA HostIInv ==
  ASSUME IInv, Host
  PROVE  IInv'
<1> USE RuntimeConstants
<1>1. pc = "host" /\ cstack = <<>> /\ ~run_active /\ Len(cstack) = 0
  BY EmptySeq DEF IInv, TypeOK, StackShape, Host, Run, RunNothing, HostTick,
         HostRaise, Register, ClearRegistry, HostReset
<1> USE DEF Handlers, HandlersNestOnlyAfterReti
<1>2. ASSUME NEW f \in Funcs, NEW b \in 0 .. MaxBudget, Run(f, b)
      PROVE  IInv'
  <2>1. /\ cstack' \in Seq(Frame) /\ cstack' # <<>> /\ Len(cstack') = 1
        /\ cstack'[1].kind = "entry"
    BY <1>2, FrameFacts DEF Run
  <2>2. TypeOK'
    <3>1. left' \in Int /\ sp' \in 0 .. SPSize - 1 /\ base' \in 0 .. SPSize - 1
      BY <1>2 DEF IInv, TypeOK, Run
    <3>2. astray' \in BOOLEAN /\ run_active' \in BOOLEAN
      BY <1>2, Zenon DEF Run
    <3>3. released = {} /\ released' = {}
      BY <1>1, <1>2 DEF Run, IInv, TypeOK
    <3> QED BY <1>2, <2>1, <3>1, <3>2, <3>3 DEF IInv, TypeOK, Run, machine
  <2>3. StackShape' /\ HandlerMarked'
    <3>1. Handlers' = {}
      BY <2>1, LenProperties
    <3>2. released' = {}
      BY <1>1, <1>2 DEF Run, IInv, TypeOK
    <3> QED BY <1>2, <2>1, <3>1, <3>2 DEF StackShape, HandlerMarked, Run
  <2>4. BudgetLeft'
    BY <1>2, <2>2 DEF BudgetLeft, Run, TypeOK, Slack
  <2> QED BY <2>2, <2>3, <2>4 DEF IInv
<1>3. ASSUME NEW f \in Funcs, RunNothing(f)
      PROVE  IInv'
  BY <1>1, <1>3 DEF IInv, TypeOK, StackShape, HandlerMarked, BudgetLeft,
                    RunNothing, machine, history
<1>4. ASSUME NEW c \in 0 .. MaxBlock, NEW R \in SUBSET Irqs, HostTick(c, R)
      PROVE  IInv'
  BY <1>1, <1>4, TickIInv DEF HostTick, IInv, TypeOK
<1>5. ASSUME NEW i \in Irqs, HostRaise(i)
      PROVE  IInv'
  BY <1>1, <1>5 DEF IInv, TypeOK, StackShape, HandlerMarked, BudgetLeft,
                    HostRaise, machine, history
<1>6. ASSUME NEW a \in Irqs \cup Funcs, Register(a)
      PROVE  IInv'
  BY <1>1, <1>6 DEF IInv, TypeOK, StackShape, HandlerMarked, BudgetLeft,
                    Register, history
<1>7. ASSUME ClearRegistry
      PROVE  IInv'
  BY <1>1, <1>7 DEF IInv, TypeOK, StackShape, HandlerMarked, BudgetLeft,
                    ClearRegistry, history
<1>8. ASSUME HostReset
      PROVE  IInv'
  <2>1. InitialSP \in 0 .. SPSize - 1
    BY DEF InitialSP
  <2>2. in_isr' \in BOOLEAN /\ ie' \in BOOLEAN
    BY <1>8, Zenon DEF HostReset
  <2>3. TypeOK'
    BY <1>8, <2>1, <2>2 DEF IInv, TypeOK, HostReset, history
  <2>4. StackShape' /\ HandlerMarked' /\ BudgetLeft'
    BY <1>1, <1>8, EmptySeq
       DEF IInv, TypeOK, StackShape, HandlerMarked, BudgetLeft, HostReset, history
  <2> QED BY <2>3, <2>4 DEF IInv
<1> QED BY <1>2, <1>3, <1>4, <1>5, <1>6, <1>7, <1>8 DEF Host

\* No step of the code, the runtime or the host breaks the invariant.
LEMMA NextIInv ==
  ASSUME IInv, [Next]_vars
  PROVE  IInv'
<1> USE RuntimeConstants DEF Handlers, HandlersNestOnlyAfterReti
<1>1. CASE EndOfBlock
  BY <1>1, TickIInv DEF EndOfBlock, Block, IInv, TypeOK, history
<1>2. CASE Escape
  <2>1. cstack' \in Seq(Frame) /\ Len(cstack') = 0
    BY <1>2, EmptySeq DEF Escape
  <2>2. run_active' \in BOOLEAN /\ ~run_active' /\ left' = 0 /\ result' = 1
    BY <1>2, Zenon DEF Escape
  <2>3. TypeOK'
    BY <1>2, <2>1, <2>2 DEF Escape, IInv, TypeOK, machine, history
  <2>4. StackShape' /\ HandlerMarked' /\ BudgetLeft'
    BY <1>2, <2>1, <2>2, LenProperties
       DEF Escape, StackShape, HandlerMarked, BudgetLeft
  <2> QED BY <2>3, <2>4 DEF IInv
<1>3. CASE TickReturns
  <2>1. TypeOK' /\ StackShape' /\ HandlerMarked'
    BY <1>3 DEF TickReturns, IInv, TypeOK, StackShape, HandlerMarked,
                machine, history
  <2>2. BudgetLeft'
    BY <1>3, <2>1 DEF TickReturns, BudgetSpent, BudgetLeft, TypeOK
  <2> QED BY <2>1, <2>2 DEF IInv
<1>4. CASE Transfer
  <2>1. CASE Continue
    <3>1. cstack # <<>>
      BY <2>1 DEF Continue, IInv, StackShape
    <3>2. TypeOK' /\ StackShape' /\ HandlerMarked'
      BY <2>1, <3>1 DEF Continue, IInv, TypeOK, StackShape, HandlerMarked,
                        machine, history
    <3>3. BudgetLeft'
      BY <2>1, <3>2 DEF Continue, IInv, BudgetLeft, TypeOK, Slack
    <3> QED BY <3>2, <3>3 DEF IInv
  <2>2. ASSUME NEW f \in Funcs, Call(f) PROVE IInv'
    <3>1. PushPair(sp) \in 0 .. SPSize - 1
      BY SPRange DEF IInv, TypeOK
    <3> QED BY <2>2, <3>1, PushIInv DEF Call
  <2>3. ASSUME NEW f \in Funcs, CallTraps(f) PROVE IInv'
    <3>1. cstack # <<>> /\ PushPair(sp) \in 0 .. SPSize - 1
      BY <2>3, SPRange DEF CallTraps, IInv, TypeOK, StackShape
    <3>2. TypeOK' /\ StackShape' /\ HandlerMarked'
      BY <2>3, <3>1 DEF CallTraps, IInv, TypeOK, StackShape, HandlerMarked,
                        machine
    <3>3. BudgetLeft'
      BY <2>3, <3>2 DEF CallTraps, IInv, BudgetLeft, TypeOK, Slack
    <3> QED BY <3>2, <3>3 DEF IInv
  <2>4. ASSUME NEW f \in Funcs, TailCall(f) PROVE IInv'
    <3>1. sp' \in 0 .. SPSize - 1
      BY <2>4 DEF TailCall, IInv, TypeOK
    <3> QED BY <2>4, <3>1, PushIInv DEF TailCall
  <2>5. CASE Undefined
    <3>1. sp' \in 0 .. SPSize - 1 /\ astray' \in BOOLEAN /\ in_isr \in BOOLEAN
      BY <2>5 DEF Undefined, IInv, TypeOK
    <3> QED BY <2>5, <3>1, ReturnIInv DEF Undefined, IInv, HandlerMarked
  <2>6. CASE Ret
    <3>1. sp' \in 0 .. SPSize - 1 /\ astray' \in BOOLEAN /\ in_isr \in BOOLEAN
      BY <2>6, SPRange DEF Ret, IInv, TypeOK
    <3> QED BY <2>6, <3>1, ReturnIInv DEF Ret, IInv, HandlerMarked
  <2>7. CASE Reti
    <3> HIDE DEF Handlers, HandlersNestOnlyAfterReti
    <3>1. sp' \in 0 .. SPSize - 1 /\ astray' \in BOOLEAN
      BY <2>7, SPRange DEF Reti, IInv, TypeOK
    <3>2. released \subseteq Handlers /\ FALSE \in BOOLEAN
      BY DEF IInv, HandlerMarked
    <3>3. CASE Returning.kind = "isr"
      <4>1. released' = released \cap Remaining
        BY <2>7, <3>3 DEF Reti
      <4> QED BY <2>7, <3>1, <3>2, <3>3, <4>1, ReturnIInv DEF Reti
    <3>4. CASE Returning.kind # "isr"
      <4>1. released' = Handlers \cap Remaining
        BY <2>7, <3>4 DEF Reti
      <4> QED BY <2>7, <3>1, <3>2, <4>1, ReturnIInv DEF Reti
    <3> QED BY <3>3, <3>4
  <2> QED BY <1>4, <2>1, <2>2, <2>3, <2>4, <2>5, <2>6, <2>7 DEF Transfer
<1>5. CASE WriteIE
  BY <1>5 DEF WriteIE, IInv, TypeOK, StackShape, HandlerMarked, BudgetLeft,
              Slack, HandlerRunning, history
<1>6. CASE Host
  BY <1>6, HostIInv
<1>7. CASE UNCHANGED vars
  BY <1>7 DEF vars, IInv, TypeOK, StackShape, HandlerMarked, BudgetLeft,
              Slack, HandlerRunning, machine, history
<1> QED BY <1>1, <1>2, <1>3, <1>4, <1>5, <1>6, <1>7 DEF Next

\* The invariant holds in every state the runtime reaches.
THEOREM Invariance == Spec => []IInv
<1>1. Init => IInv
  BY InitIInv
<1>2. IInv /\ [Next]_vars => IInv'
  BY NextIInv
<1> QED BY <1>1, <1>2, PTL DEF Spec

-----------------------------------------------------------------------------
(* What follows from it.                                                    *)

\* Every variable of the runtime keeps its type; SP stays a byte.
THEOREM TypeCorrect == Spec => []TypeOK
<1>1. IInv => TypeOK
  BY DEF IInv
<1> QED BY <1>1, Invariance, PTL

\* recomp_rt.c:281, :302: a handler starts above another one only after a
\* routine above that one executed RETI; nothing else code does clears the
\* flag of a handler that has not returned.
THEOREM NestingNeedsReti == Spec => []HandlersNestOnlyAfterReti
<1>1. IInv => HandlersNestOnlyAfterReti
  BY DEF IInv, HandlerMarked
<1> QED BY <1>1, Invariance, PTL

\* recomp_rt.c:274: no run goes on for more than two blocks past its budget.
THEOREM Overshoot == Spec => []BoundedOvershoot
<1>1. IInv => BoundedOvershoot
  <2> SUFFICES ASSUME IInv, run_active PROVE BoundedOvershoot
    BY DEF BoundedOvershoot
  <2>1. pc \in {"code", "check", "transfer"}
    BY DEF IInv, TypeOK, StackShape
  <2> QED BY <2>1, RuntimeConstants
          DEF IInv, TypeOK, BudgetLeft, Slack, BoundedOvershoot
<1> QED BY <1>1, Invariance, PTL

\* recomp_rt.c:254-262: what vmu_rt_run reports is what happened to the run.
THEOREM HonestOutcome == Spec => OutcomeIsHonest
<1>1. IInv /\ [Next]_vars =>
        [run_active /\ ~run_active' =>
           (result' = 0 /\ left > 0) \/ (result' = 1 /\ left <= 0)]_vars
  <2> SUFFICES ASSUME IInv, Next, run_active, ~run_active'
               PROVE  (result' = 0 /\ left > 0) \/ (result' = 1 /\ left <= 0)
    BY DEF vars
  <2>1. pc # "host"
    BY DEF IInv, StackShape
  <2>2. CASE Escape
    BY <2>2 DEF Escape, BudgetSpent
  <2>3. CASE Transfer
    <3>1. \/ Undefined
          \/ Ret
          \/ Reti
      BY <2>3 DEF Transfer, Continue, Call, CallTraps, TailCall
    <3>2. pc = "transfer" /\ result' = 0
      BY <3>1 DEF Undefined, Ret, Reti, Return
    <3> QED BY <3>2 DEF IInv, BudgetLeft
  <2>4. ~EndOfBlock /\ ~TickReturns /\ ~WriteIE
    BY DEF EndOfBlock, Block, Tick, TickReturns, WriteIE
  <2>5. ~Host
    BY <2>1 DEF Host, Run, RunNothing, HostTick, HostRaise, Register,
                ClearRegistry, HostReset
  <2> QED BY <2>2, <2>3, <2>4, <2>5 DEF Next
<1> QED BY <1>1, Invariance, PTL DEF Spec, OutcomeIsHonest

\* recomp_rt.c:287-290: a request leaves `pending` only when a handler for it
\* is started, or with the machine's reset.
THEOREM NothingLost == Spec => NoLostInterrupt
<1>1. IInv /\ [Next]_vars =>
        [\A i \in pending \ pending' :
           cstack' = Append(cstack, Isr(i)) \/ HostReset]_vars
  <2> SUFFICES ASSUME IInv, Next, NEW i \in pending \ pending', ~HostReset
               PROVE  cstack' = Append(cstack, Isr(i))
    BY DEF vars
  <2>1. ASSUME NEW c \in 0 .. MaxBlock, NEW R \in SUBSET Irqs, Tick(c, R)
        PROVE  cstack' = Append(cstack, Isr(i))
    <3> DEFINE P == pending \cup R
    <3>1. ~NoHandlerStarted(P)
      BY DEF NoHandlerStarted, PutBack
    <3>2. StartHandler(P)
      BY <2>1, <3>1 DEF Tick
    <3>3. i = MostUrgent(P)
      BY <3>2 DEF StartHandler, Taken
    <3> QED BY <3>2, <3>3 DEF StartHandler
  <2>2. CASE EndOfBlock
    BY <2>1, <2>2, RuntimeConstants DEF EndOfBlock, Block
  <2>3. CASE Host
    BY <2>1, <2>3 DEF Host, Run, RunNothing, HostTick, HostRaise, Register,
                      ClearRegistry
  <2>4. ~Escape /\ ~TickReturns /\ ~Transfer /\ ~WriteIE
    BY DEF Escape, TickReturns, Transfer, Continue, Call, CallTraps, TailCall,
           Undefined, Ret, Reti, WriteIE
  <2> QED BY <2>2, <2>3, <2>4 DEF Next
<1> QED BY <1>1, Invariance, PTL DEF Spec, NoLostInterrupt

\* recomp_rt.c:282-293: when a tick comes back without having started a
\* handler, whatever could be delivered waits behind a more urgent request
\* that has no handler.
THEOREM BlockedOnly == Spec => BlockedOnlyByMoreUrgent
<1>1. IInv /\ [Next]_vars =>
        [pc = "code" /\ pc' = "check" =>
           \/ in_isr \/ ~ie
           \/ \A i \in pending' \cap registry :
                \E j \in pending' \ registry : j < i]_vars
  <2> SUFFICES ASSUME IInv, Next, pc = "code", pc' = "check", ~in_isr, ie,
                      NEW i \in pending' \cap registry
               PROVE  \E j \in pending' \ registry : j < i
    BY DEF vars
  <2>1. PICK c \in 1 .. MaxBlock, R \in SUBSET Irqs : Block(c, R)
    BY DEF Next, EndOfBlock, Escape, TickReturns, Transfer, Continue, Call,
           CallTraps, TailCall, Undefined, Ret, Reti, WriteIE, Host, Run,
           RunNothing, HostTick, HostRaise, Register, ClearRegistry, HostReset
  <2> DEFINE P == pending \cup R
  <2>2. NoHandlerStarted(P)
    BY <2>1 DEF Block, Tick, StartHandler
  <2>3. pending' = P /\ P \subseteq Irqs
    BY <2>2 DEF NoHandlerStarted, PutBack, IInv, TypeOK
  <2>4. CanTake(P) /\ i \in P /\ i \in registry
    BY <2>3 DEF CanTake
  <2>5. ~HasHandler(P)
    BY <2>2, <2>4 DEF NoHandlerStarted
  <2>6. /\ MostUrgent(P) \in P /\ \A j \in P : MostUrgent(P) <= j
    BY <2>3, <2>4, MostUrgentIn
  <2>7. MostUrgent(P) # i /\ MostUrgent(P) \notin registry
    BY <2>4, <2>5 DEF HasHandler
  <2>8. MostUrgent(P) < i
    BY <2>3, <2>4, <2>6, <2>7 DEF Irqs
  <2> QED BY <2>3, <2>6, <2>7, <2>8
<1> QED BY <1>1, Invariance, PTL DEF Spec, BlockedOnlyByMoreUrgent

-----------------------------------------------------------------------------
(* The refinement of IrqDelivery: the handlers' frames on the C stack are   *)
(* the abstract levels in use, the released ones the open levels.           *)

\* A step that leaves the C stack alone leaves `serving` alone.
LEMMA SameStackSameServing ==
  ASSUME cstack' = cstack
  PROVE  Serving' = Serving
BY DEF Serving, Handlers

\* vmu_rt_tick is a Raise or a Deliver of the abstract machine.
LEMMA TickDelivers ==
  ASSUME IInv, NEW R \in SUBSET Irqs, NEW c, Tick(c, R), released' = released
  PROVE  Delivery!Next
<1> DEFINE P == pending \cup R
           l == Len(cstack) + 1
<1>1. P \in SUBSET Irqs /\ Len(cstack) \in Nat
  BY DEF IInv, TypeOK
<1>2. CASE StartHandler(P)
  <2>1. MostUrgent(P) \in Irqs /\ P # {}
    BY <1>1, <1>2, MostUrgentIn DEF StartHandler, CanTake
  <2> DEFINE f == Isr(MostUrgent(P))
  <2>2. f \in Frame /\ f.kind = "isr" /\ f.irq = MostUrgent(P)
    BY <2>1, FrameFacts
  <2>3. cstack' = Append(cstack, f) /\ ~in_isr
    BY <1>2 DEF StartHandler, CanTake
  <2> HIDE DEF f
  <2>4. /\ Handlers' = Handlers \cup {l} /\ Handlers \subseteq 1 .. Len(cstack)
        /\ \A n \in Handlers : cstack'[n] = cstack[n]
    BY <2>2, <2>3, HandlersPush DEF IInv
  <2>5. cstack'[l] = f
    BY <2>2, <2>3, PushFrame DEF IInv, TypeOK
  <2>6. Handlers \subseteq released
    BY <2>3 DEF IInv, HandlerMarked
  <2>7. l \notin Handlers /\ \A m \in Handlers : m < l
    BY <1>1, <2>4
  <2> HIDE DEF l
  <2>8. Serving' = [m \in Handlers \cup {l} |->
                      IF m = l THEN MostUrgent(P) ELSE Serving[m]]
    BY <2>2, <2>4, <2>5, <2>7 DEF Serving
  <2>9. DOMAIN Serving = Handlers /\ l \in DOMAIN Serving'
    BY <2>8 DEF Serving
  <2>10. pending' = P \ {MostUrgent(P)}
    BY <1>2 DEF StartHandler, Taken
  <2>11. Delivery!Deliver(R)
    BY <2>1, <2>6, <2>7, <2>8, <2>9, <2>10
       DEF Delivery!Deliver, Delivery!Levels, Delivery!MostUrgent, MostUrgent
  <2> QED BY <2>11 DEF Delivery!Next
<1>3. CASE NoHandlerStarted(P)
  <2>1. Delivery!Raise(R)
    BY <1>3, SameStackSameServing DEF NoHandlerStarted, PutBack, Delivery!Raise
  <2> QED BY <2>1 DEF Delivery!Next
<1> QED BY <1>2, <1>3 DEF Tick

\* A return is the abstract Finish if it ends a handler; the RETI of another
\* function is the abstract Open, and any other return a stutter.
LEMMA ReturnFinishes ==
  ASSUME IInv, NEW flag, Return(flag), pending' = pending, pc = "transfer",
         NEW R, R = released \/ (R = Handlers /\ Returning.kind # "isr"),
         released' = R \cap Remaining
  PROVE  [Delivery!Next]_(Delivery!vars)
<1> DEFINE n == ReturnIndex
<1>1. cstack # <<>> /\ cstack' = SubSeq(cstack, 1, n - 1)
  BY DEF IInv, StackShape, Return
<1>2. /\ Handlers' = Handlers \cap Remaining
      /\ \A m \in Handlers' : cstack'[m] = cstack[m]
  BY <1>1, HandlersPop DEF IInv
<1>3. released \subseteq Handlers
  BY DEF IInv, HandlerMarked
<1>4. CASE Returning.kind = "isr"
  <2>1. /\ n \in Handlers /\ \A m \in Handlers : m <= n
        /\ Handlers \cap Remaining = Handlers \ {n}
    BY <1>1, <1>4, HandlersPop DEF IInv
  <2> HIDE DEF n
  <2>2. Serving' = [m \in Handlers \ {n} |-> Serving[m]]
    BY <1>2, <2>1 DEF Serving
  <2>3. released' = released \ {n}
    BY <1>3, <1>4, <2>1
  <2>4. DOMAIN Serving = Handlers
    BY DEF Serving
  <2>5. Delivery!Finish
    BY <2>1, <2>2, <2>3, <2>4 DEF Delivery!Finish, Delivery!Levels
  <2> QED BY <2>5 DEF Delivery!Next
<1>5. CASE Returning.kind # "isr"
  <2>1. Handlers \cap Remaining = Handlers
    BY <1>1, <1>5, HandlersPop DEF IInv
  <2>2. Serving' = Serving /\ DOMAIN Serving = Handlers
    BY <1>2, <2>1 DEF Serving
  <2>3. CASE R = released
    <3>1. released' = released
      BY <1>3, <2>1, <2>3
    <3> QED BY <2>2, <3>1 DEF Delivery!vars
  <2>4. CASE R = Handlers
    <3>1. Delivery!Open
      BY <2>1, <2>2, <2>4 DEF Delivery!Open, Delivery!Levels
    <3> QED BY <3>1 DEF Delivery!Next
  <2> QED BY <2>3, <2>4
<1> QED BY <1>4, <1>5

\* vmu_rt_tick, the returns and the escape together implement IrqDelivery:
\* the most urgent request first, no handler above one that is not open,
\* nothing forgotten.
THEOREM Refinement == Spec => ImplementsDelivery
<1>1. Init => Delivery!Init
  <2> SUFFICES ASSUME Init PROVE Delivery!Init
    OBVIOUS
  <2>1. Handlers = {}
    BY EmptySeq, LenProperties DEF Init, Handlers
  <2> QED BY <2>1 DEF Init, Serving, Delivery!Init, Delivery!NoLevel
<1>2. IInv /\ [Next]_vars => [Delivery!Next]_(Delivery!vars)
  <2> SUFFICES ASSUME IInv, [Next]_vars
               PROVE  [Delivery!Next]_(Delivery!vars)
    OBVIOUS
  <2>1. CASE EndOfBlock
    BY <2>1, TickDelivers DEF EndOfBlock, Block, history
  <2>2. CASE Escape
    <3>1. Handlers' = {}
      BY <2>2, EmptySeq, LenProperties DEF Escape, Handlers
    <3>2. Serving' = Delivery!NoLevel
      BY <3>1 DEF Serving, Delivery!NoLevel
    <3>3. Delivery!Abandon
      BY <2>2, <3>2 DEF Escape, Delivery!Abandon
    <3> QED BY <3>3 DEF Delivery!Next
  <2>3. CASE Transfer
    <3>1. CASE Undefined \/ Ret \/ Reti
      <4>1. PICK R : /\ R = released \/ (R = Handlers /\ Returning.kind # "isr")
                     /\ released' = R \cap Remaining
        BY <3>1 DEF Undefined, Ret, Reti
      <4> QED BY <3>1, <4>1, ReturnFinishes DEF Undefined, Ret, Reti
    <3>2. CASE Continue \/ \E f \in Funcs : CallTraps(f)
      BY <3>2, SameStackSameServing
         DEF Continue, CallTraps, Delivery!vars, history
    <3>3. ASSUME NEW f \in Funcs, Call(f) \/ TailCall(f)
          PROVE  [Delivery!Next]_(Delivery!vars)
      <4>1. PICK k \in {"call", "tail"} : cstack' = Append(cstack, Plain(k))
        BY <3>3 DEF Call, TailCall
      <4>2. Plain(k) \in Frame /\ Plain(k).kind # "isr"
        BY FrameFacts
      <4>3. Handlers' = Handlers /\ \A n \in Handlers : cstack'[n] = cstack[n]
        BY <4>1, <4>2, HandlersPush DEF IInv
      <4>4. Serving' = Serving
        BY <4>3 DEF Serving
      <4> QED BY <3>3, <4>4 DEF Call, TailCall, Delivery!vars, history
    <3> QED BY <2>3, <3>1, <3>2, <3>3 DEF Transfer
  <2>4. CASE Host
    <3>1. cstack = <<>>
      BY <2>4 DEF IInv, StackShape, Host, Run, RunNothing, HostTick,
           HostRaise, Register, ClearRegistry, HostReset
    <3>2. Handlers = {} /\ Delivery!Levels = {}
      BY <3>1, EmptySeq, LenProperties DEF Handlers, Serving, Delivery!Levels
    <3>3. ASSUME NEW f \in Funcs, NEW b \in 0 .. MaxBudget, Run(f, b)
          PROVE  [Delivery!Next]_(Delivery!vars)
      <4>1. Handlers' = {}
        BY <3>3, FrameFacts DEF Run, Handlers
      <4>2. Serving' = Serving
        BY <3>2, <4>1 DEF Serving
      <4> QED BY <3>3, <4>2 DEF Run, Delivery!vars
    <3>4. ASSUME NEW c \in 0 .. MaxBlock, NEW R \in SUBSET Irqs, HostTick(c, R)
          PROVE  [Delivery!Next]_(Delivery!vars)
      BY <3>4, TickDelivers DEF HostTick
    <3>5. ASSUME NEW i \in Irqs, HostRaise(i)
          PROVE  [Delivery!Next]_(Delivery!vars)
      <4>1. Delivery!Raise({i})
        BY <3>5, SameStackSameServing DEF HostRaise, Delivery!Raise, history
      <4> QED BY <4>1 DEF Delivery!Next
    <3>6. CASE HostReset
      <4>1. Delivery!Reset
        BY <3>2, <3>6, SameStackSameServing
           DEF HostReset, Delivery!Reset, history
      <4> QED BY <4>1 DEF Delivery!Next
    <3>7. CASE \/ \E f \in Funcs : RunNothing(f)
               \/ \E a \in Irqs \cup Funcs : Register(a)
               \/ ClearRegistry
      BY <3>7, SameStackSameServing
         DEF RunNothing, Register, ClearRegistry, Delivery!vars, history
    <3> QED BY <2>4, <3>3, <3>4, <3>5, <3>6, <3>7 DEF Host
  <2>5. CASE TickReturns \/ WriteIE
    BY <2>5, SameStackSameServing
       DEF TickReturns, WriteIE, Delivery!vars, history
  <2>6. CASE UNCHANGED vars
    BY <2>6, SameStackSameServing DEF vars, Delivery!vars
  <2> QED BY <2>1, <2>2, <2>3, <2>4, <2>5, <2>6 DEF Next
<1> QED
  BY <1>1, <1>2, Invariance, PTL DEF Spec, ImplementsDelivery, Delivery!Spec
-----------------------------------------------------------------------------
(* SP and the C stack.  SP is kept modulo SPSize, so what a step preserves  *)
(* is that SP and the distance the C stack asks for differ by whole turns.  *)

\* The frames vmu_push_byte was called for.
Paired(s) == {n \in DOMAIN s : s[n].kind \in {"call", "isr"}}

Turns(b, s, p) ==
  \E w \in Int : b + 2 * Cardinality(Paired(s)) = w * SPSize + p

Balanced == cstack # <<>> /\ ~astray => Turns(base, cstack, sp)

\* What divides with a remainder smaller than the divisor, divides so only.
LEMMA RemainderUnique ==
  ASSUME NEW n \in Nat \ {0}, NEW w \in Int, NEW r \in 0 .. n - 1
  PROVE  (w * n + r) % n = r
OBVIOUS

\* Two bytes up or down is at most one turn more or less.
LEMMA PairTurns ==
  ASSUME NEW s \in 0 .. SPSize - 1
  PROVE  /\ PushPair(s) \in {s + 2, s + 2 - SPSize}
         /\ PopPair(s) \in {s - 2, s - 2 + SPSize}
<1> USE RuntimeConstants
<1>1. PushPair(s) \in {s + 2, s + 2 - SPSize}
  <2>1. CASE s + 2 < SPSize
    <3>1. (0 * SPSize + (s + 2)) % SPSize = s + 2
      BY <2>1, RemainderUnique
    <3> QED BY <3>1 DEF PushPair
  <2>2. CASE s + 2 >= SPSize
    <3>1. s + 2 - SPSize \in 0 .. SPSize - 1
      BY <2>2
    <3>2. (1 * SPSize + (s + 2 - SPSize)) % SPSize = s + 2 - SPSize
      BY <3>1, RemainderUnique
    <3> QED BY <3>2 DEF PushPair
  <2> QED BY <2>1, <2>2
<1>2. PopPair(s) \in {s - 2, s - 2 + SPSize}
  <2>1. CASE s >= 2
    <3>1. s - 2 \in 0 .. SPSize - 1
      BY <2>1
    <3>2. (1 * SPSize + (s - 2)) % SPSize = s - 2
      BY <3>1, RemainderUnique
    <3> QED BY <3>2 DEF PopPair
  <2>2. CASE s < 2
    <3>1. s - 2 + SPSize \in 0 .. SPSize - 1
      BY <2>2
    <3>2. (0 * SPSize + (s - 2 + SPSize)) % SPSize = s - 2 + SPSize
      BY <3>1, RemainderUnique
    <3> QED BY <3>2 DEF PopPair
  <2> QED BY <2>1, <2>2
<1> QED BY <1>1, <1>2

\* A stack has finitely many frames.
LEMMA PairedFinite ==
  ASSUME NEW s \in Seq(Frame)
  PROVE  IsFiniteSet(Paired(s)) /\ Cardinality(Paired(s)) \in Nat
<1>1. Len(s) \in Nat /\ DOMAIN s = 1 .. Len(s)
  BY LenProperties
<1>2. IsFiniteSet(1 .. Len(s)) /\ Paired(s) \in SUBSET (1 .. Len(s))
  BY <1>1, FS_Interval DEF Paired
<1> QED BY <1>2, FS_Subset, FS_CardinalityType

\* Pushing a frame counts it, unless a tail call made it.
LEMMA PairedPush ==
  ASSUME NEW s \in Seq(Frame), NEW f \in Frame
  PROVE  /\ f.kind \in {"call", "isr"} =>
              Cardinality(Paired(Append(s, f))) = Cardinality(Paired(s)) + 1
         /\ f.kind = "tail" => Paired(Append(s, f)) = Paired(s)
<1> DEFINE t == Append(s, f)
<1>1. /\ t \in Seq(Frame) /\ Len(t) = Len(s) + 1 /\ t[Len(s) + 1] = f
      /\ \A n \in 1 .. Len(s) : t[n] = s[n]
  BY PushFrame
<1>2. /\ DOMAIN s = 1 .. Len(s) /\ DOMAIN t = 1 .. Len(s) + 1
      /\ Len(s) \in Nat
  BY <1>1, LenProperties
<1> HIDE DEF t
<1>3. CASE f.kind \in {"call", "isr"}
  <2>1. Paired(t) = Paired(s) \cup {Len(s) + 1} /\ Len(s) + 1 \notin Paired(s)
    BY <1>1, <1>2, <1>3 DEF Paired
  <2>2. Cardinality(Paired(s) \cup {Len(s) + 1}) = Cardinality(Paired(s)) + 1
    BY <2>1, PairedFinite, FS_AddElement
  <2> QED BY <1>3, <2>1, <2>2 DEF t
<1>4. CASE f.kind = "tail"
  BY <1>1, <1>2, <1>4 DEF Paired, t
<1> QED BY <1>3, <1>4

\* Returning from a call or a handler takes its frame off the count, and the
\* tail frames above it never were in it.
LEMMA PairedPop ==
  ASSUME NEW s \in Seq(Frame), NEW n \in 1 .. Len(s),
         s[n].kind \in {"call", "isr"},
         \A m \in n + 1 .. Len(s) : s[m].kind = "tail"
  PROVE  Cardinality(Paired(SubSeq(s, 1, n - 1))) = Cardinality(Paired(s)) - 1
<1> DEFINE t == SubSeq(s, 1, n - 1)
<1>1. /\ t \in Seq(Frame) /\ Len(t) = n - 1
      /\ \A m \in 1 .. n - 1 : t[m] = s[m]
  BY PopFrames
<1>2. DOMAIN s = 1 .. Len(s) /\ DOMAIN t = 1 .. n - 1 /\ Len(s) \in Nat
  BY <1>1, LenProperties
<1> HIDE DEF t
<1>3. Paired(t) = Paired(s) \ {n} /\ n \in Paired(s)
  BY <1>1, <1>2 DEF Paired
<1>4. Cardinality(Paired(s) \ {n}) = Cardinality(Paired(s)) - 1
  BY <1>3, PairedFinite, FS_RemoveElement
<1> QED BY <1>3, <1>4 DEF t

\* An empty stack is at distance 0.
LEMMA TurnsEmpty ==
  ASSUME NEW b \in 0 .. SPSize - 1
  PROVE  Turns(b, <<>>, b)
<1>1. Paired(<<>>) = {}
  BY DEF Paired
<1>2. b + 2 * Cardinality(Paired(<<>>)) = 0 * SPSize + b
  BY <1>1, FS_EmptySet, RuntimeConstants
<1> QED BY <1>2 DEF Turns

\* A pair pushed with the frame, or popped with it, keeps the balance.
LEMMA TurnsPush ==
  ASSUME NEW b \in Int, NEW s \in Seq(Frame), NEW p \in 0 .. SPSize - 1,
         Turns(b, s, p), NEW f \in Frame, f.kind \in {"call", "isr"}
  PROVE  Turns(b, Append(s, f), PushPair(p))
<1> DEFINE k == Cardinality(Paired(s))
<1>1. Cardinality(Paired(Append(s, f))) = k + 1 /\ k \in Nat
  BY PairedPush, PairedFinite
<1>2. PICK w \in Int : b + 2 * k = w * SPSize + p
  BY DEF Turns
<1> HIDE DEF k
<1>3. SPSize \in Nat /\ (w + 1) * SPSize = w * SPSize + SPSize
  BY RuntimeConstants
<1>4. PushPair(p) \in {p + 2, p + 2 - SPSize}
  BY PairTurns
<1>5. \E v \in Int : b + 2 * (k + 1) = v * SPSize + PushPair(p)
  <2>1. CASE PushPair(p) = p + 2
    <3>1. b + 2 * (k + 1) = w * SPSize + PushPair(p)
      BY <1>1, <1>2, <1>3, <2>1
    <3> QED BY <3>1
  <2>2. CASE PushPair(p) = p + 2 - SPSize
    <3>1. b + 2 * (k + 1) = (w + 1) * SPSize + PushPair(p)
      BY <1>1, <1>2, <1>3, <2>2
    <3> QED BY <3>1
  <2> QED BY <1>4, <2>1, <2>2
<1> QED BY <1>1, <1>5 DEF Turns

LEMMA TurnsPop ==
  ASSUME NEW b \in Int, NEW s \in Seq(Frame), NEW p \in 0 .. SPSize - 1,
         Turns(b, s, p), NEW n \in 1 .. Len(s),
         s[n].kind \in {"call", "isr"},
         \A m \in n + 1 .. Len(s) : s[m].kind = "tail"
  PROVE  Turns(b, SubSeq(s, 1, n - 1), PopPair(p))
<1> DEFINE k == Cardinality(Paired(s))
<1>1. Cardinality(Paired(SubSeq(s, 1, n - 1))) = k - 1 /\ k \in Nat
  BY PairedPop, PairedFinite
<1>2. PICK w \in Int : b + 2 * k = w * SPSize + p
  BY DEF Turns
<1> HIDE DEF k
<1>3. SPSize \in Nat /\ (w - 1) * SPSize = w * SPSize - SPSize
  BY RuntimeConstants
<1>4. PopPair(p) \in {p - 2, p - 2 + SPSize}
  BY PairTurns
<1>5. \E v \in Int : b + 2 * (k - 1) = v * SPSize + PopPair(p)
  <2>1. CASE PopPair(p) = p - 2
    <3>1. b + 2 * (k - 1) = w * SPSize + PopPair(p)
      BY <1>1, <1>2, <1>3, <2>1
    <3> QED BY <3>1
  <2>2. CASE PopPair(p) = p - 2 + SPSize
    <3>1. b + 2 * (k - 1) = (w - 1) * SPSize + PopPair(p)
      BY <1>1, <1>2, <1>3, <2>2
    <3> QED BY <3>1
  <2> QED BY <1>4, <2>1, <2>2
<1> QED BY <1>1, <1>5 DEF Turns

\* Delivery of an interrupt keeps the balance.
LEMMA TickBalanced ==
  ASSUME IInv, NEW c, NEW R \in SUBSET Irqs, Tick(c, R),
         Turns(base', cstack, sp), base' \in Int
  PROVE  Turns(base', cstack', sp')
<1> DEFINE P == pending \cup R
<1>1. CASE StartHandler(P)
  <2>1. MostUrgent(P) \in Irqs
    BY <1>1, MostUrgentIn DEF StartHandler, CanTake, IInv, TypeOK
  <2>2. /\ Isr(MostUrgent(P)) \in Frame
        /\ Isr(MostUrgent(P)).kind \in {"call", "isr"}
    BY <2>1, FrameFacts
  <2> QED BY <1>1, <2>2, TurnsPush DEF StartHandler, IInv, TypeOK
<1>2. CASE NoHandlerStarted(P)
  BY <1>2 DEF NoHandlerStarted
<1> QED BY <1>1, <1>2 DEF Tick

\* So does a return that pops.
LEMMA ReturnBalanced ==
  ASSUME IInv, Balanced, pc = "transfer", NEW flag, Return(flag),
         sp' = PopPair(sp), UNCHANGED <<base, astray>>
  PROVE  Balanced'
<1> SUFFICES ASSUME cstack' # <<>>, ~astray'
             PROVE  Turns(base, cstack', PopPair(sp))
  BY DEF Balanced
<1> DEFINE n == ReturnIndex
<1>1. cstack \in Seq(Frame) /\ cstack # <<>> /\ Len(cstack) \in Nat \ {0}
  BY EmptySeq DEF IInv, TypeOK, StackShape
<1>2. /\ n \in 1 .. Len(cstack) /\ cstack[n].kind # "tail"
      /\ \A m \in n + 1 .. Len(cstack) : cstack[m].kind = "tail"
  BY <1>1, ReturnIndexIn DEF IInv, Returning
<1>3. cstack' = SubSeq(cstack, 1, n - 1)
  BY DEF Return
<1> HIDE DEF n
<1>4. n # 1
  BY <1>1, <1>2, <1>3, PopFrames, EmptySeq
<1>5. cstack[n].kind \in {"call", "isr"}
  <2>1. cstack[n].kind \in {"entry", "call", "tail", "isr"}
    BY <1>1, <1>2, ElementOfSeq DEF Frame
  <2>2. cstack[n].kind # "entry"
    BY <1>2, <1>4 DEF IInv, StackShape
  <2> QED BY <1>2, <2>1, <2>2
<1>6. Turns(base, cstack, sp) /\ sp \in 0 .. SPSize - 1 /\ base \in Int
  BY <1>1, RuntimeConstants DEF Balanced, IInv, TypeOK
<1> QED BY <1>1, <1>2, <1>3, <1>5, <1>6, TurnsPop

\* Every step keeps SP and the C stack in balance.
LEMMA NextBalanced ==
  ASSUME IInv, Balanced, [Next]_vars
  PROVE  Balanced'
<1> USE RuntimeConstants
<1>1. cstack \in Seq(Frame) /\ sp \in 0 .. SPSize - 1 /\ base \in 0 .. SPSize - 1
  BY DEF IInv, TypeOK
<1>2. CASE EndOfBlock
  <2>1. PICK c \in 1 .. MaxBlock, R \in SUBSET Irqs : Block(c, R)
    BY <1>2 DEF EndOfBlock
  <2>2. cstack # <<>> /\ UNCHANGED <<base, astray>>
    BY <2>1 DEF Block, history, IInv, StackShape
  <2>3. ~astray => Turns(base', cstack', sp')
    BY <1>1, <2>1, <2>2, TickBalanced DEF Block, Balanced
  <2> QED BY <2>2, <2>3 DEF Balanced
<1>3. CASE Transfer
  <2>1. CASE Ret \/ Reti
    BY <2>1, ReturnBalanced DEF Ret, Reti
  <2>2. CASE Undefined \/ \E f \in Funcs : CallTraps(f)
    BY <2>2 DEF Undefined, CallTraps, Balanced
  <2>3. CASE Continue
    BY <2>3 DEF Continue, Balanced, history
  <2>4. ASSUME NEW f \in Funcs, Call(f) PROVE Balanced'
    <3>1. cstack # <<>>
      BY <2>4 DEF Call, IInv, StackShape
    <3>2. Plain("call") \in Frame /\ Plain("call").kind \in {"call", "isr"}
      BY FrameFacts
    <3>3. ~astray => Turns(base, Append(cstack, Plain("call")), PushPair(sp))
      BY <1>1, <3>1, <3>2, TurnsPush DEF Balanced
    <3> QED BY <2>4, <3>3 DEF Call, Balanced, history
  <2>5. ASSUME NEW f \in Funcs, TailCall(f) PROVE Balanced'
    <3>1. cstack # <<>>
      BY <2>5 DEF TailCall, IInv, StackShape
    <3>2. Plain("tail") \in Frame /\ Plain("tail").kind = "tail"
      BY FrameFacts
    <3>3. Paired(Append(cstack, Plain("tail"))) = Paired(cstack)
      BY <1>1, <3>2, PairedPush
    <3> QED BY <2>5, <3>1, <3>3 DEF TailCall, Balanced, Turns, history
  <2> QED BY <1>3, <2>1, <2>2, <2>3, <2>4, <2>5 DEF Transfer
<1>4. CASE Host
  <2>1. cstack = <<>>
    BY <1>4 DEF IInv, StackShape, Host, Run, RunNothing, HostTick,
           HostRaise, Register, ClearRegistry, HostReset
  <2>2. ASSUME NEW f \in Funcs, NEW b \in 0 .. MaxBudget, Run(f, b)
        PROVE  Balanced'
    <3>1. Paired(<<Plain("entry")>>) = {}
      BY FrameFacts DEF Paired
    <3>2. Paired(<<>>) = {}
      BY DEF Paired
    <3>3. Turns(sp, <<Plain("entry")>>, sp)
      BY <1>1, <3>1, <3>2, TurnsEmpty DEF Turns
    <3> QED BY <2>2, <3>3 DEF Run, Balanced
  <2>3. ASSUME NEW c \in 0 .. MaxBlock, NEW R \in SUBSET Irqs, HostTick(c, R)
        PROVE  Balanced'
    <3>1. Turns(base', cstack, sp) /\ base' \in Int
      BY <1>1, <2>1, <2>3, TurnsEmpty DEF HostTick
    <3> QED BY <2>3, <3>1, TickBalanced DEF HostTick, Balanced
  <2>4. CASE \/ \E f \in Funcs : RunNothing(f)
             \/ \E i \in Irqs : HostRaise(i)
             \/ \E a \in Irqs \cup Funcs : Register(a)
             \/ ClearRegistry \/ HostReset
    BY <2>1, <2>4 DEF RunNothing, HostRaise, Register, ClearRegistry,
                      HostReset, Balanced
  <2> QED BY <1>4, <2>2, <2>3, <2>4 DEF Host
<1>5. CASE Escape
  BY <1>5 DEF Escape, Balanced
<1>6. CASE TickReturns \/ WriteIE \/ UNCHANGED vars
  BY <1>6 DEF TickReturns, WriteIE, vars, Balanced, history
<1> QED BY <1>2, <1>3, <1>4, <1>5, <1>6 DEF Next

\* recomp_rt.c:225, :298: until code goes astray, SP stands two bytes above
\* where the host entered it for every call and every handler on the C stack,
\* whichever ticks handlers were delivered at and however they returned.
THEOREM SpTracks == Spec => []SpTracksCStack
<1>1. Init => Balanced
  BY DEF Init, Balanced
<1>2. IInv /\ Balanced /\ [Next]_vars => Balanced'
  BY NextBalanced
<1>3. IInv /\ Balanced => SpTracksCStack
  <2> SUFFICES ASSUME IInv, Balanced, cstack # <<>>, ~astray
               PROVE  sp = (base + 2 * Cardinality(Paired(cstack))) % SPSize
    BY DEF SpTracksCStack, Paired
  <2>1. PICK w \in Int :
          base + 2 * Cardinality(Paired(cstack)) = w * SPSize + sp
    BY DEF Balanced, Turns
  <2>2. SPSize \in Nat \ {0} /\ sp \in 0 .. SPSize - 1
    BY RuntimeConstants DEF IInv, TypeOK
  <2>3. (w * SPSize + sp) % SPSize = sp
    BY <2>2, RemainderUnique
  <2> QED BY <2>1, <2>3
<1> QED BY <1>1, <1>2, <1>3, Invariance, PTL DEF Spec

-----------------------------------------------------------------------------
(* What is below a handler stays as it is.                                  *)

\* Two stacks with the same first frames have the same first part.
LEMMA SamePrefix ==
  ASSUME NEW s \in Seq(Frame), NEW t \in Seq(Frame), NEW n \in 1 .. Len(s),
         n <= Len(t), \A m \in 1 .. n : t[m] = s[m]
  PROVE  SubSeq(t, 1, n) = SubSeq(s, 1, n)
<1>1. /\ SubSeq(s, 1, n) \in Seq(Frame) /\ Len(SubSeq(s, 1, n)) = n
      /\ \A m \in 1 .. n : SubSeq(s, 1, n)[m] = s[m]
  <2>1. \A m \in 1 .. n : s[m] \in Frame
    BY ElementOfSeq
  <2> QED BY <2>1, SubSeqProperties
<1>2. /\ SubSeq(t, 1, n) \in Seq(Frame) /\ Len(SubSeq(t, 1, n)) = n
      /\ \A m \in 1 .. n : SubSeq(t, 1, n)[m] = t[m]
  <2>1. \A m \in 1 .. n : t[m] \in Frame
    BY ElementOfSeq
  <2> QED BY <2>1, SubSeqProperties
<1> QED BY <1>1, <1>2, SeqEqual

\* recomp_rt.h:81-83: the code an interrupt stopped stays where it is until
\* the handler returns to it, or the escape gives up the run.
THEOREM RunsToCompletion == Spec => HandlerRunsToCompletion
<1>1. ASSUME IInv, IInv', Next, NEW n \in DOMAIN cstack,
             cstack[n].kind = "isr"
      PROVE  \/ /\ Len(cstack') >= n
                /\ SubSeq(cstack', 1, n) = SubSeq(cstack, 1, n)
             \/ cstack' = SubSeq(cstack, 1, n - 1) /\ pc' = "check"
             \/ pc' = "host" /\ result' = 1
  <2> DEFINE Kept == /\ Len(cstack') >= n
                     /\ SubSeq(cstack', 1, n) = SubSeq(cstack, 1, n)
             Ended == cstack' = SubSeq(cstack, 1, n - 1) /\ pc' = "check"
  <2>1. /\ cstack \in Seq(Frame) /\ cstack' \in Seq(Frame)
        /\ n \in 1 .. Len(cstack) /\ Len(cstack) \in Nat
    BY <1>1, LenProperties DEF IInv, TypeOK
  <2>2. cstack # <<>>
    BY <2>1, EmptySeq
  <2>3. CASE cstack' = cstack
    BY <2>1, <2>3
  <2>4. ASSUME NEW f \in Frame, cstack' = Append(cstack, f)
        PROVE  Kept
    <3>1. /\ Len(cstack') = Len(cstack) + 1
          /\ \A m \in 1 .. Len(cstack) : cstack'[m] = cstack[m]
      BY <2>1, <2>4, PushFrame
    <3>2. n <= Len(cstack') /\ \A m \in 1 .. n : cstack'[m] = cstack[m]
      BY <2>1, <3>1
    <3> QED BY <2>1, <3>2, SamePrefix
  <2>5. ASSUME NEW flag, Return(flag), pc = "transfer"
        PROVE  Kept \/ Ended
    <3> DEFINE k == ReturnIndex
    <3>1. /\ k \in 1 .. Len(cstack) /\ Returning = cstack[k]
          /\ \A m \in k + 1 .. Len(cstack) : cstack[m].kind = "tail"
      BY <1>1, <2>2, ReturnIndexIn DEF IInv, Returning
    <3>2. cstack' = SubSeq(cstack, 1, k - 1)
      BY <2>5 DEF Return
    <3>3. Returning.kind = "isr" => pc' = "check"
      BY <2>5 DEF Return
    <3> HIDE DEF k
    <3>4. n <= k
      BY <1>1, <2>1, <3>1
    <3>5. CASE n = k
      BY <1>1, <3>1, <3>2, <3>3, <3>5
    <3>6. CASE n < k
      <4>1. Len(cstack') = k - 1 /\ \A m \in 1 .. k - 1 : cstack'[m] = cstack[m]
        BY <2>1, <3>1, <3>2, PopFrames
      <4>2. n <= Len(cstack') /\ \A m \in 1 .. n : cstack'[m] = cstack[m]
        BY <2>1, <3>1, <3>6, <4>1
      <4> QED BY <2>1, <4>2, SamePrefix
    <3> QED BY <2>1, <3>1, <3>4, <3>5, <3>6
  <2>6. CASE EndOfBlock
    <3>1. PICK c \in 1 .. MaxBlock, R \in SUBSET Irqs : Block(c, R)
      BY <2>6 DEF EndOfBlock
    <3>2. CASE StartHandler(pending \cup R)
      <4>1. MostUrgent(pending \cup R) \in Irqs
        BY <1>1, <3>2, MostUrgentIn DEF StartHandler, CanTake, IInv, TypeOK
      <4> QED BY <2>4, <3>2, <4>1, FrameFacts DEF StartHandler
    <3>3. CASE NoHandlerStarted(pending \cup R)
      BY <2>3, <3>3 DEF NoHandlerStarted
    <3> QED BY <3>1, <3>2, <3>3 DEF Block, Tick
  <2>7. CASE Transfer
    BY <2>3, <2>4, <2>5, <2>7, FrameFacts
       DEF Transfer, Continue, Call, CallTraps, TailCall, Undefined, Ret, Reti
  <2>8. ~Host
    BY <1>1, <2>2 DEF IInv, StackShape, Host, Run, RunNothing, HostTick,
           HostRaise, Register, ClearRegistry, HostReset
  <2>9. CASE Escape
    BY <2>9 DEF Escape
  <2>10. CASE TickReturns \/ WriteIE
    BY <2>3, <2>10 DEF TickReturns, WriteIE
  <2> QED BY <1>1, <2>6, <2>7, <2>8, <2>9, <2>10 DEF Next
<1>2. IInv /\ IInv' /\ [Next]_vars =>
        [\A n \in DOMAIN cstack :
           cstack[n].kind = "isr" =>
             \/ Len(cstack') >= n /\ SubSeq(cstack', 1, n) = SubSeq(cstack, 1, n)
             \/ cstack' = SubSeq(cstack, 1, n - 1) /\ pc' = "check"
             \/ pc' = "host" /\ result' = 1]_vars
  BY <1>1
<1> QED BY <1>2, Invariance, PTL DEF Spec, HandlerRunsToCompletion
-----------------------------------------------------------------------------
(* Why a run ends.  Every block costs at least a cycle, and between two     *)
(* blocks there is one tail of vmu_rt_tick and one transfer; a handler's    *)
(* return leads to one more, that of the tick that started it.  So the      *)
(* cycles left bound the steps left, up to the last block and the handler's *)
(* first.                                                                   *)

Nesting == Cardinality(Handlers)
ToNextBlock ==
  IF pc = "check" THEN 2 ELSE IF pc = "transfer" THEN 1 ELSE 0
RunLeft == 3 * (left + 2 * MaxBlock) + 2 * Nesting + ToNextBlock

\* There are finitely many handlers on the C stack.
LEMMA HandlersFinite ==
  ASSUME IInv
  PROVE  IsFiniteSet(Handlers) /\ Nesting \in Nat
<1>1. Len(cstack) \in Nat /\ DOMAIN cstack = 1 .. Len(cstack)
  BY LenProperties DEF IInv, TypeOK
<1>2. IsFiniteSet(1 .. Len(cstack)) /\ Handlers \in SUBSET (1 .. Len(cstack))
  BY <1>1, FS_Interval DEF Handlers
<1> QED BY <1>2, FS_Subset, FS_CardinalityType DEF Nesting

LEMMA RunLeftType ==
  ASSUME IInv, run_active
  PROVE  RunLeft \in Nat
<1>1. pc \in {"code", "check", "transfer"} /\ left \in Int
  BY DEF IInv, TypeOK, StackShape
<1>2. MaxBlock \in Nat \ {0}
  BY RuntimeConstants
<1>3. left >= - MaxBlock - Slack /\ Slack \in {0, MaxBlock}
  BY <1>1, <1>2 DEF IInv, BudgetLeft, Slack
<1>4. left + 2 * MaxBlock \in Nat
  BY <1>1, <1>2, <1>3
<1>5. Nesting \in Nat /\ ToNextBlock \in {0, 1, 2}
  BY HandlersFinite DEF ToNextBlock
<1> DEFINE n == left + 2 * MaxBlock
<1>6. n \in Nat /\ RunLeft = 3 * n + 2 * Nesting + ToNextBlock
  BY <1>4 DEF RunLeft
<1> HIDE DEF n
<1> QED BY <1>5, <1>6

\* The cycles a step charges, what it changes about handlers and where it
\* leads are all that counts.
LEMMA RunLess ==
  ASSUME IInv, NEW c \in Nat, left' = left - c,
         NEW h \in Nat, NEW g \in Nat, Nesting = h, Nesting' = g,
         NEW t \in {0, 1, 2}, NEW u \in {0, 1, 2},
         ToNextBlock = t, ToNextBlock' = u,
         2 * g + u < 3 * c + 2 * h + t
  PROVE  RunLeft' < RunLeft
<1>1. left \in Int /\ MaxBlock \in Nat
  BY RuntimeConstants DEF IInv, TypeOK
<1>2. RunLeft = 3 * (left + 2 * MaxBlock) + 2 * h + t
  BY DEF RunLeft
<1>3. RunLeft' = 3 * (left - c + 2 * MaxBlock) + 2 * g + u
  BY DEF RunLeft
<1> DEFINE n == left + 2 * MaxBlock
<1>4. n \in Int /\ left - c + 2 * MaxBlock = n - c
  BY <1>1
<1> HIDE DEF n
<1>5. RunLeft = 3 * n + 2 * h + t /\ RunLeft' = 3 * (n - c) + 2 * g + u
  BY <1>2, <1>3, <1>4 DEF n
<1> QED BY <1>4, <1>5

\* A return from a handler leaves one less; any other return leaves them all.
LEMMA ReturnNesting ==
  ASSUME IInv, pc = "transfer", NEW flag, Return(flag)
  PROVE  /\ Returning.kind = "isr" =>
              Nesting \in Nat \ {0} /\ Nesting' = Nesting - 1
         /\ Returning.kind # "isr" => Nesting' = Nesting
<1> DEFINE n == ReturnIndex
<1>1. cstack # <<>> /\ cstack' = SubSeq(cstack, 1, n - 1)
  BY DEF IInv, StackShape, Return
<1>2. /\ Returning.kind = "isr" => Handlers' = Handlers \ {n} /\ n \in Handlers
      /\ Returning.kind # "isr" => Handlers' = Handlers
  BY <1>1, HandlersPop DEF IInv
<1> HIDE DEF n
<1>3. IsFiniteSet(Handlers) /\ Nesting \in Nat
  BY HandlersFinite
<1>4. n \in Handlers =>
        Cardinality(Handlers \ {n}) = Cardinality(Handlers) - 1
  BY <1>3, FS_RemoveElement
<1>5. n \in Handlers => Cardinality(Handlers) # 0
  BY <1>3, FS_EmptySet
<1> QED BY <1>2, <1>3, <1>4, <1>5 DEF Nesting

LEMMA RunStep ==
  ASSUME IInv, Next, run_active, run_active'
  PROVE  RunLeft' < RunLeft \/ (RunLeft' = RunLeft /\ WriteIE)
<1>1. /\ pc # "host" /\ cstack \in Seq(Frame) /\ cstack # <<>>
      /\ Len(cstack) \in Nat
  BY DEF IInv, TypeOK, StackShape
<1>2. left \in Int /\ left - 0 = left /\ 0 \in Nat
  BY DEF IInv, TypeOK
<1>3. ~Host
  BY <1>1 DEF Host, Run, RunNothing, HostTick, HostRaise, Register,
              ClearRegistry, HostReset
<1>4. ~Escape
  BY DEF Escape
<1>5. Nesting \in Nat /\ IsFiniteSet(Handlers)
  BY HandlersFinite
<1>6. CASE EndOfBlock
  <2>1. PICK c \in 1 .. MaxBlock, R \in SUBSET Irqs : Block(c, R)
    BY <1>6 DEF EndOfBlock
  <2>2. c \in Nat /\ c >= 1 /\ left' = left - c /\ pc = "code"
    BY <2>1, RuntimeConstants DEF Block, Tick, Charge
  <2>3. ToNextBlock = 0
    BY <2>2 DEF ToNextBlock
  <2>4. CASE StartHandler(pending \cup R)
    <3> DEFINE f == Isr(MostUrgent(pending \cup R))
    <3>1. cstack' = Append(cstack, f) /\ pc' = "code"
      BY <2>4 DEF StartHandler
    <3>2. f \in Frame /\ f.kind = "isr"
      BY <2>4, MostUrgentIn, FrameFacts DEF StartHandler, CanTake, IInv, TypeOK
    <3> HIDE DEF f
    <3>3. /\ Handlers' = Handlers \cup {Len(cstack) + 1}
          /\ Len(cstack) + 1 \notin Handlers
      BY <1>1, <3>1, <3>2, HandlersPush DEF IInv
    <3>4. Nesting' = Nesting + 1
      BY <1>5, <3>3, FS_AddElement DEF Nesting
    <3>5. ToNextBlock' = 0
      BY <3>1 DEF ToNextBlock
    <3>6. /\ Nesting + 1 \in Nat
          /\ 2 * (Nesting + 1) + 0 < 3 * c + 2 * Nesting + 0
      BY <1>5, <2>2
    <3> QED BY <1>5, <2>2, <2>3, <3>4, <3>5, <3>6, RunLess
  <2>5. CASE NoHandlerStarted(pending \cup R)
    <3>1. cstack' = cstack /\ pc' = "check"
      BY <2>5 DEF NoHandlerStarted
    <3>2. Nesting' = Nesting /\ ToNextBlock' = 2
      BY <3>1 DEF Nesting, Handlers, ToNextBlock
    <3>3. 2 * Nesting + 2 < 3 * c + 2 * Nesting + 0
      BY <1>5, <2>2
    <3> QED BY <1>5, <2>2, <2>3, <3>2, <3>3, RunLess
  <2> QED BY <2>1, <2>4, <2>5 DEF Block, Tick
<1>7. CASE TickReturns
  <2>1. pc = "check" /\ pc' = "transfer" /\ UNCHANGED <<cstack, left>>
    BY <1>1, <1>7 DEF TickReturns
  <2>2. Nesting' = Nesting /\ ToNextBlock = 2 /\ ToNextBlock' = 1
    BY <2>1 DEF Nesting, Handlers, ToNextBlock
  <2>3. 2 * Nesting + 1 < 3 * 0 + 2 * Nesting + 2
    BY <1>5
  <2> QED BY <1>2, <1>5, <2>1, <2>2, <2>3, RunLess
<1>8. ASSUME pc = "transfer", pc' = "code", left' = left,
             Nesting' = Nesting
      PROVE  RunLeft' < RunLeft
  <2>1. ToNextBlock = 1 /\ ToNextBlock' = 0
    BY <1>8 DEF ToNextBlock
  <2>2. 2 * Nesting + 0 < 3 * 0 + 2 * Nesting + 1
    BY <1>5
  <2> QED BY <1>2, <1>5, <1>8, <2>1, <2>2, RunLess
<1>9. CASE Continue \/ \E f \in Funcs : CallTraps(f)
  <2>1. pc = "transfer" /\ pc' = "code" /\ UNCHANGED <<cstack, left>>
    BY <1>9 DEF Continue, CallTraps
  <2> QED BY <1>8, <2>1 DEF Nesting, Handlers
<1>10. CASE \E f \in Funcs : Call(f) \/ TailCall(f)
  <2>1. PICK k \in {"call", "tail"} : cstack' = Append(cstack, Plain(k))
    BY <1>10 DEF Call, TailCall
  <2>2. pc = "transfer" /\ pc' = "code" /\ left' = left
    BY <1>10 DEF Call, TailCall
  <2>3. Plain(k) \in Frame /\ Plain(k).kind # "isr"
    BY FrameFacts
  <2>4. Handlers' = Handlers
    BY <2>1, <2>3, HandlersPush DEF IInv
  <2> QED BY <1>8, <2>2, <2>4 DEF Nesting
<1>11. CASE Undefined \/ Ret \/ Reti
  <2>1. PICK flag : Return(flag)
    BY <1>11 DEF Undefined, Ret, Reti
  <2>2. pc = "transfer"
    BY <1>11 DEF Undefined, Ret, Reti
  <2>3. /\ Returning.kind = "isr" =>
             Nesting \in Nat \ {0} /\ Nesting' = Nesting - 1
        /\ Returning.kind # "isr" => Nesting' = Nesting
    BY <2>1, <2>2, ReturnNesting
  <2>4. CASE Returning.kind = "entry"
    BY <2>1, <2>4 DEF Return
  <2>5. CASE Returning.kind = "call"
    BY <1>8, <2>1, <2>2, <2>3, <2>5 DEF Return
  <2>6. CASE Returning.kind = "isr"
    <3>1. pc' = "check" /\ left' = left
      BY <2>1, <2>6 DEF Return
    <3>2. ToNextBlock = 1 /\ ToNextBlock' = 2
      BY <2>2, <3>1 DEF ToNextBlock
    <3>3. /\ Nesting - 1 \in Nat
          /\ 2 * (Nesting - 1) + 2 < 3 * 0 + 2 * Nesting + 1
      BY <2>3, <2>6
    <3> QED BY <1>2, <1>5, <2>3, <2>6, <3>1, <3>2, <3>3, RunLess
  <2> QED BY <2>1, <2>4, <2>5, <2>6 DEF Return
<1>12. CASE WriteIE
  <2>1. UNCHANGED <<cstack, pc, left>>
    BY <1>12 DEF WriteIE
  <2>2. RunLeft' = RunLeft
    BY <2>1 DEF RunLeft, Nesting, Handlers, ToNextBlock
  <2> QED BY <1>12, <2>2
<1> QED BY <1>3, <1>4, <1>6, <1>7, <1>9, <1>10, <1>11, <1>12
        DEF Next, Transfer

\* recomp_rt.h:88-91: a run's budget bounds its work, however many interrupts
\* it takes and whatever its code does.  While it goes on, every step but a
\* write to IE inside a block leaves fewer of a natural number of steps.
THEOREM RunsAreBounded ==
  Spec => /\ [](run_active => RunLeft \in Nat)
          /\ [][run_active /\ run_active' =>
                  RunLeft' < RunLeft \/ (RunLeft' = RunLeft /\ WriteIE)]_vars
<1>1. IInv => (run_active => RunLeft \in Nat)
  BY RunLeftType
<1>2. IInv /\ [Next]_vars =>
        [run_active /\ run_active' =>
           RunLeft' < RunLeft \/ (RunLeft' = RunLeft /\ WriteIE)]_vars
  BY RunStep
<1> QED BY <1>1, <1>2, Invariance, PTL DEF Spec
=============================================================================
