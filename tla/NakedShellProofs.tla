---------------------------- MODULE NakedShellProofs ----------------------------
(***************************************************************************)
(* Proofs about NakedShell, for every set of functions, every depth of      *)
(* hooked calls inside callbacks and every number of arguments.             *)
(***************************************************************************)
EXTENDS NakedShell, SequenceTheorems, TLAPS

-----------------------------------------------------------------------------
(* Types *)

Label == {"program", "save_gpr", "push_skip", "save_fpu", "call_hook", "callback", "test_skip",
          "skip_original_call", "invoke_original_call", "return", "jump", "original"}

Place == [function : Functions \cup {None}, label : Label]

Word ==
  ({"int", "pointer"} \X Int)
    \cup ({"value"} \X (Register \cup {"junk", "new"}))
    \cup ({"return"} \X Place)

FpuState == {"program", "callback", "zero"}

Frame ==
  [function : Functions, rsp : Int, regs : [Register -> Word], fpu : FpuState,
   context : Int \cup {None}, wrote : Register \cup {None, "locals"},
   skip : BOOLEAN, called : BOOLEAN]

Typed ==
  /\ support \in XsaveSupportLevels
  /\ shells \in [Functions -> [hook : Functions, orig : Functions] \cup {None}]
  /\ pc \in Place /\ rsp \in Int
  /\ regs \in [Register -> Word] /\ stack \in [1..StackSize -> Word]
  /\ fpu \in FpuState /\ xsave_state_bufs \in [Functions -> [Site -> FpuState]]
  /\ frames \in Seq(Frame)

-----------------------------------------------------------------------------
(* The invariant.  A hooked call lays its frame on the stack below its       *)
(* return address: 16 registers, the argument skip_original_call, four words *)
(* of home space, and the return address of the callback.                    *)

\* Where save_cpu_state_gpr pushes register r.
Order(r) == CHOOSE i \in DOMAIN Saved : Saved[i] = r

\* The return address of the i-th hooked call in progress.
Base(i) == ProgramRsp - 1 - 28 * (i - 1)

Caller(i) == IF i = 1 THEN At(None, "program") ELSE At(frames[i - 1].function, "callback")

\* The registers of the call are on the stack, but for what the callback changed.
Keeps(i) ==
  \A r \in Register :
    stack[frames[i].rsp - Order(r)] = IF r = frames[i].wrote THEN New ELSE frames[i].regs[r]

\* The argument says what the callback has asked for.
Asked(i) == /\ frames[i].skip = TRUE => stack[frames[i].rsp - 17] = Int1
            /\ frames[i].skip = FALSE => stack[frames[i].rsp - 17] # Int1

\* The callback of the i-th call is running, or has called a hooked function.
InCallback(i) == i < Len(frames) \/ Here("callback")

FrameOK(i) ==
  /\ frames[i].rsp = Base(i)
  /\ shells[frames[i].function] # None
  /\ stack[Base(i)] = <<"return", Caller(i)>>
  /\ i < Len(frames) \/ ~Here("save_gpr") => Keeps(i)
  /\ InCallback(i) =>
       /\ frames[i].context = Base(i) - 17
       /\ stack[Base(i) - 22] = <<"return", At(frames[i].function, "test_skip")>>
       /\ Asked(i)

\* What the innermost call has done when it is at a label of the shell.
TopOK ==
  /\ pc.function = Top.function
  /\ rsp = Top.rsp - Pushes
  /\ Here("save_gpr") => regs = Top.regs
  /\ pc.label \in {"save_gpr", "push_skip", "save_fpu", "call_hook"} =>
       Top.wrote = None /\ Top.skip = FALSE
  /\ pc.label \in {"save_fpu", "call_hook"} =>
       regs["rcx"] = Pointer(Top.rsp - 17) /\ Asked(Len(frames))
  /\ Here("test_skip") => Asked(Len(frames))
  /\ pc.label \in {"skip_original_call", "return"} => Top.skip = TRUE
  /\ pc.label \in {"invoke_original_call", "jump", "original"} => Top.skip = FALSE

ShellInv ==
  /\ Typed
  /\ \A f \in Functions : shells[f] \in {None, InitShellArgs(f)}
  /\ Len(frames) <= Depth
  /\ Here("program") => pc = At(None, "program") /\ frames = <<>> /\ rsp = ProgramRsp
  /\ ~Here("program") => frames # <<>> /\ TopOK
  /\ \A i \in 1..Len(frames) : FrameOK(i)

-----------------------------------------------------------------------------
(* The places of the registers, and of the frames *)

\* Where save_cpu_state_gpr pushes what.
LEMMA SavedPlaces ==
  /\ DOMAIN Saved = 1..16 /\ Len(Saved) = 16
  /\ \A i \in 1..16 : Saved[i] \in Register
  /\ \A r \in Register : \E i \in 1..16 : Saved[i] = r
  /\ "rax" \in Register /\ "rcx" \in Register /\ "rdx" \in Register /\ "r8" \in Register
  /\ "r14" \in Register /\ "locals" \notin Register
<1>1. DOMAIN Saved = 1..16 /\ Len(Saved) = 16
  BY DEF Saved
<1>2. Register = {Saved[i] : i \in 1..16}
  BY <1>1 DEF Register, ToSet
<1>3. /\ Saved[1] = "rax" /\ Saved[3] = "rcx" /\ Saved[4] = "rdx" /\ Saved[8] = "r8"
      /\ Saved[14] = "r14"
  BY DEF Saved
<1>4. \A i \in 1..16 : Saved[i] # "locals"
  <2> TAKE i \in 1..16
  <2>1. i \in {1, 2, 3, 4, 5, 6, 7, 8, 9, 10, 11, 12, 13, 14, 15, 16}
    OBVIOUS
  <2> QED
    BY <2>1 DEF Saved
<1> QED
  BY <1>1, <1>2, <1>3, <1>4

\* No register is saved twice.
LEMMA SavedOnce == \A i, j \in 1..16 : Saved[i] = Saved[j] => i = j
<1> SUFFICES ASSUME NEW i \in 1..16, NEW j \in 1..16, Saved[i] = Saved[j]
             PROVE  i = j
  OBVIOUS
<1>1. /\ i \in {1, 2, 3, 4, 5, 6, 7, 8, 9, 10, 11, 12, 13, 14, 15, 16}
      /\ j \in {1, 2, 3, 4, 5, 6, 7, 8, 9, 10, 11, 12, 13, 14, 15, 16}
  OBVIOUS
<1> QED
  BY <1>1, SMTT(30) DEF Saved

\* So Order is the inverse of Saved.
LEMMA Orders ==
  /\ \A r \in Register : Order(r) \in 1..16 /\ Saved[Order(r)] = r
  /\ \A i \in 1..16 : Order(Saved[i]) = i
<1>1. ASSUME NEW r \in Register PROVE Order(r) \in 1..16 /\ Saved[Order(r)] = r
  <2>1. \E i \in DOMAIN Saved : Saved[i] = r
    BY SavedPlaces
  <2>2. Order(r) \in DOMAIN Saved /\ Saved[Order(r)] = r
    BY <2>1 DEF Order
  <2> QED
    BY <2>2, SavedPlaces
<1>2. ASSUME NEW i \in 1..16 PROVE Order(Saved[i]) = i
  <2>1. Saved[i] \in Register
    BY SavedPlaces
  <2>2. Order(Saved[i]) \in 1..16 /\ Saved[Order(Saved[i])] = Saved[i]
    BY <1>1, <2>1
  <2> QED
    BY <2>2, SavedOnce
<1> QED
  BY <1>1, <1>2

\* hook_context lists the registers in the order of their addresses.
LEMMA ContextLayout ==
  /\ DOMAIN hook_context = 1..17
  /\ hook_context[1] = "skip_original_call" /\ "skip_original_call" \notin Register
  /\ \A k \in 2..17 : hook_context[k] = Saved[18 - k]
<1>1. DOMAIN hook_context = 1..17 /\ hook_context[1] = "skip_original_call"
  BY DEF hook_context
<1>2. \A k \in 2..17 : hook_context[k] = Saved[18 - k]
  <2> TAKE k \in 2..17
  <2>1. k \in {2, 3, 4, 5, 6, 7, 8, 9, 10, 11, 12, 13, 14, 15, 16, 17}
    OBVIOUS
  <2>2. /\ hook_context[2] = Saved[16] /\ hook_context[3] = Saved[15]
        /\ hook_context[4] = Saved[14] /\ hook_context[5] = Saved[13]
        /\ hook_context[6] = Saved[12] /\ hook_context[7] = Saved[11]
        /\ hook_context[8] = Saved[10] /\ hook_context[9] = Saved[9]
        /\ hook_context[10] = Saved[8] /\ hook_context[11] = Saved[7]
        /\ hook_context[12] = Saved[6] /\ hook_context[13] = Saved[5]
        /\ hook_context[14] = Saved[4] /\ hook_context[15] = Saved[3]
        /\ hook_context[16] = Saved[2] /\ hook_context[17] = Saved[1]
    BY DEF hook_context, Saved
  <2> QED
    BY <2>1, <2>2
<1>3. "skip_original_call" \notin Register
  <2>1. \A i \in 1..16 : Saved[i] # "skip_original_call"
    <3> TAKE i \in 1..16
    <3>1. i \in {1, 2, 3, 4, 5, 6, 7, 8, 9, 10, 11, 12, 13, 14, 15, 16}
      OBVIOUS
    <3> QED
      BY <3>1 DEF Saved
  <2> QED
    BY <2>1, SavedPlaces
<1> QED
  BY <1>1, <1>2, <1>3

\* So the field of a register is where it has been pushed.
LEMMA FieldPlaces ==
  ASSUME NEW c \in Int, Top.context = c
  PROVE  /\ Field("skip_original_call") = c
         /\ \A r \in Register : Field(r) = c + 17 - Order(r)
<1>1. Field("skip_original_call") = c
  <2>1. \A k \in DOMAIN hook_context : hook_context[k] = "skip_original_call" => k = 1
    BY ContextLayout, SavedPlaces
  <2>2. (CHOOSE k \in DOMAIN hook_context : hook_context[k] = "skip_original_call") = 1
    BY <2>1, ContextLayout
  <2>3. Field("skip_original_call") = c + 1 - 1
    BY <2>2 DEF Field
  <2> QED
    BY <2>3
<1>2. ASSUME NEW r \in Register PROVE Field(r) = c + 17 - Order(r)
  <2>1. Order(r) \in 1..16 /\ Saved[Order(r)] = r
    BY Orders
  <2>2. 18 - Order(r) \in 2..17 /\ hook_context[18 - Order(r)] = r
    BY <2>1, ContextLayout
  <2>3. \A k \in DOMAIN hook_context : hook_context[k] = r => k = 18 - Order(r)
    <3> SUFFICES ASSUME NEW k \in 1..17, hook_context[k] = r PROVE k = 18 - Order(r)
      BY ContextLayout
    <3>1. k \in 2..17
      BY ContextLayout
    <3>2. Saved[18 - k] = r
      BY <3>1, ContextLayout
    <3> QED
      BY <2>1, <3>1, <3>2, SavedOnce
  <2>4. (CHOOSE k \in DOMAIN hook_context : hook_context[k] = r) = 18 - Order(r)
    BY <2>2, <2>3, ContextLayout
  <2>5. Field(r) = c + (18 - Order(r)) - 1
    BY <2>4 DEF Field
  <2> QED
    BY <2>1, <2>5
<1> QED
  BY <1>1, <1>2

\* The frames of Depth calls fit on the stack, below the program's.
LEMMA Geometry ==
  /\ ProgramRsp \in Int /\ ProgramRsp % 2 = 0
  /\ ProgramRsp <= StackSize - Arguments /\ ProgramRsp <= StackSize
  /\ Arguments \in Nat /\ StackSize \in Nat /\ Depth \in Nat
  /\ \A i \in 1..Depth :
       /\ Base(i) \in Int /\ Base(i) >= 27 /\ Base(i) <= ProgramRsp - 1 /\ Base(i) % 2 = 1
       /\ Base(i + 1) = Base(i) - 28
  /\ \A i, j \in 1..Depth : i < j => Base(j) <= Base(i) - 28
  /\ Base(1) = ProgramRsp - 1
<1>1. /\ Depth \in Nat \ {0} /\ Arguments \in Nat \ {0} /\ StackSize \in Nat
      /\ StackSize >= Arguments + 1 + 40 * Depth
  BY ShellAssumption DEF ShellAssumption
<1> DEFINE n == StackSize - Arguments
<1>2. n \in Nat /\ n >= 1 + 40 * Depth
  BY <1>1
<1> HIDE DEF n
<1>3. ProgramRsp = n - (n % 2)
  BY <1>1 DEF ProgramRsp, n
<1>4. n % 2 \in {0, 1} /\ (n - (n % 2)) % 2 = 0
  BY <1>2
<1>5. ProgramRsp \in Int /\ ProgramRsp % 2 = 0 /\ ProgramRsp <= n /\ ProgramRsp >= n - 1
  BY <1>2, <1>3, <1>4
<1> HIDE DEF ProgramRsp
<1>6. ASSUME NEW i \in 1..Depth
      PROVE  /\ Base(i) \in Int /\ Base(i) >= 27 /\ Base(i) <= ProgramRsp - 1
             /\ Base(i) % 2 = 1 /\ Base(i + 1) = Base(i) - 28
  <2>1. i \in Int /\ 1 <= i /\ i <= Depth
    BY <1>1
  <2>2. Base(i) = ProgramRsp - 1 - 28 * (i - 1) /\ Base(i + 1) = ProgramRsp - 1 - 28 * (i + 1 - 1)
    BY DEF Base
  <2>3. Base(i) \in Int /\ Base(i) >= 27 /\ Base(i) <= ProgramRsp - 1 /\ Base(i + 1) = Base(i) - 28
    BY <1>1, <1>2, <1>5, <2>1, <2>2
  <2>4. Base(i) % 2 = 1
    BY <1>5, <2>1, <2>2
  <2> QED
    BY <2>3, <2>4
<1>7. \A i, j \in 1..Depth : i < j => Base(j) <= Base(i) - 28
  BY <1>1, <1>5 DEF Base
<1>8. Base(1) = ProgramRsp - 1
  BY <1>5 DEF Base
<1>9. ProgramRsp <= StackSize - Arguments /\ ProgramRsp <= StackSize
  BY <1>1, <1>5 DEF n
<1> QED
  BY <1>1, <1>5, <1>6, <1>7, <1>8, <1>9

\* The words of a frame are words of the stack.
LEMMA FrameSpace ==
  ASSUME NEW i \in 1..Depth, NEW k \in 0..26
  PROVE  /\ Base(i) - k \in 1..StackSize /\ Base(i) - k <= Base(i)
         /\ Base(i) - k <= ProgramRsp
         /\ \A n \in k..26 : Base(i) - n <= Base(i) - k
         /\ k >= 1 => Base(i) - k < Base(i)
         /\ Base(i) - (Base(i) - k) = k
<1> DEFINE b == Base(i)
<1>1. /\ b \in Int /\ b >= 27 /\ b <= ProgramRsp - 1 /\ ProgramRsp <= StackSize
      /\ ProgramRsp \in Int /\ StackSize \in Int
  BY Geometry
<1> HIDE DEF b
<1>2. k \in Int /\ 0 <= k /\ k <= 26
  OBVIOUS
<1>3. b - k \in 1..StackSize /\ b - k <= b /\ b - k <= ProgramRsp
  BY <1>1, <1>2
<1>4. /\ \A n \in k..26 : b - n <= b - k
      /\ k >= 1 => b - k < b
      /\ b - (b - k) = k
  BY <1>1, <1>2
<1> QED
  BY <1>3, <1>4 DEF b

-----------------------------------------------------------------------------
(* What is read from the stack after it has been written *)

\* The words of the program, and how the shell tells them apart.
LEMMA Words ==
  /\ Int0 \in Word /\ Int1 \in Word /\ Junk \in Word /\ New \in Word /\ Int0 # Int1
  /\ \A i \in Int : Pointer(i) \in Word /\ Pointer(i) # Int1 /\ Pointer(i)[2] = i
  /\ \A p \in Place : <<"return", p>> \in Word /\ <<"return", p>>[2] = p
  /\ \A r \in Register : <<"value", r>> \in Word
BY DEF Word, Int0, Int1, Junk, New, Pointer

\* Pushes write a block below sp.
LEMMA PushedAt ==
  ASSUME NEW st \in [1..StackSize -> Word], NEW words, NEW n \in Nat, Len(words) = n,
         \A k \in 1..n : words[k] \in Word, NEW sp \in Int
  PROVE  /\ Pushed(st, words, sp) \in [1..StackSize -> Word]
         /\ \A i \in 1..StackSize :
              Pushed(st, words, sp)[i] =
                IF sp - n <= i /\ i < sp THEN words[sp - i] ELSE st[i]
<1>1. \A i \in 1..StackSize : sp - n <= i /\ i < sp => words[sp - i] \in Word
  BY Geometry
<1> QED
  BY <1>1 DEF Pushed

LEMMA PushedOne ==
  ASSUME NEW st \in [1..StackSize -> Word], NEW words, Len(words) = 1, words[1] \in Word,
         NEW sp \in Int
  PROVE  /\ Pushed(st, words, sp) \in [1..StackSize -> Word]
         /\ \A i \in 1..StackSize :
              Pushed(st, words, sp)[i] = IF i = sp - 1 THEN words[1] ELSE st[i]
<1>1. \A k \in 1..1 : words[k] \in Word
  OBVIOUS
<1>2. /\ Pushed(st, words, sp) \in [1..StackSize -> Word]
      /\ \A i \in 1..StackSize :
           Pushed(st, words, sp)[i] = IF sp - 1 <= i /\ i < sp THEN words[sp - i] ELSE st[i]
  BY <1>1, PushedAt
<1>3. \A i \in 1..StackSize : sp - 1 <= i /\ i < sp <=> i = sp - 1
  BY Geometry
<1>4. \A i \in 1..StackSize : i = sp - 1 => sp - i = 1
  BY Geometry
<1> QED
  BY <1>1, <1>2, <1>3, <1>4

\* A function that has been called may change what is below its home space.
LEMMA UsedAt ==
  ASSUME NEW st \in [1..StackSize -> Word], NEW sp \in Int
  PROVE  /\ Used(st, sp) \in [1..StackSize -> Word]
         /\ \A i \in 1..StackSize :
              Used(st, sp)[i] = IF i <= sp + 4 /\ i # sp THEN Junk ELSE st[i]
BY Words DEF Used

\* run_xsave_callback changes nothing above the word below rsp; that word
\* receives rcx.
LEMMA FpuCall ==
  ASSUME Typed, PreserveFpuState
  PROVE  /\ regs' \in [Register -> Word] /\ stack' \in [1..StackSize -> Word]
         /\ \A i \in 1..StackSize : i >= rsp => stack'[i] = stack[i]
         /\ regs'["rcx"] = regs["rcx"]
         /\ rsp - 1 \in 1..StackSize =>
              stack'[rsp - 1] = stack[rsp - 1] \/ stack'[rsp - 1] = regs["rcx"]
<1>1. /\ regs \in [Register -> Word] /\ stack \in [1..StackSize -> Word] /\ rsp \in Int
  BY DEF Typed
<1>2. CASE support = 0
  BY <1>1, <1>2 DEF PreserveFpuState
<1>3. CASE support # 0
  <2> DEFINE words == <<regs["rcx"], regs["rdx"], regs["r8"]>>
             pushed == Push(words, rsp)
  <2>1. /\ stack' = Used(pushed, rsp - 9)
        /\ regs' = [r \in Register |->
                      IF r \in {"rcx", "rdx", "r8"} THEN regs[r] ELSE Clobbered[r]]
    BY <1>3 DEF PreserveFpuState
  <2>2. Len(words) = 3 /\ words[1] = regs["rcx"] /\ \A k \in 1..3 : words[k] \in Word
    BY <1>1, SavedPlaces
  <2> HIDE DEF words
  <2>3. /\ pushed \in [1..StackSize -> Word]
        /\ \A i \in 1..StackSize :
             pushed[i] = IF rsp - 3 <= i /\ i < rsp THEN words[rsp - i] ELSE stack[i]
    BY <1>1, <2>2, PushedAt DEF Push
  <2> HIDE DEF pushed
  <2>4. rsp - 9 \in Int
    BY <1>1
  <2>5. /\ stack' \in [1..StackSize -> Word]
        /\ \A i \in 1..StackSize :
             stack'[i] = IF i <= rsp - 9 + 4 /\ i # rsp - 9 THEN Junk ELSE pushed[i]
    BY <2>1, <2>3, <2>4, UsedAt
  <2>6. \A r \in Register : Clobbered[r] \in Word
    BY <1>1, Words DEF Clobbered
  <2>7. regs' \in [Register -> Word] /\ regs'["rcx"] = regs["rcx"]
    BY <1>1, <2>1, <2>6, SavedPlaces
  <2>8. \A i \in 1..StackSize : i >= rsp => stack'[i] = stack[i]
    BY <1>1, <2>3, <2>5, Geometry
  <2>9. rsp - 1 \in 1..StackSize => stack'[rsp - 1] = regs["rcx"]
    <3> SUFFICES ASSUME rsp - 1 \in 1..StackSize PROVE stack'[rsp - 1] = regs["rcx"]
      OBVIOUS
    <3>1. stack'[rsp - 1] = pushed[rsp - 1]
      BY <1>1, <2>5
    <3>2. pushed[rsp - 1] = words[rsp - (rsp - 1)]
      BY <1>1, <2>3
    <3>3. rsp - (rsp - 1) = 1
      BY <1>1
    <3> QED
      BY <2>2, <3>1, <3>2, <3>3
  <2> QED
    BY <2>5, <2>7, <2>8, <2>9
<1> QED
  BY <1>2, <1>3

-----------------------------------------------------------------------------
(* The frames of a step *)

\* What the invariant says of the innermost call.
LEMMA Innermost ==
  ASSUME ShellInv, ~Here("program")
  PROVE  /\ Len(frames) \in 1..Depth /\ DOMAIN frames = 1..Len(frames)
         /\ Top \in Frame /\ frames[Len(frames)] = Top
         /\ Top.rsp = Base(Len(frames)) /\ Base(Len(frames)) \in Int
         /\ Base(Len(frames)) >= 27 /\ Base(Len(frames)) <= ProgramRsp - 1
         /\ ProgramRsp <= StackSize /\ ProgramRsp \in Int /\ StackSize \in Int
         /\ rsp = Base(Len(frames)) - Pushes
         /\ FrameOK(Len(frames)) /\ TopOK
         /\ pc \in Place /\ pc.function = Top.function /\ pc.function \in Functions
         /\ shells[pc.function] = InitShellArgs(pc.function)
<1>1. frames \in Seq(Frame) /\ frames # <<>> /\ TopOK /\ Len(frames) <= Depth
  BY DEF ShellInv, Typed
<1>2. Len(frames) \in Nat /\ Len(frames) # 0 /\ DOMAIN frames = 1..Len(frames)
  BY <1>1, EmptySeq, LenProperties
<1>3. Len(frames) \in 1..Depth
  BY <1>1, <1>2, Geometry
<1>4. Top \in Frame /\ frames[Len(frames)] = Top
  BY <1>1, <1>3, ElementOfSeq DEF Top
<1>5. FrameOK(Len(frames))
  BY <1>2 DEF ShellInv
<1>6. Top.rsp = Base(Len(frames)) /\ shells[Top.function] # None
  BY <1>4, <1>5 DEF FrameOK
<1>7. Top.function \in Functions /\ pc.function = Top.function /\ pc \in Place
  BY <1>1, <1>4 DEF Frame, TopOK, ShellInv, Typed
<1>8. shells[pc.function] = InitShellArgs(pc.function)
  BY <1>6, <1>7 DEF ShellInv
<1> QED
  BY <1>1, <1>2, <1>3, <1>4, <1>5, <1>6, <1>7, <1>8, Geometry DEF TopOK

\* A frame is not disturbed by what happens elsewhere on the stack.
LEMMA FrameKept ==
  ASSUME NEW i \in 1..Depth, FrameOK(i), i <= Len(frames), frames[i] \in Frame,
         stack \in [1..StackSize -> Word],
         \A j \in 1..StackSize : Base(i) - 22 <= j /\ j <= Base(i) => stack'[j] = stack[j],
         /\ frames'[i].function = frames[i].function /\ frames'[i].rsp = frames[i].rsp
         /\ frames'[i].regs = frames[i].regs /\ frames'[i].context = frames[i].context
         /\ frames'[i].wrote = frames[i].wrote /\ frames'[i].skip = frames[i].skip,
         i # 1 => frames'[i - 1].function = frames[i - 1].function,
         shells'[frames[i].function] # None,
         (InCallback(i))' => InCallback(i),
         (i < Len(frames) \/ ~Here("save_gpr"))' => (i < Len(frames) \/ ~Here("save_gpr"))
  PROVE  FrameOK(i)'
<1>1. /\ Base(i) \in Int /\ Base(i) >= 27 /\ Base(i) <= ProgramRsp - 1
      /\ ProgramRsp <= StackSize /\ ProgramRsp \in Int /\ StackSize \in Int
  BY Geometry
<1>2. /\ frames'[i].rsp = Base(i) /\ frames[i].rsp = Base(i)
  BY DEF FrameOK
<1>3. stack'[Base(i)] = <<"return", Caller(i)'>>
  <2>1. Caller(i)' = Caller(i)
    BY DEF Caller
  <2>2. stack'[Base(i)] = stack[Base(i)]
    BY <1>1
  <2> QED
    BY <2>1, <2>2 DEF FrameOK
<1>4. Keeps(i) => Keeps(i)'
  <2> SUFFICES ASSUME Keeps(i), NEW r \in Register
               PROVE  stack'[frames'[i].rsp - Order(r)] =
                        IF r = frames'[i].wrote THEN New ELSE frames'[i].regs[r]
    BY DEF Keeps
  <2>1. Order(r) \in 1..16
    BY Orders
  <2>a. /\ Base(i) - Order(r) \in 1..StackSize
        /\ Base(i) - 22 <= Base(i) - Order(r) /\ Base(i) - Order(r) <= Base(i)
    <3>1. Order(r) \in 0..26 /\ 22 \in Order(r)..26
      BY <2>1
    <3> QED
      BY <3>1, FrameSpace
  <2>2. stack'[Base(i) - Order(r)] = stack[Base(i) - Order(r)]
    BY <2>a
  <2> QED
    BY <1>2, <2>2 DEF Keeps
<1>5. /\ stack'[Base(i) - 22] = stack[Base(i) - 22]
      /\ stack'[Base(i) - 17] = stack[Base(i) - 17]
  BY <1>1
<1>6. Asked(i) => Asked(i)'
  BY <1>2, <1>5 DEF Asked
<1>7. Base(i)' = Base(i)
  BY DEF Base, ProgramRsp
<1> QED
  BY <1>2, <1>3, <1>4, <1>5, <1>6, <1>7 DEF FrameOK

\* The calls around the innermost one are not disturbed by what it does to the
\* stack below its return address.
LEMMA OuterKept ==
  ASSUME ShellInv, ~Here("program"), NEW i \in 1..Len(frames), i < Len(frames),
         \A j \in 1..StackSize : Top.rsp < j /\ j <= ProgramRsp => stack'[j] = stack[j],
         \A k \in 1..Len(frames) : k < Len(frames) => frames'[k] = frames[k],
         \A f \in Functions : shells[f] # None => shells'[f] # None
  PROVE  FrameOK(i)'
<1>1. /\ Len(frames) \in 1..Depth /\ Top.rsp = Base(Len(frames)) /\ Depth \in Nat
  BY Innermost, Geometry
<1>2. i \in 1..Depth /\ FrameOK(i) /\ i < Len(frames) /\ i <= Len(frames)
  BY <1>1 DEF ShellInv
<1>3. /\ frames[i] \in Frame /\ stack \in [1..StackSize -> Word]
  BY ElementOfSeq DEF ShellInv, Typed
<1>4. shells'[frames[i].function] # None
  BY <1>2, <1>3 DEF FrameOK, Frame
<1>5. \A j \in 1..StackSize : Base(i) - 22 <= j /\ j <= Base(i) => stack'[j] = stack[j]
  <2>1. /\ Base(Len(frames)) <= Base(i) - 28
        /\ Base(i) <= ProgramRsp - 1 /\ Base(i) \in Int /\ Base(Len(frames)) \in Int
        /\ ProgramRsp \in Int /\ StackSize \in Int
    <3> DEFINE m == Len(frames)
    <3>1. m \in 1..Depth /\ i \in 1..Depth /\ i < m
      BY <1>1, <1>2
    <3> HIDE DEF m
    <3>2. /\ Base(m) <= Base(i) - 28 /\ Base(i) <= ProgramRsp - 1
          /\ Base(i) \in Int /\ Base(m) \in Int /\ ProgramRsp \in Int /\ StackSize \in Int
      BY <3>1, Geometry
    <3> QED
      BY <3>2 DEF m
  <2> QED
    BY <1>1, <2>1
<1>6. frames'[i] = frames[i] /\ (i # 1 => frames'[i - 1] = frames[i - 1])
  BY <1>1, <1>2
<1>7. InCallback(i)
  BY <1>2 DEF InCallback
<1> QED
  BY <1>2, <1>3, <1>4, <1>5, <1>6, <1>7, FrameKept

\* What has to be shown of a step within the innermost call.
LEMMA WithinCall ==
  ASSUME ShellInv, ~Here("program"), ~(Here("program")'), Typed', UNCHANGED shells,
         Len(frames') = Len(frames),
         \A k \in 1..Len(frames) : k < Len(frames) => frames'[k] = frames[k],
         \A j \in 1..StackSize : Top.rsp < j /\ j <= ProgramRsp => stack'[j] = stack[j],
         TopOK', FrameOK(Len(frames))'
  PROVE  ShellInv'
<1>1. Len(frames) \in 1..Depth /\ frames' \in Seq(Frame)
  BY Innermost DEF Typed
<1>2. frames' # <<>>
  BY <1>1, EmptySeq
<1>3. \A i \in 1..Len(frames') : FrameOK(i)'
  <2> TAKE i \in 1..Len(frames')
  <2>1. CASE i = Len(frames)
    BY <2>1
  <2>2. CASE i # Len(frames)
    <3>1. i \in 1..Len(frames) /\ i < Len(frames)
      BY <1>1, <2>2
    <3> QED
      BY <3>1, OuterKept
  <2> QED
    BY <2>1, <2>2
<1> QED
  BY <1>2, <1>3 DEF ShellInv, InitShellArgs

\* If the innermost call keeps its registers and its record too, it is enough to
\* look at the place it comes to.
LEMMA WithinShell ==
  ASSUME ShellInv, ~Here("program"), ~(Here("program")'), Typed', UNCHANGED <<shells, frames>>,
         \A j \in 1..StackSize : Top.rsp - 16 <= j /\ j <= ProgramRsp => stack'[j] = stack[j],
         TopOK', ~Here("save_gpr"), ~(Here("callback")')
  PROVE  ShellInv'
<1> DEFINE m == Len(frames)
           b == Base(m)
<1>1. /\ m \in 1..Depth /\ Top.rsp = b /\ frames[m] = Top /\ b \in Int /\ b >= 27
      /\ b <= ProgramRsp - 1 /\ ProgramRsp <= StackSize /\ ProgramRsp \in Int
      /\ StackSize \in Int /\ FrameOK(m) /\ Top \in Frame
  BY Innermost
<1>2. Keeps(m)'
  <2> SUFFICES ASSUME NEW r \in Register
               PROVE  stack'[frames[m].rsp - Order(r)] =
                        IF r = frames[m].wrote THEN New ELSE frames[m].regs[r]
    BY DEF Keeps
  <2>1. Order(r) \in 1..16
    BY Orders
  <2>a. b - Order(r) \in 1..StackSize /\ b - 16 <= b - Order(r) /\ b - Order(r) <= ProgramRsp
    <3>1. Order(r) \in 0..26 /\ 16 \in Order(r)..26
      BY <2>1
    <3> QED
      BY <1>1, <3>1, FrameSpace
  <2>2. stack'[b - Order(r)] = stack[b - Order(r)]
    BY <1>1, <2>a
  <2> QED
    BY <1>1, <2>2 DEF FrameOK, Keeps
<1>3. stack'[b] = <<"return", Caller(m)'>>
  <2>1. stack'[b] = stack[b]
    BY <1>1
  <2> QED
    BY <1>1, <2>1 DEF FrameOK, Caller
<1>4. FrameOK(m)'
  BY <1>1, <1>2, <1>3 DEF FrameOK, InCallback, Base, ProgramRsp
<1>5. \A j \in 1..StackSize : Top.rsp < j /\ j <= ProgramRsp => stack'[j] = stack[j]
  BY <1>1
<1> QED
  BY <1>4, <1>5, WithinCall

-----------------------------------------------------------------------------
(* Steps of the shell *)

\* The thread comes to a label of the same shell.
LEMMA Going ==
  ASSUME ShellInv, ~Here("program"), NEW l \in Label, Goes(l)
  PROVE  pc' \in Place /\ pc'.label = l /\ pc'.function = pc.function
<1>1. pc.function \in Functions
  BY Innermost
<1> QED
  BY <1>1 DEF Goes, At, Place

\* save_cpu_state_gpr
LEMMA SaveRegistersKept == ShellInv /\ SaveRegisters => ShellInv'
<1> SUFFICES ASSUME ShellInv, SaveRegisters PROVE ShellInv'
  OBVIOUS
<1> DEFINE m == Len(frames)
           b == Base(m)
           words == [i \in DOMAIN Saved |-> regs[Saved[i]]]
<1>1. ~Here("program") /\ pc.label = "save_gpr" /\ Goes("push_skip")
  BY DEF SaveRegisters, Here
<1>2. /\ m \in 1..Depth /\ Top.rsp = b /\ frames[m] = Top /\ b \in Int /\ FrameOK(m) /\ TopOK
      /\ Top \in Frame /\ pc.function = Top.function /\ rsp = b - Pushes
  BY <1>1, Innermost
<1>3. /\ pc' \in Place /\ pc'.label = "push_skip" /\ pc'.function = pc.function
  BY <1>1, Going DEF Label
<1>4. /\ regs \in [Register -> Word] /\ stack \in [1..StackSize -> Word]
  BY DEF ShellInv, Typed
<1>5. rsp = b /\ regs = Top.regs /\ Top.wrote = None /\ Top.skip = FALSE
  BY <1>1, <1>2 DEF Pushes, TopOK, Here
<1>6. Len(words) = 16 /\ \A k \in 1..16 : words[k] \in Word /\ words[k] = regs[Saved[k]]
  <2>1. words \in [1..16 -> Word]
    BY <1>4, SavedPlaces
  <2>2. words \in Seq(Word)
    BY <2>1, SeqDef
  <2>3. DOMAIN words = 1..16 /\ Len(words) \in Nat /\ DOMAIN words = 1..Len(words)
    BY <2>1, <2>2, LenProperties
  <2>4. Len(words) = 16
    BY <2>3
  <2> QED
    BY <2>1, <2>4, SavedPlaces
<1> HIDE DEF words
<1>7. /\ stack' \in [1..StackSize -> Word]
      /\ \A i \in 1..StackSize :
           stack'[i] = IF b - 16 <= i /\ i < b THEN words[b - i] ELSE stack[i]
  <2>1. stack' = Pushed(stack, words, b)
    BY <1>5 DEF SaveRegisters, Push, words
  <2> QED
    BY <1>2, <1>4, <1>6, <2>1, PushedAt
<1>8. rsp' = b - 16 /\ UNCHANGED <<hooked, regs, fpu, xsave_state_bufs, frames>>
  BY <1>5, SavedPlaces DEF SaveRegisters
<1>9. Typed'
  BY <1>2, <1>3, <1>7, <1>8 DEF ShellInv, Typed, hooked
<1>10. TopOK'
  BY <1>2, <1>3, <1>5, <1>8, SavedPlaces DEF TopOK, Here, Pushes, Top
<1>11. Keeps(m)'
  <2> SUFFICES ASSUME NEW r \in Register PROVE stack'[b - Order(r)] = Top.regs[r]
    <3>1. None \notin Register
      BY ShellAssumption DEF ShellAssumption
    <3> QED
      BY <1>2, <1>5, <1>8, <3>1 DEF Keeps
  <2>1. Order(r) \in 1..16 /\ Saved[Order(r)] = r
    BY Orders
  <2>2. b - Order(r) \in 1..StackSize /\ b - 16 <= b - Order(r) /\ b - Order(r) < b
        /\ b - (b - Order(r)) = Order(r)
    <3>1. Order(r) \in 0..26 /\ 16 \in Order(r)..26
      BY <2>1
    <3>2. Order(r) >= 1
      BY <2>1
    <3> QED
      BY <1>2, <3>1, <3>2, FrameSpace
  <2>3. stack'[b - Order(r)] = words[Order(r)]
    BY <1>7, <2>2
  <2> QED
    BY <1>5, <1>6, <2>1, <2>3
<1>12. stack'[b] = stack[b] /\ b \in 1..StackSize
  <2>1. b - 0 \in 1..StackSize /\ b - 0 = b
    BY <1>2, FrameSpace
  <2> QED
    BY <1>2, <1>7, <2>1
<1>13. FrameOK(m)'
  BY <1>1, <1>2, <1>3, <1>8, <1>11, <1>12
     DEF FrameOK, InCallback, Here, Base, ProgramRsp, Caller, hooked
<1>14. \A j \in 1..StackSize : Top.rsp < j /\ j <= ProgramRsp => stack'[j] = stack[j]
  BY <1>2, <1>7
<1> QED
  BY <1>1, <1>3, <1>8, <1>9, <1>10, <1>13, <1>14, WithinCall DEF Here, hooked

\* The argument skip_original_call.
LEMMA PushSkipKept == ShellInv /\ PushSkip => ShellInv'
<1> SUFFICES ASSUME ShellInv, PushSkip PROVE ShellInv'
  OBVIOUS
<1> DEFINE m == Len(frames)
           b == Base(m)
<1>1. ~Here("program") /\ pc.label = "push_skip" /\ Goes("save_fpu")
  BY DEF PushSkip, Here
<1>2. /\ m \in 1..Depth /\ Top.rsp = b /\ frames[m] = Top /\ b \in Int /\ TopOK
      /\ pc.function = Top.function /\ rsp = b - Pushes
  BY <1>1, Innermost
<1>3. /\ pc' \in Place /\ pc'.label = "save_fpu" /\ pc'.function = pc.function
  BY <1>1, Going DEF Label
<1>4. /\ regs \in [Register -> Word] /\ stack \in [1..StackSize -> Word]
  BY DEF ShellInv, Typed
<1>5. rsp = b - 16 /\ Top.wrote = None /\ Top.skip = FALSE
  BY <1>1, <1>2, SavedPlaces DEF Pushes, TopOK
<1>6. /\ stack' \in [1..StackSize -> Word]
      /\ \A i \in 1..StackSize :
           stack'[i] = IF i = b - 17 THEN Int0 ELSE stack[i]
  <2>1. rsp \in Int /\ rsp - 1 = b - 17
    BY <1>2, <1>5
  <2>2. /\ stack' \in [1..StackSize -> Word]
        /\ \A i \in 1..StackSize : stack'[i] = IF i = rsp - 1 THEN Int0 ELSE stack[i]
    <3> DEFINE words == <<Int0>>
    <3>1. stack' = Pushed(stack, words, rsp)
      BY DEF PushSkip, Push
    <3>2. Len(words) = 1 /\ words[1] = Int0 /\ Int0 \in Word
      BY Words
    <3> HIDE DEF words
    <3> QED
      BY <1>4, <2>1, <3>1, <3>2, PushedOne
  <2> QED
    BY <2>1, <2>2
<1>7. /\ rsp' = rsp /\ UNCHANGED <<hooked, fpu, xsave_state_bufs, frames>>
      /\ regs' = [regs EXCEPT !["rcx"] = Pointer(b - 17), !["rax"] = Int0]
  <2>1. b - 16 - 1 = b - 17
    BY <1>2
  <2> QED
    BY <1>5, <2>1 DEF PushSkip
<1>8. regs' \in [Register -> Word] /\ regs'["rcx"] = Pointer(b - 17)
  BY <1>2, <1>4, <1>7, SavedPlaces, Words
<1>9. Typed'
  BY <1>3, <1>6, <1>7, <1>8 DEF ShellInv, Typed, hooked
<1>10. stack'[b - 17] # Int1
  <2>1. b - 17 \in 1..StackSize
    BY <1>2, FrameSpace
  <2>2. stack'[b - 17] = Int0
    BY <1>2, <1>6, <2>1
  <2> QED
    BY <2>2, Words
<1>11. TopOK'
  BY <1>2, <1>3, <1>5, <1>7, <1>8, <1>10, SavedPlaces DEF TopOK, Here, Pushes, Top, Asked
<1>12. \A j \in 1..StackSize : Top.rsp - 16 <= j /\ j <= ProgramRsp => stack'[j] = stack[j]
  BY <1>2, <1>6
<1> QED
  BY <1>1, <1>3, <1>7, <1>9, <1>11, <1>12, WithinShell DEF Here, hooked

\* What a call of run_xsave_callback leaves of the frame of the innermost call.
LEMMA FpuCallKept ==
  ASSUME ShellInv, ~Here("program"), rsp = Top.rsp - 16, PreserveFpuState
  PROVE  /\ regs' \in [Register -> Word] /\ stack' \in [1..StackSize -> Word]
         /\ regs'["rcx"] = regs["rcx"]
         /\ \A j \in 1..StackSize :
              Top.rsp - 16 <= j /\ j <= ProgramRsp => stack'[j] = stack[j]
         /\ stack'[Top.rsp - 17] \in {stack[Top.rsp - 17], regs["rcx"]}
<1> DEFINE b == Top.rsp
<1>1. /\ b = Base(Len(frames)) /\ Len(frames) \in 1..Depth /\ b \in Int
  BY Innermost
<1>2. Typed /\ rsp = b - 16
  BY DEF ShellInv
<1>3. b - 17 \in 1..StackSize
  BY <1>1, FrameSpace
<1>4. rsp - 1 = b - 17
  BY <1>1, <1>2
<1>5. /\ regs' \in [Register -> Word] /\ stack' \in [1..StackSize -> Word]
      /\ \A i \in 1..StackSize : i >= rsp => stack'[i] = stack[i]
      /\ regs'["rcx"] = regs["rcx"]
      /\ rsp - 1 \in 1..StackSize =>
           stack'[rsp - 1] = stack[rsp - 1] \/ stack'[rsp - 1] = regs["rcx"]
  BY <1>2, FpuCall
<1>6. stack'[b - 17] \in {stack[b - 17], regs["rcx"]}
  BY <1>3, <1>4, <1>5
<1>7. \A j \in 1..StackSize : b - 16 <= j /\ j <= ProgramRsp => stack'[j] = stack[j]
  BY <1>1, <1>2, <1>5
<1> QED
  BY <1>5, <1>6, <1>7

LEMMA SaveFpuKept == ShellInv /\ SaveFpu => ShellInv'
<1> SUFFICES ASSUME ShellInv, SaveFpu PROVE ShellInv'
  OBVIOUS
<1>1. ~Here("program") /\ pc.label = "save_fpu" /\ Goes("call_hook") /\ PreserveFpuState
  BY DEF SaveFpu, Here
<1>2. TopOK /\ pc.function = Top.function /\ Len(frames) \in 1..Depth /\ frames[Len(frames)] = Top
  BY <1>1, Innermost
<1>3. /\ pc' \in Place /\ pc'.label = "call_hook" /\ pc'.function = pc.function
  BY <1>1, Going DEF Label
<1>4. rsp = Top.rsp - 16 /\ Top.wrote = None /\ Top.skip = FALSE
      /\ regs["rcx"] = Pointer(Top.rsp - 17) /\ stack[Top.rsp - 17] # Int1
  BY <1>1, <1>2, SavedPlaces DEF Pushes, TopOK, Asked
<1>5. /\ regs' \in [Register -> Word] /\ stack' \in [1..StackSize -> Word]
      /\ regs'["rcx"] = regs["rcx"]
      /\ \A j \in 1..StackSize : Top.rsp - 16 <= j /\ j <= ProgramRsp => stack'[j] = stack[j]
      /\ stack'[Top.rsp - 17] \in {stack[Top.rsp - 17], regs["rcx"]}
  BY <1>1, <1>4, FpuCallKept
<1>6. UNCHANGED <<hooked, rsp, fpu, frames>>
  BY DEF SaveFpu
<1>7. xsave_state_bufs' \in [Functions -> [Site -> FpuState]]
  <2>1. /\ fpu \in FpuState /\ xsave_state_bufs \in [Functions -> [Site -> FpuState]]
        /\ pc.function \in Functions
    BY <1>1, Innermost DEF ShellInv, Typed
  <2> QED
    BY <2>1 DEF SaveFpu, Site
<1>8. Typed'
  BY <1>3, <1>5, <1>6, <1>7 DEF ShellInv, Typed, hooked
<1>9. stack'[Top.rsp - 17] # Int1
  <2>1. Top.rsp - 17 \in Int
    BY <1>1, Innermost
  <2> QED
    BY <1>4, <1>5, <2>1, Words
<1>10. TopOK'
  BY <1>2, <1>3, <1>4, <1>5, <1>6, <1>9, SavedPlaces DEF TopOK, Here, Pushes, Top, Asked
<1> QED
  BY <1>1, <1>3, <1>5, <1>6, <1>8, <1>10, WithinShell DEF Here, hooked

\* The test of skip_original_call.
LEMMA TestSkipKept == ShellInv /\ TestSkip => ShellInv'
<1> SUFFICES ASSUME ShellInv, TestSkip PROVE ShellInv'
  OBVIOUS
<1> DEFINE to == IF SkipArgument = Int1 THEN "skip_original_call" ELSE "invoke_original_call"
<1>1. ~Here("program") /\ pc.label = "test_skip" /\ Goes(to)
      /\ UNCHANGED <<hooked, rsp, regs, stack, fpu, xsave_state_bufs, frames>>
  BY DEF TestSkip, Here
<1>2. /\ TopOK /\ pc.function = Top.function /\ Len(frames) \in 1..Depth
      /\ frames[Len(frames)] = Top /\ Top \in Frame /\ Top.rsp \in Int
  BY <1>1, Innermost
<1>3. /\ pc' \in Place /\ pc'.label = to /\ pc'.function = pc.function
  <2>1. to \in Label
    BY DEF Label
  <2> HIDE DEF to
  <2> QED
    BY <1>1, <2>1, Going
<1>4. rsp = Top.rsp - 16 /\ Asked(Len(frames)) /\ Top.skip \in BOOLEAN
  BY <1>1, <1>2, SavedPlaces DEF Pushes, TopOK, Here, Frame
<1>5. SkipArgument = stack[Top.rsp - 17]
  <2>1. rsp - 1 = Top.rsp - 17
    BY <1>2, <1>4
  <2> QED
    BY <2>1 DEF SkipArgument
<1>6. IF to = "skip_original_call" THEN Top.skip = TRUE ELSE Top.skip = FALSE
  BY <1>2, <1>4, <1>5 DEF Asked
<1>7. to \in {"skip_original_call", "invoke_original_call"}
  OBVIOUS
<1> HIDE DEF to
<1>8. Typed'
  BY <1>1, <1>3 DEF ShellInv, Typed, hooked
<1>9. TopOK'
  BY <1>1, <1>2, <1>3, <1>4, <1>6, <1>7, SavedPlaces DEF TopOK, Here, Pushes, Top
<1> QED
  BY <1>1, <1>3, <1>7, <1>8, <1>9, WithinShell DEF Here, hooked

LEMMA RestoreFpuKept == ShellInv /\ RestoreFpu => ShellInv'
<1> SUFFICES ASSUME ShellInv, RestoreFpu PROVE ShellInv'
  OBVIOUS
<1> DEFINE to == IF Here("skip_original_call") THEN "return" ELSE "jump"
<1>1. ~Here("program") /\ pc.label \in {"skip_original_call", "invoke_original_call"}
      /\ Goes(to) /\ PreserveFpuState /\ UNCHANGED <<hooked, rsp, xsave_state_bufs, frames>>
  BY DEF RestoreFpu, Here
<1>2. /\ TopOK /\ pc.function = Top.function /\ Len(frames) \in 1..Depth
      /\ frames[Len(frames)] = Top
  BY <1>1, Innermost
<1>3. /\ pc' \in Place /\ pc'.label = to /\ pc'.function = pc.function
  <2>1. to \in Label
    BY DEF Label
  <2> HIDE DEF to
  <2> QED
    BY <1>1, <2>1, Going
<1>4. rsp = Top.rsp - 16
  BY <1>1, <1>2, SavedPlaces DEF Pushes, TopOK
<1>5. IF to = "return" THEN Top.skip = TRUE ELSE Top.skip = FALSE
  BY <1>1, <1>2 DEF TopOK, Here
<1>6. to \in {"return", "jump"}
  OBVIOUS
<1> HIDE DEF to
<1>7. /\ regs' \in [Register -> Word] /\ stack' \in [1..StackSize -> Word]
      /\ \A j \in 1..StackSize : Top.rsp - 16 <= j /\ j <= ProgramRsp => stack'[j] = stack[j]
  BY <1>1, <1>4, FpuCallKept
<1>8. fpu' \in FpuState
  <2>1. /\ fpu \in FpuState /\ xsave_state_bufs \in [Functions -> [Site -> FpuState]]
        /\ pc.function \in Functions /\ pc.label \in Site
    BY <1>1, Innermost DEF ShellInv, Typed, Site
  <2>2. fpu' = IF support = 0 THEN fpu ELSE xsave_state_bufs[pc.function][pc.label]
    BY DEF RestoreFpu
  <2> QED
    BY <2>1, <2>2
<1>9. Typed'
  BY <1>1, <1>3, <1>7, <1>8 DEF ShellInv, Typed, hooked
<1>10. TopOK'
  BY <1>1, <1>2, <1>3, <1>4, <1>5, <1>6, SavedPlaces DEF TopOK, Here, Pushes, Top
<1> QED
  BY <1>1, <1>3, <1>6, <1>7, <1>9, <1>10, WithinShell DEF Here, hooked

\* A new record of the innermost call.
LEMMA TopReplaced ==
  ASSUME ShellInv, ~Here("program"), NEW r \in Frame,
         frames' = [frames EXCEPT ![Len(frames)] = r]
  PROVE  /\ frames' \in Seq(Frame) /\ Len(frames') = Len(frames)
         /\ frames'[Len(frames)] = r /\ Top' = r
         /\ \A k \in 1..Len(frames) : k < Len(frames) => frames'[k] = frames[k]
<1>1. /\ frames \in Seq(Frame) /\ Len(frames) \in 1..Len(frames)
      /\ DOMAIN frames = 1..Len(frames)
  BY Innermost, LenProperties DEF ShellInv, Typed
<1>2. frames' \in Seq(Frame) /\ Len(frames') = Len(frames)
  BY <1>1, ExceptSeq
<1> DEFINE m == Len(frames)
<1>3. m \in 1..m /\ m \in Nat /\ DOMAIN frames = 1..m /\ frames' = [frames EXCEPT ![m] = r]
  BY <1>1
<1>4. Len(frames') = m /\ Top' = frames'[Len(frames')]
  BY <1>2 DEF Top
<1> HIDE DEF m
<1>5. frames'[m] = r /\ \A k \in 1..m : k < m => frames'[k] = frames[k]
  BY <1>3
<1> QED
  BY <1>2, <1>4, <1>5 DEF m

\* What the call of the callback does to the stack.
LEMMA CallHookStack ==
  ASSUME ShellInv, CallHook
  PROVE  /\ stack' \in [1..StackSize -> Word]
         /\ \A i \in 1..StackSize : i >= rsp - 1 => stack'[i] = stack[i]
         /\ rsp - 5 - 1 \in 1..StackSize =>
              stack'[rsp - 5 - 1] = <<"return", At(pc.function, "test_skip")>>
<1> DEFINE words == << <<"return", At(pc.function, "test_skip")>> >>
           pushed == Pushed(stack, words, rsp - 5)
<1>1. ~Here("program")
  BY DEF CallHook, Here
<1>2. stack \in [1..StackSize -> Word] /\ rsp \in Int
  BY DEF ShellInv, Typed
<1>3. Len(words) = 1 /\ words[1] = <<"return", At(pc.function, "test_skip")>>
      /\ words[1] \in Word
  <2>1. At(pc.function, "test_skip") \in Place
    BY <1>1, Innermost DEF At, Place, Label
  <2> QED
    BY <2>1, Words
<1>4. stack' = Used(pushed, rsp - 6)
  <2>1. rsp - Room - 1 = rsp - 6 /\ rsp - Room = rsp - 5
    BY <1>2 DEF Room
  <2> QED
    BY <2>1 DEF CallHook, Push
<1> HIDE DEF words
<1>5. rsp - 5 \in Int /\ rsp - 6 \in Int /\ rsp - 5 - 1 = rsp - 6 /\ rsp - 6 + 4 = rsp - 2
  BY <1>2
<1>6. /\ pushed \in [1..StackSize -> Word]
      /\ \A i \in 1..StackSize : pushed[i] = IF i = rsp - 5 - 1 THEN words[1] ELSE stack[i]
  BY <1>2, <1>3, <1>5, PushedOne
<1> HIDE DEF pushed
<1>7. /\ stack' \in [1..StackSize -> Word]
      /\ \A i \in 1..StackSize :
           stack'[i] = IF i <= rsp - 6 + 4 /\ i # rsp - 6 THEN Junk ELSE pushed[i]
  BY <1>4, <1>5, <1>6, UsedAt
<1>8. \A i \in 1..StackSize : i >= rsp - 1 => stack'[i] = stack[i]
  <2> TAKE i \in 1..StackSize
  <2>1. i >= rsp - 1 => ~(i <= rsp - 6 + 4) /\ i # rsp - 5 - 1
    BY <1>2, Geometry
  <2> QED
    BY <1>6, <1>7, <2>1
<1>9. rsp - 5 - 1 \in 1..StackSize => stack'[rsp - 5 - 1] = words[1]
  BY <1>5, <1>6, <1>7
<1> QED
  BY <1>3, <1>7, <1>8, <1>9

\* The callback is called with a pointer to its context.
LEMMA CallHookKept == ShellInv /\ CallHook => ShellInv'
<1> SUFFICES ASSUME ShellInv, CallHook PROVE ShellInv'
  OBVIOUS
<1> DEFINE m == Len(frames)
           b == Base(m)
           r == [Top EXCEPT !.context = b - 17]
<1>1. ~Here("program") /\ pc.label = "call_hook"
  BY DEF CallHook, Here
<1>2. /\ m \in 1..Depth /\ Top.rsp = b /\ frames[m] = Top /\ Top \in Frame /\ b \in Int
      /\ FrameOK(m) /\ TopOK /\ pc.function = Top.function /\ rsp = b - Pushes
      /\ pc.function \in Functions /\ shells[pc.function] = InitShellArgs(pc.function)
  BY <1>1, Innermost
<1>3. /\ regs \in [Register -> Word] /\ stack \in [1..StackSize -> Word]
  BY DEF ShellInv, Typed
<1>4. /\ rsp = b - 16 /\ Top.wrote = None /\ Top.skip = FALSE
      /\ regs["rcx"] = Pointer(b - 17) /\ Asked(m) /\ rsp \in Int
  BY <1>1, <1>2, SavedPlaces DEF Pushes, TopOK
<1>5. /\ pc' = At(pc.function, "callback") /\ pc' \in Place
      /\ At(pc.function, "test_skip") \in Place
  BY <1>2 DEF CallHook, InitShellArgs, At, Place, Label
<1>6. /\ r \in Frame /\ r.function = Top.function /\ r.rsp = b /\ r.regs = Top.regs
      /\ r.wrote = None /\ r.skip = FALSE /\ r.context = b - 17
  BY <1>2, <1>4 DEF Frame
<1>7. frames' = [frames EXCEPT ![m] = r]
  <2>1. regs["rcx"][2] = b - 17
    <3>1. b - 17 \in Int
      BY <1>2
    <3> QED
      BY <1>4, <3>1, Words
  <2> QED
    BY <1>2, <2>1 DEF CallHook
<1> HIDE DEF r
<1>8. /\ frames' \in Seq(Frame) /\ Len(frames') = m /\ frames'[m] = r /\ Top' = r
      /\ \A k \in 1..m : k < m => frames'[k] = frames[k]
  BY <1>1, <1>6, <1>7, TopReplaced
<1>9. /\ stack' \in [1..StackSize -> Word]
      /\ \A i \in 1..StackSize : i >= rsp - 1 => stack'[i] = stack[i]
      /\ stack'[b - 22] = <<"return", At(pc.function, "test_skip")>>
  <2>1. b - 22 \in 1..StackSize
    BY <1>2, FrameSpace
  <2>2. b - 22 = rsp - 5 - 1
    BY <1>2, <1>4
  <2> QED
    BY <1>1, <2>1, <2>2, CallHookStack
<1>10. rsp' = b - 22 /\ UNCHANGED <<hooked, regs, fpu, xsave_state_bufs>>
  BY <1>2, <1>4 DEF CallHook, Room
<1>11. Typed'
  BY <1>2, <1>5, <1>8, <1>9, <1>10 DEF ShellInv, Typed, hooked
<1>12. TopOK'
  BY <1>2, <1>5, <1>6, <1>8, <1>10, SavedPlaces DEF TopOK, Here, Pushes, At
<1>13. \A k \in 0..17 : b - k \in 1..StackSize /\ stack'[b - k] = stack[b - k]
  <2> TAKE k \in 0..17
  <2>1. k \in 0..26 /\ 17 \in k..26
    OBVIOUS
  <2>2. b - k \in 1..StackSize /\ b - 17 <= b - k
    BY <1>2, <2>1, FrameSpace
  <2>3. b - k \in Int /\ rsp - 1 = b - 17
    BY <1>2, <1>4
  <2> QED
    BY <1>9, <2>2, <2>3
<1>14. Keeps(m)'
  <2> SUFFICES ASSUME NEW q \in Register
               PROVE  stack'[b - Order(q)] = IF q = Top.wrote THEN New ELSE Top.regs[q]
    BY <1>4, <1>6, <1>8 DEF Keeps
  <2>1. Order(q) \in 0..17
    BY Orders
  <2>2. stack'[b - Order(q)] = stack[b - Order(q)]
    BY <1>13, <2>1
  <2>3. Keeps(m)
    BY <1>1, <1>2 DEF FrameOK, Here
  <2> QED
    BY <1>2, <2>2, <2>3 DEF Keeps
<1>15. stack'[b] = stack[b] /\ stack'[b - 17] = stack[b - 17]
  <2>1. b - 0 = b
    BY <1>2
  <2> QED
    BY <1>13, <2>1
<1>16. Asked(m)'
  BY <1>2, <1>4, <1>6, <1>8, <1>15 DEF Asked
<1>17. Base(m)' = b /\ Caller(m)' = Caller(m)
  BY <1>2, <1>8 DEF Base, ProgramRsp, Caller
<1>18. FrameOK(m)'
  <2>1. shells' = shells /\ shells[Top.function] # None
    BY <1>2, <1>10 DEF FrameOK, hooked
  <2> QED
    BY <1>2, <1>6, <1>8, <1>9, <1>14, <1>15, <1>16, <1>17, <2>1 DEF FrameOK
<1>19. \A j \in 1..StackSize : Top.rsp < j /\ j <= ProgramRsp => stack'[j] = stack[j]
  BY <1>2, <1>4, <1>9
<1>20. ~Here("program")'
  BY <1>5 DEF At, Here
<1> QED
  BY <1>1, <1>8, <1>10, <1>11, <1>12, <1>18, <1>19, <1>20, WithinCall DEF hooked

-----------------------------------------------------------------------------
(* Steps of the callback *)

\* What has to be shown of a step in which the callback writes to the stack: what
\* becomes of the registers, of the argument skip_original_call, of the two
\* return addresses, and of the calls around this one.
LEMMA CallbackStays ==
  ASSUME ShellInv, Here("callback"), NEW r \in Frame,
         frames' = [frames EXCEPT ![Len(frames)] = r],
         r.function = Top.function, r.rsp = Top.rsp, r.context = Top.context,
         UNCHANGED <<hooked, pc, rsp, regs, fpu, xsave_state_bufs>>,
         stack' \in [1..StackSize -> Word],
         \A q \in Register :
           stack'[Top.rsp - Order(q)] = IF q = r.wrote THEN New ELSE r.regs[q],
         r.skip = TRUE => stack'[Top.rsp - 17] = Int1,
         r.skip = FALSE => stack'[Top.rsp - 17] # Int1,
         stack'[Top.rsp - 22] = stack[Top.rsp - 22],
         \A j \in 1..StackSize : Top.rsp <= j /\ j <= ProgramRsp => stack'[j] = stack[j]
  PROVE  ShellInv'
<1> DEFINE m == Len(frames)
           b == Base(m)
<1>1. ~Here("program") /\ pc.label = "callback"
  BY DEF Here
<1>2. /\ m \in 1..Depth /\ Top.rsp = b /\ frames[m] = Top /\ b \in Int /\ FrameOK(m) /\ TopOK
      /\ Top \in Frame /\ pc.function = Top.function /\ rsp = b - Pushes
  BY <1>1, Innermost
<1>3. /\ frames' \in Seq(Frame) /\ Len(frames') = m /\ frames'[m] = r /\ Top' = r
      /\ \A k \in 1..m : k < m => frames'[k] = frames[k]
  BY <1>1, TopReplaced
<1>4. Typed'
  BY <1>3 DEF ShellInv, Typed, hooked
<1>5. TopOK'
  BY <1>1, <1>2, <1>3 DEF TopOK, Here, Pushes
<1>6. Keeps(m)' /\ Asked(m)'
  <2>1. frames'[m'] = r /\ r.rsp = Top.rsp
    BY <1>3
  <2>2. Keeps(m)'
    BY <2>1 DEF Keeps
  <2>3. Asked(m)'
    BY <2>1 DEF Asked
  <2> QED
    BY <2>2, <2>3
<1>7. Base(m)' = b /\ Caller(m)' = Caller(m)
  <2>1. Len(frames') = Len(frames)
    BY <1>3
  <2>2. m # 1 => m - 1 \in 1..m /\ m - 1 < m
    <3>1. Depth \in Nat /\ m \in 1..Depth
      BY <1>2, Geometry
    <3> HIDE DEF m
    <3> QED
      BY <3>1
  <2>3. m # 1 => frames'[m - 1] = frames[m - 1]
    BY <1>3, <2>2
  <2>4. Base(m)' = b
    BY <2>1 DEF Base, ProgramRsp
  <2>5. Caller(m)' = Caller(m)
    <3>1. Caller(m)' = IF m = 1 THEN At(None, "program")
                       ELSE At(frames'[m - 1].function, "callback")
      BY <2>1 DEF Caller
    <3> QED
      BY <2>3, <3>1 DEF Caller
  <2> QED
    BY <2>4, <2>5
<1>8. stack'[b] = stack[b]
  <2>1. b - 0 \in 1..StackSize /\ b - 0 <= b /\ b - 0 <= ProgramRsp /\ b - 0 = b
    BY <1>2, FrameSpace
  <2> QED
    BY <1>2, <2>1
<1>9. /\ Top.context = b - 17 /\ shells[Top.function] # None
      /\ stack[b] = <<"return", Caller(m)>>
      /\ stack[b - 22] = <<"return", At(Top.function, "test_skip")>>
  BY <1>1, <1>2 DEF FrameOK, InCallback, Here
<1>10. FrameOK(m)'
  <2>1. shells' = shells
    BY DEF hooked
  <2> QED
    BY <1>2, <1>3, <1>6, <1>7, <1>8, <1>9, <2>1 DEF FrameOK
<1>11. \A j \in 1..StackSize : Top.rsp < j /\ j <= ProgramRsp => stack'[j] = stack[j]
  BY <1>2, Geometry
<1>12. ~Here("program")' /\ UNCHANGED shells
  BY <1>1 DEF Here, hooked
<1> QED
  BY <1>1, <1>3, <1>4, <1>5, <1>10, <1>11, <1>12, WithinCall

\* The words of the frame of a running callback.
LEMMA Running ==
  ASSUME ShellInv, Here("callback")
  PROVE  /\ Keeps(Len(frames)) /\ Asked(Len(frames)) /\ Top.context = Top.rsp - 17
         /\ rsp = Top.rsp - 22 /\ Top.rsp = Base(Len(frames))
         /\ stack[Top.rsp - 22] = <<"return", At(Top.function, "test_skip")>>
         /\ Field("skip_original_call") = Top.rsp - 17
         /\ \A q \in Register : Field(q) = Top.rsp - Order(q)
         /\ \A q \in Register :
              stack[Top.rsp - Order(q)] = IF q = Top.wrote THEN New ELSE Top.regs[q]
         /\ \A k \in 0..26 : Top.rsp - k \in 1..StackSize
<1> DEFINE m == Len(frames)
           b == Base(m)
<1>1. ~Here("program") /\ pc.label = "callback"
  BY DEF Here
<1>2. /\ m \in 1..Depth /\ Top.rsp = b /\ frames[m] = Top /\ b \in Int /\ FrameOK(m)
      /\ rsp = b - Pushes
  BY <1>1, Innermost
<1>3. /\ Keeps(m) /\ Asked(m) /\ Top.context = b - 17
      /\ stack[b - 22] = <<"return", At(Top.function, "test_skip")>>
  BY <1>1, <1>2 DEF FrameOK, InCallback, Here
<1>4. rsp = b - 22
  <2>1. Pushes = 22
    BY <1>1, SavedPlaces DEF Pushes
  <2> QED
    BY <1>2, <2>1
<1> HIDE DEF b
<1>5. b - 17 \in Int
  BY <1>2
<1>6. Field("skip_original_call") = b - 17 /\ \A q \in Register : Field(q) = b - 17 + 17 - Order(q)
  BY <1>3, <1>5, FieldPlaces
<1>7. \A q \in Register : Field(q) = b - Order(q)
  <2> TAKE q \in Register
  <2>1. Order(q) \in 1..16
    BY Orders
  <2>2. b \in Int /\ Field(q) = b - 17 + 17 - Order(q)
    BY <1>2, <1>6 DEF b
  <2> QED
    BY <2>1, <2>2
<1>8. \A k \in 0..26 : b - k \in 1..StackSize
  BY <1>2, FrameSpace DEF b
<1> QED
  BY <1>2, <1>3, <1>4, <1>6, <1>7, <1>8 DEF Keeps, b

\* The callback writes a register of its context.
LEMMA WriteContextKept ==
  ASSUME ShellInv, NEW q \in Register, WriteContext(q) PROVE ShellInv'
<1> DEFINE b == Top.rsp
           r == [Top EXCEPT !.wrote = q]
           o == Order(q)
<1>1. Here("callback") /\ Top.wrote = None /\ ~Here("program")
  BY DEF WriteContext, Here
<1>2. /\ Top \in Frame /\ frames[Len(frames)] = Top /\ b \in Int
      /\ b = Base(Len(frames)) /\ Len(frames) \in 1..Depth
  BY <1>1, Innermost
<1>3. /\ r \in Frame /\ r.function = Top.function /\ r.rsp = b /\ r.context = Top.context
      /\ r.wrote = q /\ r.regs = Top.regs /\ r.skip = Top.skip
  BY <1>2 DEF Frame
<1>4. frames' = [frames EXCEPT ![Len(frames)] = r]
  BY <1>2 DEF WriteContext
<1> HIDE DEF r
<1>5. o \in 1..16
  BY Orders
<1>6. stack' = [stack EXCEPT ![b - o] = New] /\ stack \in [1..StackSize -> Word]
      /\ UNCHANGED <<hooked, pc, rsp, regs, fpu, xsave_state_bufs>>
  BY <1>1, Running DEF WriteContext, ShellInv, Typed
<1> HIDE DEF b, o
<1>7. /\ stack' \in [1..StackSize -> Word]
      /\ \A j \in 1..StackSize : stack'[j] = IF j = b - o THEN New ELSE stack[j]
  BY <1>6, Words
<1>8. \A k \in 0..26 : b - k \in 1..StackSize
  BY <1>1, Running DEF b
<1>9. \A k \in 0..26 : stack'[b - k] = IF k = o THEN New ELSE stack[b - k]
  <2> TAKE k \in 0..26
  <2>1. b - k = b - o <=> k = o
    BY <1>2, <1>5 DEF b
  <2> QED
    BY <1>7, <1>8, <2>1
<1>10. ASSUME NEW p \in Register
       PROVE  stack'[b - Order(p)] = IF p = r.wrote THEN New ELSE r.regs[p]
  <2>1. Order(p) \in 0..26 /\ (Order(p) = o <=> p = q)
    BY Orders DEF o
  <2>2. stack[b - Order(p)] = Top.regs[p]
    <3>1. p # None
      BY ShellAssumption DEF ShellAssumption
    <3>2. stack[b - Order(p)] = IF p = Top.wrote THEN New ELSE Top.regs[p]
      BY <1>1, Running DEF b
    <3> QED
      BY <1>1, <3>1, <3>2
  <2> QED
    BY <1>3, <1>9, <2>1, <2>2
<1>11. stack'[b - 17] = stack[b - 17] /\ stack'[b - 22] = stack[b - 22]
  BY <1>5, <1>9
<1>12. /\ r.skip = TRUE => stack'[b - 17] = Int1
       /\ r.skip = FALSE => stack'[b - 17] # Int1
  BY <1>1, <1>2, <1>3, <1>11, Running DEF Asked, b
<1>13. \A j \in 1..StackSize : b <= j /\ j <= ProgramRsp => stack'[j] = stack[j]
  <2> TAKE j \in 1..StackSize
  <2>1. b \in Int /\ b <= j => j # b - o
    BY <1>2, <1>5, Geometry DEF b
  <2> QED
    BY <1>2, <1>7, <2>1 DEF b
<1> QED
  BY <1>1, <1>3, <1>4, <1>6, <1>7, <1>10, <1>11, <1>12, <1>13, CallbackStays DEF b

\* The callback asks to skip the original function.
LEMMA SkipOriginalCallKept == ShellInv /\ SkipOriginalCall => ShellInv'
<1> SUFFICES ASSUME ShellInv, SkipOriginalCall PROVE ShellInv'
  OBVIOUS
<1> DEFINE b == Top.rsp
           r == [Top EXCEPT !.skip = TRUE]
<1>1. Here("callback") /\ ~Here("program")
  BY DEF SkipOriginalCall, Here
<1>2. /\ Top \in Frame /\ frames[Len(frames)] = Top /\ b \in Int
  BY <1>1, Innermost
<1>3. /\ r \in Frame /\ r.function = Top.function /\ r.rsp = b /\ r.context = Top.context
      /\ r.wrote = Top.wrote /\ r.regs = Top.regs /\ r.skip = TRUE
  BY <1>2 DEF Frame
<1>4. frames' = [frames EXCEPT ![Len(frames)] = r]
  BY <1>2 DEF SkipOriginalCall
<1> HIDE DEF r
<1>5. stack' = [stack EXCEPT ![b - 17] = Int1] /\ stack \in [1..StackSize -> Word]
      /\ UNCHANGED <<hooked, pc, rsp, regs, fpu, xsave_state_bufs>>
  BY <1>1, Running DEF SkipOriginalCall, ShellInv, Typed
<1> HIDE DEF b
<1>6. /\ stack' \in [1..StackSize -> Word]
      /\ \A j \in 1..StackSize : stack'[j] = IF j = b - 17 THEN Int1 ELSE stack[j]
  BY <1>5, Words
<1>7. \A k \in 0..26 : b - k \in 1..StackSize
  BY <1>1, Running DEF b
<1>8. \A k \in 0..26 : stack'[b - k] = IF k = 17 THEN Int1 ELSE stack[b - k]
  <2> TAKE k \in 0..26
  <2>1. b - k = b - 17 <=> k = 17
    BY <1>2 DEF b
  <2> QED
    BY <1>6, <1>7, <2>1
<1>9. ASSUME NEW p \in Register
      PROVE  stack'[b - Order(p)] = IF p = r.wrote THEN New ELSE r.regs[p]
  <2>1. Order(p) \in 0..26 /\ Order(p) # 17
    BY Orders
  <2>2. stack'[b - Order(p)] = stack[b - Order(p)]
    BY <1>8, <2>1
  <2>3. stack[b - Order(p)] = IF p = Top.wrote THEN New ELSE Top.regs[p]
    BY <1>1, Running DEF b
  <2> QED
    BY <1>3, <2>2, <2>3
<1>10. stack'[b - 17] = Int1 /\ stack'[b - 22] = stack[b - 22]
  BY <1>8
<1>11. \A j \in 1..StackSize : b <= j /\ j <= ProgramRsp => stack'[j] = stack[j]
  <2> TAKE j \in 1..StackSize
  <2>1. b <= j => j # b - 17
    BY <1>2, Geometry DEF b
  <2> QED
    BY <1>6, <2>1
<1> QED
  BY <1>1, <1>3, <1>4, <1>5, <1>6, <1>9, <1>10, <1>11, CallbackStays DEF b

\* The callback writes a local of the Java method.
LEMMA SetParameterKept ==
  ASSUME ShellInv, NEW index \in 0..Arguments - 1, SetParameter(index) PROVE ShellInv'
<1> DEFINE b == Top.rsp
           r == [Top EXCEPT !.wrote = "locals"]
           l == StackSize - index
<1>1. Here("callback") /\ Top.wrote = None /\ ~Here("program")
  BY DEF SetParameter, Here
<1>2. /\ Top \in Frame /\ frames[Len(frames)] = Top /\ b \in Int /\ b <= ProgramRsp
      /\ ProgramRsp \in Int
  BY <1>1, Innermost
<1>3. /\ r \in Frame /\ r.function = Top.function /\ r.rsp = b /\ r.context = Top.context
      /\ r.wrote = "locals" /\ r.regs = Top.regs /\ r.skip = Top.skip
  BY <1>2 DEF Frame
<1>4. frames' = [frames EXCEPT ![Len(frames)] = r]
  BY <1>2 DEF SetParameter
<1> HIDE DEF r
<1>5. l \in 1..StackSize /\ l > ProgramRsp
  <2>1. /\ Arguments \in Nat /\ StackSize \in Nat /\ Depth \in Nat \ {0}
        /\ StackSize >= Arguments + 1 + 40 * Depth
    BY ShellAssumption DEF ShellAssumption
  <2>2. l \in Int /\ l > StackSize - Arguments /\ l <= StackSize /\ l >= 1
    BY <2>1
  <2>3. ProgramRsp <= StackSize - Arguments
    BY Geometry
  <2> QED
    BY <1>2, <2>1, <2>2, <2>3
<1>6. stack' = [stack EXCEPT ![l] = New] /\ stack \in [1..StackSize -> Word]
      /\ UNCHANGED <<hooked, pc, rsp, regs, fpu, xsave_state_bufs>>
  <2>1. Local(index) = l
    <3>1. stack[Field("r14")][2] = StackSize
      BY Words, Geometry DEF SetParameter
    <3> QED
      BY <3>1 DEF Local
  <2> QED
    BY <2>1 DEF SetParameter, ShellInv, Typed
<1> HIDE DEF b, l
<1>7. /\ stack' \in [1..StackSize -> Word]
      /\ \A j \in 1..StackSize : j <= ProgramRsp => stack'[j] = stack[j]
  <2>1. stack' \in [1..StackSize -> Word]
    BY <1>6, Words
  <2>2. \A j \in 1..StackSize : j # l => stack'[j] = stack[j]
    BY <1>6
  <2> QED
    BY <1>2, <1>5, <2>1, <2>2
<1>8. \A k \in 0..26 : stack'[b - k] = stack[b - k]
  <2> TAKE k \in 0..26
  <2>1. b - k \in 1..StackSize
    BY <1>1, Running DEF b
  <2>2. b - k <= ProgramRsp
    BY <1>2 DEF b
  <2> QED
    BY <1>7, <2>1, <2>2
<1>9. ASSUME NEW p \in Register
      PROVE  stack'[b - Order(p)] = IF p = r.wrote THEN New ELSE r.regs[p]
  <2>1. Order(p) \in 0..26
    BY Orders
  <2>2. p # None /\ p # "locals"
    BY SavedPlaces, ShellAssumption DEF ShellAssumption
  <2>3. stack[b - Order(p)] = IF p = Top.wrote THEN New ELSE Top.regs[p]
    BY <1>1, Running DEF b
  <2>4. stack'[b - Order(p)] = stack[b - Order(p)]
    BY <1>8, <2>1
  <2> QED
    BY <1>1, <1>3, <2>2, <2>3, <2>4
<1>10. stack'[b - 17] = stack[b - 17] /\ stack'[b - 22] = stack[b - 22]
  BY <1>8
<1>11. /\ r.skip = TRUE => stack'[b - 17] = Int1
       /\ r.skip = FALSE => stack'[b - 17] # Int1
  <2>1. frames[Len(frames)] = Top /\ Asked(Len(frames))
    BY <1>1, <1>2, Running
  <2> QED
    BY <1>3, <1>10, <2>1 DEF Asked, b
<1> QED
  BY <1>1, <1>3, <1>4, <1>6, <1>7, <1>9, <1>10, <1>11, CallbackStays DEF b

\* Whatever a C++ function leaves in the registers are words.
LEMMA ClobberedWords == Typed => Clobbered \in [Register -> Word]
BY Words DEF Typed, Clobbered

\* The callback returns to the test of skip_original_call.
LEMMA CallbackReturnsKept == ShellInv /\ CallbackReturns => ShellInv'
<1> SUFFICES ASSUME ShellInv, CallbackReturns PROVE ShellInv'
  OBVIOUS
<1> DEFINE b == Top.rsp
           to == At(Top.function, "test_skip")
<1>1. Here("callback") /\ ~Here("program") /\ ~Here("save_gpr")
  BY DEF CallbackReturns, Here
<1>2. /\ Top \in Frame /\ frames[Len(frames)] = Top /\ b \in Int /\ pc.function = Top.function
      /\ pc.function \in Functions
  BY <1>1, Innermost
<1>3. rsp = b - 22 /\ stack[b - 22] = <<"return", to>> /\ Asked(Len(frames))
  BY <1>1, Running
<1>4. to \in Place /\ to.label = "test_skip" /\ to.function = Top.function
  BY <1>2 DEF At, Place, Label
<1> HIDE DEF to
<1>5. pc' = to /\ UNCHANGED <<hooked, stack, xsave_state_bufs, frames>>
  BY <1>3, <1>4, Words DEF CallbackReturns
<1>6. rsp' = b - 16
  <2>1. RoomFreed = b - 22 + 1 + 5
    BY <1>3 DEF RoomFreed, Room
  <2> QED
    BY <1>2, <2>1 DEF CallbackReturns
<1>7. Typed'
  <2>1. regs' \in [Register -> Word] /\ fpu' \in FpuState
    BY ClobberedWords DEF CallbackReturns, ShellInv, FpuState
  <2> QED
    BY <1>2, <1>4, <1>5, <1>6, <2>1 DEF ShellInv, Typed, hooked
<1>8. TopOK'
  BY <1>2, <1>3, <1>4, <1>5, <1>6, SavedPlaces DEF TopOK, Here, Pushes, Top, Asked
<1>9. ~Here("program")' /\ ~Here("callback")'
  BY <1>4, <1>5 DEF Here
<1> QED
  BY <1>1, <1>5, <1>7, <1>8, <1>9, WithinShell DEF hooked

-----------------------------------------------------------------------------
(* Calls and returns of hooked functions *)

\* A hooked call ends: the thread is back where it called from, at the height of
\* the stack it had there.
LEMMA Returned ==
  ASSUME ShellInv, ~Here("program"), frames' = Front(frames), Return(Top.rsp),
         UNCHANGED <<hooked, stack, xsave_state_bufs>>,
         regs' \in [Register -> Word], fpu' \in FpuState
  PROVE  ShellInv' /\ pc' = stack[Top.rsp][2] /\ rsp' \in {Top.rsp + 1, Top.rsp + 6}
<1> DEFINE m == Len(frames)
           b == Base(m)
           to == Caller(m)
<1>1. /\ m \in 1..Depth /\ Top.rsp = b /\ frames[m] = Top /\ b \in Int /\ FrameOK(m) /\ TopOK
      /\ Top \in Frame /\ frames \in Seq(Frame) /\ DOMAIN frames = 1..m
  BY Innermost DEF ShellInv, Typed
<1>2. /\ m \in Nat /\ m >= 1 /\ m - 1 \in Nat
  BY <1>1, Geometry
<1>3. /\ frames' \in Seq(Frame) /\ Len(frames') = m - 1
      /\ \A i \in 1..m - 1 : frames'[i] = frames[i]
  <2>1. frames' = SubSeq(frames, 1, m - 1)
    BY DEF Front
  <2>2. \A i \in 1..m - 1 : frames[i] \in Frame
    BY <1>1, <1>2, ElementOfSeq
  <2> HIDE DEF m
  <2>3. /\ SubSeq(frames, 1, m - 1) \in Seq(Frame)
        /\ Len(SubSeq(frames, 1, m - 1)) = IF 1 <= m - 1 THEN m - 1 - 1 + 1 ELSE 0
        /\ \A i \in 1..m - 1 - 1 + 1 : SubSeq(frames, 1, m - 1)[i] = frames[1 + i - 1]
    BY <1>2, <2>2, SubSeqProperties
  <2>4. m - 1 - 1 + 1 = m - 1 /\ \A i \in 1..m - 1 : 1 + i - 1 = i
    BY <1>2
  <2> QED
    BY <1>2, <2>1, <2>3, <2>4
<1>4. stack[b] = <<"return", to>>
  BY <1>1 DEF FrameOK
<1>5. to \in Place /\ to = IF m = 1 THEN At(None, "program") ELSE At(frames[m - 1].function, "callback")
  <2>1. m # 1 => frames[m - 1] \in Frame
    BY <1>1, <1>2, ElementOfSeq
  <2> QED
    BY <2>1 DEF Caller, At, Place, Label, Frame
<1> HIDE DEF to
<1>6. pc' = to
  BY <1>1, <1>4, <1>5, Words DEF Return
<1>7. rsp' = IF to.label = "callback" THEN b + 6 ELSE b + 1
  BY <1>1, <1>6 DEF Return
<1>8. Typed'
  BY <1>1, <1>3, <1>5, <1>6, <1>7 DEF ShellInv, Typed, hooked
<1>9. shells' = shells /\ stack' = stack
  BY DEF hooked
<1>10. CASE m = 1
  <2>1. frames' = <<>> /\ Len(frames') = 0
    BY <1>3, <1>10, EmptySeq
  <2>2. pc' = At(None, "program") /\ pc'.label = "program"
    BY <1>5, <1>6, <1>10 DEF At
  <2>3. rsp' = ProgramRsp'
    <3>1. ProgramRsp \in Int /\ b = ProgramRsp - 1
      BY <1>10, Geometry
    <3>2. rsp' = b + 1
      BY <1>6, <1>7, <2>2
    <3> HIDE DEF b
    <3> QED
      BY <3>1, <3>2 DEF ProgramRsp
  <2>4. /\ \A f \in Functions : shells'[f] \in {None, InitShellArgs(f)}
        /\ Len(frames') <= Depth
        /\ \A i \in 1..Len(frames') : FrameOK(i)'
    BY <1>9, <2>1, Geometry DEF ShellInv
  <2>5. ShellInv'
    BY <1>8, <2>1, <2>2, <2>3, <2>4 DEF ShellInv, Here, InitShellArgs
  <2> QED
    BY <1>1, <1>4, <1>5, <1>6, <1>7, <2>5, Words
<1>11. CASE m # 1
  <2> DEFINE n == m - 1
  <2>1. n \in 1..Depth /\ n < m /\ n \in 1..m - 1 /\ n + 1 = m /\ n \in Nat /\ n # 0
    <3>1. Depth \in Nat /\ m \in 1..Depth
      BY <1>1, Geometry
    <3> HIDE DEF m
    <3> QED
      BY <1>2, <1>11, <3>1
  <2>2. pc' = At(frames[n].function, "callback") /\ pc'.label = "callback"
        /\ pc'.function = frames[n].function
    BY <1>5, <1>6, <1>11 DEF At
  <2>3. rsp' = b + 6
    BY <1>6, <1>7, <2>2
  <2>4. /\ frames' # <<>> /\ Top' = frames[n] /\ Len(frames') = n
    <3>1. Len(frames') = n /\ frames'[n] = frames[n]
      BY <1>3, <2>1
    <3> QED
      BY <2>1, <3>1, EmptySeq DEF Top
  <2>5. FrameOK(n) /\ frames[n].rsp = Base(n) /\ Base(n) \in Int /\ b = Base(n) - 28
    <3>1. n \in 1..m
      BY <2>1
    <3>2. FrameOK(n)
      BY <3>1 DEF ShellInv
    <3>3. frames[n].rsp = Base(n)
      BY <3>2 DEF FrameOK
    <3> HIDE DEF n, m
    <3>4. Base(n) \in Int /\ Base(n + 1) = Base(n) - 28
      BY <2>1, Geometry
    <3> QED
      BY <2>1, <3>2, <3>3, <3>4
  <2>6. rsp' = Top'.rsp - 22
    <3> HIDE DEF b, n
    <3> QED
      BY <2>3, <2>4, <2>5
  <2>7. Pushes' = 22
    BY <2>2, SavedPlaces DEF Pushes
  <2>8. TopOK'
    BY <2>2, <2>4, <2>6, <2>7 DEF TopOK, Here
  <2>9. ASSUME NEW i \in 1..n PROVE FrameOK(i)'
    <3>1. i \in 1..Depth /\ i \in 1..m /\ i <= m /\ i < m /\ i \in 1..m - 1
          /\ (i # 1 => i - 1 \in 1..m - 1)
      <4>1. Depth \in Nat /\ n <= Depth
        BY <2>1, Geometry
      <4> HIDE DEF m
      <4> QED
        BY <1>2, <2>1, <4>1
    <3>2. FrameOK(i) /\ frames[i] \in Frame
      BY <1>1, <3>1, ElementOfSeq DEF ShellInv
    <3>3. frames'[i] = frames[i] /\ (i # 1 => frames'[i - 1] = frames[i - 1])
      BY <1>3, <3>1
    <3>4. shells'[frames[i].function] # None
      BY <1>9, <3>2 DEF FrameOK
    <3>5. stack \in [1..StackSize -> Word]
      BY DEF ShellInv, Typed
    <3>6. InCallback(i) /\ i < Len(frames)
      BY <3>1 DEF InCallback
    <3> QED
      BY <1>9, <3>1, <3>2, <3>3, <3>4, <3>5, <3>6, FrameKept
  <2>10. /\ \A f \in Functions : shells'[f] \in {None, InitShellArgs(f)}
         /\ Len(frames') <= Depth
    BY <1>9, <2>1, <2>4, Geometry DEF ShellInv
  <2>11. ShellInv'
    BY <1>8, <2>2, <2>4, <2>8, <2>9, <2>10 DEF ShellInv, Here, InitShellArgs
  <2> QED
    BY <1>1, <1>4, <1>5, <1>6, <1>7, <2>11, Words
<1> QED
  BY <1>10, <1>11

\* The original function returns to the caller, or the shell in its place.
LEMMA OriginalReturnsKept == ShellInv /\ OriginalReturns => ShellInv'
<1> SUFFICES ASSUME ShellInv, OriginalReturns PROVE ShellInv'
  OBVIOUS
<1>1. pc.label = "original" /\ ~Here("program")
  BY DEF OriginalReturns, Here
<1>2. rsp = Top.rsp
  <2>1. Pushes = 0
    BY <1>1 DEF Pushes
  <2> QED
    BY <1>1, <2>1, Innermost
<1>3. regs' \in [Register -> Word] /\ fpu' \in FpuState
  BY ClobberedWords DEF OriginalReturns, ShellInv, Typed
<1>4. /\ Return(Top.rsp) /\ frames' = Front(frames)
      /\ UNCHANGED <<hooked, stack, xsave_state_bufs>>
  BY <1>2 DEF OriginalReturns
<1> QED
  BY <1>1, <1>3, <1>4, Returned

\* What restore_cpu_state_gpr pops is what save_cpu_state_gpr pushed, but for
\* what the callback changed.
LEMMA PoppedRegisters ==
  ASSUME ShellInv, Here("jump") \/ Here("return")
  PROVE  /\ rsp = Top.rsp - 16 /\ rsp + Len(Saved) = Top.rsp
         /\ Popped = [r \in Register |-> IF r = Top.wrote THEN New ELSE Top.regs[r]]
         /\ Popped \in [Register -> Word]
<1> DEFINE m == Len(frames)
           b == Base(m)
<1>1. ~Here("program") /\ pc.label \in {"jump", "return"} /\ ~Here("save_gpr")
  BY DEF Here
<1>2. /\ m \in 1..Depth /\ Top.rsp = b /\ frames[m] = Top /\ b \in Int /\ FrameOK(m)
      /\ Top \in Frame /\ rsp = b - Pushes
  BY <1>1, Innermost
<1>3. rsp = b - 16
  <2>1. Pushes = 16
    BY <1>1, SavedPlaces DEF Pushes
  <2> QED
    BY <1>2, <2>1
<1>4. Keeps(m)
  BY <1>1, <1>2 DEF FrameOK
<1>5. ASSUME NEW r \in Register
      PROVE  Popped[r] = IF r = Top.wrote THEN New ELSE Top.regs[r]
  <2>1. Popped[r] = stack[rsp + 16 - Order(r)]
    BY SavedPlaces DEF Popped, Order
  <2>2. Order(r) \in 1..16
    BY Orders
  <2>3. rsp + 16 - Order(r) = b - Order(r)
    <3> HIDE DEF b
    <3> QED
      BY <1>2, <1>3, <2>2
  <2> QED
    BY <1>2, <1>4, <2>1, <2>3 DEF Keeps
<1>6. Popped = [r \in Register |-> IF r = Top.wrote THEN New ELSE Top.regs[r]]
  BY <1>5 DEF Popped
<1>7. Popped \in [Register -> Word]
  BY <1>2, <1>6, Words DEF Frame
<1> HIDE DEF b
<1>8. rsp + Len(Saved) = b
  BY <1>2, <1>3, SavedPlaces
<1> QED
  BY <1>2, <1>3, <1>6, <1>7, <1>8

LEMMA LeaveKept == ShellInv /\ Leave => ShellInv'
<1> SUFFICES ASSUME ShellInv, Leave PROVE ShellInv'
  OBVIOUS
<1>1. (Here("jump") \/ Here("return")) /\ ~Here("program") /\ ~Here("save_gpr")
  BY DEF Leave, Here
<1>2. rsp + Len(Saved) = Top.rsp /\ Popped \in [Register -> Word]
  BY <1>1, PoppedRegisters
<1>3. /\ regs' \in [Register -> Word] /\ fpu' \in FpuState
      /\ UNCHANGED <<hooked, stack, fpu, xsave_state_bufs>>
  BY <1>2 DEF Leave, ShellInv, Typed
<1>4. CASE Here("jump")
  <2>1. /\ rsp' = Top.rsp /\ UNCHANGED frames
        /\ pc' = At(shells[pc.function].orig, "original")
    BY <1>2, <1>4 DEF Leave
  <2>2. /\ pc.function \in Functions /\ shells[pc.function] = InitShellArgs(pc.function)
        /\ pc.function = Top.function /\ Top.rsp \in Int /\ TopOK
    BY <1>1, Innermost
  <2>3. /\ pc' \in Place /\ pc'.label = "original" /\ pc'.function = pc.function
    BY <2>1, <2>2 DEF InitShellArgs, At, Place, Label
  <2>4. Typed'
    BY <1>3, <2>1, <2>2, <2>3 DEF ShellInv, Typed, hooked
  <2>5. TopOK'
    BY <1>4, <2>1, <2>2, <2>3 DEF TopOK, Here, Pushes, Top
  <2>6. ~Here("program")' /\ ~Here("callback")'
    BY <2>3 DEF Here
  <2> QED
    BY <1>1, <1>3, <2>1, <2>4, <2>5, <2>6, WithinShell DEF hooked
<1>5. CASE ~Here("jump")
  <2>1. Return(Top.rsp) /\ frames' = Front(frames)
    BY <1>2, <1>5 DEF Leave
  <2> QED
    BY <1>1, <1>3, <2>1, Returned
<1> QED
  BY <1>4, <1>5

\* A hooked function is called, by the program or by a callback: its frame comes
\* right below those of the calls in progress.
LEMMA EnterKept ==
  ASSUME ShellInv, NEW f \in Functions, NEW st \in [1..StackSize -> Word], NEW sp \in Int,
         NEW registers \in [Register -> Word], NEW fpuState \in FpuState,
         Enter(f, st, sp, registers, fpuState),
         sp - 1 = Base(Len(frames) + 1), pc = Caller(Len(frames) + 1),
         frames # <<>> => st = stack /\ Here("callback")
  PROVE  ShellInv'
<1> DEFINE m == Len(frames)
           n == m + 1
           new == [function |-> f, rsp |-> sp - 1, regs |-> registers, fpu |-> fpuState,
                   context |-> None, wrote |-> None, skip |-> FALSE, called |-> FALSE]
           outer == [i \in DOMAIN frames |-> [frames[i] EXCEPT !.called = TRUE]]
<1>1. /\ frames \in Seq(Frame) /\ m \in Nat /\ DOMAIN frames = 1..m
      /\ \A i \in 1..m : frames[i] \in Frame
  BY LenProperties, ElementOfSeq DEF ShellInv, Typed
<1>2. /\ shells[f] # None /\ m < Depth /\ UNCHANGED <<hooked, xsave_state_bufs>>
      /\ rsp' = sp - 1 /\ regs' = registers /\ fpu' = fpuState
      /\ pc' = At(f, "save_gpr") /\ frames' = Append(outer, new)
      /\ stack' = Pushed(st, << <<"return", pc>> >>, sp)
  BY DEF Enter
<1>3. n \in 1..Depth /\ n \in Nat /\ m <= Depth /\ \A i \in 1..m : i \in 1..Depth /\ i < n
  <2>1. m \in Nat /\ m < Depth /\ Depth \in Nat
    BY <1>1, <1>2, Geometry
  <2> HIDE DEF m
  <2> QED
    BY <2>1
<1>4. new \in Frame
  BY DEF Frame
<1>5. /\ outer \in Seq(Frame) /\ Len(outer) = m
      /\ \A i \in 1..m : outer[i] = [frames[i] EXCEPT !.called = TRUE]
  <2>1. \A i \in 1..m : [frames[i] EXCEPT !.called = TRUE] \in Frame
    BY <1>1 DEF Frame
  <2>2. outer \in [1..m -> Frame]
    BY <1>1, <2>1
  <2>3. outer \in Seq(Frame)
    BY <1>1, <2>2, SeqDef
  <2>4. DOMAIN outer = 1..m /\ DOMAIN outer = 1..Len(outer) /\ Len(outer) \in Nat
    BY <2>2, <2>3, LenProperties
  <2> HIDE DEF m, outer
  <2>5. Len(outer) = m
    BY <1>1, <2>4
  <2> QED
    BY <1>1, <2>3, <2>5 DEF outer
<1> HIDE DEF outer
<1>6. /\ frames' \in Seq(Frame) /\ frames' # <<>> /\ Len(frames') = n /\ frames'[n] = new
      /\ \A i \in 1..m : frames'[i] = [frames[i] EXCEPT !.called = TRUE]
  <2> HIDE DEF new
  <2>1. frames' = Append(outer, new) /\ outer \in Seq(Frame) /\ new \in Frame
    BY <1>2, <1>4, <1>5
  <2>2. /\ Append(outer, new) \in Seq(Frame) /\ Append(outer, new) # <<>>
        /\ Len(Append(outer, new)) = Len(outer) + 1
        /\ \A i \in 1..Len(outer) : Append(outer, new)[i] = outer[i]
        /\ Append(outer, new)[Len(outer) + 1] = new
    BY <2>1, AppendProperties
  <2> QED
    BY <1>5, <2>1, <2>2
<1>7. /\ new.function = f /\ new.rsp = sp - 1 /\ new.regs = registers
      /\ new.wrote = None /\ new.skip = FALSE
  OBVIOUS
<1> HIDE DEF new
<1>8. Top' = new
  BY <1>6 DEF Top
<1>9. /\ stack' \in [1..StackSize -> Word]
      /\ \A i \in 1..StackSize : stack'[i] = IF i = sp - 1 THEN <<"return", pc>> ELSE st[i]
  <2> DEFINE words == << <<"return", pc>> >>
  <2>1. Len(words) = 1 /\ words[1] = <<"return", pc>> /\ words[1] \in Word
    BY Words DEF ShellInv, Typed
  <2>2. stack' = Pushed(st, words, sp)
    BY <1>2
  <2> HIDE DEF words
  <2> QED
    BY <2>1, <2>2, PushedOne
<1>10. /\ pc' \in Place /\ pc'.label = "save_gpr" /\ pc'.function = f
  BY <1>2 DEF At, Place, Label
<1>11. Typed'
  <2>1. frames' \in Seq(Frame) /\ stack' \in [1..StackSize -> Word] /\ rsp' \in Int
        /\ regs' \in [Register -> Word] /\ fpu' \in FpuState
    <3>1. frames' \in Seq(Frame)
      BY <1>6
    <3>2. stack' \in [1..StackSize -> Word]
      BY <1>9
    <3>3. rsp' = sp - 1 /\ regs' = registers /\ fpu' = fpuState
      BY <1>2
    <3> QED
      BY <3>1, <3>2, <3>3
  <2>2. UNCHANGED <<support, shells, xsave_state_bufs>>
    BY <1>2 DEF hooked
  <2> QED
    BY <1>10, <2>1, <2>2 DEF ShellInv, Typed
<1>12. TopOK'
  <2>1. Pushes' = 0
    BY <1>10 DEF Pushes
  <2>2. rsp' = Top'.rsp - Pushes'
    BY <1>2, <1>7, <1>8, <2>1
  <2> QED
    BY <1>2, <1>7, <1>8, <1>10, <2>2 DEF TopOK, Here
<1>13. ASSUME NEW k \in 1..Depth PROVE Base(k) \in 1..StackSize
  <2>1. Base(k) \in Int
    BY Geometry
  <2>2. Base(k) - 0 \in 1..StackSize
    BY FrameSpace
  <2> QED
    BY <2>1, <2>2
<1>14. ASSUME NEW k \in 1..Depth, k = n PROVE FrameOK(k)'
  <2>1. Base(k)' = Base(k) /\ sp - 1 = Base(k)
    BY <1>14 DEF Base, ProgramRsp
  <2>2. Caller(k)' = pc
    <3>1. k - 1 = m /\ (k = 1 <=> m = 0) /\ (m # 0 => m \in 1..m)
      <4> HIDE DEF m
      <4> QED
        BY <1>1, <1>14
    <3>2. m # 0 => frames'[m].function = frames[m].function
      BY <1>1, <1>6, <3>1 DEF Frame
    <3>3. Caller(k)' = IF k = 1 THEN At(None, "program")
                       ELSE At(frames'[k - 1].function, "callback")
      BY DEF Caller
    <3>4. pc = IF k = 1 THEN At(None, "program") ELSE At(frames[k - 1].function, "callback")
      BY <1>14 DEF Caller
    <3> QED
      BY <3>1, <3>2, <3>3, <3>4
  <2>3. stack'[Base(k)] = <<"return", pc>>
    BY <1>9, <1>13, <2>1
  <2>4. ~InCallback(k)' /\ Here("save_gpr")' /\ ~(k < Len(frames))'
    BY <1>3, <1>6, <1>10, <1>14 DEF InCallback, Here
  <2>5. shells'[f] # None
    BY <1>2 DEF hooked
  <2>6. frames'[k].rsp = Base(k) /\ frames'[k].function = f
    BY <1>6, <1>7, <1>14, <2>1
  <2> QED
    BY <2>1, <2>2, <2>3, <2>4, <2>5, <2>6 DEF FrameOK
<1>15. ASSUME NEW i \in 1..m PROVE FrameOK(i)'
  <2>1. st = stack /\ Here("callback") /\ ~Here("save_gpr")
    BY <1>1, EmptySeq DEF Here
  <2>2. i \in 1..Depth /\ i <= Len(frames) /\ i < n /\ (i # 1 => i - 1 \in 1..m)
    BY <1>1, <1>3
  <2>3. FrameOK(i) /\ frames[i] \in Frame /\ InCallback(i)
    BY <1>1, <2>1 DEF ShellInv, InCallback
  <2>4. /\ frames'[i].function = frames[i].function /\ frames'[i].rsp = frames[i].rsp
        /\ frames'[i].regs = frames[i].regs /\ frames'[i].context = frames[i].context
        /\ frames'[i].wrote = frames[i].wrote /\ frames'[i].skip = frames[i].skip
    BY <1>6, <2>3 DEF Frame
  <2>5. i # 1 => frames'[i - 1].function = frames[i - 1].function
    BY <1>1, <1>6, <2>2 DEF Frame
  <2>6. \A j \in 1..StackSize : Base(i) - 22 <= j /\ j <= Base(i) => stack'[j] = stack[j]
    <3>1. Base(n) <= Base(i) - 28 /\ Base(n) \in Int /\ Base(i) \in Int
      <4> HIDE DEF n
      <4> QED
        BY <1>3, <2>2, Geometry
    <3>2. \A j \in 1..StackSize : Base(i) - 22 <= j => j # sp - 1
      <4>1. sp - 1 = Base(n)
        OBVIOUS
      <4> HIDE DEF n
      <4> QED
        BY <3>1, <4>1, Geometry
    <3> QED
      BY <1>9, <2>1, <3>2
  <2>7. shells'[frames[i].function] # None
    BY <1>2, <2>3 DEF hooked, FrameOK
  <2>8. stack \in [1..StackSize -> Word]
    BY DEF ShellInv, Typed
  <2> QED
    BY <2>1, <2>2, <2>3, <2>4, <2>5, <2>6, <2>7, <2>8, FrameKept
<1>16. \A i \in 1..Len(frames') : FrameOK(i)'
  <2> TAKE i \in 1..Len(frames')
  <2>1. (i = n /\ i \in 1..Depth) \/ i \in 1..m
    <3>1. i \in 1..n /\ m \in Nat /\ n \in 1..Depth
      BY <1>1, <1>3, <1>6
    <3> HIDE DEF m
    <3> QED
      BY <3>1
  <2> QED
    BY <1>14, <1>15, <2>1
<1>17. /\ \A g \in Functions : shells'[g] \in {None, InitShellArgs(g)}
       /\ Len(frames') <= Depth
  BY <1>2, <1>3, <1>6 DEF ShellInv, hooked
<1> QED
  BY <1>6, <1>10, <1>11, <1>12, <1>16, <1>17 DEF ShellInv, Here, InitShellArgs

LEMMA ProgramStart ==
  ProgramStack \in [1..StackSize -> Word] /\ ProgramRegs \in [Register -> Word]
BY Words, Geometry DEF ProgramStack, ProgramRegs

LEMMA ProgramCallsKept ==
  ASSUME ShellInv, NEW f \in Functions, ProgramCalls(f) PROVE ShellInv'
<1>1. /\ Here("program") /\ Enter(f, ProgramStack, ProgramRsp, ProgramRegs, "program")
      /\ "program" \in FpuState
  BY DEF ProgramCalls, FpuState
<1>2. pc = At(None, "program") /\ frames = <<>> /\ Len(frames) + 1 = 1
  BY <1>1, EmptySeq DEF ShellInv
<1>3. ProgramRsp \in Int /\ ProgramRsp - 1 = Base(Len(frames) + 1)
  BY <1>2, Geometry
<1>4. pc = Caller(Len(frames) + 1)
  BY <1>2 DEF Caller
<1> QED
  BY <1>1, <1>2, <1>3, <1>4, ProgramStart, EnterKept

LEMMA CallbackCallsKept ==
  ASSUME ShellInv, NEW f \in Functions, CallbackCalls(f) PROVE ShellInv'
<1> DEFINE m == Len(frames)
<1>1. /\ Here("callback") /\ ~Here("program") /\ Enter(f, stack, rsp - 5, regs, fpu)
  BY DEF CallbackCalls, Here
<1>2. /\ m \in 1..Depth /\ rsp = Top.rsp - 22 /\ Top.rsp = Base(m) /\ Base(m) \in Int
      /\ pc \in Place /\ pc.function = Top.function /\ pc.label = "callback" /\ frames[m] = Top
  BY <1>1, Innermost, Running DEF Here
<1>3. rsp - 5 \in Int /\ rsp - 5 - 1 = Base(m + 1)
  <2>1. Base(m + 1) = Base(m) - 28
    <3> HIDE DEF m
    <3> QED
      BY <1>2, Geometry
  <2> QED
    BY <1>2, <2>1
<1>4. pc = Caller(m + 1)
  <2>1. m \in Nat /\ m + 1 # 1 /\ m + 1 - 1 = m
    <3>1. m \in 1..Depth /\ Depth \in Nat
      BY <1>2, Geometry
    <3> HIDE DEF m
    <3> QED
      BY <3>1
  <2> QED
    BY <1>2, <2>1 DEF Caller, At, Place
<1>5. /\ regs \in [Register -> Word] /\ stack \in [1..StackSize -> Word] /\ fpu \in FpuState
  BY DEF ShellInv, Typed
<1> QED
  BY <1>1, <1>3, <1>4, <1>5, EnterKept

-----------------------------------------------------------------------------
(* The invariant is inductive *)

\* A function hooked while hooked calls are in progress does not disturb them.
LEMMA CreateNakedShellKept ==
  ASSUME ShellInv, NEW f \in Functions, CreateNakedShell(f) PROVE ShellInv'
<1>1. /\ shells' = [shells EXCEPT ![f] = InitShellArgs(f)]
      /\ UNCHANGED <<support, pc, rsp, regs, stack, fpu, xsave_state_bufs, frames>>
  BY DEF CreateNakedShell
<1>2. /\ shells \in [Functions -> [hook : Functions, orig : Functions] \cup {None}]
      /\ frames \in Seq(Frame) /\ stack \in [1..StackSize -> Word]
  BY DEF ShellInv, Typed
<1>3. InitShellArgs(f) \in [hook : Functions, orig : Functions] /\ InitShellArgs(f) # None
  <2>1. InitShellArgs(f) \in [hook : Functions, orig : Functions]
    BY DEF InitShellArgs
  <2>2. None \notin [hook : Functions, orig : Functions]
    BY ShellAssumption DEF ShellAssumption
  <2> QED
    BY <2>1, <2>2
<1>4. Typed'
  BY <1>1, <1>2, <1>3 DEF ShellInv, Typed
<1>5. \A g \in Functions : shells'[g] \in {None, InitShellArgs(g)}
  BY <1>1, <1>2 DEF ShellInv
<1>6. ASSUME NEW i \in 1..Len(frames) PROVE FrameOK(i)'
  <2>1. frames[i] \in Frame /\ FrameOK(i)
    BY <1>2, ElementOfSeq DEF ShellInv
  <2>2. shells'[frames[i].function] # None
    BY <1>1, <1>2, <1>3, <2>1 DEF FrameOK, Frame
  <2> QED
    BY <1>1, <2>1, <2>2 DEF FrameOK, Keeps, Asked, InCallback, Here, Caller, Base, ProgramRsp
<1>7. ~Here("program") => TopOK'
  BY <1>1 DEF ShellInv, TopOK, Here, Top, Pushes, Asked
<1> QED
  BY <1>1, <1>4, <1>5, <1>6, <1>7 DEF ShellInv, Here, ProgramRsp, InitShellArgs

LEMMA ShellStart == Init => ShellInv
<1> SUFFICES ASSUME Init PROVE ShellInv
  OBVIOUS
<1>1. /\ shells = [f \in Functions |-> None] /\ pc = At(None, "program")
      /\ rsp = ProgramRsp /\ frames = <<>> /\ Len(frames) = 0
  BY EmptySeq DEF Init
<1>2. Typed
  <2>1. /\ regs \in [Register -> Word] /\ stack \in [1..StackSize -> Word] /\ rsp \in Int
    BY ProgramStart, Geometry DEF Init
  <2>2. pc \in Place /\ fpu \in FpuState /\ frames \in Seq(Frame)
    BY <1>1, EmptySeq DEF Init, At, Place, Label, FpuState
  <2>3. xsave_state_bufs \in [Functions -> [Site -> FpuState]]
    BY DEF Init, AllocXsaveState, FpuState
  <2> QED
    BY <2>1, <2>2, <2>3 DEF Init, Typed
<1>3. Here("program")
  BY <1>1 DEF Here, At
<1> QED
  BY <1>1, <1>2, <1>3, Geometry DEF ShellInv

LEMMA ShellStepsKept == ShellInv /\ [Next]_vars => ShellInv'
<1> SUFFICES ASSUME ShellInv, [Next]_vars PROVE ShellInv'
  OBVIOUS
<1>1. ASSUME NEW f \in Functions, CreateNakedShell(f) PROVE ShellInv'
  BY <1>1, CreateNakedShellKept
<1>2. ASSUME NEW f \in Functions, ProgramCalls(f) PROVE ShellInv'
  BY <1>2, ProgramCallsKept
<1>3. ASSUME NEW f \in Functions, CallbackCalls(f) PROVE ShellInv'
  BY <1>3, CallbackCallsKept
<1>4. CASE ShellStep
  BY <1>4, SaveRegistersKept, PushSkipKept, SaveFpuKept, CallHookKept, TestSkipKept,
     RestoreFpuKept, LeaveKept DEF ShellStep
<1>5. CASE CallbackStep
  BY <1>5, WriteContextKept, SkipOriginalCallKept, SetParameterKept, CallbackReturnsKept
     DEF CallbackStep
<1>6. CASE OriginalReturns
  BY <1>6, OriginalReturnsKept
<1>7. CASE UNCHANGED vars
  BY <1>7 DEF vars, ShellInv, Typed, TopOK, FrameOK, Keeps, Asked, InCallback, Here, Caller,
     Base, ProgramRsp, Top, Pushes, InitShellArgs
<1> QED
  BY <1>1, <1>2, <1>3, <1>4, <1>5, <1>6, <1>7 DEF Next

\* The invariant holds in every state.
LEMMA ShellInvariant == Spec => []ShellInv
<1> QED
  BY ShellStart, ShellStepsKept, PTL DEF Spec

-----------------------------------------------------------------------------
(* What the invariant says of the states *)

\* The stack is balanced at every label of the shell, however deeply hooked calls
\* are nested in callbacks.
THEOREM ShellTypeCorrect == Spec => []ShellTypeOK
<1>1. ShellInv => ShellTypeOK
  <2> SUFFICES ASSUME ShellInv PROVE ShellTypeOK
    OBVIOUS
  <2>1. /\ support \in XsaveSupportLevels /\ DOMAIN regs = Register
        /\ DOMAIN stack = 1..StackSize /\ fpu \in {"program", "callback", "zero"}
        /\ Len(frames) <= Depth
    BY DEF ShellInv, Typed, FpuState
  <2>2. Here("program") <=> frames = <<>>
    BY DEF ShellInv
  <2>3. IF frames = <<>> THEN rsp = ProgramRsp ELSE rsp = Top.rsp - Pushes
    BY <2>2 DEF ShellInv, TopOK
  <2> QED
    BY <2>1, <2>2, <2>3 DEF ShellTypeOK
<1> QED
  BY <1>1, ShellInvariant, PTL

\* Every callback is entered with rsp as the calling convention asks for.
THEOREM AlignedCorrect == Spec => []CallbackAligned
<1>1. ShellInv => CallbackAligned
  <2> SUFFICES ASSUME ShellInv, Here("callback") PROVE rsp % 2 = 1
    BY DEF CallbackAligned
  <2> DEFINE b == Base(Len(frames))
  <2>1. ~Here("program")
    BY DEF Here
  <2>2. rsp = Top.rsp - 22 /\ Top.rsp = b /\ b \in Int /\ Len(frames) \in 1..Depth
    BY <2>1, Innermost, Running
  <2>3. b % 2 = 1
    BY <2>2, Geometry
  <2> HIDE DEF b
  <2>4. rsp = b - 22
    BY <2>2
  <2> QED
    BY <2>2, <2>3, <2>4
<1> QED
  BY <1>1, ShellInvariant, PTL

\* The original function runs exactly if no callback has asked to skip it, also
\* when the callback has called hooked functions before it asked.
THEOREM SkipCorrect == Spec => []SkipObeyed
<1>1. ShellInv => SkipObeyed
  BY DEF ShellInv, TopOK, SkipObeyed, Here
<1> QED
  BY <1>1, ShellInvariant, PTL

\* A function's shell goes to its own callback and trampoline, also when another
\* function is hooked while the call is in progress.
THEOREM OwnCallbackCorrect == Spec => []OwnCallback
<1>1. ShellInv => OwnCallback
  BY DEF ShellInv, TopOK, OwnCallback, Here
<1> QED
  BY <1>1, ShellInvariant, PTL

\* A callback reads the registers of its call through struct hook_context.
THEOREM ContextCorrect == Spec => []ContextShowsRegisters
<1>1. ShellInv => ContextShowsRegisters
  <2> SUFFICES ASSUME ShellInv, Here("callback"), NEW r \in Register
               PROVE  stack[Field(r)] = IF r = Top.wrote THEN New ELSE Top.regs[r]
    BY DEF ContextShowsRegisters
  <2>1. Field(r) = Top.rsp - Order(r)
    BY Running
  <2>2. stack[Top.rsp - Order(r)] = IF r = Top.wrote THEN New ELSE Top.regs[r]
    BY Running
  <2> QED
    BY <2>1, <2>2
<1> QED
  BY <1>1, ShellInvariant, PTL

-----------------------------------------------------------------------------
(* What it says of the steps *)

\* On leaving the shell the registers are those of the call, but for what the
\* callback changed, and the thread goes to the trampoline or to the caller.
THEOREM RegistersCorrect == Spec => RegistersReflected
<1>1. ASSUME ShellInv, Leave
      PROVE  /\ regs' = [r \in Register |-> IF r = Top.wrote THEN New ELSE Top.regs[r]]
             /\ rsp' \in {Top.rsp, Top.rsp + 1, Top.rsp + 6}
             /\ pc'.label # "original" => pc' = stack[Top.rsp][2]
  <2>1. (Here("jump") \/ Here("return")) /\ ~Here("program")
    BY <1>1 DEF Leave, Here
  <2>2. /\ rsp + Len(Saved) = Top.rsp /\ Popped \in [Register -> Word]
        /\ Popped = [r \in Register |-> IF r = Top.wrote THEN New ELSE Top.regs[r]]
    BY <1>1, <2>1, PoppedRegisters
  <2>3. /\ regs' = Popped /\ fpu' \in FpuState
        /\ UNCHANGED <<hooked, stack, fpu, xsave_state_bufs>>
    BY <1>1 DEF Leave, ShellInv, Typed
  <2>4. CASE Here("jump")
    <3>1. rsp' = Top.rsp /\ pc'.label = "original"
      BY <1>1, <2>2, <2>4 DEF Leave, At
    <3> QED
      BY <2>2, <2>3, <3>1
  <2>5. CASE ~Here("jump")
    <3>1. Return(Top.rsp) /\ frames' = Front(frames)
      BY <1>1, <2>2, <2>5 DEF Leave
    <3>2. pc' = stack[Top.rsp][2] /\ rsp' \in {Top.rsp + 1, Top.rsp + 6}
      BY <1>1, <2>1, <2>2, <2>3, <3>1, Returned
    <3> QED
      BY <2>2, <2>3, <3>2
  <2> QED
    BY <2>4, <2>5
<1>2. ShellInv /\ [Next]_vars =>
        [Leave =>
           /\ regs' = [r \in Register |-> IF r = Top.wrote THEN New ELSE Top.regs[r]]
           /\ rsp' \in {Top.rsp, Top.rsp + 1, Top.rsp + 6}
           /\ pc'.label # "original" => pc' = stack[Top.rsp][2]]_vars
  BY <1>1
<1> QED
  BY <1>2, ShellInvariant, PTL DEF Spec, RegistersReflected

\* Within a hooked call nothing from its return address upwards is written to,
\* but the locals that a callback sets.
THEOREM CallerStackCorrect == Spec => CallerStackKept
<1> DEFINE Kept == \A i \in Top.rsp..StackSize : stack'[i] = stack[i]
           Locals == \A i \in Top.rsp..StackSize :
                       stack'[i] # stack[i] => stack'[i] = New /\ i > StackSize - Arguments
<1>1. ASSUME ShellInv, frames # <<>>
      PROVE  /\ ~Here("program") /\ Top.rsp \in Int /\ Top.rsp >= 27
             /\ Top.rsp = Base(Len(frames)) /\ Len(frames) \in 1..Depth
             /\ StackSize \in Nat /\ rsp = Top.rsp - Pushes
             /\ \A i \in Top.rsp..StackSize : i \in 1..StackSize /\ i >= Top.rsp
             /\ stack \in [1..StackSize -> Word]
  <2>1. ~Here("program")
    BY <1>1 DEF ShellInv
  <2>2. /\ Top.rsp \in Int /\ Top.rsp >= 27 /\ StackSize \in Nat
        /\ Top.rsp = Base(Len(frames)) /\ Len(frames) \in 1..Depth
        /\ rsp = Top.rsp - Pushes
    BY <1>1, <2>1, Innermost, Geometry
  <2>3. \A i \in Top.rsp..StackSize : i \in 1..StackSize /\ i >= Top.rsp
    BY <2>2
  <2> QED
    BY <1>1, <2>1, <2>2, <2>3 DEF ShellInv, Typed
<1>2. ASSUME ShellInv, frames # <<>>, UNCHANGED stack PROVE Kept
  BY <1>2
<1>3. ASSUME ShellInv, frames # <<>>, NEW f \in Functions, CallbackCalls(f) PROVE Kept
  <2> DEFINE words == << <<"return", pc>> >>
             sp == rsp - 5
  <2>1. Here("callback") /\ stack' = Pushed(stack, words, sp)
    BY <1>3 DEF CallbackCalls, Enter
  <2>2. rsp = Top.rsp - 22 /\ sp \in Int /\ sp - 1 < Top.rsp
    <3>1. rsp = Top.rsp - 22
      BY <1>3, <2>1, Running
    <3>2. Top.rsp \in Int
      BY <1>1, <1>3
    <3> QED
      BY <3>1, <3>2
  <2>3. Len(words) = 1 /\ words[1] \in Word
    BY <1>3, Words DEF ShellInv, Typed
  <2>4. stack \in [1..StackSize -> Word]
    BY <1>1, <1>3
  <2> HIDE DEF words, sp
  <2>5. \A i \in 1..StackSize : stack'[i] = IF i = sp - 1 THEN words[1] ELSE stack[i]
    BY <2>1, <2>2, <2>3, <2>4, PushedOne
  <2>6. \A i \in Top.rsp..StackSize : i # sp - 1
    BY <1>1, <1>3, <2>2
  <2> QED
    BY <1>1, <1>3, <2>5, <2>6
<1>4. ASSUME ShellInv, frames # <<>>, SaveRegisters PROVE Kept
  <2>1. rsp = Top.rsp
    BY <1>1, <1>4 DEF SaveRegisters, Here, Pushes
  <2> DEFINE words == [i \in DOMAIN Saved |-> regs[Saved[i]]]
  <2>2. stack' = Pushed(stack, words, Top.rsp)
    BY <1>4, <2>1 DEF SaveRegisters, Push
  <2> HIDE DEF words
  <2>3. \A i \in 1..StackSize : ~(i < Top.rsp) => stack'[i] = stack[i]
    BY <2>2 DEF Pushed
  <2>4. \A i \in Top.rsp..StackSize : ~(i < Top.rsp)
    BY <1>1, <1>4
  <2> QED
    BY <1>1, <1>4, <2>3, <2>4
<1>5. ASSUME ShellInv, frames # <<>>, PushSkip PROVE Kept
  <2>1. rsp = Top.rsp - 16
    BY <1>1, <1>5, SavedPlaces DEF PushSkip, Here, Pushes
  <2> DEFINE words == <<Int0>>
  <2>2. stack' = Pushed(stack, words, rsp)
    BY <1>5 DEF PushSkip, Push
  <2> HIDE DEF words
  <2>3. \A i \in 1..StackSize : ~(i < rsp) => stack'[i] = stack[i]
    BY <2>2 DEF Pushed
  <2>4. \A i \in Top.rsp..StackSize : ~(i < rsp)
    BY <1>1, <1>5, <2>1
  <2> QED
    BY <1>1, <1>5, <2>3, <2>4
<1>6. ASSUME ShellInv, frames # <<>>, SaveFpu \/ RestoreFpu PROVE Kept
  <2>1. PreserveFpuState
        /\ pc.label \in {"save_fpu", "skip_original_call", "invoke_original_call"}
    BY <1>6 DEF SaveFpu, RestoreFpu, Here
  <2>2. rsp = Top.rsp - 16
    BY <1>1, <1>6, <2>1, SavedPlaces DEF Pushes
  <2>3. \A i \in 1..StackSize : i >= rsp => stack'[i] = stack[i]
    BY <1>6, <2>1, FpuCall DEF ShellInv
  <2>4. \A i \in Top.rsp..StackSize : i >= rsp
    BY <1>1, <1>6, <2>2
  <2> QED
    BY <1>1, <1>6, <2>3, <2>4
<1>7. ASSUME ShellInv, frames # <<>>, CallHook PROVE Kept
  <2>1. rsp = Top.rsp - 16
    BY <1>1, <1>7, SavedPlaces DEF CallHook, Here, Pushes
  <2>2. \A i \in 1..StackSize : i >= rsp - 1 => stack'[i] = stack[i]
    BY <1>7, CallHookStack
  <2>3. \A i \in Top.rsp..StackSize : i >= rsp - 1
    BY <1>1, <1>7, <2>1
  <2> QED
    BY <1>1, <1>7, <2>2, <2>3
<1>8. ASSUME ShellInv, frames # <<>>, NEW r \in Register, WriteContext(r) PROVE Kept
  <2>1. stack' = [stack EXCEPT ![Field(r)] = New] /\ Here("callback")
    BY <1>8 DEF WriteContext
  <2>2. Field(r) = Top.rsp - Order(r) /\ Order(r) \in 1..16
    BY <1>8, <2>1, Running, Orders
  <2>3. \A i \in Top.rsp..StackSize : i # Field(r)
    BY <1>1, <1>8, <2>2
  <2> QED
    BY <1>1, <1>8, <2>1, <2>3
<1>9. ASSUME ShellInv, frames # <<>>, SkipOriginalCall PROVE Kept
  <2>1. stack' = [stack EXCEPT ![Field("skip_original_call")] = Int1] /\ Here("callback")
    BY <1>9 DEF SkipOriginalCall
  <2>2. Field("skip_original_call") = Top.rsp - 17
    BY <1>9, <2>1, Running
  <2>3. \A i \in Top.rsp..StackSize : i # Field("skip_original_call")
    BY <1>1, <1>9, <2>2
  <2> QED
    BY <1>1, <1>9, <2>1, <2>3
<1>10. ASSUME ShellInv, frames # <<>>, NEW index \in 0..Arguments - 1, SetParameter(index)
       PROVE  Locals
  <2>1. Local(index) = StackSize - index
    <3>1. stack[Field("r14")][2] = StackSize
      BY <1>10, Words, Geometry DEF SetParameter
    <3> QED
      BY <3>1 DEF Local
  <2>2. stack' = [stack EXCEPT ![StackSize - index] = New]
    BY <1>10, <2>1 DEF SetParameter
  <2>3. StackSize - index > StackSize - Arguments
    BY Geometry
  <2> QED
    BY <1>1, <1>10, <2>2, <2>3
<1>11. ASSUME ShellInv, frames # <<>>, Next PROVE Locals
  <2>1. ASSUME NEW f \in Functions, CreateNakedShell(f) PROVE Kept
    BY <1>2, <1>11, <2>1 DEF CreateNakedShell
  <2>2. ASSUME NEW f \in Functions, ProgramCalls(f) PROVE FALSE
    BY <1>1, <1>11, <2>2 DEF ProgramCalls
  <2>3. CASE TestSkip \/ Leave \/ CallbackReturns \/ OriginalReturns
    BY <1>2, <1>11, <2>3 DEF TestSkip, Leave, CallbackReturns, OriginalReturns
  <2>4. Kept => Locals
    OBVIOUS
  <2> HIDE DEF Kept, Locals
  <2>5. CASE ShellStep
    BY <1>4, <1>5, <1>6, <1>7, <1>11, <2>3, <2>4, <2>5 DEF ShellStep
  <2>6. CASE CallbackStep
    BY <1>8, <1>9, <1>10, <1>11, <2>3, <2>4, <2>6 DEF CallbackStep
  <2> QED
    BY <1>3, <1>11, <2>1, <2>2, <2>3, <2>4, <2>5, <2>6 DEF Next
<1>12. ShellInv /\ [Next]_vars =>
         [frames # <<>> =>
            \A i \in Top.rsp..StackSize :
              stack'[i] # stack[i] => stack'[i] = New /\ i > StackSize - Arguments]_vars
  BY <1>11
<1> QED
  BY <1>12, ShellInvariant, PTL DEF Spec, CallerStackKept
=============================================================================
