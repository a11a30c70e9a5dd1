------------------------------ MODULE CallStack ------------------------------
(***************************************************************************)
(* What the LC24 stack promises to a program: a last-in first-out stack of *)
(* 24-bit words that carries the return addresses of calls, the flags and  *)
(* return addresses of interrupts, and the words the program pushes.       *)
(* Memory and the stack pointer do not appear here.                        *)
(***************************************************************************)
EXTENDS Integers, Sequences

CONSTANTS Word,   \* the values of a register
          Reg     \* the registers a program may pop into

VARIABLES stack,  \* the words pushed and not popped yet, newest last
          file,   \* the registers but the stack pointer
          flags,  \* the flags byte
          at      \* the program counter

abs == <<stack, file, flags, at>>

Top  == stack[Len(stack)]
Drop(n) == SubSeq(stack, 1, Len(stack) - n)

Start == /\ stack = << >>
         /\ file \in [Reg -> Word]
         /\ flags \in 0 .. 255
         /\ at \in Nat

\* Any word: an immediate, a register, a byte of memory, a key.
Push == /\ Len(stack') = Len(stack) + 1
        /\ stack' = Append(stack, stack'[Len(stack) + 1])
        /\ stack'[Len(stack) + 1] \in Word
        /\ at' \in Nat
        /\ UNCHANGED <<file, flags>>

\* The word on top goes to register r and to no other place.
Pop(r) == /\ stack # << >>
          /\ file' = [file EXCEPT ![r] = Top]
          /\ stack' = Drop(1)
          /\ at' \in Nat
          /\ flags' = flags

\* The word on top leaves the machine: a character or an exit status.
Emit == /\ stack # << >>
        /\ stack' = Drop(1)
        /\ at' \in Nat
        /\ UNCHANGED <<file, flags>>

Call == /\ stack' = Append(stack, (at + 4) % 16777216)
        /\ at' \in Word
        /\ UNCHANGED <<file, flags>>

Return == /\ stack # << >>
          /\ at' = Top
          /\ stack' = Drop(1)
          /\ UNCHANGED <<file, flags>>

Trap == /\ stack' = stack \o <<(at + 2) % 16777216, flags>>
        /\ at' \in Word
        /\ UNCHANGED <<file, flags>>

\* Both the flags and the program counter of the interrupted program.
TrapReturn == /\ Len(stack) >= 2
              /\ flags' = Top % 256
              /\ at' = stack[Len(stack) - 1]
              /\ stack' = Drop(2)
              /\ file' = file

Clear == /\ stack' = << >>
         /\ file' \in [Reg -> Word]
         /\ flags' \in 0 .. 255
         /\ at' \in Nat

\* Every other instruction: whatever it does, the stack stays.
Local == /\ stack' = stack
         /\ file' \in [Reg -> Word]
         /\ flags' \in 0 .. 255
         /\ at' \in Nat

Next == \/ Push
        \/ \E r \in Reg : Pop(r)
        \/ Emit \/ Call \/ Return \/ Trap \/ TrapReturn \/ Clear \/ Local

Lifo == Start /\ [][Next]_abs
=============================================================================
