------------------------------- MODULE Rcc2Gen --------------------------------
(***************************************************************************)
(* The code generator of rcc2ge (compilers/rcc2ge/lib/codegen.h), which    *)
(* writes assembly while it parses, and what its programs mean.            *)
(*                                                                         *)
(* A source is a sequence of functions [f, body].  An expression or a      *)
(* statement is the record its parse_ function recognises; e.next_reg is   *)
(* the argument r, the counters of FnState are c.  An array is the address *)
(* it is placed at, and so is a string.                                    *)
(***************************************************************************)
EXTENDS Rcc2Lib, Lc24Program

CONSTANTS Sources,    \* of each program, by name, its functions
          Library,    \* the routines in front of it
          Data        \* the cells of its arrays and strings

Num(v)         == [k |-> "num", v |-> v]
Deref(e)       == [k |-> "deref", e |-> e]
Bin(op, x, y)  == [k |-> "bin", op |-> op, x |-> x, y |-> y]
Call(f, args)  == [k |-> "call", f |-> f, args |-> args]
Do(e)          == [k |-> "do", e |-> e]
If(e, s)       == [k |-> "if", e |-> e, s |-> s]
IfElse(e, s, t) == [k |-> "else", e |-> e, s |-> s, t |-> t]
While(e, s)    == [k |-> "while", e |-> e, s |-> s]
Body(ss)      == [k |-> "block", ss |-> ss]

-----------------------------------------------------------------------------
(* Expressions: the value comes out in register number r, and the registers*)
(* below it hold the operands still to be used.                            *)

redisters == <<"AC", "BS", "CN", "DC", "DT", "DI">>
R(r) == redisters[r + 1]

\* reg_exc_bin: the left operand is in R(r) and the right one above it.
reg_exc_bin(op, r) ==
  RR(CASE op = "+" -> "ADD" [] op = "-" -> "SUB" [] op = "*" -> "MUL"
       [] op = "/" -> "DIV11" [] op = "=" -> "SBc",
     R(r), R(r + 1))

\* The live registers around a call.
Saved(r)    == [k \in 1 .. r |-> PushReg(R(k - 1))]
Restored(r) == [k \in 1 .. r |-> Pop(R(k - 1))]

RECURSIVE parse_a(_, _), Arguments(_)

Arguments(args) ==
  IF args = << >> THEN << >>
  ELSE parse_a(Head(args), 0) \o << PushReg(R(0)) >> \o Arguments(Tail(args))

parse_a(e, r) ==
  CASE e.k = "num"   -> << MovImm(R(r), e.v) >>
    [] e.k = "deref" -> parse_a(e.e, r) \o << RR("LBc", R(r), R(r)),
                                              DexReg(R(r)) >>
    [] e.k = "bin"   -> parse_a(e.x, r) \o parse_a(e.y, r + 1)
                          \o << reg_exc_bin(e.op, r) >>
    [] e.k = "call"  -> Saved(r) \o Arguments(e.args)
                          \o << To("CALL", <<e.f>>), Pop(R(r)) >> \o Restored(r)

(* Statements.  A while takes its first label from whilecnt and both of its*)
(* jumps from ifcnt; the line break is missing after the jump over an else,*)
(* so what las reads there is no instruction.                              *)

Test(e, label) == parse_a(e, 0) \o << CmpImm(R(0), 0), To("JME0", label) >>

RECURSIVE parse_block(_, _, _)

\* The code of the statements ss of f, from the counters c.
Sequence(f, ss, c) ==
  LET upto[k \in 0 .. Len(ss)] ==
        IF k = 0 THEN [text |-> << >>, c |-> c]
        ELSE LET s == parse_block(f, ss[k], upto[k - 1].c)
             IN  [text |-> upto[k - 1].text \o s.text, c |-> s.c]
  IN  upto[Len(ss)]

\* Wrong on purpose: no jump back to the condition.
Again_missing(f, ifid) == << Label(<<f, "lend", ifid>>) >>
\* The jump back and the label behind it, numbered with the ifs.
Again(f, ifid) == << To("JMP0", <<f, "loop", ifid>>), Label(<<f, "lend", ifid>>) >>

parse_block(f, s, c) ==
  CASE s.k = "do"    -> [text |-> parse_a(s.e, 0), c |-> c]
    [] s.k = "block" -> Sequence(f, s.ss, c)
    [] s.k = "if"    ->
         LET body == parse_block(f, s.s, [c EXCEPT !.ifcnt = @ + 1])
         IN  [text |-> Test(s.e, <<f, "ifnt", c.ifcnt>>) \o body.text
                         \o << Label(<<f, "ifnt", c.ifcnt>>) >>,
              c |-> body.c]
    [] s.k = "else"  ->
         LET body == parse_block(f, s.s, [c EXCEPT !.ifcnt = @ + 1])
             other == parse_block(f, s.t, body.c)
         IN  [text |-> Test(s.e, <<f, "ifnt", c.ifcnt>>) \o body.text
                         \o << Plain("unknown") >> \o other.text
                         \o << Label(<<f, "ifend", c.ifcnt>>) >>,
              c |-> other.c]
    [] s.k = "while" ->
         LET body == parse_block(f, s.s, [ifcnt |-> c.ifcnt + 1,
                                          whilecnt |-> c.whilecnt + 1])
         IN  [text |-> << Label(<<f, "loop", c.whilecnt>>) >>
                         \o Test(s.e, <<f, "lend", c.ifcnt>>) \o body.text
                         \o Again(f, c.ifcnt),
              c |-> body.c]

parse_fn(fn) ==
  << Label(<<fn.f>>) >>
    \o parse_block(fn.f, fn.body, [ifcnt |-> 0, whilecnt |-> 0]).text
    \o << Pop("AC"), PushImm(0), PushReg("AC"), Plain("RET") >>

\* The program as it is handed to the assembler.
Compiled(source) ==
  LET upto[k \in 0 .. Len(source)] ==
        IF k = 0 THEN Start \o Library ELSE upto[k - 1] \o parse_fn(source[k])
  IN  upto[Len(source)]

Runnable == {p \in DOMAIN Sources : Assembles(Compiled(Sources[p]))}
Binaries == [p \in Runnable |-> Assembled(Compiled(Sources[p]))]
Listings == [p \in Runnable |-> Placed(Compiled(Sources[p]))]
-----------------------------------------------------------------------------
(* What a source means: v the value of an expression, m the arrays and     *)
(* strings, o what is written and i the characters still to be read.  An   *)
(* assignment stores a byte at the address its left side gives.            *)

Apply(op, x, y) == CASE op = "+" -> (x + y) % W [] op = "-" -> (x - y) % W
                     [] op = "*" -> Times(x, y) [] op = "/" -> x \div y

RECURSIVE Value(_, _, _), Meaning(_, _, _), Final(_, _, _)

Value(src, e, s) ==
  CASE e.k = "num"   -> [s EXCEPT !.v = e.v]
    [] e.k = "deref" -> LET t == Value(src, e.e, s) IN [t EXCEPT !.v = t.m[t.v]]
    [] e.k = "bin"   ->
         LET x == Value(src, e.x, s)
             y == Value(src, e.y, x)
         IN  IF e.op = "=" THEN [y EXCEPT !.m[x.v] = y.v % 256]
             ELSE [y EXCEPT !.v = Apply(e.op, x.v, y.v)]
    [] e.k = "call"  ->
         LET t == IF e.args = << >> THEN s ELSE Value(src, Head(e.args), s)
         IN  CASE e.f = "puts"    -> [t EXCEPT !.o = @ \o Text(t.m, t.v), !.v = 0]
               [] e.f = "puti"    -> [t EXCEPT !.o = @ \o Decimal(t.v), !.v = 0]
               [] e.f = "getchar" -> [t EXCEPT !.v = Head(t.i), !.i = Tail(t.i)]
               [] OTHER           -> [Final(src, e.f, t) EXCEPT !.v = 0]

Meaning(src, st, s) ==
  CASE st.k = "do"    -> Value(src, st.e, s)
    [] st.k = "block" ->
         LET upto[k \in 0 .. Len(st.ss)] ==
               IF k = 0 THEN s ELSE Meaning(src, st.ss[k], upto[k - 1])
         IN  upto[Len(st.ss)]
    [] st.k \in {"if", "while"} ->
         LET t == Value(src, st.e, s)
         IN  CASE t.v = 0     -> t
               [] st.k = "if" -> Meaning(src, st.s, t)
               [] OTHER       -> Meaning(src, st, Meaning(src, st.s, t))

Final(src, f, s) ==
  Meaning(src, src[CHOOSE k \in DOMAIN src : src[k].f = f].body, s)

-----------------------------------------------------------------------------
(* Sources that stay within what the generator can do.  A call brings the  *)
(* saved registers back in the order they went in, so at most one may be   *)
(* live; a division leaves its remainder in %dc, so the fourth operand may *)
(* not be waiting there; the value of an assignment is not its right side. *)

RECURSIVE CarefulExpression(_, _), Careful(_)

CarefulExpression(e, r) ==
  CASE e.k = "num"   -> r < 6
    [] e.k = "deref" -> CarefulExpression(e.e, r)
    [] e.k = "bin"   -> /\ CarefulExpression(e.x, r) /\ CarefulExpression(e.y, r + 1)
                        /\ e.op = "/" => r <= 3
                        /\ e.op # "="
    [] e.k = "call"  -> r <= 1 /\ \A k \in DOMAIN e.args : CarefulExpression(e.args[k], 0)

Careful(st) ==
  CASE st.k = "do"    -> IF st.e.k = "bin" /\ st.e.op = "="
                         THEN CarefulExpression(st.e.x, 0) /\ CarefulExpression(st.e.y, 1)
                         ELSE CarefulExpression(st.e, 0)
    [] st.k = "block" -> \A k \in DOMAIN st.ss : Careful(st.ss[k])
    [] OTHER          -> CarefulExpression(st.e, 0) /\ Careful(st.s)

(* A program that stops has left the stack as it was and the status 0,     *)
(* whatever it called.  If its source is careful it has written, read and  *)
(* stored what the source means: operands survive the expressions and calls*)
(* beside them, loops and conditions go where they should.                 *)
CompiledMeansSource ==
  run = "stopped" =>
    /\ reg["SP"] = ResetSP /\ lc_errno = 0
    /\ (\A k \in DOMAIN Sources[name] : Careful(Sources[name][k].body)) =>
         LET s == Final(Sources[name], "main", [v |-> 0, m |-> first, o |-> << >>, i |-> inp])
         IN  /\ out = s.o /\ s.i = << >>
             /\ \A c \in Data : mem[c] = s.m[c]

(* The processor steps from line to line of the assembly and finds in the  *)
(* bytes of each what was written there; of any other line las takes, it   *)
(* would do so unless Las names the line as one they disagree on.          *)
ExecutedAsWritten ==
  /\ TablesAgree
  /\ run = "running" => /\ PC \in DOMAIN Listings[name]
                        /\ Programs[name][PC] = Listings[name][PC]

(* Every program of the instance comes to its end: no call, interrupt or   *)
(* jump of the compiled code leads astray.                                 *)
Terminates == <>(run = "stopped")
=============================================================================
