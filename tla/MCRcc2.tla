-------------------------------- MODULE MCRcc2 --------------------------------
(* Small programs over two bytes of data n and a, a constant string and a   *)
(* string of up to two characters.                                          *)
EXTENDS Rcc2Gen, FiniteSetsExt, Functions

n == 1000
a == 1001
dot == 1002
str == 1004

At(x)   == Deref(Num(x))
Set(x, e)  == Do(Bin("=", Num(x), e))
Less(x)    == Set(x, Bin("-", At(x), Num(1)))
Show(x)   == Do(Call("puts", << Num(x) >>))
MainOf(ss) == << [f |-> "main", body |-> Body(ss)] >>
Incr       == [f |-> "incr", body |-> Set(a, Bin("+", At(a), Num(1)))]

McSources ==
  [hello  |-> MainOf(<< Show(str) >>),
   count  |-> MainOf(<< While(At(n), Body(<< Show(dot), Less(n) >>)), Show(dot) >>),
   nested |-> MainOf(<< While(At(n),
                          Body(<< Set(a, At(n)),
                                   While(At(a), Body(<< Show(dot), Less(a) >>)),
                                   If(Bin("-", At(n), Num(2)), Show(str)),
                                   Less(n) >>)) >>),
   math   |-> MainOf(<< Do(Call("puti",
                          << Bin("+", Num(700000),
                               Bin("*", At(n),
                                 Bin("-", Num(20), Bin("/", Num(6), Bin("+", Num(1), At(n)))))) >>)) >>),
   calls  |-> Append(MainOf(<< Do(Call("incr", << >>)),
                               Set(n, Bin("+", Call("incr", << >>), At(n))),
                               If(At(n), Do(Call("incr", << >>))) >>), Incr),
   echo   |-> MainOf(<< Set(a, Call("getchar", << >>)),
                        If(Bin("-", Num(255), At(a)), Set(n, Call("getchar", << >>))) >>),
   swap   |-> Append(MainOf(<< Do(Call("puti", << Bin("-", Num(9),
                               Bin("*", Num(2), Call("incr", << >>))) >>)) >>), Incr),
   late   |-> MainOf(<< If(At(n), Less(n)), While(At(n), Less(n)) >>),
   other  |-> MainOf(<< IfElse(At(n), Less(n), Less(a)) >>)]

McLibrary  == Puts \o Getchar \o Puti
McData     == n .. str + 2
McPrograms == Binaries
McCode  == UNION {DOMAIN f : f \in Range(McPrograms)}
McIsa   == UNION {Range(f) : f \in Range(McPrograms)}
McCells == McData \cup ResetSP - 23 .. ResetSP
McImages == {[c \in McCells |-> IF c = n THEN k ELSE IF c = dot THEN 46
                                ELSE IF c \in str .. str + 1 THEN s[c - str] ELSE 0] :
               k \in 0 .. 3, s \in [0 .. 1 -> {0, 10, 255}]}
McRoms  == {[c \in {} |-> 0]}
McRegVals == Word
=============================================================================
