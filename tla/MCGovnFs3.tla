------------------------------ MODULE MCGovnFs3 ------------------------------
(* Images of four clusters, of which the last lies outside, and a          *)
(* directory of three entries beside the root: both can fill up.            *)
EXTENDS GovnFs3

McClusters == 1 .. 4
McInside   == 1 .. 3
McPaths    == {<< >>, <<"d">>}
Name(b, x, e) == [base |-> b, beyond |-> x, ext |-> e]
McFileNames == {Name("f", 0, 3), Name("f", 0, 1)}
McContents == {[blocks |-> << >>, full |-> TRUE], [blocks |-> <<"p">>, full |-> FALSE],
               [blocks |-> <<"q", "p">>, full |-> TRUE]}
=============================================================================
