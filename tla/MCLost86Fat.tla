----------------------------- MODULE MCLost86Fat -----------------------------
(* A volume as the Makefile of Lost86 makes it, with sectors of two units: *)
(* clusters of two sectors and a root of two sectors: a text that takes    *)
(* two clusters and one of the same name in "mydir" that fills its own.    *)
EXTENDS Lost86Fat

Unit(name, dir, first, size) == [name |-> name, dir |-> dir, first |-> first, size |-> size]
Text(name) == Unit(name, FALSE, 0, 0)

McSectors == [lba \in 0 .. 11 |->
  CASE lba = 2  -> <<Text("volume"), Unit("test.txt", FALSE, 3, 5)>>
    [] lba = 3  -> <<Unit("mydir", TRUE, 2, 0), Text("unused")>>
    [] lba = 4  -> <<Unit(".", TRUE, 2, 0), Unit("..", TRUE, 0, 0)>>
    [] lba = 5  -> <<Unit("test.txt", FALSE, 5, 4), Text("unused")>>
    [] lba = 6  -> <<Text("one"), Text("two")>>
    [] lba = 7  -> <<Text("three"), Text("four")>>
    [] lba = 8  -> <<Text("five"), Text("zero")>>
    [] lba = 10 -> <<Text("in"), Text("my")>>
    [] lba = 11 -> <<Text("own"), Text("directory")>>
    [] OTHER    -> <<Text("other"), Text("other")>>]
McFat == [c \in 0 .. 5 |-> IF c = 3 THEN 4 ELSE 9]
McExtended == {"test.txt", "none.txt"}
McPaths == {<< >>, <<"test.txt">>, <<"mydir", "test.txt">>,
            <<"test.txt", "none.txt">>}
McAllPaths == McPaths \union {<<"none.txt">>}

ASSUME WellFormed == Chained /\ Findable
=============================================================================
