------------------------------- MODULE MCGpu3d -------------------------------
(* Programs of the 3D pipeline.  Every program draws its commands from one  *)
(* menu, so that the parts of the state that do not meet are not multiplied; *)
(* inside a menu the commands come in any order.                            *)
EXTENDS Gpu3d

CONSTANT Menus    \* the menus of this run

VARIABLE menu

\* bound: commands in a list recorded from these menus
MaxRecorded == [any |-> 3, modes |-> 2, lists |-> 1]

Cmd(op, arg, n) == [op |-> op, arg |-> arg, n |-> n]
Simple(ops) == {Cmd(op, "none", 0) : op \in ops}

Drawing == Simple({"End", "EndList", "GetError"}) \cup
           {Cmd("Begin", "lines", 0), Cmd("Vertex", "p", 0),
            Cmd("NewList", "compile", 1), Cmd("CallList", "none", 1)}

McMenus ==
  [ any |-> Drawing \cup {Cmd("Color", "red", 0)},
    modes |-> Drawing \cup {Cmd("Begin", "points", 0), Cmd("Begin", "strips", 0)},
    cube |-> (Drawing \ {Cmd("GetError", "none", 0)}) \cup
             {Cmd("Color", "red", 0), Cmd("Color", "blue", 0),
              Cmd("CallList", "none", 1)},
    full |-> Simple({"EndList"}) \cup {Cmd("NewList", "compile", 2), Cmd("Vertex", "p", 0)},
    lists |-> Simple({"EndList", "GetError"}) \cup
              {Cmd("NewList", a, n) : a \in {"compile", "compile_and_execute", "other"},
                                      n \in 0 .. 3} \cup
              {Cmd("GenLists", "none", n) : n \in {-1, 1}} \cup
              {Cmd("CallList", "none", n) : n \in {0, 2}} \cup
              {Cmd("Enable", "depth_test", 0)},
    caps |-> Simple({"End", "Flush", "Unknown", "GetError"}) \cup
             {Cmd(e, a, 0) : e \in {"Enable", "Disable", "IsEnabled"},
                             a \in {"depth_test", "auto_flush", "fog"}} \cup
             {Cmd("DepthFunc", a, 0) : a \in {"less", "always", "never"}} \cup
             {Cmd("Viewport", a, 0) : a \in {"window", "half", "negative"}} \cup
             {Cmd("Clear", a, 0) : a \in {"color", "depth"}} \cup
             {Cmd("ClearColor", "red", 0), Cmd("Begin", "lines", 0), Cmd("Vertex", "p", 0)},
    matrices |-> Simple({"LoadIdentity", "PushMatrix", "PopMatrix", "GetError"}) \cup
                 {Cmd("MatrixMode", a, 0) : a \in {"modelview", "projection", "texture"}} \cup
                 {Cmd("Transform", a, 0) : a \in {"t", "empty"}} \cup
                 {Cmd("Ortho", a, 0) : a \in {"t", "empty"}} ]
McCommands == UNION {McMenus[m] : m \in DOMAIN McMenus}

\* The lists of the debugger's cube test: blocks of a colour and two vertices.
Last(l) == IF Commanded(l) = << >> THEN "none" ELSE Commanded(l)[Len(Commanded(l))].op
CubeOrder(c) ==
  /\ recording = None => c.op \in {"NewList", "CallList"}
  /\ recording # None =>
       CASE Last(recording) = "none" -> c.op = "Begin"
         [] Last(recording) = "Begin" -> c.op = "Color"
         [] Last(recording) = "Color" -> c.op = "Vertex"
         [] Last(recording) = "Vertex" -> c.op \in {"Vertex", "End"}
         [] OTHER -> c.op \in {"Begin", "EndList"}

Follows(c) ==
  /\ menu = "cube" => CubeOrder(c)
  /\ menu \in DOMAIN MaxRecorded /\ recording # None =>
       Len(Commanded(recording)) < MaxRecorded[menu] \/ c.op \notin Recordable

McInit == Init /\ menu \in Menus
McNext == /\ \/ Loops
             \/ \E c \in McMenus[menu] : Follows(c) /\ HandleInterrupt(c)
          /\ UNCHANGED menu
McSpec == McInit /\ [][McNext]_<<vars, menu>>
=============================================================================
