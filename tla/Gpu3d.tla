-------------------------------- MODULE Gpu3d --------------------------------
(***************************************************************************)
(* The 3D pipeline behind lc3D_HandleInterrupt: the vertices collected     *)
(* between Begin and End, the matrices and their stacks, the error that    *)
(* waits for GetError, and the display lists that record commands, are     *)
(* compiled by EndList and drawn by CallList.                              *)
(*                                                                         *)
(* A command is a record [op, arg, n] with a number n for a list.          *)
(* Coordinates, colours, matrices and viewports are members of small sets; *)
(* a matrix is the sequence of the transformations multiplied into it, and *)
(* what is painted is the figure handed to the rasteriser.  The loops of   *)
(* EndList and CallList over a list run one command to a step (busy);      *)
(* nothing else runs until they are done.                                  *)
(***************************************************************************)
EXTENDS Integers, Sequences, FiniteSets

CONSTANTS MATRIX_STACK_DEPTH, MAX_DISPLAY_LISTS, MAX_LIST_COMMANDS,
          VERTEX_BUFFER_SIZE,
          CountBits,          \* width of pipeline_state.count, eight in the code
          MaxProduct,         \* bound: transformations in one matrix
          Points, Colors, Transforms, Viewports,
          Commands            \* the commands a program may issue

VARIABLES pipe,       \* pipeline_state
          matrices,   \* current_matrix_mode, both matrices and both stacks
          caps,       \* depth test and function, auto flush, clear colour, viewport
          lists, recording,   \* display_lists, recording_list_id
          error,      \* lc3d_error
          surface,    \* the last thing painted, and whether it awaits a GGpage
          busy        \* the loop of EndList or CallList that is running

vars == <<pipe, matrices, caps, lists, recording, error, surface, busy>>

White == "white"
Black == "black"
Modes == {"points", "lines", "triangles", "quads"}
MatrixModes == {"modelview", "projection"}
Capabilities == {"depth_test", "auto_flush"}
DepthFuncs == {"less", "always"}
Recordable == {"Begin", "End", "Vertex", "Color", "Enable", "Disable"}
Ids == 1 .. MAX_DISPLAY_LISTS - 1
None == -1                         \* recording_list_id when nothing is recorded
CountModulus == 2^CountBits

Vertices == [at : Points, color : Colors]
Figures  == [mode : Modes, verts : Seq(Vertices)]
Nothing  == [mode |-> "none", verts |-> << >>]    \* no figure
Wiped    == [mode |-> "clear", verts |-> << >>]   \* the surface was cleared
Idle     == [op |-> "idle", list |-> None, next |-> 1,
             active |-> FALSE, held |-> << >>]

ASSUME SizeAssumption ==
  /\ MATRIX_STACK_DEPTH \in Nat \ {0} /\ MAX_DISPLAY_LISTS \in Nat \ {0}
  /\ MAX_LIST_COMMANDS \in Nat /\ VERTEX_BUFFER_SIZE \in Nat
  /\ MaxProduct \in Nat /\ CountModulus \in Nat \ {0}
  /\ {White, Black} \subseteq Colors

\* A count of eight bits never reaches the end of the 1024 entries of verts.
ASSUME BufferAssumption == CountModulus <= VERTEX_BUFFER_SIZE

ASSUME CommandAssumption ==
  \A c \in Commands :
     /\ c.n \in Int
     /\ c.op \in {"Vertex"} => c.arg \in Points
     /\ c.op \in {"Color", "ClearColor"} => c.arg \in Colors
     /\ c.op \in {"Transform", "Ortho"} => c.arg \in Transforms \cup {"empty"}
     /\ c.op = "Viewport" => c.arg \in Viewports \cup {"negative"}

Live == SubSeq(pipe.verts, 1, pipe.count)     \* verts[0 .. count - 1]
Commanded(l) == lists[l].commands

\* lc3D_SetError: the first error stays until it is asked for.
SetError(e) == error' = IF error = "none" THEN e ELSE error
Refuse(e) == SetError(e) /\ UNCHANGED <<pipe, surface>>
Paint(f, u) == surface' = [drawn |-> f, unseen |-> u]
NoPaint == Paint(Nothing, surface.unseen)

-----------------------------------------------------------------------------
(* The four commands that collect and draw vertices, as a program, EndList *)
(* and CallList execute them.                                              *)
BeginError(m) == IF pipe.active THEN "operation"
                 ELSE IF m \notin Modes THEN "enum" ELSE "none"

Begin(m) ==
  \/ BeginError(m) # "none" /\ Refuse(BeginError(m))
  \/ /\ BeginError(m) = "none"
     /\ pipe' = [active |-> TRUE, mode |-> m, count |-> 0,
                 color |-> White, verts |-> << >>]
     /\ NoPaint
     /\ UNCHANGED error

Color(k) == pipe' = [pipe EXCEPT !.color = k] /\ NoPaint /\ UNCHANGED error

VertexError == IF ~pipe.active THEN "operation"
               ELSE IF pipe.count >= VERTEX_BUFFER_SIZE THEN "memory" ELSE "none"

\* verts[count] = v: over an old entry or over the next one not yet written.
Stored(v) == IF pipe.count < Len(pipe.verts)
             THEN [pipe.verts EXCEPT ![pipe.count + 1] = v]
             ELSE Append(pipe.verts, v)

\* count is a U8 and the check against VERTEX_BUFFER_SIZE is not what stops it.
Vertex(p) ==
  \/ VertexError # "none" /\ Refuse(VertexError)
  \/ /\ VertexError = "none"
     /\ pipe' = [pipe EXCEPT !.verts = Stored([at |-> p, color |-> pipe.color]),
                             !.count = (pipe.count + 1) % CountModulus]
     /\ NoPaint
     /\ UNCHANGED error

\* Wrong on purpose: the vertices that were drawn stay in the pipeline.
End_uncounted ==
  \/ ~pipe.active /\ Refuse("operation")
  \/ /\ pipe.active
     /\ pipe' = [pipe EXCEPT !.active = FALSE]
     /\ Paint([mode |-> pipe.mode, verts |-> Live], ~caps.auto_flush)
     /\ UNCHANGED error

End ==
  \/ ~pipe.active /\ Refuse("operation")
  \/ /\ pipe.active
     /\ pipe' = [pipe EXCEPT !.active = FALSE, !.count = 0, !.verts = << >>]
     /\ IF pipe.count = 0 THEN NoPaint
        ELSE Paint([mode |-> pipe.mode, verts |-> Live],
                   ~caps.auto_flush)
     /\ UNCHANGED error

-----------------------------------------------------------------------------
(* The commands of a program. *)
\* Wrong on purpose: one command more than there is room for.
HasRoom_inclusive == Len(Commanded(recording)) <= MAX_LIST_COMMANDS

HasRoom == Len(Commanded(recording)) < MAX_LIST_COMMANDS

Record(c) ==
  /\ recording # None
  /\ c.op \in Recordable
  /\ lists' = IF HasRoom
              THEN [lists EXCEPT ![recording].commands = Append(@, c)]
              ELSE lists
  /\ NoPaint
  /\ UNCHANGED <<pipe, matrices, caps, recording, error, busy>>

Primitive(c) ==
  /\ \/ c.op = "Begin" /\ Begin(c.arg)
     \/ c.op = "Color" /\ Color(c.arg)
     \/ c.op = "Vertex" /\ Vertex(c.arg)
     \/ c.op = "End" /\ End
  /\ UNCHANGED <<matrices, caps>>

Draw(c) == /\ recording = None
           /\ Primitive(c)
           /\ UNCHANGED <<lists, recording, busy>>

Enabling(c) ==
  /\ recording = None
  /\ c.op \in {"Enable", "Disable"}
  /\ \/ /\ c.arg \in Capabilities
        /\ caps' = [caps EXCEPT ![c.arg] = (c.op = "Enable")]
        /\ NoPaint
        /\ UNCHANGED <<pipe, error>>
     \/ c.arg \notin Capabilities /\ Refuse("enum") /\ UNCHANGED caps
  /\ UNCHANGED <<matrices, lists, recording, busy>>

\* The capabilities that are set at once even while a list is recorded.
Settings(c) ==
  /\ \/ /\ c.op = "DepthFunc" /\ c.arg \in DepthFuncs
        /\ caps' = [caps EXCEPT !.depth_func = c.arg]
        /\ UNCHANGED error
     \/ /\ c.op = "DepthFunc" /\ c.arg \notin DepthFuncs
        /\ SetError("enum")
        /\ UNCHANGED caps
     \/ /\ c.op = "Viewport" /\ c.arg \in Viewports
        /\ caps' = [caps EXCEPT !.viewport = c.arg]
        /\ UNCHANGED error
     \/ /\ c.op = "Viewport" /\ c.arg \notin Viewports
        /\ SetError("value")
        /\ UNCHANGED caps
     \/ /\ c.op = "ClearColor"
        /\ caps' = [caps EXCEPT !.clear_color = c.arg]
        /\ UNCHANGED error
     \/ /\ c.op = "IsEnabled" /\ c.arg \notin Capabilities
        /\ SetError("enum")
        /\ UNCHANGED caps
     \/ c.op = "GetError" /\ error' = "none" /\ UNCHANGED caps
     \/ c.op = "Unknown" /\ SetError("enum") /\ UNCHANGED caps
  /\ NoPaint
  /\ UNCHANGED <<pipe, matrices, lists, recording, busy>>

Surface(c) ==
  /\ \/ c.op = "Clear" /\ c.arg = "color" /\ Paint(Wiped, TRUE)
     \/ c.op = "Clear" /\ c.arg = "depth" /\ NoPaint
     \/ c.op = "Flush" /\ Paint(Nothing, FALSE)
  /\ UNCHANGED <<pipe, matrices, caps, lists, recording, error, busy>>

-----------------------------------------------------------------------------
(* The matrices, changed at once even while a list is recorded. *)
Mode == matrices.mode
Current == matrices.current[Mode]
Saved == matrices.stack[Mode]

MatrixError(c) ==
  CASE c.op = "MatrixMode" /\ c.arg \notin MatrixModes -> "enum"
    [] c.op = "Ortho" /\ c.arg = "empty" -> "value"
    [] c.op = "PushMatrix" /\ Len(Saved) >= MATRIX_STACK_DEPTH -> "overflow"
    [] c.op = "PopMatrix" /\ Saved = << >> -> "underflow"
    [] OTHER -> "none"

MatrixDone(c) ==
  \/ c.op = "MatrixMode" /\ matrices' = [matrices EXCEPT !.mode = c.arg]
  \/ c.op = "LoadIdentity" /\ matrices' = [matrices EXCEPT !.current[Mode] = << >>]
  \/ /\ c.op \in {"Transform", "Ortho"}
     /\ Len(Current) < MaxProduct
     /\ matrices' = [matrices EXCEPT !.current[Mode] =
                       IF c.arg = "empty" THEN @ ELSE Append(@, c.arg)]
  \/ /\ c.op = "PushMatrix"
     /\ matrices' = [matrices EXCEPT !.stack[Mode] = Append(@, Current)]
  \/ /\ c.op = "PopMatrix"
     /\ matrices' = [matrices EXCEPT
                       !.current[Mode] = Saved[Len(Saved)],
                       !.stack[Mode] = SubSeq(@, 1, Len(@) - 1)]

Matrices(c) ==
  /\ c.op \in {"MatrixMode", "LoadIdentity", "Transform", "Ortho",
               "PushMatrix", "PopMatrix"}
  /\ \/ MatrixError(c) # "none" /\ SetError(MatrixError(c)) /\ UNCHANGED matrices
     \/ MatrixError(c) = "none" /\ MatrixDone(c) /\ UNCHANGED error
  /\ NoPaint
  /\ UNCHANGED <<pipe, caps, lists, recording, busy>>

-----------------------------------------------------------------------------
(* The display lists. *)
Empty == [commands |-> << >>, compiled |-> FALSE, figure |-> Nothing]

\* GenLists answers the first list that holds nothing and reserves nothing.
Unused == {l \in Ids : Commanded(l) = << >> /\ ~lists[l].compiled}
FreeList == IF Unused = {} THEN 0
            ELSE CHOOSE l \in Unused : \A k \in Unused : l <= k

GenLists(c) ==
  /\ c.op = "GenLists"
  /\ \/ c.n < 0 /\ SetError("value")
     \/ c.n >= 0 /\ UNCHANGED error
  /\ NoPaint
  /\ UNCHANGED <<pipe, matrices, caps, lists, recording, busy>>

NewListError(c) == IF c.n \notin Ids THEN "value"
                   ELSE IF c.arg \notin {"compile", "compile_and_execute"} THEN "enum"
                   ELSE IF recording # None THEN "operation" ELSE "none"

NewList(c) ==
  /\ c.op = "NewList"
  /\ \/ /\ NewListError(c) # "none"
        /\ SetError(NewListError(c))
        /\ UNCHANGED <<lists, recording>>
     \/ /\ NewListError(c) = "none"
        /\ recording' = c.n
        /\ lists' = [lists EXCEPT ![c.n] = Empty]
        /\ UNCHANGED error
  /\ NoPaint
  /\ UNCHANGED <<pipe, matrices, caps, busy>>

EndList(c) ==
  /\ c.op = "EndList"
  /\ \/ recording = None /\ SetError("operation") /\ UNCHANGED <<recording, busy>>
     \/ /\ recording # None
        /\ recording' = None
        /\ busy' = [op |-> "compile", list |-> recording, next |-> 1,
                    active |-> pipe.active, held |-> Live]
        /\ UNCHANGED error
  /\ NoPaint
  /\ UNCHANGED <<pipe, matrices, caps, lists>>

CallListError(c) == IF c.n \notin Ids THEN "value"
                    ELSE IF recording # None THEN "operation" ELSE "none"

\* A compiled list is drawn whole, and never flushed; points have no case in
\* the switch.  fits is whether malloc found room for the screen vertices.
CallList(c, fits) ==
  /\ c.op = "CallList"
  /\ \/ CallListError(c) # "none" /\ Refuse(CallListError(c)) /\ UNCHANGED busy
     \/ /\ CallListError(c) = "none" /\ lists[c.n].compiled
        /\ \/ ~fits /\ Refuse("memory")
           \/ /\ fits
              /\ IF lists[c.n].figure.mode = "points" THEN NoPaint
                 ELSE Paint(lists[c.n].figure, TRUE)
              /\ UNCHANGED <<pipe, error>>
        /\ UNCHANGED busy
     \/ /\ CallListError(c) = "none" /\ ~lists[c.n].compiled
        /\ busy' = [Idle EXCEPT !.op = "call", !.list = c.n]
        /\ NoPaint
        /\ UNCHANGED <<pipe, error>>
  /\ UNCHANGED <<matrices, caps, lists, recording>>

HandleInterrupt(c) ==
  /\ busy = Idle
  /\ \/ Record(c)
     \/ Draw(c)
     \/ Enabling(c)
     \/ Settings(c)
     \/ Surface(c)
     \/ Matrices(c)
     \/ GenLists(c)
     \/ NewList(c)
     \/ EndList(c)
     \/ \E fits \in BOOLEAN : CallList(c, fits)

-----------------------------------------------------------------------------
(* The loops over the commands of a list. *)
Listed == Commanded(busy.list)
\* Wrong on purpose: EndList replays the colours of a list no more.
Replayed_colourless == IF busy.op = "compile" THEN {"Begin", "Vertex"}
                       ELSE {"Begin", "End", "Vertex", "Color"}

Replayed == IF busy.op = "compile" THEN {"Begin", "Vertex", "Color"}
            ELSE {"Begin", "End", "Vertex", "Color"}

Replay ==
  /\ busy.op \in {"compile", "call"}
  /\ busy.next <= Len(Listed)
  /\ \/ Listed[busy.next].op \in Replayed /\ Primitive(Listed[busy.next])
     \/ /\ Listed[busy.next].op \notin Replayed
        /\ NoPaint
        /\ UNCHANGED <<pipe, matrices, caps, error>>
  /\ busy' = [busy EXCEPT !.next = @ + 1]
  /\ UNCHANGED <<lists, recording>>

Called ==
  /\ busy.op = "call"
  /\ busy.next > Len(Listed)
  /\ busy' = Idle
  /\ NoPaint
  /\ UNCHANGED <<pipe, matrices, caps, lists, recording, error>>

\* Wrong on purpose: is_active is set back and count is not.
Restored_active_only == [pipe EXCEPT !.active = busy.active]

\* Whatever the pipeline holds now becomes the list; is_active and count are
\* set back to what they were, the colour and the vertices are not.
Restored == [pipe EXCEPT !.active = busy.active, !.count = Len(busy.held),
                         !.verts = SubSeq(@, 1, Len(busy.held))]

Compile(fits) ==
  /\ busy.op = "compile"
  /\ busy.next > Len(Listed)
  /\ \/ /\ pipe.count = 0
        /\ UNCHANGED <<lists, error>>
     \/ /\ pipe.count > 0 /\ fits
        /\ lists' = [lists EXCEPT
                       ![busy.list].compiled = TRUE,
                       ![busy.list].figure = [mode |-> pipe.mode, verts |-> Live]]
        /\ UNCHANGED error
     \/ /\ pipe.count > 0 /\ ~fits
        /\ SetError("memory")
        /\ UNCHANGED lists
  /\ pipe' = Restored
  /\ busy' = Idle
  /\ NoPaint
  /\ UNCHANGED <<matrices, caps, recording>>

Init ==
  /\ pipe = [active |-> FALSE, mode |-> "points", count |-> 0,
             color |-> Black, verts |-> << >>]
  /\ matrices = [mode |-> "modelview",
                 current |-> [m \in MatrixModes |-> << >>],
                 stack |-> [m \in MatrixModes |-> << >>]]
  /\ caps = [depth_test |-> FALSE, auto_flush |-> TRUE, depth_func |-> "less",
             clear_color |-> Black, viewport |-> CHOOSE v \in Viewports : TRUE]
  /\ lists = [l \in Ids |-> Empty]
  /\ recording = None
  /\ error = "none"
  /\ surface = [drawn |-> Nothing, unseen |-> FALSE]
  /\ busy = Idle

Loops == Replay \/ Called \/ \E fits \in BOOLEAN : Compile(fits)
Next == Loops \/ \E c \in Commands : HandleInterrupt(c)
Spec == Init /\ [][Next]_vars

-----------------------------------------------------------------------------
(* The registers of the pipeline keep their widths, the stacks and the     *)
(* lists their limits, and the entries of verts below count are written.   *)
PipeType ==
  /\ pipe \in [active : BOOLEAN, mode : Modes, count : 0 .. CountModulus - 1,
               color : Colors, verts : Seq(Vertices)]
  /\ pipe.count <= Len(pipe.verts)

MatrixType ==
  /\ matrices \in [mode : MatrixModes, current : [MatrixModes -> Seq(Transforms)],
                   stack : [MatrixModes -> Seq(Seq(Transforms))]]
  /\ \A m \in MatrixModes : Len(matrices.stack[m]) <= MATRIX_STACK_DEPTH

ListType ==
  /\ recording \in Ids \cup {None}
  /\ lists \in [Ids -> [commands : Seq(Commands), compiled : BOOLEAN,
                        figure : Figures \cup {Nothing}]]
  /\ \A l \in Ids : /\ Len(Commanded(l)) <= MAX_LIST_COMMANDS
                    /\ lists[l].compiled => /\ lists[l].figure # Nothing
                                            /\ lists[l].figure.verts # << >>

TypeOK == PipeType /\ MatrixType /\ ListType

(* Outside Begin and End the pipeline holds no vertices, whatever lists    *)
(* were recorded, compiled and called in between: EndList has to put count *)
(* back, since it never executes the Ends of the list.                     *)
InactiveIsEmpty == busy = Idle /\ ~pipe.active => pipe.count = 0

(* A list recorded and compiled in the middle of a primitive leaves the    *)
(* vertices collected so far as they were, although EndList appends the    *)
(* list's vertices behind them, so long as count does not wrap.            *)
OpenPrimitiveKept ==
  [][(/\ busy.op = "compile" /\ busy' = Idle
      /\ Len(busy.held) + Len(Listed) < CountModulus)
     => pipe'.active = busy.active /\ Live' = busy.held]_vars

(* A list recorded outside Begin and End is compiled to the vertices that  *)
(* its commands would have collected if they had been executed, each with  *)
(* the colour it would have had, although EndList skips every End of the   *)
(* list and thereby every Begin but the first.  It holds for the lists the *)
(* debugger's cube test records: blocks of one mode, each setting its      *)
(* colour before its first vertex.                                         *)
VertexPlaces(s, k) == {i \in 1 .. k : s[i].op = "Vertex"}
Before(s, k, ops) == {i \in 1 .. k - 1 : s[i].op \in ops}
IsLast(i, S) == i \in S /\ \A j \in S : j <= i

\* The vertex at k lies in a block of mode m, and its colour is q.
InBlock(s, k, m) == \E b \in Before(s, k, {"Begin", "End"}) :
                      IsLast(b, Before(s, k, {"Begin", "End"})) /\ s[b].op = "Begin"
Coloured(s, k, q) == \E i \in Before(s, k, {"Begin", "Color"}) :
                       /\ IsLast(i, Before(s, k, {"Begin", "Color"}))
                       /\ IF s[i].op = "Begin" THEN q = White ELSE q = s[i].arg

Regular(s, m) ==
  /\ s # << >> /\ s[1].op = "Begin" /\ m \in Modes
  /\ \A i \in DOMAIN s : s[i].op = "Begin" => s[i].arg = m
  /\ \A k \in VertexPlaces(s, Len(s)) :
       /\ InBlock(s, k, m)
       /\ \E i \in Before(s, k, {"Begin", "Color"}) :
            /\ IsLast(i, Before(s, k, {"Begin", "Color"}))
            /\ s[i].op = "Begin" => i = 1
  /\ Cardinality(VertexPlaces(s, Len(s))) < CountModulus

Pictures(f, s, m) ==
  /\ f.mode = m
  /\ Len(f.verts) = Cardinality(VertexPlaces(s, Len(s)))
  /\ \A k \in VertexPlaces(s, Len(s)) :
       LET v == f.verts[Cardinality(VertexPlaces(s, k))]
       IN  v.at = s[k].arg /\ Coloured(s, k, v.color)

ListsReplay ==
  [][\A m \in Modes :
       (/\ busy.op = "compile" /\ busy' = Idle /\ ~busy.active
        /\ Regular(Listed, m) /\ lists'[busy.list].compiled)
       => Pictures(lists'[busy.list].figure, Listed, m)]_vars
=============================================================================
