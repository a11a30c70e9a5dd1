----------------------------- MODULE Gpu3dProofs ------------------------------
(***************************************************************************)
(* Theorems of the 3D pipeline, for every size of its tables, any width of *)
(* the vertex count and any program.                                       *)
(***************************************************************************)
EXTENDS Gpu3d, TLAPS, FiniteSetTheorems

Pipes == [active : BOOLEAN, mode : Modes, count : 0 .. CountModulus - 1,
          color : Colors, verts : Seq(Vertices)]
ListRecords == [commands : Seq(Commands), compiled : BOOLEAN,
                figure : Figures \cup {Nothing}]

(* The locals of the loop that is running. *)
BusyType ==
  /\ busy \in [op : {"idle", "compile", "call"}, list : Ids \cup {None},
               next : Nat \ {0}, active : BOOLEAN, held : Seq(Vertices)]
  /\ busy.op = "idle" => busy = Idle
  /\ busy.op # "idle" => busy.list \in Ids /\ busy.next <= Len(Listed) + 1

(* What EndList will restore is still there, and nothing else is open.     *)
Restorable ==
  /\ busy.op = "compile" =>
       /\ Len(busy.held) < CountModulus /\ Len(busy.held) <= Len(pipe.verts)
       /\ busy.active => pipe.active
       /\ ~busy.active => busy.held = << >>
  /\ busy.op # "compile" /\ ~pipe.active => pipe.count = 0

(* The vertices of the open primitive are the first ones of the buffer, as *)
(* long as the list is too short to make count wrap.                       *)
Undisturbed ==
  busy.op = "compile" /\ busy.active /\ Len(busy.held) + busy.next - 1 < CountModulus =>
    /\ Len(busy.held) <= pipe.count
    /\ pipe.count <= Len(busy.held) + busy.next - 1
    /\ \A i \in 1 .. Len(busy.held) : pipe.verts[i] = busy.held[i]

IInv == TypeOK /\ BusyType /\ Restorable /\ Undisturbed

-----------------------------------------------------------------------------
LEMMA Sizes == CountModulus \in Nat \ {0} /\ White \in Colors /\ Black \in Colors
               /\ MAX_LIST_COMMANDS \in Nat /\ MATRIX_STACK_DEPTH \in Nat
BY SizeAssumption

(* The pipeline with some of its fields changed.                           *)
Fill(q, s, n) == [q EXCEPT !.verts = s, !.count = n]
Reset(q, a, n, s) == [q EXCEPT !.active = a, !.count = n, !.verts = s]

LEMMA Changing ==
  ASSUME NEW q \in Pipes, NEW a \in BOOLEAN, NEW n \in 0 .. CountModulus - 1,
         NEW s \in Seq(Vertices)
  PROVE  /\ Fill(q, s, n) \in Pipes /\ Fill(q, s, n).active = q.active
         /\ Fill(q, s, n).mode = q.mode /\ Fill(q, s, n).color = q.color
         /\ Fill(q, s, n).count = n /\ Fill(q, s, n).verts = s
         /\ Reset(q, a, n, s) \in Pipes /\ Reset(q, a, n, s).active = a
         /\ Reset(q, a, n, s).mode = q.mode /\ Reset(q, a, n, s).color = q.color
         /\ Reset(q, a, n, s).count = n /\ Reset(q, a, n, s).verts = s
<1> DEFINE C == 0 .. CountModulus - 1  S == Seq(Vertices)
<1>1. q \in [active : BOOLEAN, mode : Modes, count : C, color : Colors, verts : S]
      /\ n \in C /\ s \in S
  BY DEF Pipes
<1> HIDE DEF C, S
<1>2. /\ Fill(q, s, n) \in [active : BOOLEAN, mode : Modes, count : C,
                             color : Colors, verts : S]
      /\ Fill(q, s, n).active = q.active
      /\ Fill(q, s, n).mode = q.mode /\ Fill(q, s, n).color = q.color
      /\ Fill(q, s, n).count = n /\ Fill(q, s, n).verts = s
  BY <1>1 DEF Fill
<1>3. /\ Reset(q, a, n, s) \in [active : BOOLEAN, mode : Modes, count : C,
                                 color : Colors, verts : S]
      /\ Reset(q, a, n, s).active = a
      /\ Reset(q, a, n, s).mode = q.mode /\ Reset(q, a, n, s).color = q.color
      /\ Reset(q, a, n, s).count = n /\ Reset(q, a, n, s).verts = s
  BY <1>1 DEF Reset
<1> QED
  BY <1>2, <1>3 DEF Pipes, C, S

(* A vertex is stored over an old entry or behind the last one.            *)
LEMMA Storing ==
  ASSUME PipeType, NEW v \in Vertices
  PROVE  /\ Stored(v) \in Seq(Vertices)
         /\ Len(Stored(v)) >= Len(pipe.verts) /\ Len(Stored(v)) >= pipe.count + 1
         /\ Stored(v)[pipe.count + 1] = v
         /\ \A i \in 1 .. pipe.count : Stored(v)[i] = pipe.verts[i]
<1> DEFINE s == pipe.verts  n == pipe.count
<1>1. /\ s \in Seq(Vertices) /\ n \in Nat /\ n <= Len(s)
  BY Sizes DEF PipeType
<1> HIDE DEF s, n
<1>2. CASE n < Len(s)
  <2>1. Stored(v) = [s EXCEPT ![n + 1] = v]
    BY <1>2 DEF Stored, s, n
  <2> QED
    BY <1>1, <1>2, <2>1 DEF s, n
<1>3. CASE ~(n < Len(s))
  <2>1. Stored(v) = Append(s, v) /\ n = Len(s)
    BY <1>1, <1>3 DEF Stored, s, n
  <2> QED
    BY <1>1, <2>1 DEF s, n
<1> QED
  BY <1>2, <1>3

(* The five things a command of a primitive can do to the pipeline.        *)
Opened(m) == [active |-> TRUE, mode |-> m, count |-> 0, color |-> White, verts |-> << >>]
Grown(p) == [pipe EXCEPT !.verts = Stored([at |-> p, color |-> pipe.color]),
                         !.count = (pipe.count + 1) % CountModulus]
Closed == [pipe EXCEPT !.active = FALSE, !.count = 0, !.verts = << >>]

Effect(c) ==
  \/ pipe' = pipe
  \/ c.op = "Begin" /\ c.arg \in Modes /\ ~pipe.active /\ pipe' = Opened(c.arg)
  \/ c.op = "Color" /\ pipe' = [pipe EXCEPT !.color = c.arg]
  \/ c.op = "Vertex" /\ pipe.active /\ pipe' = Grown(c.arg)
  \/ c.op = "End" /\ pipe.active /\ pipe' = Closed

LEMMA Effects == \A c : Primitive(c) => Effect(c)
BY DEF Primitive, Effect, Begin, BeginError, Color, Vertex, VertexError, End, Refuse,
       Opened, Grown, Closed

LEMMA CommandTypes ==
  \A c \in Commands : /\ c.op = "Vertex" => c.arg \in Points
                      /\ c.op = "Color" => c.arg \in Colors
BY CommandAssumption

LEMMA GrownTypes ==
  ASSUME PipeType, NEW p \in Points
  PROVE  /\ Grown(p) \in Pipes /\ Grown(p).count <= Len(Grown(p).verts)
         /\ Grown(p).active = pipe.active /\ Grown(p).mode = pipe.mode
         /\ Grown(p).color = pipe.color
         /\ Grown(p).count = (pipe.count + 1) % CountModulus
         /\ Grown(p).verts = Stored([at |-> p, color |-> pipe.color])
<1> DEFINE v == [at |-> p, color |-> pipe.color]  n == (pipe.count + 1) % CountModulus
<1>1. v \in Vertices
  BY DEF PipeType, Vertices
<1>2. Stored(v) \in Seq(Vertices) /\ Len(Stored(v)) >= pipe.count + 1
  BY <1>1, Storing
<1>3. n \in 0 .. CountModulus - 1 /\ n <= pipe.count + 1
  BY Sizes DEF PipeType
<1>4. pipe \in Pipes /\ pipe.count \in Nat /\ Len(Stored(v)) \in Nat
  BY Sizes, <1>2 DEF PipeType, Pipes
<1>5. Grown(p) = Fill(pipe, Stored(v), n)
  BY DEF Grown, Fill
<1> HIDE DEF v, n
<1>6. Grown(p) \in Pipes /\ Grown(p).count = n /\ Grown(p).verts = Stored(v)
      /\ Grown(p).active = pipe.active /\ Grown(p).mode = pipe.mode
      /\ Grown(p).color = pipe.color
  <2>1. pipe.active \in BOOLEAN
    BY <1>4 DEF Pipes
  <2> QED
    BY <1>2, <1>3, <1>4, <1>5, <2>1, Changing
<1>7. Grown(p).count <= Len(Grown(p).verts)
  BY <1>2, <1>3, <1>4, <1>6
<1> QED
  BY <1>6, <1>7 DEF v, n

LEMMA PrimitiveTypes ==
  ASSUME PipeType, NEW c \in Commands, Primitive(c)
  PROVE  PipeType'
<1>1. pipe \in Pipes /\ pipe.count <= Len(pipe.verts)
  BY DEF PipeType, Pipes
<1>2. CASE pipe' = pipe
  BY <1>2 DEF PipeType
<1>3. CASE c.op = "Begin" /\ c.arg \in Modes /\ ~pipe.active /\ pipe' = Opened(c.arg)
  <2>1. Opened(c.arg) \in Pipes /\ Opened(c.arg).count <= Len(Opened(c.arg).verts)
    BY <1>3, Sizes DEF Opened, Pipes
  <2> QED
    BY <1>3, <2>1 DEF PipeType, Pipes
<1>4. CASE c.op = "Color" /\ pipe' = [pipe EXCEPT !.color = c.arg]
  <2>1. c.arg \in Colors
    BY <1>4, CommandTypes
  <2> QED
    BY <1>1, <1>4, <2>1 DEF PipeType, Pipes
<1>5. CASE c.op = "Vertex" /\ pipe.active /\ pipe' = Grown(c.arg)
  BY <1>5, GrownTypes, CommandTypes DEF PipeType, Pipes
<1>6. CASE c.op = "End" /\ pipe.active /\ pipe' = Closed
  <2> DEFINE s == << >>  a == FALSE  n == 0
  <2>1. n \in 0 .. CountModulus - 1 /\ s \in Seq(Vertices) /\ a \in BOOLEAN
    BY Sizes
  <2>2. Closed = Reset(pipe, a, n, s)
    BY DEF Closed, Reset
  <2>3. n = 0 /\ n <= Len(s)
    OBVIOUS
  <2> HIDE DEF s, a, n
  <2>4. Closed \in Pipes /\ Closed.count = n /\ Closed.verts = s
    BY <1>1, <2>1, <2>2, Changing
  <2> QED
    BY <1>6, <2>3, <2>4 DEF PipeType, Pipes
<1> QED
  BY <1>2, <1>3, <1>4, <1>5, <1>6, Effects DEF Effect

-----------------------------------------------------------------------------
(* The matrices keep their types and the stacks their depth.               *)
StackSet == [MatrixModes -> Seq(Seq(Transforms))]
CurrentSet == [MatrixModes -> Seq(Transforms)]
MatrixRecords == [mode : MatrixModes, current : CurrentSet, stack : StackSet]
Put(x, c, s) == [x EXCEPT !.current = c, !.stack = s]

LEMMA Putting ==
  ASSUME NEW x \in MatrixRecords, NEW c \in CurrentSet, NEW s \in StackSet
  PROVE  Put(x, c, s) \in MatrixRecords /\ Put(x, c, s).stack = s
BY DEF MatrixRecords, Put

LEMMA MatrixDoneTypes ==
  ASSUME MatrixType, NEW c \in Commands, MatrixError(c) = "none", MatrixDone(c)
  PROVE  MatrixType'
<1> DEFINE cur == matrices.current  st == matrices.stack  d == matrices.mode
<1>1. /\ matrices \in MatrixRecords /\ cur \in CurrentSet /\ st \in StackSet
      /\ d \in MatrixModes /\ Len(st[d]) <= MATRIX_STACK_DEPTH
      /\ \A m \in MatrixModes : Len(st[m]) <= MATRIX_STACK_DEPTH
  BY DEF MatrixType, MatrixRecords, CurrentSet, StackSet
<1>2. \A m \in MatrixModes : cur[m] \in Seq(Transforms) /\ st[m] \in Seq(Seq(Transforms))
  BY <1>1 DEF CurrentSet, StackSet
<1>3. Mode = d /\ Current = cur[d] /\ Saved = st[d]
  BY DEF Mode, Current, Saved
<1>4. CASE c.op = "MatrixMode" /\ matrices' = [matrices EXCEPT !.mode = c.arg]
  <2>1. c.arg \in MatrixModes
    BY <1>4 DEF MatrixError
  <2> QED
    BY <1>1, <1>4, <2>1 DEF MatrixType, MatrixRecords, CurrentSet, StackSet
<1>5. CASE c.op = "LoadIdentity" /\ matrices' = [matrices EXCEPT !.current[Mode] = << >>]
  <2> DEFINE e == << >>
  <2>1. e \in Seq(Transforms) /\ matrices' = [matrices EXCEPT !.current[d] = e]
    BY <1>3, <1>5
  <2> HIDE DEF e
  <2> QED
    BY <1>1, <2>1 DEF MatrixType, MatrixRecords, CurrentSet, StackSet
<1>6. CASE /\ c.op \in {"Transform", "Ortho"}
           /\ matrices' = [matrices EXCEPT !.current[Mode] =
                              IF c.arg = "empty" THEN @ ELSE Append(@, c.arg)]
  <2>1. c.arg = "empty" \/ c.arg \in Transforms
    BY <1>6, CommandAssumption
  <2> DEFINE e == IF c.arg = "empty" THEN cur[d] ELSE Append(cur[d], c.arg)
  <2>2. e \in Seq(Transforms)
    BY <1>1, <1>2, <2>1
  <2>3. matrices' = [matrices EXCEPT !.current[d] = e]
    BY <1>3, <1>6
  <2> HIDE DEF e
  <2> QED
    BY <1>1, <2>2, <2>3 DEF MatrixType, MatrixRecords, CurrentSet, StackSet
<1>7. CASE /\ c.op = "PushMatrix"
           /\ matrices' = [matrices EXCEPT !.stack[Mode] = Append(@, Current)]
  <2> DEFINE e == Append(st[d], cur[d])
  <2>1. Len(st[d]) < MATRIX_STACK_DEPTH
    BY <1>1, <1>2, <1>3, <1>7, Sizes DEF MatrixError
  <2>2. e \in Seq(Seq(Transforms)) /\ Len(e) <= MATRIX_STACK_DEPTH
    BY <1>1, <1>2, <2>1, Sizes
  <2>3. matrices' = [matrices EXCEPT !.stack[d] = e]
    BY <1>3, <1>7
  <2> HIDE DEF e
  <2> QED
    BY <1>1, <2>2, <2>3 DEF MatrixType, MatrixRecords, CurrentSet, StackSet
<1>8. CASE /\ c.op = "PopMatrix"
           /\ matrices' = [matrices EXCEPT
                              !.current[Mode] = Saved[Len(Saved)],
                              !.stack[Mode] = SubSeq(@, 1, Len(@) - 1)]
  <2> DEFINE e == SubSeq(st[d], 1, Len(st[d]) - 1)  f == st[d][Len(st[d])]
  <2>1. st[d] # << >>
    BY <1>3, <1>8 DEF MatrixError
  <2>2. e \in Seq(Seq(Transforms)) /\ Len(e) <= MATRIX_STACK_DEPTH /\ f \in Seq(Transforms)
    BY <1>1, <1>2, <2>1, Sizes
  <2>3. matrices' = Put(matrices, [cur EXCEPT ![d] = f], [st EXCEPT ![d] = e])
    BY <1>3, <1>8 DEF Put
  <2>4. [cur EXCEPT ![d] = f] \in CurrentSet /\ [st EXCEPT ![d] = e] \in StackSet
    BY <1>1, <2>2 DEF CurrentSet, StackSet
  <2>5. \A m \in MatrixModes : Len([st EXCEPT ![d] = e][m]) <= MATRIX_STACK_DEPTH
    BY <1>1, <2>2 DEF StackSet
  <2>6. matrices' \in MatrixRecords /\ matrices'.stack = [st EXCEPT ![d] = e]
    BY <1>1, <2>3, <2>4, Putting
  <2> QED
    BY <2>5, <2>6 DEF MatrixType, MatrixRecords, CurrentSet, StackSet
<1> QED
  BY <1>4, <1>5, <1>6, <1>7, <1>8 DEF MatrixDone

LEMMA MatricesTypes ==
  ASSUME MatrixType, NEW c \in Commands, Matrices(c)
  PROVE  MatrixType'
<1>1. CASE matrices' = matrices
  BY <1>1 DEF MatrixType
<1>2. CASE MatrixError(c) = "none" /\ MatrixDone(c)
  BY <1>2, MatrixDoneTypes
<1> QED
  BY <1>1, <1>2 DEF Matrices

-----------------------------------------------------------------------------
(* The lists keep their limits.                                            *)
LEMMA ListFacts ==
  ASSUME ListType, NEW l \in Ids
  PROVE  /\ lists[l] \in ListRecords /\ Commanded(l) \in Seq(Commands)
         /\ Len(Commanded(l)) \in Nat /\ Len(Commanded(l)) <= MAX_LIST_COMMANDS
<1>1. lists[l] \in ListRecords
  BY DEF ListType, ListRecords
<1> QED
  BY <1>1 DEF ListType, ListRecords, Commanded

\* One list replaced by another that keeps the limits.
LEMMA ListChanged ==
  ASSUME ListType, NEW l \in Ids, NEW r \in ListRecords,
         Len(r.commands) <= MAX_LIST_COMMANDS,
         r.compiled => r.figure # Nothing /\ r.figure.verts # << >>,
         lists' = [lists EXCEPT ![l] = r],
         recording' \in Ids \cup {None}
  PROVE  ListType'
<1>1. lists \in [Ids -> ListRecords]
  BY DEF ListType, ListRecords
<1>2. lists' \in [Ids -> ListRecords]
  BY <1>1
<1>3. \A k \in Ids : lists'[k] = IF k = l THEN r ELSE lists[k]
  BY <1>1
<1>4. \A k \in Ids : Len(lists'[k].commands) <= MAX_LIST_COMMANDS
  BY <1>3 DEF ListType, Commanded
<1>5. \A k \in Ids : lists'[k].compiled => /\ lists'[k].figure # Nothing
                                          /\ lists'[k].figure.verts # << >>
  BY <1>3 DEF ListType
<1> QED
  BY <1>2, <1>4, <1>5 DEF ListType, ListRecords, Commanded

LEMMA RecordTypes ==
  ASSUME ListType, NEW c \in Commands, Record(c)
  PROVE  ListType'
<1>1. recording \in Ids /\ recording' = recording
  BY DEF Record, ListType
<1>2. CASE lists' = lists
  BY <1>1, <1>2 DEF ListType, Commanded
<1>3. CASE HasRoom /\ lists' = [lists EXCEPT ![recording].commands = Append(@, c)]
  <2> DEFINE x == lists[recording]  s == Append(x.commands, c)
             r == [x EXCEPT !.commands = s]
  <2>1. /\ x \in ListRecords /\ x.commands \in Seq(Commands)
        /\ Len(x.commands) < MAX_LIST_COMMANDS /\ Len(x.commands) \in Nat
    BY <1>1, <1>3, ListFacts DEF HasRoom, Commanded
  <2>2. s \in Seq(Commands) /\ Len(s) <= MAX_LIST_COMMANDS
    BY <2>1, Sizes
  <2>3. x.compiled => x.figure # Nothing /\ x.figure.verts # << >>
    BY <1>1 DEF ListType
  <2>4. lists' = [lists EXCEPT ![recording] = r]
    BY <1>3
  <2> HIDE DEF x, s
  <2>5. /\ r \in ListRecords /\ r.commands = s
        /\ r.compiled = x.compiled /\ r.figure = x.figure
    BY <2>1, <2>2 DEF ListRecords
  <2>6. recording' \in Ids \cup {None}
    BY <1>1
  <2> HIDE DEF r
  <2> QED
    BY <1>1, <2>2, <2>3, <2>4, <2>5, <2>6, ListChanged
<1> QED
  BY <1>2, <1>3 DEF Record

LEMMA EmptyTypes ==
  /\ Empty \in ListRecords /\ ~Empty.compiled /\ Len(Empty.commands) <= MAX_LIST_COMMANDS
BY Sizes DEF Empty, ListRecords

LEMMA NewListTypes ==
  ASSUME ListType, NEW c \in Commands, NewList(c)
  PROVE  ListType'
<1>1. CASE UNCHANGED <<lists, recording>>
  BY <1>1 DEF ListType, Commanded
<1>2. CASE /\ NewListError(c) = "none"
           /\ recording' = c.n
           /\ lists' = [lists EXCEPT ![c.n] = Empty]
  <2>1. c.n \in Ids
    BY <1>2 DEF NewListError
  <2> QED
    BY <1>2, <2>1, EmptyTypes, ListChanged
<1> QED
  BY <1>1, <1>2 DEF NewList

(* The vertices that are live make a figure.                               *)
LEMMA LiveTypes ==
  ASSUME PipeType
  PROVE  Live \in Seq(Vertices) /\ Len(Live) = pipe.count
         /\ \A i \in 1 .. pipe.count : Live[i] = pipe.verts[i]
<1>1. pipe.verts \in Seq(Vertices) /\ pipe.count \in Nat /\ pipe.count <= Len(pipe.verts)
  BY Sizes DEF PipeType
<1> QED
  BY <1>1 DEF Live

LEMMA CompileTypes ==
  ASSUME PipeType, ListType, BusyType, NEW fits, Compile(fits)
  PROVE  ListType'
<1>1. recording' = recording /\ busy.list \in Ids
  BY DEF Compile, BusyType
<1>2. CASE lists' = lists
  BY <1>1, <1>2 DEF ListType, Commanded
<1>3. CASE /\ pipe.count > 0
           /\ lists' = [lists EXCEPT
                          ![busy.list].compiled = TRUE,
                          ![busy.list].figure = [mode |-> pipe.mode, verts |-> Live]]
  <2> DEFINE l == busy.list  f == [mode |-> pipe.mode, verts |-> Live]
             x == lists[l]  t == TRUE
             r == [x EXCEPT !.compiled = t, !.figure = f]
  <2>1. lists' = [lists EXCEPT ![l] = r]
    <3>1. lists \in [Ids -> ListRecords]
      BY DEF ListType, ListRecords
    <3> QED
      BY <1>1, <1>3, <3>1 DEF ListRecords
  <2>2. f \in Figures /\ f.verts # << >> /\ f # Nothing
    <3>1. Live \in Seq(Vertices) /\ Len(Live) > 0 /\ pipe.mode \in Modes
      BY <1>3, LiveTypes DEF PipeType
    <3>2. f.mode # "none"
      BY <3>1 DEF Modes
    <3> QED
      BY <3>1, <3>2 DEF Figures, Nothing
  <2>3. x \in ListRecords /\ x.commands \in Seq(Commands) /\ t \in BOOLEAN
        /\ Len(x.commands) <= MAX_LIST_COMMANDS
    BY <1>1, ListFacts DEF Commanded
  <2> HIDE DEF l, f, x, t
  <2>4. r \in ListRecords /\ r.commands = x.commands /\ r.figure = f
    BY <2>2, <2>3 DEF ListRecords
  <2> HIDE DEF r
  <2>5. l \in Ids /\ recording' \in Ids \cup {None}
    BY <1>1 DEF l, ListType
  <2> QED
    BY <2>1, <2>2, <2>3, <2>4, <2>5, ListChanged
<1> QED
  BY <1>2, <1>3 DEF Compile

-----------------------------------------------------------------------------
(* The commands of a program, which run while no loop does.                *)
LEMMA IdleTypes ==
  ASSUME busy' = Idle PROVE BusyType' /\ Undisturbed'
<1>1. /\ busy'.op = "idle" /\ busy'.list = None /\ busy'.next = 1
      /\ busy'.active = FALSE /\ busy'.held = << >>
  BY DEF Idle
<1>2. busy' \in [op : {"idle", "compile", "call"}, list : Ids \cup {None},
                 next : Nat \ {0}, active : BOOLEAN, held : Seq(Vertices)]
  BY DEF Idle
<1> QED
  BY <1>1, <1>2 DEF BusyType, Undisturbed

LEMMA IdleOp == busy = Idle => busy.op = "idle"
BY DEF Idle

LEMMA IdleOpNext == busy' = Idle => busy'.op = "idle"
BY DEF Idle

LEMMA QuietStep ==
  ASSUME IInv, busy = Idle, UNCHANGED <<pipe, lists, recording, busy>>, MatrixType'
  PROVE  IInv'
<1>1. PipeType' /\ ListType'
  BY DEF IInv, TypeOK, PipeType, ListType, Commanded
<1>2. BusyType' /\ Undisturbed'
  BY IdleTypes
<1>3. Restorable'
  BY IdleOp DEF IInv, Restorable
<1> QED
  BY <1>1, <1>2, <1>3 DEF IInv, TypeOK

LEMMA ListStep ==
  ASSUME IInv, busy = Idle, UNCHANGED <<pipe, matrices, busy>>, ListType'
  PROVE  IInv'
<1>1. PipeType' /\ MatrixType'
  BY DEF IInv, TypeOK, PipeType, MatrixType
<1>2. BusyType' /\ Undisturbed'
  BY IdleTypes
<1>3. Restorable'
  BY IdleOp DEF IInv, Restorable
<1> QED
  BY <1>1, <1>2, <1>3 DEF IInv, TypeOK

(* A command leaves no vertices behind a primitive that it ends.           *)
LEMMA Closing ==
  ASSUME PipeType, NEW c \in Commands, Primitive(c), ~pipe.active => pipe.count = 0
  PROVE  ~pipe'.active => pipe'.count = 0
<1>1. CASE pipe' = pipe
  BY <1>1
<1>2. CASE c.op = "Begin" /\ c.arg \in Modes /\ ~pipe.active /\ pipe' = Opened(c.arg)
  BY <1>2 DEF Opened
<1>3. CASE c.op = "Color" /\ pipe' = [pipe EXCEPT !.color = c.arg]
  BY <1>3 DEF PipeType
<1>4. CASE c.op = "Vertex" /\ pipe.active /\ pipe' = Grown(c.arg)
  BY <1>4, GrownTypes, CommandTypes
<1>5. CASE c.op = "End" /\ pipe.active /\ pipe' = Closed
  <2> DEFINE s == << >>  a == FALSE  n == 0
  <2>1. n \in 0 .. CountModulus - 1 /\ s \in Seq(Vertices) /\ a \in BOOLEAN
    BY Sizes
  <2>2. Closed = Reset(pipe, a, n, s) /\ pipe \in Pipes
    BY DEF Closed, Reset, PipeType, Pipes
  <2>3. n = 0
    OBVIOUS
  <2> HIDE DEF s, a, n
  <2>4. Closed.count = n
    BY <2>1, <2>2, Changing
  <2> QED
    BY <1>5, <2>3, <2>4
<1> QED
  BY <1>1, <1>2, <1>3, <1>4, <1>5, Effects DEF Effect

LEMMA DrawStep ==
  ASSUME IInv, busy = Idle, NEW c \in Commands, Draw(c)
  PROVE  IInv'
<1>1. PipeType' /\ MatrixType' /\ ListType'
  BY PrimitiveTypes DEF IInv, TypeOK, Draw, Primitive, MatrixType, ListType, Commanded
<1>2. BusyType' /\ Undisturbed'
  BY IdleTypes DEF Draw
<1>3. ~pipe'.active => pipe'.count = 0
  BY IdleOp, Closing DEF IInv, TypeOK, Draw, Restorable
<1>4. Restorable'
  BY <1>3, IdleOp DEF Draw, Restorable
<1> QED
  BY <1>1, <1>2, <1>4 DEF IInv, TypeOK

LEMMA EndListStep ==
  ASSUME IInv, busy = Idle, NEW c \in Commands, EndList(c)
  PROVE  IInv'
<1>1. PipeType' /\ MatrixType'
  BY DEF IInv, TypeOK, EndList, PipeType, MatrixType
<1>2. ListType'
  BY DEF IInv, TypeOK, EndList, ListType, Commanded
<1>3. CASE UNCHANGED busy
  BY <1>1, <1>2, <1>3, QuietStep, ListStep DEF EndList, IInv, TypeOK
<1>4. CASE /\ recording # None
           /\ busy' = [op |-> "compile", list |-> recording, next |-> 1,
                       active |-> pipe.active, held |-> Live]
  <2>1. /\ Live \in Seq(Vertices) /\ Len(Live) = pipe.count
        /\ \A i \in 1 .. pipe.count : Live[i] = pipe.verts[i]
    BY LiveTypes DEF IInv, TypeOK
  <2>2. recording \in Ids /\ pipe.active \in BOOLEAN /\ pipe.count \in Nat
        /\ pipe.count < CountModulus /\ pipe.count <= Len(pipe.verts)
    BY <1>4, Sizes DEF IInv, TypeOK, ListType, PipeType
  <2>3. /\ busy'.op = "compile" /\ busy'.list = recording /\ busy'.next = 1
        /\ busy'.active = pipe.active /\ busy'.held = Live
    BY <1>4
  <2>4. busy' \in [op : {"idle", "compile", "call"}, list : Ids \cup {None},
                   next : Nat \ {0}, active : BOOLEAN, held : Seq(Vertices)]
    BY <1>4, <2>1, <2>2
  <2>5. UNCHANGED <<pipe, lists>>
    BY DEF EndList
  <2>6. Len(Commanded(recording)) \in Nat
    BY <2>2, ListFacts DEF IInv, TypeOK
  <2>7. BusyType'
    BY <2>2, <2>3, <2>4, <2>5, <2>6 DEF BusyType, Listed, Commanded
  <2>8. ~pipe.active => Live = << >>
    BY <2>1, IdleOp DEF IInv, Restorable
  <2>9. Restorable'
    BY <2>1, <2>2, <2>3, <2>5, <2>8 DEF Restorable
  <2>10. Undisturbed'
    BY <2>1, <2>2, <2>3, <2>5 DEF Undisturbed
  <2> QED
    BY <1>1, <1>2, <2>7, <2>9, <2>10 DEF IInv, TypeOK
<1> QED
  BY <1>3, <1>4 DEF EndList

LEMMA CallListStep ==
  ASSUME IInv, busy = Idle, NEW c \in Commands, NEW fits, CallList(c, fits)
  PROVE  IInv'
<1>0. UNCHANGED <<pipe, matrices, lists, recording>>
  BY DEF CallList, Refuse
<1>1. PipeType' /\ MatrixType' /\ ListType'
  BY <1>0 DEF IInv, TypeOK, PipeType, MatrixType, ListType, Commanded
<1>2. CASE UNCHANGED busy
  BY <1>0, <1>1, <1>2, QuietStep DEF IInv, TypeOK
<1>3. CASE /\ CallListError(c) = "none"
           /\ busy' = [Idle EXCEPT !.op = "call", !.list = c.n]
  <2>1. c.n \in Ids
    BY <1>3 DEF CallListError
  <2>2. busy' = [op |-> "call", list |-> c.n, next |-> 1, active |-> FALSE, held |-> << >>]
    BY <1>3 DEF Idle
  <2>3. Len(Commanded(c.n)) \in Nat
    BY <2>1, ListFacts DEF IInv, TypeOK
  <2>4. busy' \in [op : {"idle", "compile", "call"}, list : Ids \cup {None},
                   next : Nat \ {0}, active : BOOLEAN, held : Seq(Vertices)]
    BY <2>1, <2>2
  <2>5. busy'.op = "call" /\ busy'.list = c.n /\ busy'.next = 1
    BY <2>2
  <2>6. BusyType' /\ Undisturbed'
    BY <1>0, <2>1, <2>3, <2>4, <2>5 DEF BusyType, Undisturbed, Listed, Commanded
  <2>7. Restorable'
    BY <1>0, <2>5, IdleOp DEF IInv, Restorable
  <2> QED
    BY <1>1, <2>6, <2>7 DEF IInv, TypeOK
<1> QED
  BY <1>2, <1>3 DEF CallList

LEMMA CommandStep ==
  ASSUME IInv, NEW c \in Commands, HandleInterrupt(c)
  PROVE  IInv'
<1>0. busy = Idle /\ TypeOK
  BY DEF HandleInterrupt, IInv
<1>1. CASE Record(c)
  BY <1>0, <1>1, RecordTypes, ListStep DEF Record, TypeOK
<1>2. CASE Draw(c)
  BY <1>0, <1>2, DrawStep
<1>3. CASE Enabling(c) \/ Settings(c) \/ Surface(c) \/ GenLists(c)
  <2>1. UNCHANGED <<pipe, matrices, lists, recording, busy>>
    BY <1>3 DEF Enabling, Settings, Surface, GenLists, Refuse
  <2> QED
    BY <1>0, <2>1, QuietStep DEF TypeOK, MatrixType
<1>4. CASE Matrices(c)
  BY <1>0, <1>4, MatricesTypes, QuietStep DEF TypeOK, Matrices
<1>5. CASE NewList(c)
  BY <1>0, <1>5, NewListTypes, ListStep DEF TypeOK, NewList
<1>6. CASE EndList(c)
  BY <1>0, <1>6, EndListStep
<1>7. CASE \E fits \in BOOLEAN : CallList(c, fits)
  BY <1>0, <1>7, CallListStep
<1> QED
  BY <1>1, <1>2, <1>3, <1>4, <1>5, <1>6, <1>7 DEF HandleInterrupt

-----------------------------------------------------------------------------
(* One command of a list.                                                  *)
LEMMA NoWrap == \A n \in Nat : n + 1 < CountModulus => (n + 1) % CountModulus = n + 1
BY Sizes

\* While EndList replays a list nothing ends the open primitive.
LEMMA ReplayEffect ==
  ASSUME ListType, BusyType, Replay
  PROVE  /\ busy.list \in Ids /\ busy.next \in 1 .. Len(Listed)
         /\ Listed[busy.next] \in Commands
         /\ busy' = [busy EXCEPT !.next = busy.next + 1]
         /\ \/ UNCHANGED pipe
            \/ /\ Primitive(Listed[busy.next])
               /\ busy.op = "compile" => Listed[busy.next].op # "End"
<1>1. busy.list \in Ids /\ busy.next \in Nat \ {0} /\ busy.next <= Len(Listed)
  BY DEF Replay, BusyType
<1>2. Listed \in Seq(Commands) /\ Len(Listed) \in Nat
  BY <1>1, ListFacts DEF Listed
<1>3. busy.next \in 1 .. Len(Listed) /\ Listed[busy.next] \in Commands
  BY <1>1, <1>2
<1> QED
  BY <1>1, <1>3 DEF Replay, Replayed

LEMMA ReplayBusy ==
  ASSUME ListType, BusyType, Replay
  PROVE  /\ BusyType' /\ busy'.op = busy.op /\ busy'.next = busy.next + 1
         /\ busy'.active = busy.active /\ busy'.held = busy.held
         /\ busy.next \in Nat \ {0} /\ busy.op # "idle"
<1>1. /\ busy.list \in Ids /\ busy.next \in 1 .. Len(Listed)
      /\ busy' = [busy EXCEPT !.next = busy.next + 1]
  BY ReplayEffect
<1>2. lists' = lists /\ busy.op # "idle" /\ Len(Listed) \in Nat
  BY <1>1, ListFacts DEF Replay, Listed
<1>3. /\ busy'.op = busy.op /\ busy'.next = busy.next + 1 /\ busy'.list = busy.list
      /\ busy'.active = busy.active /\ busy'.held = busy.held
  BY <1>1 DEF BusyType
<1>4. busy' \in [op : {"idle", "compile", "call"}, list : Ids \cup {None},
                 next : Nat \ {0}, active : BOOLEAN, held : Seq(Vertices)]
  BY <1>1 DEF BusyType
<1>5. busy.next + 1 <= Len(Listed) + 1
  BY <1>1, <1>2
<1> QED
  BY <1>1, <1>2, <1>3, <1>4, <1>5 DEF BusyType, Listed, Commanded

LEMMA ReplayStep ==
  ASSUME IInv, Replay
  PROVE  IInv'
<1> DEFINE c == Listed[busy.next]  h == Len(busy.held)
<1>1. PipeType /\ MatrixType /\ ListType /\ BusyType /\ Restorable /\ Undisturbed
  BY DEF IInv, TypeOK
<1>2. /\ c \in Commands
      /\ UNCHANGED pipe \/ (Primitive(c) /\ (busy.op = "compile" => c.op # "End"))
  <2>1. c \in Commands
    BY <1>1, ReplayEffect
  <2>2. UNCHANGED pipe \/ (Primitive(c) /\ (busy.op = "compile" => c.op # "End"))
    BY <1>1, ReplayEffect, Zenon
  <2> QED
    BY <2>1, <2>2
<1>3. /\ BusyType' /\ busy'.op = busy.op /\ busy'.next = busy.next + 1
      /\ busy'.active = busy.active /\ busy'.held = busy.held
      /\ busy.next \in Nat \ {0} /\ busy.op # "idle"
  BY <1>1, ReplayBusy
<1>4. PipeType'
  BY <1>1, <1>2, PrimitiveTypes DEF PipeType
<1>5. MatrixType' /\ ListType'
  BY <1>1 DEF Replay, Primitive, MatrixType, ListType, Commanded
<1>6. busy.op # "compile" /\ ~pipe'.active => pipe'.count = 0
  BY <1>1, <1>2, Closing DEF Restorable
<1>7. CASE busy.op # "compile"
  BY <1>3, <1>4, <1>5, <1>6, <1>7 DEF IInv, TypeOK, Restorable, Undisturbed
<1>8. CASE busy.op = "compile"
  <2>1. /\ h \in Nat /\ h < CountModulus /\ h <= Len(pipe.verts)
        /\ busy.active => pipe.active
        /\ ~busy.active => busy.held = << >>
        /\ pipe.count \in Nat /\ pipe.count <= Len(pipe.verts) /\ Len(pipe.verts) \in Nat
        /\ CountModulus \in Nat \ {0} /\ busy.active \in BOOLEAN
    BY <1>1, <1>8, Sizes DEF Restorable, PipeType, BusyType
  <2>2. /\ h <= Len(pipe'.verts)
        /\ busy.active => pipe'.active
        /\ busy.active /\ h + busy.next < CountModulus =>
             /\ h <= pipe'.count /\ pipe'.count <= h + busy.next
             /\ \A i \in 1 .. h : pipe'.verts[i] = busy.held[i]
    <3>0. busy.active /\ h + busy.next < CountModulus =>
            /\ h <= pipe.count /\ pipe.count <= h + busy.next - 1
            /\ \A i \in 1 .. h : pipe.verts[i] = busy.held[i]
      BY <1>1, <1>3, <1>8, <2>1 DEF Undisturbed
    <3>1. CASE pipe' = pipe
      BY <1>3, <2>1, <3>0, <3>1
    <3>2. CASE c.op = "Begin" /\ c.arg \in Modes /\ ~pipe.active /\ pipe' = Opened(c.arg)
      <4>1. ~busy.active /\ h = 0
        BY <2>1, <3>2
      <4> QED
        BY <3>2, <4>1 DEF Opened
    <3>3. CASE c.op = "Color" /\ pipe' = [pipe EXCEPT !.color = c.arg]
      <4>1. pipe'.verts = pipe.verts /\ pipe'.count = pipe.count /\ pipe'.active = pipe.active
        BY <1>1, <3>3 DEF PipeType
      <4> QED
        BY <1>3, <2>1, <3>0, <4>1
    <3>4. CASE c.op = "Vertex" /\ pipe.active /\ pipe' = Grown(c.arg)
      <4> DEFINE v == [at |-> c.arg, color |-> pipe.color]  s == Stored(v)
      <4>1. c.arg \in Points /\ v \in Vertices
        BY <1>1, <1>2, <3>4, CommandTypes DEF PipeType, Vertices
      <4>2. /\ pipe'.active = pipe.active /\ pipe'.verts = s
            /\ pipe'.count = (pipe.count + 1) % CountModulus
        BY <1>1, <3>4, <4>1, GrownTypes
      <4>3. /\ s \in Seq(Vertices) /\ Len(s) >= Len(pipe.verts)
            /\ \A i \in 1 .. pipe.count : s[i] = pipe.verts[i]
        BY <1>1, <4>1, Storing
      <4> HIDE DEF v, s
      <4>4. h <= Len(s)
        BY <2>1, <4>3
      <4>5. ASSUME busy.active, h + busy.next < CountModulus
            PROVE  /\ h <= pipe'.count /\ pipe'.count <= h + busy.next
                   /\ \A i \in 1 .. h : s[i] = busy.held[i]
        <5>1. pipe'.count = pipe.count + 1
          BY <1>3, <2>1, <3>0, <4>2, <4>5, NoWrap
        <5> QED
          BY <1>3, <2>1, <3>0, <4>3, <4>5, <5>1
      <4> QED
        BY <2>1, <4>2, <4>4, <4>5
    <3> QED
      BY <1>2, <1>8, <3>1, <3>2, <3>3, <3>4, Effects DEF Effect
  <2>3. Restorable'
    BY <1>3, <1>8, <2>1, <2>2 DEF Restorable
  <2>4. busy'.next - 1 = busy.next
    BY <1>3
  <2>5. Undisturbed'
    BY <1>3, <1>8, <2>1, <2>2, <2>4 DEF Undisturbed
  <2> QED
    BY <1>3, <1>4, <1>5, <2>3, <2>5 DEF IInv, TypeOK
<1> QED
  BY <1>7, <1>8

LEMMA CalledStep ==
  ASSUME IInv, Called
  PROVE  IInv'
<1>1. UNCHANGED <<pipe, matrices, lists, recording>> /\ busy' = Idle /\ busy.op = "call"
  BY DEF Called
<1>2. PipeType' /\ MatrixType' /\ ListType'
  BY <1>1 DEF IInv, TypeOK, PipeType, MatrixType, ListType, Commanded
<1>3. BusyType' /\ Undisturbed'
  BY <1>1, IdleTypes
<1>4. Restorable'
  BY <1>1, IdleOpNext DEF IInv, Restorable
<1> QED
  BY <1>2, <1>3, <1>4 DEF IInv, TypeOK

(* What EndList restores.                                                  *)
LEMMA Restoring ==
  ASSUME PipeType, BusyType, Restorable, busy.op = "compile"
  PROVE  /\ Restored \in Pipes /\ Restored.active = busy.active
         /\ Restored.count = Len(busy.held)
         /\ Restored.verts = SubSeq(pipe.verts, 1, Len(busy.held))
         /\ Len(Restored.verts) = Len(busy.held)
<1> DEFINE n == Len(busy.held)  s == SubSeq(pipe.verts, 1, n)  a == busy.active
<1>1. /\ n \in Nat /\ n < CountModulus /\ n <= Len(pipe.verts)
      /\ pipe.verts \in Seq(Vertices) /\ a \in BOOLEAN /\ pipe \in Pipes
  BY Sizes DEF BusyType, Restorable, PipeType, Pipes
<1>2. n \in 0 .. CountModulus - 1 /\ s \in Seq(Vertices) /\ Len(s) = n
  BY <1>1, Sizes
<1>3. Restored = Reset(pipe, a, n, s)
  BY DEF Restored, Reset
<1> HIDE DEF n, s, a
<1>4. Restored \in Pipes /\ Restored.active = a /\ Restored.count = n /\ Restored.verts = s
  BY <1>1, <1>2, <1>3, Changing
<1> QED
  BY <1>2, <1>4 DEF n, s, a

LEMMA CompileStep ==
  ASSUME IInv, NEW fits, Compile(fits)
  PROVE  IInv'
<1>1. PipeType /\ MatrixType /\ ListType /\ BusyType /\ Restorable
  BY DEF IInv, TypeOK
<1>2. /\ busy.op = "compile" /\ busy' = Idle /\ pipe' = Restored
      /\ UNCHANGED matrices
  BY DEF Compile
<1>3. /\ pipe' \in Pipes /\ pipe'.active = busy.active /\ pipe'.count = Len(busy.held)
      /\ Len(pipe'.verts) = Len(busy.held)
  BY <1>1, <1>2, Restoring
<1>4. PipeType'
  <2>1. Len(busy.held) \in Nat
    BY <1>1 DEF BusyType
  <2> QED
    BY <1>3, <2>1 DEF PipeType, Pipes
<1>5. MatrixType' /\ ListType'
  BY <1>1, <1>2, CompileTypes DEF MatrixType
<1>6. BusyType' /\ Undisturbed'
  BY <1>2, IdleTypes
<1>7. ~pipe'.active => pipe'.count = 0
  BY <1>1, <1>2, <1>3 DEF Restorable
<1>8. Restorable'
  BY <1>2, <1>7, IdleOpNext DEF Restorable
<1> QED
  BY <1>4, <1>5, <1>6, <1>8 DEF IInv, TypeOK

-----------------------------------------------------------------------------
LEMMA InitInv == ASSUME Init PROVE IInv
<1> DEFINE s == << >>  n == 0
<1>1. /\ s \in Seq(Vertices) /\ s \in Seq(Commands) /\ s \in Seq(Transforms)
      /\ s \in Seq(Seq(Transforms)) /\ n \in 0 .. CountModulus - 1
      /\ Len(s) = n /\ n <= MAX_LIST_COMMANDS /\ n <= MATRIX_STACK_DEPTH /\ n <= Len(s)
  BY Sizes
<1>2. /\ pipe = [active |-> FALSE, mode |-> "points", count |-> n,
                color |-> Black, verts |-> s]
      /\ matrices = [mode |-> "modelview", current |-> [m \in MatrixModes |-> s],
                     stack |-> [m \in MatrixModes |-> s]]
      /\ lists = [l \in Ids |-> Empty] /\ recording = None /\ busy = Idle
  BY DEF Init
<1>3. n = 0
  OBVIOUS
<1> HIDE DEF s, n
<1>4. PipeType
  BY <1>1, <1>2, Sizes DEF PipeType, Modes
<1>5. MatrixType
  BY <1>1, <1>2 DEF MatrixType, MatrixModes
<1>6. ListType
  BY <1>2, EmptyTypes DEF ListType, ListRecords, Commanded
<1>7. BusyType /\ Undisturbed
  BY <1>2 DEF BusyType, Undisturbed, Idle
<1>8. Restorable
  BY <1>2, <1>3, IdleOp DEF Restorable
<1> QED
  BY <1>4, <1>5, <1>6, <1>7, <1>8 DEF IInv, TypeOK

LEMMA NextInv == ASSUME IInv, [Next]_vars PROVE IInv'
<1>1. CASE UNCHANGED vars
  BY <1>1 DEF vars, IInv, TypeOK, PipeType, MatrixType, ListType, BusyType,
              Restorable, Undisturbed, Commanded, Listed
<1>2. CASE Loops
  BY <1>2, ReplayStep, CalledStep, CompileStep DEF Loops
<1>3. CASE \E c \in Commands : HandleInterrupt(c)
  BY <1>3, CommandStep
<1> QED
  BY <1>1, <1>2, <1>3 DEF Next

THEOREM GpuInvariant == Spec => []IInv
BY InitInv, NextInv, PTL DEF Spec

(* The pipeline, the stacks and the lists keep their widths and limits,    *)
(* whatever a program does.                                                *)
THEOREM GpuTypes == Spec => []TypeOK
<1>1. IInv => TypeOK
  BY DEF IInv
<1> QED
  BY <1>1, GpuInvariant, PTL

(* Outside Begin and End the pipeline is empty.                            *)
THEOREM GpuInactive == Spec => []InactiveIsEmpty
<1>1. IInv => InactiveIsEmpty
  BY IdleOp DEF IInv, Restorable, InactiveIsEmpty
<1> QED
  BY <1>1, GpuInvariant, PTL

(* A list compiled in the middle of a primitive leaves its vertices alone. *)
THEOREM GpuOpenPrimitiveKept == Spec => OpenPrimitiveKept
<1> DEFINE Kept == (/\ busy.op = "compile" /\ busy' = Idle
                    /\ Len(busy.held) + Len(Listed) < CountModulus)
                   => pipe'.active = busy.active /\ Live' = busy.held
<1>1. ASSUME IInv, [Next]_vars PROVE [Kept]_vars
  <2> SUFFICES ASSUME busy.op = "compile", busy' = Idle,
                      Len(busy.held) + Len(Listed) < CountModulus
               PROVE  pipe'.active = busy.active /\ Live' = busy.held
    OBVIOUS
  <2>1. PICK fits \in BOOLEAN : Compile(fits)
    <3>1. busy'.op = "idle" /\ busy.op # "idle" /\ busy # Idle
      BY IdleOp, IdleOpNext
    <3>2. ~Replay
      BY <1>1, <3>1, ReplayBusy DEF IInv, TypeOK
    <3>3. ~UNCHANGED vars /\ ~Called
      BY <3>1 DEF vars, Called
    <3>4. \A c \in Commands : ~HandleInterrupt(c)
      BY <3>1 DEF HandleInterrupt
    <3> QED
      BY <1>1, <3>2, <3>3, <3>4 DEF Next, Loops
  <2> DEFINE h == Len(busy.held)  s == pipe.verts
  <2>2. /\ pipe' = Restored /\ busy.next > Len(Listed)
        /\ PipeType /\ ListType /\ BusyType /\ Restorable /\ Undisturbed
    BY <1>1, <2>1 DEF Compile, IInv, TypeOK
  <2>3. /\ pipe'.active = busy.active /\ pipe'.count = h /\ pipe'.verts = SubSeq(s, 1, h)
    BY <2>2, Restoring
  <2>4. /\ s \in Seq(Vertices) /\ h \in Nat /\ h <= Len(s) /\ busy.held \in Seq(Vertices)
        /\ busy.active \in BOOLEAN
    BY <2>2 DEF PipeType, BusyType, Restorable
  <2>5. \A i \in 1 .. h : s[i] = busy.held[i]
    <3>1. CASE busy.active
      <4>1. busy.next - 1 = Len(Listed) /\ CountModulus \in Nat
        <5>1. busy.list \in Ids /\ busy.next \in Nat /\ busy.next <= Len(Listed) + 1
          BY <2>2, IdleOp, <2>1 DEF BusyType, Compile
        <5>2. Len(Listed) \in Nat
          BY <5>1, <2>2, ListFacts DEF Listed
        <5> QED
          BY <2>2, <5>1, <5>2, Sizes
      <4> QED
        BY <2>1, <2>2, <3>1, <4>1 DEF Compile, Undisturbed
    <3>2. CASE ~busy.active
      BY <2>2, <2>4, <3>2 DEF Restorable
    <3> QED
      BY <3>1, <3>2
  <2>6. Live' = SubSeq(SubSeq(s, 1, h), 1, h)
    BY <2>3 DEF Live
  <2> HIDE DEF h, s
  <2>7. SubSeq(SubSeq(s, 1, h), 1, h) = SubSeq(s, 1, h)
    BY <2>4
  <2>8. SubSeq(s, 1, h) = busy.held
    <3>1. h = Len(busy.held)
      BY DEF h
    <3> QED
      BY <2>4, <2>5, <3>1
  <2> QED
    BY <2>3, <2>6, <2>7, <2>8
<1> QED
  BY <1>1, GpuInvariant, PTL DEF Spec, OpenPrimitiveKept

-----------------------------------------------------------------------------
(***************************************************************************)
(* The theorem of the display lists: what EndList compiles is what the     *)
(* commands of the list would have collected.  While the list is replayed, *)
(* the pipeline holds the vertices of the commands replayed so far, and    *)
(* its colour is the one the last of them set.                             *)
(***************************************************************************)

\* The vertices of the first n commands of s, in a buffer of count entries.
Holding(s, n, verts, count) ==
  /\ count = Cardinality(VertexPlaces(s, n))
  /\ \A k \in VertexPlaces(s, n) :
       LET v == verts[Cardinality(VertexPlaces(s, k))]
       IN  v.at = s[k].arg /\ Coloured(s, k, v.color)

\* The colour after n commands of a list that starts with a Begin.
Setters(s, n) == {1} \cup Before(s, n + 1, {"Color"})
Colour(s, n, q) == \E i \in Setters(s, n) :
                     /\ IsLast(i, Setters(s, n))
                     /\ q = IF i = 1 THEN White ELSE s[i].arg

Opening(m) ==
  /\ busy.next = 1 => ~pipe.active /\ pipe.count = 0
  /\ busy.next > 1 => /\ pipe.active /\ pipe.mode = m
                      /\ Holding(Listed, busy.next - 1, pipe.verts, pipe.count)
                      /\ Colour(Listed, busy.next - 1, pipe.color)

Replaying == busy.op = "compile" /\ ~busy.active =>
               \A m \in Modes : Regular(Listed, m) => Opening(m)

-----------------------------------------------------------------------------
(* Counting the vertices of a list.                                        *)
LEMMA PlacesFinite ==
  ASSUME NEW s, NEW n \in Nat
  PROVE  IsFiniteSet(VertexPlaces(s, n)) /\ Cardinality(VertexPlaces(s, n)) \in Nat
<1>1. IsFiniteSet(1 .. n)
  BY FS_Interval
<1>2. VertexPlaces(s, n) \in SUBSET (1 .. n)
  BY DEF VertexPlaces
<1>3. IsFiniteSet(VertexPlaces(s, n))
  BY <1>1, <1>2, FS_Subset
<1> QED
  BY <1>3, FS_CardinalityType

LEMMA PlacesNext ==
  ASSUME NEW s, NEW n \in Nat
  PROVE  /\ s[n + 1].op = "Vertex" =>
              /\ VertexPlaces(s, n + 1) = VertexPlaces(s, n) \cup {n + 1}
              /\ Cardinality(VertexPlaces(s, n + 1)) = Cardinality(VertexPlaces(s, n)) + 1
         /\ s[n + 1].op # "Vertex" => VertexPlaces(s, n + 1) = VertexPlaces(s, n)
<1>1. s[n + 1].op # "Vertex" => VertexPlaces(s, n + 1) = VertexPlaces(s, n)
  BY DEF VertexPlaces
<1>2. ASSUME s[n + 1].op = "Vertex"
      PROVE  /\ VertexPlaces(s, n + 1) = VertexPlaces(s, n) \cup {n + 1}
             /\ n + 1 \notin VertexPlaces(s, n)
  BY <1>2 DEF VertexPlaces
<1>3. ASSUME s[n + 1].op = "Vertex"
      PROVE  Cardinality(VertexPlaces(s, n + 1)) = Cardinality(VertexPlaces(s, n)) + 1
  BY <1>2, <1>3, PlacesFinite, FS_AddElement
<1> QED
  BY <1>1, <1>2, <1>3

LEMMA PlacesGrow ==
  ASSUME NEW s, NEW n \in Nat, NEW k \in 0 .. n
  PROVE  Cardinality(VertexPlaces(s, k)) <= Cardinality(VertexPlaces(s, n))
<1>1. VertexPlaces(s, k) \in SUBSET VertexPlaces(s, n)
  BY DEF VertexPlaces
<1> QED
  BY <1>1, PlacesFinite, FS_Subset

LEMMA PlacesRank ==
  ASSUME NEW s, NEW n \in Nat, NEW k \in VertexPlaces(s, n)
  PROVE  /\ k \in 1 .. n
         /\ Cardinality(VertexPlaces(s, k)) \in 1 .. Cardinality(VertexPlaces(s, n))
<1>1. k \in 1 .. n /\ k \in VertexPlaces(s, k)
  BY DEF VertexPlaces
<1>2. Cardinality(VertexPlaces(s, k)) <= Cardinality(VertexPlaces(s, n))
  BY <1>1, PlacesGrow
<1>3. Cardinality(VertexPlaces(s, k)) # 0
  BY <1>1, PlacesFinite, FS_EmptySet
<1>4. Cardinality(VertexPlaces(s, k)) \in Nat /\ Cardinality(VertexPlaces(s, n)) \in Nat
  BY <1>1, PlacesFinite
<1> QED
  BY <1>1, <1>2, <1>3, <1>4

(* The first command of a regular list is its Begin.                       *)
LEMMA HoldingFirst ==
  ASSUME NEW s, s[1].op = "Begin", NEW verts
  PROVE  Holding(s, 1, verts, 0) /\ Colour(s, 1, White)
<1>1. VertexPlaces(s, 1) = {}
  BY DEF VertexPlaces
<1>2. Before(s, 2, {"Color"}) = {}
  BY DEF Before
<1>3. Setters(s, 1) = {1}
  BY <1>2 DEF Setters
<1> QED
  BY <1>1, <1>3, FS_EmptySet DEF Holding, Colour, IsLast

(* The colour follows the Color commands and nothing else.                 *)
LEMMA ColourNext ==
  ASSUME NEW s, NEW n \in Nat \ {0}, NEW q, Colour(s, n, q)
  PROVE  /\ s[n + 1].op = "Color" => Colour(s, n + 1, s[n + 1].arg)
         /\ s[n + 1].op # "Color" => Colour(s, n + 1, q)
<1>1. ASSUME s[n + 1].op = "Color"
      PROVE  Setters(s, n + 1) = Setters(s, n) \cup {n + 1}
  BY <1>1 DEF Setters, Before
<1>2. ASSUME s[n + 1].op # "Color"
      PROVE  Setters(s, n + 1) = Setters(s, n)
  BY <1>2 DEF Setters, Before
<1>3. \A i \in Setters(s, n) : i \in 1 .. n
  BY DEF Setters, Before
<1>4. ASSUME s[n + 1].op = "Color"
      PROVE  Colour(s, n + 1, s[n + 1].arg)
  <2>1. n + 1 \in Setters(s, n + 1) /\ n + 1 # 1
    BY <1>1, <1>4
  <2>2. IsLast(n + 1, Setters(s, n + 1))
    BY <1>1, <1>3, <1>4, <2>1 DEF IsLast
  <2> QED
    BY <2>1, <2>2 DEF Colour
<1> QED
  BY <1>2, <1>4 DEF Colour

(* In a regular list that colour is the colour of the next vertex.         *)
LEMMA ColourIsColoured ==
  ASSUME NEW s, NEW m, Regular(s, m), NEW n \in Nat \ {0}, n + 1 <= Len(s),
         Len(s) \in Nat, s[n + 1].op = "Vertex", NEW q, Colour(s, n, q)
  PROVE  Coloured(s, n + 1, q)
<1> DEFINE B == Before(s, n + 1, {"Begin", "Color"})
<1>1. n + 1 \in VertexPlaces(s, Len(s))
  BY DEF VertexPlaces
<1>2. PICK i \in B : IsLast(i, B) /\ (s[i].op = "Begin" => i = 1)
  BY <1>1 DEF Regular
<1>3. PICK j \in Setters(s, n) : /\ IsLast(j, Setters(s, n))
                                 /\ q = IF j = 1 THEN White ELSE s[j].arg
  BY DEF Colour
<1>4. s[1].op = "Begin" /\ 1 \in B
  BY DEF Regular, Before
<1>5. /\ \A x \in B : x \in 1 .. n /\ s[x].op \in {"Begin", "Color"}
      /\ \A x \in Setters(s, n) : x \in B
  BY <1>4 DEF Setters, Before
<1>6. s[i].op = "Color" => i \in Setters(s, n)
  BY <1>2 DEF Setters, Before
<1>7. i \in Setters(s, n)
  BY <1>2, <1>5, <1>6 DEF Setters
<1>8. i = j
  BY <1>2, <1>3, <1>5, <1>7 DEF IsLast
<1>9. s[i].op = "Begin" <=> i = 1
  BY <1>2, <1>4
<1> QED
  BY <1>2, <1>3, <1>8, <1>9 DEF Coloured

(* A vertex more.                                                          *)
LEMMA HoldingVertex ==
  ASSUME NEW s, NEW n \in Nat, s[n + 1].op = "Vertex", NEW verts, NEW count,
         Holding(s, n, verts, count), NEW more,
         \A i \in 1 .. count : more[i] = verts[i],
         more[count + 1].at = s[n + 1].arg, Coloured(s, n + 1, more[count + 1].color)
  PROVE  Holding(s, n + 1, more, count + 1)
<1>1. /\ VertexPlaces(s, n + 1) = VertexPlaces(s, n) \cup {n + 1}
      /\ Cardinality(VertexPlaces(s, n + 1)) = count + 1
  BY PlacesNext DEF Holding
<1>2. ASSUME NEW k \in VertexPlaces(s, n)
      PROVE  LET v == more[Cardinality(VertexPlaces(s, k))]
             IN  v.at = s[k].arg /\ Coloured(s, k, v.color)
  <2>1. Cardinality(VertexPlaces(s, k)) \in 1 .. count
    BY PlacesRank DEF Holding
  <2> QED
    BY <2>1 DEF Holding
<1> QED
  BY <1>1, <1>2 DEF Holding

LEMMA HoldingOther ==
  ASSUME NEW s, NEW n \in Nat, s[n + 1].op # "Vertex", NEW verts, NEW count,
         Holding(s, n, verts, count)
  PROVE  Holding(s, n + 1, verts, count)
BY PlacesNext DEF Holding

-----------------------------------------------------------------------------
(* What the three commands EndList replays do.                             *)
LEMMA Exactly ==
  ASSUME NEW c, Primitive(c)
  PROVE  /\ c.op = "Begin" => pipe' = IF BeginError(c.arg) = "none" THEN Opened(c.arg)
                                      ELSE pipe
         /\ c.op = "Color" => pipe' = [pipe EXCEPT !.color = c.arg]
         /\ c.op = "Vertex" => pipe' = IF VertexError = "none" THEN Grown(c.arg)
                                       ELSE pipe
<1>1. ASSUME c.op = "Begin"
      PROVE  pipe' = IF BeginError(c.arg) = "none" THEN Opened(c.arg) ELSE pipe
  BY <1>1 DEF Primitive, Begin, Refuse, Opened
<1>2. ASSUME c.op = "Color"
      PROVE  pipe' = [pipe EXCEPT !.color = c.arg]
  BY <1>2 DEF Primitive, Color
<1>3. ASSUME c.op = "Vertex"
      PROVE  pipe' = IF VertexError = "none" THEN Grown(c.arg) ELSE pipe
  BY <1>3 DEF Primitive, Vertex, Refuse, Grown
<1> QED
  BY <1>1, <1>2, <1>3

LEMMA Compiling ==
  ASSUME Replay, busy.op = "compile"
  PROVE  /\ Listed[busy.next].op \in {"Begin", "Vertex", "Color"} => Primitive(Listed[busy.next])
         /\ Listed[busy.next].op \notin {"Begin", "Vertex", "Color"} => pipe' = pipe
BY DEF Replay, Replayed

LEMMA ReplayFirst ==
  ASSUME IInv, Replay, busy.op = "compile", busy.next = 1,
         NEW m \in Modes, Regular(Listed, m), ~pipe.active
  PROVE  /\ pipe'.active /\ pipe'.mode = m
         /\ Holding(Listed, 1, pipe'.verts, pipe'.count) /\ Colour(Listed, 1, pipe'.color)
<1> DEFINE s == Listed
<1>1. s[1].op = "Begin" /\ Len(s) \in Nat /\ s \in Seq(Commands) /\ busy.next <= Len(s)
  BY ReplayEffect, ListFacts DEF Regular, IInv, TypeOK, Listed, Replay
<1>2. s[1].arg = m
  BY <1>1 DEF Regular
<1>3. Primitive(s[1]) /\ BeginError(s[1].arg) = "none"
  BY <1>1, <1>2, Compiling DEF BeginError
<1>4. pipe' = Opened(m)
  BY <1>1, <1>2, <1>3, Exactly
<1>5. pipe'.active /\ pipe'.mode = m /\ pipe'.count = 0 /\ pipe'.color = White
  BY <1>4 DEF Opened
<1> QED
  BY <1>1, <1>5, HoldingFirst

LEMMA ReplayLater ==
  ASSUME IInv, Replay, busy.op = "compile", busy.next > 1,
         NEW m \in Modes, Regular(Listed, m), Opening(m)
  PROVE  /\ pipe'.active /\ pipe'.mode = m
         /\ Holding(Listed, busy.next, pipe'.verts, pipe'.count)
         /\ Colour(Listed, busy.next, pipe'.color)
<1> DEFINE s == Listed  n == busy.next - 1  c == s[n + 1]
<1>1. /\ s \in Seq(Commands) /\ Len(s) \in Nat /\ n \in Nat \ {0} /\ busy.next = n + 1
      /\ n + 1 <= Len(s) /\ c \in Commands /\ Regular(s, m) /\ c = Listed[busy.next]
  <2>1. busy.next \in 1 .. Len(s) /\ busy.list \in Ids /\ s[busy.next] \in Commands
    BY ReplayEffect DEF IInv, TypeOK
  <2>2. s \in Seq(Commands) /\ Len(s) \in Nat
    BY <2>1, ListFacts DEF IInv, TypeOK, Listed
  <2> QED
    BY <2>1, <2>2
<1>2. /\ pipe.active /\ pipe.mode = m /\ Colour(s, n, pipe.color)
      /\ Holding(s, n, pipe.verts, pipe.count)
  BY DEF Opening
<1>3. /\ c.op \in {"Begin", "Vertex", "Color"} => Primitive(c)
      /\ c.op \notin {"Begin", "Vertex", "Color"} => pipe' = pipe
  BY <1>1, Compiling
<1>4. PipeType
  BY DEF IInv, TypeOK
<1> HIDE DEF s, n, c
<1>5. CASE c.op \notin {"Vertex", "Color"}
  <2>1. pipe' = pipe
    BY <1>2, <1>3, <1>5, Exactly DEF BeginError
  <2>2. s[n + 1].op # "Vertex" /\ s[n + 1].op # "Color"
    BY <1>5 DEF c
  <2>3. Holding(s, n + 1, pipe.verts, pipe.count) /\ Colour(s, n + 1, pipe.color)
    BY <1>1, <1>2, <2>2, HoldingOther, ColourNext
  <2> QED
    BY <1>1, <1>2, <2>1, <2>3 DEF s
<1>6. CASE c.op = "Color"
  <2>1. pipe' = [pipe EXCEPT !.color = c.arg]
    BY <1>3, <1>6, Exactly
  <2>2. /\ pipe'.active = pipe.active /\ pipe'.mode = pipe.mode /\ pipe'.color = c.arg
        /\ pipe'.verts = pipe.verts /\ pipe'.count = pipe.count
    BY <1>4, <2>1 DEF PipeType
  <2>3. s[n + 1].op # "Vertex" /\ s[n + 1].op = "Color" /\ s[n + 1].arg = c.arg
    BY <1>6 DEF c
  <2>4. Holding(s, n + 1, pipe.verts, pipe.count) /\ Colour(s, n + 1, c.arg)
    BY <1>1, <1>2, <2>3, HoldingOther, ColourNext
  <2> QED
    BY <1>1, <1>2, <2>2, <2>4 DEF s
<1>7. CASE c.op = "Vertex"
  <2>1. s[n + 1].op = "Vertex" /\ s[n + 1].arg = c.arg
    BY <1>7 DEF c
  <2>2. pipe.count + 1 < CountModulus /\ pipe.count \in Nat
    <3>1. Cardinality(VertexPlaces(s, n + 1)) = pipe.count + 1
      BY <1>1, <1>2, <2>1, PlacesNext DEF Holding
    <3>2. Cardinality(VertexPlaces(s, n + 1)) <= Cardinality(VertexPlaces(s, Len(s)))
      BY <1>1, PlacesGrow
    <3>3. Cardinality(VertexPlaces(s, Len(s))) < CountModulus
      BY <1>1 DEF Regular
    <3>4. pipe.count \in Nat /\ Cardinality(VertexPlaces(s, Len(s))) \in Nat
      BY <1>1, <1>2, PlacesFinite DEF Holding
    <3> QED
      BY <3>1, <3>2, <3>3, <3>4, Sizes
  <2>3. VertexError = "none"
    BY <1>2, <2>2, Sizes, SizeAssumption, BufferAssumption DEF VertexError
  <2>4. pipe' = Grown(c.arg) /\ c.arg \in Points
    BY <1>1, <1>3, <1>7, <2>3, Exactly, CommandTypes
  <2> DEFINE v == [at |-> c.arg, color |-> pipe.color]  t == Stored(v)
  <2>5. v \in Vertices /\ v.at = c.arg /\ v.color = pipe.color
    BY <1>4, <2>4 DEF PipeType, Vertices
  <2>6. /\ pipe'.active = pipe.active /\ pipe'.mode = pipe.mode /\ pipe'.color = pipe.color
        /\ pipe'.verts = t /\ pipe'.count = (pipe.count + 1) % CountModulus
    BY <1>4, <2>4, GrownTypes
  <2>7. pipe'.count = pipe.count + 1
    BY <2>2, <2>6, NoWrap
  <2>8. t[pipe.count + 1] = v /\ \A i \in 1 .. pipe.count : t[i] = pipe.verts[i]
    BY <1>4, <2>5, Storing
  <2> HIDE DEF v, t
  <2>9. Coloured(s, n + 1, pipe.color) /\ Colour(s, n + 1, pipe.color)
    BY <1>1, <1>2, <2>1, ColourIsColoured, ColourNext
  <2>10. t[pipe.count + 1].at = s[n + 1].arg /\ Coloured(s, n + 1, t[pipe.count + 1].color)
    BY <2>1, <2>5, <2>8, <2>9
  <2>11. Holding(s, n + 1, t, pipe.count + 1)
    BY <1>1, <1>2, <2>1, <2>8, <2>10, HoldingVertex
  <2> QED
    BY <1>1, <1>2, <2>6, <2>7, <2>9, <2>11 DEF s
<1> QED
  BY <1>5, <1>6, <1>7

LEMMA ReplayingNext ==
  ASSUME IInv, Replaying, [Next]_vars
  PROVE  Replaying'
<1>1. CASE UNCHANGED vars
  BY <1>1 DEF vars, Replaying, Opening, Listed, Commanded, Holding
<1>2. CASE Called \/ \E fits \in BOOLEAN : Compile(fits)
  BY <1>2, IdleOpNext DEF Called, Compile, Replaying
<1>3. CASE Replay
  <2> SUFFICES ASSUME busy'.op = "compile", ~busy'.active,
                      NEW m \in Modes, Regular(Listed', m)
               PROVE  Opening(m)'
    BY DEF Replaying
  <2>1. /\ busy.op = "compile" /\ ~busy.active /\ busy'.next = busy.next + 1
        /\ busy.next \in Nat \ {0}
    BY <1>3, ReplayBusy DEF IInv, TypeOK
  <2>2. Listed' = Listed
    <3>1. busy'.list = busy.list /\ lists' = lists
      BY <1>3 DEF Replay, IInv, BusyType
    <3> QED
      BY <3>1 DEF Listed, Commanded
  <2>3. Regular(Listed, m) /\ Opening(m)
    BY <2>1, <2>2 DEF Replaying
  <2>4. /\ pipe'.active /\ pipe'.mode = m
        /\ Holding(Listed, busy.next, pipe'.verts, pipe'.count)
        /\ Colour(Listed, busy.next, pipe'.color)
    <3>1. CASE busy.next = 1
      BY <1>3, <2>1, <2>3, <3>1, ReplayFirst DEF Opening
    <3>2. CASE busy.next > 1
      BY <1>3, <2>1, <2>3, <3>2, ReplayLater
    <3> QED
      BY <2>1, <3>1, <3>2
  <2>5. busy'.next # 1 /\ busy'.next - 1 = busy.next
    BY <2>1
  <2> QED
    BY <2>2, <2>4, <2>5 DEF Opening
<1>4. CASE \E c \in Commands : HandleInterrupt(c)
  <2>0. PICK c \in Commands : HandleInterrupt(c)
    BY <1>4
  <2>1. busy = Idle
    BY <2>0 DEF HandleInterrupt
  <2>2. CASE EndList(c) /\ recording # None
    <3>1. busy'.next = 1 /\ busy'.active = pipe.active /\ pipe' = pipe
      BY <2>2 DEF EndList
    <3>2. ~pipe.active => pipe.count = 0
      BY <2>1, IdleOp DEF IInv, Restorable
    <3> QED
      BY <3>1, <3>2 DEF Replaying, Opening
  <2>3. CASE \E fits \in BOOLEAN : CallList(c, fits)
    <3>1. busy' = busy \/ busy'.op = "call"
      BY <2>3 DEF CallList, Idle
    <3> QED
      BY <2>1, <3>1, IdleOp DEF Replaying
  <2>4. CASE busy' = busy
    BY <2>1, <2>4, IdleOp DEF Replaying
  <2> QED
    BY <2>0, <2>2, <2>3, <2>4
       DEF HandleInterrupt, Record, Draw, Enabling, Settings, Surface, Matrices, GenLists,
           NewList, EndList
<1> QED
  BY <1>1, <1>2, <1>3, <1>4 DEF Next, Loops

(* A list that is recorded or being compiled has not been compiled: NewList *)
(* emptied it, and nothing is recorded while a loop runs.                  *)
Uncompiled ==
  /\ busy.op # "idle" => recording = None
  /\ recording # None => ~lists[recording].compiled
  /\ busy.op = "compile" => ~lists[busy.list].compiled

LEMMA UncompiledNext ==
  ASSUME IInv, Uncompiled, [Next]_vars
  PROVE  Uncompiled'
<1>1. CASE UNCHANGED vars
  BY <1>1 DEF vars, Uncompiled
<1>2. CASE Called \/ \E fits \in BOOLEAN : Compile(fits)
  <2>1. busy.op # "idle" /\ recording' = recording /\ busy'.op = "idle"
    BY <1>2, IdleOpNext DEF Called, Compile
  <2> QED
    BY <2>1 DEF Uncompiled
<1>3. CASE Replay
  <2>1. /\ busy'.op = busy.op /\ busy'.list = busy.list
        /\ lists' = lists /\ recording' = recording
    BY <1>3 DEF Replay, IInv, BusyType
  <2> QED
    BY <2>1 DEF Uncompiled
<1>4. CASE \E c \in Commands : HandleInterrupt(c)
  <2>0. PICK c \in Commands : HandleInterrupt(c)
    BY <1>4
  <2>1. busy = Idle /\ busy.op = "idle" /\ lists \in [Ids -> ListRecords]
    BY <2>0, IdleOp DEF HandleInterrupt, IInv, TypeOK, ListType, ListRecords
  <2>2. CASE Record(c)
    <3>1. recording \in Ids /\ recording' = recording /\ busy' = busy
      BY <2>2 DEF Record, IInv, TypeOK, ListType
    <3>2. lists'[recording].compiled = lists[recording].compiled
      BY <2>1, <2>2, <3>1 DEF Record, ListRecords
    <3> QED
      BY <2>1, <3>1, <3>2 DEF Uncompiled
  <2>3. CASE NewList(c)
    <3>1. CASE UNCHANGED <<lists, recording>> /\ busy' = busy
      BY <3>1 DEF Uncompiled
    <3>2. CASE NewListError(c) = "none"
      <4>1. c.n \in Ids /\ recording' = c.n /\ lists'[c.n] = Empty /\ busy' = busy
        BY <2>1, <2>3, <3>2 DEF NewList, NewListError
      <4> QED
        BY <2>1, <4>1 DEF Uncompiled, Empty
    <3> QED
      BY <2>3, <3>1, <3>2 DEF NewList
  <2>4. CASE EndList(c)
    <3>1. CASE recording = None
      BY <2>1, <2>4, <3>1 DEF EndList, Uncompiled
    <3>2. CASE recording # None
      <4>1. recording' = None /\ busy'.list = recording /\ lists' = lists
        BY <2>4, <3>2 DEF EndList
      <4> QED
        BY <3>2, <4>1 DEF Uncompiled
    <3> QED
      BY <3>1, <3>2
  <2>5. CASE \E fits \in BOOLEAN : CallList(c, fits)
    <3>1. lists' = lists /\ recording' = recording
      BY <2>5 DEF CallList
    <3>2. busy' = busy \/ (busy'.op = "call" /\ recording = None)
      BY <2>5 DEF CallList, CallListError, Idle
    <3> QED
      BY <2>1, <3>1, <3>2 DEF Uncompiled
  <2>6. CASE UNCHANGED <<lists, recording, busy>>
    BY <2>6 DEF Uncompiled
  <2> QED
    BY <2>0, <2>2, <2>3, <2>4, <2>5, <2>6
       DEF HandleInterrupt, Draw, Enabling, Settings, Surface, Matrices, GenLists
<1> QED
  BY <1>1, <1>2, <1>3, <1>4 DEF Next, Loops

(* A regular list recorded outside Begin and End is compiled to the        *)
(* vertices and colours its commands stand for.                            *)
THEOREM GpuListsReplay == Spec => ListsReplay
<1> DEFINE Faithful ==
      \A m \in Modes :
        (/\ busy.op = "compile" /\ busy' = Idle /\ ~busy.active
         /\ Regular(Listed, m) /\ lists'[busy.list].compiled)
        => Pictures(lists'[busy.list].figure, Listed, m)
<1>1. Init => Replaying /\ Uncompiled
  BY IdleOp DEF Init, Replaying, Uncompiled
<1>2. ASSUME IInv, Replaying, Uncompiled, [Next]_vars
      PROVE  [Faithful]_vars
  <2> SUFFICES ASSUME NEW m \in Modes, busy.op = "compile", busy' = Idle, ~busy.active,
                      Regular(Listed, m), lists'[busy.list].compiled
               PROVE  Pictures(lists'[busy.list].figure, Listed, m)
    OBVIOUS
  <2>1. PICK fits \in BOOLEAN : Compile(fits)
    <3>1. busy'.op = "idle" /\ busy # Idle
      BY IdleOp, IdleOpNext
    <3>2. ~Replay
      BY <1>2, <3>1, ReplayBusy DEF IInv, TypeOK
    <3>3. ~UNCHANGED vars /\ ~Called
      BY <3>1 DEF vars, Called
    <3>4. \A c \in Commands : ~HandleInterrupt(c)
      BY <3>1 DEF HandleInterrupt
    <3> QED
      BY <1>2, <3>2, <3>3, <3>4 DEF Next, Loops
  <2> DEFINE s == Listed
  <2>2. /\ PipeType /\ ListType /\ busy.list \in Ids /\ busy.next \in Nat \ {0}
        /\ busy.next = Len(s) + 1 /\ Len(s) \in Nat \ {0} /\ s \in Seq(Commands)
    <3>1. busy.list \in Ids /\ busy.next \in Nat \ {0} /\ busy.next <= Len(s) + 1
      BY <1>2 DEF IInv, BusyType
    <3>2. Len(s) \in Nat /\ s \in Seq(Commands) /\ ListType /\ PipeType
      BY <1>2, <3>1, ListFacts DEF Listed, IInv, TypeOK
    <3>3. busy.next > Len(s)
      BY <2>1 DEF Compile
    <3>4. s # << >>
      BY DEF Regular
    <3> QED
      BY <3>1, <3>2, <3>3, <3>4
  <2>3. pipe.mode = m /\ Holding(s, Len(s), pipe.verts, pipe.count)
    <3>1. Opening(m)
      BY <1>2 DEF Replaying
    <3>2. busy.next > 1 /\ busy.next - 1 = Len(s)
      BY <2>2
    <3> QED
      BY <3>1, <3>2 DEF Opening
  <2>4. lists'[busy.list].figure = [mode |-> pipe.mode, verts |-> Live]
    <3> DEFINE l == busy.list  f == [mode |-> pipe.mode, verts |-> Live]
               x == lists[l]  t == TRUE
               r == [x EXCEPT !.compiled = t, !.figure = f]
    <3>1. ~lists[l].compiled
      BY <1>2 DEF Uncompiled
    <3>2. lists' # lists
      BY <3>1
    <3>3. lists' = [lists EXCEPT ![l].compiled = TRUE, ![l].figure = f]
      BY <2>1, <3>2 DEF Compile
    <3>4. l \in Ids /\ lists \in [Ids -> ListRecords] /\ x \in ListRecords
      BY <2>2 DEF ListType, ListRecords
    <3>5. lists' = [lists EXCEPT ![l] = r]
      BY <3>3, <3>4 DEF ListRecords
    <3> HIDE DEF l, f, x, t
    <3>6. r.figure = f
      BY <3>4 DEF ListRecords
    <3> HIDE DEF r
    <3>7. lists'[l] = r
      BY <3>4, <3>5
    <3> QED
      BY <3>6, <3>7 DEF l, f
  <2>5. /\ Len(Live) = pipe.count /\ \A i \in 1 .. pipe.count : Live[i] = pipe.verts[i]
    BY <2>2, LiveTypes
  <2>6. ASSUME NEW k \in VertexPlaces(s, Len(s))
        PROVE  LET v == Live[Cardinality(VertexPlaces(s, k))]
               IN  v.at = s[k].arg /\ Coloured(s, k, v.color)
    <3>1. Cardinality(VertexPlaces(s, k)) \in 1 .. pipe.count
      BY <2>2, <2>3, PlacesRank DEF Holding
    <3> QED
      BY <2>3, <2>5, <3>1 DEF Holding
  <2> QED
    BY <2>3, <2>4, <2>5, <2>6 DEF Pictures, Holding
<1> QED
  BY <1>1, <1>2, ReplayingNext, UncompiledNext, GpuInvariant, PTL DEF Spec, ListsReplay
=============================================================================
