----------------------------- MODULE Lc24Machine -----------------------------
(***************************************************************************)
(* One run of the emulator: main() of utils/cpu.c around the processor of  *)
(* Lc24Cpu, the debugger of lib/cpu24/cli.h, the modes of the terminal and *)
(* the files the emulator reads and writes.                                *)
(*                                                                         *)
(* A file is what a disk loaded from it holds and whether all of a disk is *)
(* there; what a program file holds is any of Images, as in Lc24Cpu.  The  *)
(* terminal is "own" as the emulator found it, "raw" while it runs, and    *)
(* "tame" after stty: usable, with the flow control still switched off.    *)
(***************************************************************************)
EXTENDS Sequences, Lc24Cpu

CONSTANTS
  Args,      \* the command lines, without the name of the program
  Names,     \* the files
  Given,     \* what the files hold before the run
  Signed     \* the files in which a boot sector ends with its signature

VARIABLES
  argv, argp,
  driveboot, climode, filename, biosfile,
  at,        \* where main() stands
  tty, files,
  status,    \* how the process ended; lc_errno is its status if it "returned"
  began      \* history: the disk as it was loaded

cpu   == vars
opts  == <<driveboot, climode, filename, biosfile>>
mvars == <<cpu, argv, argp, opts, at, tty, files, status, began>>

File(is, r) == [is |-> is, rom |-> r]
NoName == "none"
Blank == [d \in Disk |-> 0]
Options == {"disk", "bios", "cli", "help"}

ASSUME FilesAssumption ==
  /\ Args \subseteq Seq(Names \union Options)
  /\ NoName \notin Names /\ Roms = {Blank}
  /\ Given \in [Names \union Options -> [is : {"absent", "short", "whole"}, rom : [Disk -> Byte]]]

-----------------------------------------------------------------------------
(* The command line.                                                       *)
Ends(s, mode) == at' = "done" /\ status' = s /\ tty' = mode

\* Wrong on purpose: the terminal is left as it is.
Fails_raw == Ends("failed", tty) /\ UNCHANGED <<cpu, files, began>>

Fails == Ends("failed", "own") /\ UNCHANGED <<cpu, files, began>>

Arg(k) == IF k <= Len(argv) THEN argv[k] ELSE NoName

NoArguments == at = "args" /\ argv = << >> /\ Fails /\ UNCHANGED <<argv, argp, opts>>
Help == at = "args" /\ Arg(argp) = "help" /\ Fails /\ UNCHANGED <<argv, argp, opts>>

ParseOption ==
  /\ at = "args"
  /\ \/ Arg(argp) = "disk" /\ driveboot' = TRUE /\ argp' = argp + 1
        /\ UNCHANGED <<climode, biosfile>>
     \/ Arg(argp) = "bios" /\ biosfile' = Arg(argp + 1) /\ argp' = argp + 2
        /\ UNCHANGED <<climode, driveboot>>
     \/ Arg(argp) = "cli" /\ climode' = TRUE /\ argp' = argp + 1
        /\ UNCHANGED <<driveboot, biosfile>>
  /\ UNCHANGED <<cpu, argv, filename, at, tty, files, status, began>>

\* Wrong on purpose: an option is taken for the file.
ParseFile_any ==
  /\ at = "args" /\ argv # << >>
  /\ filename' = Arg(argp) /\ at' = "load"
  /\ UNCHANGED <<cpu, argv, argp, driveboot, climode, biosfile, tty, files,
                 status, began>>

ParseFile ==
  /\ at = "args" /\ argv # << >> /\ Arg(argp) \notin Options
  /\ filename' = Arg(argp) /\ at' = "load"
  /\ UNCHANGED <<cpu, argv, argp, driveboot, climode, biosfile, tty, files,
                 status, began>>

-----------------------------------------------------------------------------
(* Loading.  A boot sector without its signature is copied until the host  *)
(* faults.                                                                 *)
Readable(n) == n # NoName /\ files[n].is # "absent"
Faults == Ends("fault", tty) /\ UNCHANGED <<cpu, files, began>>

After(step) == CASE step = "load" /\ biosfile # NoName -> "bios"
                 [] step # "cli" /\ climode            -> "cli"
                 [] OTHER                              -> "exec"
Mode(place) == IF place = "cli" THEN "own" ELSE "raw"
Goto(place) == at' = place /\ tty' = Mode(place) /\ UNCHANGED status

Marked(r) == [d \in Disk |-> IF d = 0 THEN 99 ELSE IF d = 17 THEN 35
                             ELSE IF d = 33 THEN 247 ELSE r[d]]

Load ==
  /\ at = "load"
  /\ \/ ~Readable(filename) /\ Fails
     \/ Readable(filename) /\ driveboot /\ filename \notin Signed /\ Faults
     \/ /\ Readable(filename) /\ driveboot => filename \in Signed
        /\ Readable(filename)
        /\ mem' \in Images
        /\ rom' = IF driveboot THEN files[filename].rom ELSE Marked(Blank)
        /\ began' = rom'
        /\ Goto(After("load"))
        /\ UNCHANGED <<reg, PS, PC, run, lc_errno, files>>
  /\ UNCHANGED <<argv, argp, opts>>

LoadBios ==
  /\ at = "bios"
  /\ \/ ~Readable(biosfile) /\ Fails
     \/ Readable(biosfile) /\ biosfile \notin Signed /\ Faults
     \/ /\ Readable(biosfile) /\ biosfile \in Signed
        /\ mem' \in Images
        /\ Goto(After("bios"))
        /\ UNCHANGED <<reg, PS, PC, rom, run, lc_errno, files, began>>
  /\ UNCHANGED <<argv, argp, opts>>

\* The commands of the debugger: leave, run, and write a byte.
Debug ==
  /\ at = "cli"
  /\ \/ Ends("quit", "own") /\ UNCHANGED <<cpu, files, began>>
     \/ Goto("exec") /\ UNCHANGED <<cpu, files, began>>
     \/ Scribble(Poked)
        /\ UNCHANGED <<reg, PS, PC, rom, run, lc_errno, at, tty, status, files, began>>
  /\ UNCHANGED <<argv, argp, opts>>

-----------------------------------------------------------------------------
(* Running.  A trap and the interrupt that ends a program hand the         *)
(* terminal back before anything else.                                     *)
Tamed(i) == i.op = "HLT1" \/ Calls(i, {INT_EXIT})

Execute == \E i \in ISA :
  /\ at = "exec" /\ Step(i)
  /\ tty' = IF Tamed(i) THEN "tame" ELSE tty
  /\ UNCHANGED <<argv, argp, opts, at, files, status, began>>

\* The debugger of a trap leaves by exit(0).
\* Wrong on purpose: the file is opened for the disk, which is then not written.
Quit_truncating ==
  /\ at = "exec" /\ run = "exited"
  /\ Ends("quit", tty)
  /\ files' = IF driveboot THEN [files EXCEPT ![filename] = File("short", Blank)] ELSE files
  /\ UNCHANGED <<cpu, argv, argp, opts, began>>

Quit ==
  /\ at = "exec" /\ run = "exited"
  /\ Ends("quit", tty)
  /\ UNCHANGED <<cpu, argv, argp, opts, files, began>>

Crash ==
  /\ at = "exec" /\ run = "fault"
  /\ Ends("fault", tty)
  /\ UNCHANGED <<cpu, argv, argp, opts, files, began>>

\* Wrong on purpose: the disk is saved only when the program succeeded.
Stop_saving_success ==
  /\ at = "exec" /\ run = "stopped"
  /\ tty' = "own"
  /\ IF driveboot /\ lc_errno = 0
     THEN at' = "save" /\ UNCHANGED status
     ELSE at' = "done" /\ status' = "returned"
  /\ UNCHANGED <<cpu, argv, argp, opts, files, began>>

Stop ==
  /\ at = "exec" /\ run = "stopped"
  /\ tty' = "own"
  /\ IF driveboot THEN at' = "save" /\ UNCHANGED status
                  ELSE at' = "done" /\ status' = "returned"
  /\ UNCHANGED <<cpu, argv, argp, opts, files, began>>

\* The changed disk goes to the second argument, whatever that was.
Save ==
  /\ at = "save"
  /\ \/ Ends("failed", tty) /\ UNCHANGED files
     \/ /\ files' = [files EXCEPT ![Arg(2)] = File("short", Blank)]
        /\ at' = "saving" /\ UNCHANGED <<tty, status>>
  /\ UNCHANGED <<cpu, argv, argp, opts, began>>

\* A write that ends early is not noticed.
WriteDisk ==
  /\ at = "saving"
  /\ \/ files' = [files EXCEPT ![Arg(2)] = File("whole", rom)]
     \/ UNCHANGED files
  /\ Ends("returned", tty)
  /\ UNCHANGED <<cpu, argv, argp, opts, began>>

\* Control-C, where the terminal makes a signal of it.
Interrupt ==
  /\ at \in {"cli", "exec", "save", "saving"} /\ tty # "raw"
  /\ Ends("killed", tty)
  /\ UNCHANGED <<cpu, argv, argp, opts, files, began>>

-----------------------------------------------------------------------------
MachineInit ==
  /\ Init
  /\ argv \in Args /\ argp = 1
  /\ driveboot = FALSE /\ climode = FALSE /\ filename = NoName /\ biosfile = NoName
  /\ at = "args" /\ tty = "raw" /\ files = Given /\ status = "none"
  /\ began = Blank

MachineNext ==
  \/ NoArguments \/ Help \/ ParseOption \/ ParseFile \/ Load \/ LoadBios \/ Debug
  \/ Execute \/ Quit \/ Crash \/ Stop \/ Save \/ WriteDisk \/ Interrupt

MachineSpec == MachineInit /\ [][MachineNext]_mvars

-----------------------------------------------------------------------------
MachineTypeOK ==
  /\ TypeOK
  /\ argv \in Args /\ argp \in 1 .. Len(argv) + 2
  /\ driveboot \in BOOLEAN /\ climode \in BOOLEAN
  /\ filename \in Names \union {NoName} /\ biosfile \in Names \union Options \union {NoName}
  /\ at \in {"args", "load", "bios", "cli", "exec", "save", "saving", "done"}
  /\ tty \in {"own", "raw", "tame"}
  /\ files \in [Names \union Options -> [is : {"absent", "short", "whole"},
                                         rom : [Disk -> Byte]]]
  /\ status \in {"none", "failed", "quit", "returned", "fault", "killed"}
  /\ began \in [Disk -> Byte]

\* However the emulator ends, short of a fault of the host, it leaves a
\* terminal that echoes and edits lines: after a command line it refuses, a
\* file it cannot read, the debugger, a trap, the end of the program (old_st,
\* old_st_legacy and the tcsetattr of main()).
TerminalRestored == at = "done" /\ status # "fault" => tty # "raw"

\* With the one option "disk", the file holds after a run either what was
\* loaded or the disk as the program left it: half a disk only when writing it
\* was interrupted or ended early, and no other file is touched.
DiskAllOrNothing ==
  (at = "done" /\ Len(argv) = 2 /\ driveboot) =>
    /\ \A n \in DOMAIN files \ {filename} : files[n] = Given[n]
    /\ filename # NoName => \/ files[filename] = Given[filename]
                            \/ files[filename] = File("whole", rom)
                            \/ files[filename].is = "short" /\ status \in {"killed", "returned"}

\* With the one option "disk", the disk a program changed is in its file when
\* main() returns, whatever its exit status, unless writing it ended early.
DiskSaved ==
  (at = "done" /\ status = "returned" /\ Len(argv) = 2 /\ driveboot) =>
    files[filename] \in {File("whole", rom), File("short", Blank)}

\* "Save the modified disk back" (cpu.c:164): the disk a program changed is in
\* the file it was loaded from when main() returns.
SavesTheDisk ==
  (at = "done" /\ status = "returned" /\ driveboot /\ rom # began) =>
    files[filename].rom # began
=============================================================================
