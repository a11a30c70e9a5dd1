------------------------------ MODULE FileStore ------------------------------
(***************************************************************************)
(* What a GovnFS disk promises to the one who reads it by path: a file     *)
(* that can be read is never replaced, changed or lost, short of a format. *)
(* A path is filled once, with whatever was written there first.           *)
(***************************************************************************)
EXTENDS Naturals, Sequences

CONSTANTS Places,    \* a directory path and the name a file is sought by
          Files      \* what reading a path may answer

VARIABLE store       \* the answer at each place

Absent == [is |-> "absent", blocks |-> << >>]

Format == store' = [p \in Places |-> Absent]

\* Complete, cut off by a crash, or with nothing in it to be read.
Filled(old, new) == old = Absent /\ new \in Files

\* The one way a file changes: the last word of one block is overwritten when
\* a file without a byte is written.
Blotted(old, new) == \E k \in DOMAIN old.blocks :
                       new = [old EXCEPT !.blocks[k].blotted = TRUE]

\* A command fills one place, and blots one file, at most.
Command == \E old \in {store}, new \in {store'} :
  /\ {old, new} \subseteq [Places -> Files \cup {Absent}]
  /\ \E changed \in {{p \in Places : new[p] # old[p]}} :
       /\ \A p \in changed : Filled(old[p], new[p]) \/ Blotted(old[p], new[p])
       /\ \A p, q \in changed : p # q => (Filled(old[p], new[p]) <=> Blotted(old[q], new[q]))

Next == Format \/ Command
Spec == [][Next]_store
=============================================================================
