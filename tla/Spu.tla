--------------------------------- MODULE Spu ----------------------------------
(***************************************************************************)
(* The sound unit: lib/cpu24/spu.h.  Two threads share the registers of    *)
(* the channels and take no lock.  The processor thread starts a note      *)
(* (GAsnd, from INT_BEEP): it writes the registers of a channel one after  *)
(* the other.  The audio thread calls GAgen, which mixes chunks of samples *)
(* by running GAchangen on each channel in turn.  The stores of GAsnd may  *)
(* fall between any two samples, between the last comparison and the       *)
(* "freq = 0" it leads to, and between the load and the store of the final *)
(* "pos += len".  A sample's four comparisons are one step: in whatever    *)
(* order GAsnd stores around them, they find the envelope over only if     *)
(* they would have at one instant, because both threads go through a, d,   *)
(* s, r in that order and GAsnd stores a <= d <= s <= r.                   *)
(*                                                                         *)
(* The samples themselves, and period, which only shifts their phase, are  *)
(* left out.                                                               *)
(***************************************************************************)
EXTENDS Integers, TLAPS

CONSTANTS
  SPU_CHAN,   \* the number of channels, 4
  TACT,       \* samples per unit of an envelope, 64
  MaxUnits,   \* the largest byte of an envelope, 255
  Chunk,      \* the longest chunk, 128 samples
  Freqs,      \* bound: the frequencies of notes, 0 .. 65535
  Volumes     \* bound: the volume bytes of notes, 0 .. 255

U8  == 0 .. 2^8 - 1
U16 == 0 .. 2^16 - 1
Stored(x) == x % 65536    \* what a U16 keeps of x

ASSUME SizesAssumption == /\ SPU_CHAN \in Nat \ {0} /\ Chunk \in Nat \ {0}
                          /\ TACT \in Nat /\ MaxUnits \in U8
                          /\ Freqs \subseteq U16 /\ Volumes \subseteq U8
\* The longest envelope fits its registers: 48960 samples in the code.
ASSUME LengthAssumption == 3 * (MaxUnits * TACT) <= 65535

VARIABLES
  freq, pos, a, d, s, r, volume,   \* the registers, by channel
  at, note,                        \* GAsnd: the next store, and its arguments
  cb, ch, len, p, i, tmp           \* GAgen and GAchangen: the next step and
                                   \* the locals

regs == <<freq, pos, a, d, s, r, volume>>
cpu  == <<at, note>>
gen  == <<cb, ch, len, p, i, tmp>>
vars == <<regs, cpu, gen>>

Chan == 0 .. SPU_CHAN - 1
Units == 0 .. MaxUnits

\* A decay, a sustain and a release: reg24 leaves the attack no bits.
MaxLength == 3 * (MaxUnits * TACT)

\* Wrong on purpose: any high half names a channel.
Channel_unchecked(v) == v \div 16
\* GAsnd: the high half of the volume byte names the channel.
Channel(v) == IF v \div 16 < SPU_CHAN THEN v \div 16 ELSE 0
Notes == [chan : Chan, freq : Freqs, dec : Units, sus : Units, rel : Units,
          low : 0 .. 15]

\* adsr >= 0x100 says that a decay or a release was given.
Loudness(n) == IF n.dec > 0 \/ n.rel > 0 THEN n.low ELSE 2 * n.low

-----------------------------------------------------------------------------
(* The processor thread: GAsnd, one store at a time. *)

StoreFreq ==
  /\ at = "freq"
  /\ \E v \in Volumes, f \in Freqs, x, y, z \in Units :
       note' = [chan |-> Channel(v), freq |-> f, dec |-> x, sus |-> y,
                rel |-> z, low |-> v % 16]
  /\ freq' = [freq EXCEPT ![note'.chan] = note'.freq]
  /\ at' = "pos"
  /\ UNCHANGED <<pos, a, d, s, r, volume, gen>>

StorePos ==
  /\ at = "pos"
  /\ pos' = [pos EXCEPT ![note.chan] = 0]
  /\ at' = "a"
  /\ UNCHANGED <<freq, a, d, s, r, volume, note, gen>>

\* adsr >> 24 of a 24-bit register is 0.
StoreA ==
  /\ at = "a"
  /\ a' = [a EXCEPT ![note.chan] = 0]
  /\ at' = "d"
  /\ UNCHANGED <<freq, pos, d, s, r, volume, note, gen>>

StoreD ==
  /\ at = "d"
  /\ d' = [d EXCEPT ![note.chan] = Stored(a[note.chan] + note.dec * TACT)]
  /\ at' = "s"
  /\ UNCHANGED <<freq, pos, a, s, r, volume, note, gen>>

StoreS ==
  /\ at = "s"
  /\ s' = [s EXCEPT ![note.chan] = Stored(d[note.chan] + note.sus * TACT)]
  /\ at' = "r"
  /\ UNCHANGED <<freq, pos, a, d, r, volume, note, gen>>

StoreR ==
  /\ at = "r"
  /\ r' = [r EXCEPT ![note.chan] = Stored(s[note.chan] + note.rel * TACT)]
  /\ at' = "volume"
  /\ UNCHANGED <<freq, pos, a, d, s, volume, note, gen>>

StoreVolume ==
  /\ at = "volume"
  /\ volume' = [volume EXCEPT ![note.chan] = Loudness(note)]
  /\ at' = "freq"
  /\ UNCHANGED <<freq, pos, a, d, s, r, note, gen>>

GAsnd == \/ StoreFreq \/ StorePos \/ StoreA \/ StoreD \/ StoreS \/ StoreR
         \/ StoreVolume

-----------------------------------------------------------------------------
(* The audio thread: GAgen's loop over chunks and channels. *)

\* A chunk has at most 128 samples, fewer when fewer are needed.
NextChunk ==
  /\ cb = "idle"
  /\ len' \in 1 .. Chunk
  /\ ch' = 0
  /\ cb' = "enter"
  /\ UNCHANGED <<regs, cpu, p, i, tmp>>

Leave == IF ch + 1 \in Chan THEN cb' = "enter" /\ ch' = ch + 1
                            ELSE cb' = "idle" /\ ch' = ch

Enter ==
  /\ cb = "enter"
  /\ \/ freq[ch] = 0 /\ Leave
     \/ freq[ch] # 0 /\ cb' = "fetch" /\ ch' = ch
  /\ UNCHANGED <<regs, cpu, len, p, i, tmp>>

FetchPos ==
  /\ cb = "fetch"
  /\ p' = pos[ch]
  /\ i' = 0
  /\ cb' = "sample"
  /\ UNCHANGED <<regs, cpu, ch, len, tmp>>

\* Wrong on purpose: one sample too many.
Sounding_inclusive == p < a[ch] \/ p < d[ch] \/ p < s[ch] \/ p <= r[ch]
Sounding == p < a[ch] \/ p < d[ch] \/ p < s[ch] \/ p < r[ch]

Sample ==
  /\ cb = "sample" /\ i < len
  /\ Sounding
  /\ p' = p + 1
  /\ i' = i + 1
  /\ UNCHANGED <<regs, cpu, cb, ch, len, tmp>>

EndNote ==
  /\ cb = "sample" /\ i < len
  /\ ~Sounding
  /\ cb' = "ended"
  /\ UNCHANGED <<regs, cpu, ch, len, p, i, tmp>>

\* The channel is free again; pos keeps its value.
Silence ==
  /\ cb = "ended"
  /\ freq' = [freq EXCEPT ![ch] = 0]
  /\ Leave
  /\ UNCHANGED <<pos, a, d, s, r, volume, cpu, len, p, i, tmp>>

LoadPos ==
  /\ cb = "sample" /\ i = len
  /\ tmp' = pos[ch]
  /\ cb' = "advance"
  /\ UNCHANGED <<regs, cpu, ch, len, p, i>>

\* Wrong on purpose: pos does not advance.
AdvancePos_lost ==
  /\ cb = "advance"
  /\ pos' = [pos EXCEPT ![ch] = tmp]
  /\ Leave
  /\ UNCHANGED <<freq, a, d, s, r, volume, cpu, len, p, i, tmp>>

AdvancePos ==
  /\ cb = "advance"
  /\ pos' = [pos EXCEPT ![ch] = Stored(tmp + len)]
  /\ Leave
  /\ UNCHANGED <<freq, a, d, s, r, volume, cpu, len, p, i, tmp>>

GAgen == \/ NextChunk \/ Enter \/ FetchPos \/ Sample \/ EndNote \/ Silence
         \/ LoadPos \/ AdvancePos

-----------------------------------------------------------------------------
\* GAinit, in a machine whose memory is fresh from the system.
Init ==
  /\ freq = [c \in Chan |-> 0] /\ pos = freq /\ volume = freq
  /\ a = freq /\ d = freq /\ s = freq /\ r = freq
  /\ at = "freq"
  /\ note \in [chan : {0}, freq : {0}, dec : {0}, sus : {0}, rel : {0},
               low : {0}]
  /\ cb = "idle" /\ ch = 0 /\ len = 1 /\ p = 0 /\ i = 0 /\ tmp = 0

Next == GAsnd \/ GAgen

\* The audio device asks for samples for ever, and a note that was begun is
\* written out: neither thread stops in the middle.
Fairness == WF_vars(GAgen) /\ WF_vars(at # "freq" /\ GAsnd)
Spec == Init /\ [][Next]_vars /\ Fairness

-----------------------------------------------------------------------------
(* Every register keeps its width, and the locals theirs.                  *)
TypeOK ==
  /\ freq \in [Chan -> U16] /\ pos \in [Chan -> U16]
  /\ a \in [Chan -> U16] /\ d \in [Chan -> U16]
  /\ s \in [Chan -> U16] /\ r \in [Chan -> U16]
  /\ volume \in [Chan -> 0 .. 30]
  /\ at \in {"freq", "pos", "a", "d", "s", "r", "volume"}
  /\ note.chan \in Chan /\ note.freq \in U16 /\ note.low \in 0 .. 15
  /\ note.dec \in Units /\ note.sus \in Units /\ note.rel \in Units
  /\ cb \in {"idle", "enter", "fetch", "sample", "ended", "advance"}
  /\ ch \in Chan /\ len \in 1 .. Chunk /\ p \in Nat /\ i \in Nat /\ tmp \in Nat

(* "8kHz ... allows to fit 8 seconds (Max ADSR len) in U16": however the   *)
(* stores of a new note fall into a chunk that is being mixed, pos never   *)
(* passes the longest envelope, so "pos += len" never wraps.               *)
PosFits == /\ \A c \in Chan : pos[c] <= MaxLength
           /\ cb = "advance" => tmp + len <= MaxLength

(* "U16 r; // A+D+S+R, length": a note ends when its own envelope does,    *)
(* never while its registers are still being written and never before the  *)
(* chunk that reaches its end.                                             *)
NoteEndsAtRelease ==
  [][\A c \in Chan : Silence /\ c = ch /\ freq[c] # 0
       => /\ at = "freq"
          /\ pos[c] + len > r[c]]_vars

(* When no more notes are started, every channel falls silent.             *)
FallsSilent == <>[](at = "freq") => <>[](\A c \in Chan : freq[c] = 0)

-----------------------------------------------------------------------------
(***************************************************************************)
(* Theorems, for any number of channels, any length of a chunk and any     *)
(* envelope that fits its registers: the registers keep their width and,   *)
(* however the two threads interleave, "pos += len" never passes the       *)
(* longest envelope.                                                       *)
(***************************************************************************)
Unit == MaxUnits * TACT    \* samples of the longest phase of an envelope

\* Each end of a phase is at most one longest phase after the one before.
Envelopes == \A c \in Chan : /\ a[c] = 0 /\ d[c] <= Unit
                             /\ s[c] <= 2 * Unit /\ r[c] <= 3 * Unit

\* What GAchangen knows while it mixes samples: it is i samples past a pos
\* it fetched, which can only have been set back since, and the last sample
\* it mixed lay within an envelope.
Mixing == cb = "sample" => /\ i <= len /\ pos[ch] + i <= p
                           /\ i > 0 => p <= MaxLength

IInv == TypeOK /\ Envelopes /\ Mixing /\ PosFits

-----------------------------------------------------------------------------
(* The C types, by their bounds.                                           *)
LEMMA Widths ==
  /\ \A x : x \in U8 <=> x \in Nat /\ x <= 255
  /\ \A x : x \in U16 <=> x \in Nat /\ x <= 65535
<1>1. 2^8 = 256 /\ 2^16 = 65536
  OBVIOUS
<1> QED
  BY <1>1 DEF U8, U16

(* A value that fits a U16 is stored as it is.                             *)
LEMMA Fits == \A x \in Nat : x <= 65535 => Stored(x) = x
BY DEF Stored

(* The assumption on the constants, by their bounds.                       *)
LEMMA Sizes ==
  /\ SPU_CHAN \in Nat \ {0} /\ Chunk \in Nat \ {0}
  /\ TACT \in Nat /\ MaxUnits \in Nat
  /\ \A f \in Freqs : f \in U16
  /\ \A v \in Volumes : v \in Nat
BY SizesAssumption, Widths

(* A byte of an envelope stands for at most the longest phase.             *)
LEMMA UnitBound ==
  /\ Unit \in Nat /\ 3 * Unit <= 65535 /\ MaxLength = 3 * Unit
  /\ \A x \in Units : x * TACT \in Nat /\ x * TACT <= Unit
<1>1. Unit \in Nat
  BY Sizes DEF Unit
<1>2. 3 * Unit <= 65535 /\ MaxLength = 3 * Unit
  BY LengthAssumption DEF Unit, MaxLength
<1>3. ASSUME NEW x \in Units PROVE x * TACT \in Nat /\ x * TACT <= Unit
  <2>1. x \in Nat /\ MaxUnits - x \in Nat
    BY Sizes DEF Units
  <2>2. x * TACT \in Nat /\ (MaxUnits - x) * TACT \in Nat
    BY <2>1, Sizes
  <2>3. Unit = x * TACT + (MaxUnits - x) * TACT
    BY <2>1, Sizes DEF Unit
  <2> QED
    BY <2>2, <2>3, <1>1
<1> QED
  BY <1>1, <1>2, <1>3

(* GAsnd always writes to one of the channels there are.                   *)
LEMMA ChannelType == \A v \in Volumes : Channel(v) \in Chan
<1>1. ASSUME NEW v \in Volumes PROVE v \div 16 \in Nat
  BY Sizes
<1> QED
  BY <1>1, Sizes DEF Channel, Chan

(* The initial state satisfies the invariant.                              *)
LEMMA InitIInv == Init => IInv
<1> SUFFICES ASSUME Init PROVE IInv
  OBVIOUS
<1>1. 0 \in Chan /\ 0 \in Units /\ 0 \in U16
  BY Sizes, Widths DEF Chan, Units
<1>2. TypeOK
  BY <1>1, Sizes, SMT DEF Init, TypeOK
<1>3. Envelopes /\ Mixing /\ PosFits
  BY <1>1, UnitBound DEF Init, Envelopes, Mixing, PosFits
<1> QED
  BY <1>2, <1>3 DEF IInv
-----------------------------------------------------------------------------
(* Every step of GAsnd keeps the invariant.                                *)
LEMMA GAsndIInv == IInv /\ GAsnd => IInv'
<1> SUFFICES ASSUME IInv, GAsnd PROVE IInv'
  OBVIOUS
<1> USE DEF IInv, Mixing, PosFits, cpu, gen
<1>1. CASE StoreFreq
  <2>1. PICK v \in Volumes, f \in Freqs, x \in Units, y \in Units, z \in Units :
          note' = [chan |-> Channel(v), freq |-> f, dec |-> x, sus |-> y,
                   rel |-> z, low |-> v % 16]
    BY <1>1 DEF StoreFreq
  <2>2. Channel(v) \in Chan /\ f \in U16 /\ v % 16 \in 0 .. 15
    BY ChannelType, Sizes
  <2>3. TypeOK'
    BY <1>1, <2>1, <2>2 DEF StoreFreq, TypeOK
  <2> QED
    BY <1>1, <2>3 DEF StoreFreq, Envelopes
<1>2. CASE StorePos
  <2>1. TypeOK'
    BY <1>2, Widths DEF StorePos, TypeOK
  <2>2. \A c \in Chan : pos'[c] \in Nat /\ pos[c] \in Nat /\ pos'[c] <= pos[c]
    BY <1>2, Widths DEF StorePos, TypeOK
  <2> QED
    BY <1>2, <2>1, <2>2, UnitBound DEF StorePos, TypeOK, Envelopes
<1>3. CASE StoreA
  <2>1. TypeOK'
    BY <1>3, Widths DEF StoreA, TypeOK
  <2> QED
    BY <1>3, <2>1 DEF StoreA, TypeOK, Envelopes
<1>4. CASE StoreD
  <2>1. /\ note.chan \in Chan /\ a[note.chan] = 0
        /\ note.dec * TACT \in Nat /\ note.dec * TACT <= Unit
    BY <1>4, UnitBound DEF TypeOK, Envelopes
  <2>2. d' = [d EXCEPT ![note.chan] = note.dec * TACT]
    <3>1. Stored(a[note.chan] + note.dec * TACT) = note.dec * TACT
      BY <2>1, UnitBound, Fits
    <3> QED
      BY <1>4, <3>1, Zenon DEF StoreD
  <2>3. TypeOK'
    BY <1>4, <2>1, <2>2, UnitBound, Widths DEF StoreD, TypeOK
  <2> QED
    BY <1>4, <2>1, <2>2, <2>3 DEF StoreD, TypeOK, Envelopes
<1>5. CASE StoreS
  <2>1. /\ note.chan \in Chan /\ d[note.chan] \in Nat /\ d[note.chan] <= Unit
        /\ note.sus * TACT \in Nat /\ note.sus * TACT <= Unit
    BY <1>5, UnitBound, Widths DEF TypeOK, Envelopes
  <2>2. s' = [s EXCEPT ![note.chan] = d[note.chan] + note.sus * TACT]
    <3>1. Stored(d[note.chan] + note.sus * TACT)
            = d[note.chan] + note.sus * TACT
      BY <2>1, UnitBound, Fits
    <3> QED
      BY <1>5, <3>1, Zenon DEF StoreS
  <2>3. TypeOK'
    BY <1>5, <2>1, <2>2, UnitBound, Widths DEF StoreS, TypeOK
  <2> QED
    BY <1>5, <2>1, <2>2, <2>3, UnitBound DEF StoreS, TypeOK, Envelopes
<1>6. CASE StoreR
  <2>1. /\ note.chan \in Chan /\ s[note.chan] \in Nat
        /\ s[note.chan] <= 2 * Unit
        /\ note.rel * TACT \in Nat /\ note.rel * TACT <= Unit
    BY <1>6, UnitBound, Widths DEF TypeOK, Envelopes
  <2>2. r' = [r EXCEPT ![note.chan] = s[note.chan] + note.rel * TACT]
    <3>1. Stored(s[note.chan] + note.rel * TACT)
            = s[note.chan] + note.rel * TACT
      BY <2>1, UnitBound, Fits
    <3> QED
      BY <1>6, <3>1, Zenon DEF StoreR
  <2>3. TypeOK'
    BY <1>6, <2>1, <2>2, UnitBound, Widths DEF StoreR, TypeOK
  <2> QED
    BY <1>6, <2>1, <2>2, <2>3, UnitBound DEF StoreR, TypeOK, Envelopes
<1>7. CASE StoreVolume
  <2>1. Loudness(note) \in 0 .. 30
    BY DEF TypeOK, Loudness
  <2>2. TypeOK'
    BY <1>7, <2>1 DEF StoreVolume, TypeOK
  <2> QED
    BY <1>7, <2>2 DEF StoreVolume, Envelopes
<1> QED
  BY <1>1, <1>2, <1>3, <1>4, <1>5, <1>6, <1>7 DEF GAsnd

(* After a channel GAgen goes on to the next one or ends the chunk.        *)
LEMMA LeaveType == ch \in Chan /\ Leave => ch' \in Chan /\ cb' \in {"enter", "idle"}
BY DEF Leave

(* Every step of GAgen keeps the invariant.                                *)
LEMMA GAgenIInv == IInv /\ GAgen => IInv'
<1> SUFFICES ASSUME IInv, GAgen PROVE IInv'
  OBVIOUS
<1> USE DEF IInv, regs, cpu
<1>1. CASE NextChunk
  <2>1. 0 \in Chan
    BY Sizes DEF Chan
  <2> QED
    BY <1>1, <2>1 DEF NextChunk, TypeOK, Envelopes, Mixing, PosFits
<1>2. CASE Enter
  BY <1>2, LeaveType DEF Enter, TypeOK, Envelopes, Mixing, PosFits
<1>3. CASE FetchPos
  <2>1. ch \in Chan /\ pos[ch] \in Nat /\ len \in Nat
    BY <1>3, Widths, Sizes DEF TypeOK
  <2> QED
    BY <1>3, <2>1 DEF FetchPos, TypeOK, Envelopes, Mixing, PosFits
<1>4. CASE Sample
  <2>1. ch \in Chan /\ pos[ch] \in Nat /\ len \in Nat
    BY <1>4, Widths, Sizes DEF TypeOK
  <2>2. p < MaxLength
    <3>1. a[ch] \in Nat /\ d[ch] \in Nat /\ s[ch] \in Nat /\ r[ch] \in Nat
      BY <2>1, Widths DEF TypeOK
    <3> QED
      BY <1>4, <2>1, <3>1, UnitBound DEF Sample, Sounding, Envelopes, TypeOK
  <2>3. TypeOK'
    BY <1>4 DEF Sample, TypeOK
  <2> QED
    BY <1>4, <2>1, <2>2, <2>3, UnitBound
    DEF Sample, TypeOK, Envelopes, Mixing, PosFits
<1>5. CASE EndNote
  BY <1>5 DEF EndNote, TypeOK, Envelopes, Mixing, PosFits
<1>6. CASE Silence
  <2>1. 0 \in U16
    BY Widths
  <2> QED
    BY <1>6, <2>1, LeaveType
    DEF Silence, TypeOK, Envelopes, Mixing, PosFits
<1>7. CASE LoadPos
  <2>1. ch \in Chan /\ pos[ch] \in Nat /\ len \in Nat \ {0}
    BY <1>7, Widths, Sizes DEF TypeOK
  <2>2. pos[ch] + len <= MaxLength
    BY <1>7, <2>1, UnitBound DEF LoadPos, Mixing, TypeOK
  <2> QED
    BY <1>7, <2>1, <2>2 DEF LoadPos, TypeOK, Envelopes, Mixing, PosFits
<1>8. CASE AdvancePos
  <2>1. len \in Nat \ {0} /\ tmp \in Nat /\ tmp + len <= MaxLength
    BY <1>8, Sizes DEF AdvancePos, TypeOK, PosFits
  <2>2. Stored(tmp + len) = tmp + len /\ tmp + len \in U16
    BY <2>1, UnitBound, Fits, Widths
  <2>3. pos' = [pos EXCEPT ![ch] = tmp + len]
    BY <1>8, <2>2 DEF AdvancePos
  <2> QED
    BY <1>8, <2>1, <2>2, <2>3, LeaveType
    DEF AdvancePos, TypeOK, Envelopes, Mixing, PosFits
<1> QED
  BY <1>1, <1>2, <1>3, <1>4, <1>5, <1>6, <1>7, <1>8 DEF GAgen

-----------------------------------------------------------------------------
(* IInv is inductive, so it holds in every behaviour.                      *)
LEMMA Invariance == Spec => []IInv
<1>1. IInv /\ UNCHANGED vars => IInv'
  BY DEF IInv, TypeOK, Envelopes, Mixing, PosFits, vars, regs, cpu, gen
<1>2. IInv /\ [Next]_vars => IInv'
  BY <1>1, GAsndIInv, GAgenIInv DEF Next
<1> QED
  BY InitIInv, <1>2, PTL DEF Spec

(* The registers of the sound unit and the locals of both threads keep     *)
(* their types for every size of the unit.                                 *)
THEOREM SpuTypes == Spec => []TypeOK
<1>1. IInv => TypeOK
  BY DEF IInv
<1> QED
  BY <1>1, Invariance, PTL

(* "8kHz ... allows to fit 8 seconds (Max ADSR len) in U16": whatever the  *)
(* interleaving of GAsnd with GAchangen, pos stays within the longest      *)
(* envelope and "pos += len" does not wrap.                                *)
THEOREM EnvelopeFits == Spec => []PosFits
<1>1. IInv => PosFits
  BY DEF IInv
<1> QED
  BY <1>1, Invariance, PTL
=============================================================================
