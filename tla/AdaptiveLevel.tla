---------------------------- MODULE AdaptiveLevel ----------------------------
(***************************************************************************)
(* The compression controller (rust/src/compress.rs, AdaptiveState) and    *)
(* the streams that share it (rust/src/server.rs, send_chunk_adaptive).    *)
(* A stream takes the lock twice for a block: to choose raw or a level,    *)
(* and to report how the block fared.  It compresses and writes in between *)
(* with the lock released, so other streams move the level or enter and    *)
(* leave raw mode meanwhile.                                               *)
(*                                                                         *)
(* Rates are tenths: spare is how many times faster compression was than   *)
(* the link over a window, and the clocks that give it are left out.       *)
(***************************************************************************)
EXTENDS Integers, FiniteSets

CONSTANTS
    Stream,
    LevelMin, LevelMax, LevelStart,
    RawReprobe,   \* RAW_REPROBE, 64 in the code
    Streak,       \* INCOMPRESSIBLE_STREAK
    WindowBytes,  \* WINDOW_BYTES
    Margin,       \* margin after new() clamped it
    Spares,       \* spares a window may show
    WireSizes     \* what a compressed block may come to

ASSUME AdaptiveAssumption ==
    /\ IsFiniteSet(Stream)
    /\ LevelMin \in Int /\ LevelMax \in Int /\ LevelStart \in Int
    /\ LevelMin < 0 /\ LevelMax > 0
    /\ LevelMin <= LevelStart /\ LevelStart <= LevelMax /\ LevelStart # 0
    /\ RawReprobe \in Nat \ {0} /\ Streak \in Nat \ {0} /\ WindowBytes \in Nat \ {0}
    /\ Margin \in 10..160
    /\ Spares \subseteq Nat
    /\ WireSizes \subseteq Nat \ {0}

VARIABLES
    level, preferRaw, rawSince, incompressibleRun,
    winWire,  \* bytes reported in the window; no window is full between reports
    zipping,  \* streams compressing or writing a block, with the level they read
    rawRow    \* history: blocks sent raw by the mode since one was last compressed

controlVars == <<level, preferRaw, rawSince, incompressibleRun, winWire>>
avars == <<controlVars, zipping, rawRow>>

Levels == (LevelMin..LevelMax) \ {0}

Raise == Margin + 4

Busy == {z[1] : z \in zipping}

Lower(a, b) == IF a < b THEN a ELSE b
Upper(a, b) == IF a > b THEN a ELSE b

\* Variant: the level may rest on zstd's default.
PlainLevel(l) == l

Nonzero(l) == IF l = 0 THEN -1 ELSE l

AdaptiveInit ==
    /\ level = LevelStart
    /\ preferRaw = FALSE /\ rawSince = 0 /\ incompressibleRun = 0
    /\ winWire = 0
    /\ zipping = {}
    /\ rawRow = 0

------------------------------------------------------------------------------

Climb(spare) == IF spare >= 120 THEN 4 ELSE IF spare >= 60 THEN 3 ELSE 2

Fall(spare) == IF spare < 5 THEN 3 ELSE IF spare < 10 THEN 2 ELSE 1

\* apply_spare: climb where there is room, fall where the margin is not kept.
NewLevel(spare) ==
    IF spare >= Raise /\ level < LevelMax
    THEN Nonzero(Lower(level + Climb(spare), LevelMax))
    ELSE IF spare < Margin /\ level > LevelMin
    THEN Nonzero(Upper(level - Fall(spare), LevelMin))
    ELSE level

\* Variant: the re-probe count off by one.
RawBlockOneMore(s) ==
    /\ s \in Stream \ Busy
    /\ preferRaw
    /\ IF rawSince >= RawReprobe
       THEN preferRaw' = FALSE /\ rawSince' = 0 /\ winWire' = 0
       ELSE rawSince' = rawSince + 1 /\ UNCHANGED <<preferRaw, winWire>>
    /\ rawRow' = rawRow + 1
    /\ UNCHANGED <<level, incompressibleRun, zipping>>

\* want_raw in raw mode: the block goes raw; every RawReprobe-th leaves the mode.
RawBlock(s) ==
    /\ s \in Stream \ Busy
    /\ preferRaw
    /\ IF rawSince + 1 >= RawReprobe
       THEN preferRaw' = FALSE /\ rawSince' = 0 /\ winWire' = 0
       ELSE rawSince' = rawSince + 1 /\ UNCHANGED <<preferRaw, winWire>>
    /\ rawRow' = rawRow + 1
    /\ UNCHANGED <<level, incompressibleRun, zipping>>

\* want_raw out of raw mode: compress at the level of this moment.
StartBlock(s) ==
    /\ s \in Stream \ Busy
    /\ ~preferRaw
    /\ zipping' = zipping \union {<<s, Nonzero(level)>>}
    /\ rawRow' = 0
    /\ UNCHANGED controlVars

Reported(s) == zipping' = {z \in zipping : z[1] # s}

\* note_compressed: a full window re-picks the level; the floor that is still
\* slower than the link goes raw.
NoteCompressed(s, wire, spare) ==
    /\ s \in Busy
    /\ incompressibleRun' = 0
    /\ IF winWire + wire < WindowBytes
       THEN winWire' = winWire + wire /\ UNCHANGED <<level, preferRaw, rawSince>>
       ELSE /\ winWire' = 0
            /\ level' = NewLevel(spare)
            /\ IF level' <= LevelMin /\ spare < 10
               THEN preferRaw' = TRUE /\ rawSince' = 0
               ELSE UNCHANGED <<preferRaw, rawSince>>
    /\ Reported(s)
    /\ UNCHANGED rawRow

\* note_incompressible: the block went raw after all; a streak enters raw mode.
NoteIncompressible(s) ==
    /\ s \in Busy
    /\ IF incompressibleRun + 1 >= Streak
       THEN /\ preferRaw' = TRUE /\ rawSince' = 0
            /\ incompressibleRun' = 0 /\ winWire' = 0
       ELSE incompressibleRun' = incompressibleRun + 1 /\ UNCHANGED <<preferRaw, rawSince, winWire>>
    /\ Reported(s)
    /\ UNCHANGED <<level, rawRow>>

AdaptiveNext ==
    \E s \in Stream :
        \/ RawBlock(s) \/ StartBlock(s) \/ NoteIncompressible(s)
        \/ \E wire \in WireSizes, spare \in Spares : NoteCompressed(s, wire, spare)

AdaptiveSpec == AdaptiveInit /\ [][AdaptiveNext]_avars

------------------------------------------------------------------------------
(* Properties. *)

AdaptiveTypeOK ==
    /\ level \in Levels
    /\ preferRaw \in BOOLEAN
    /\ rawSince \in 0..(RawReprobe - 1)
    /\ incompressibleRun \in 0..(Streak - 1)
    /\ winWire \in 0..(WindowBytes - 1)
    /\ zipping \subseteq Stream \X Levels
    /\ rawRow \in Nat

\* Raw mode is always left again.  Reports of blocks that were under way when it
\* was entered may start its count afresh, each of them once: no more than
\* RawReprobe blocks per stream go raw before one is compressed.
RawRowBounded == rawRow <= RawReprobe * Cardinality(Stream)
==============================================================================
