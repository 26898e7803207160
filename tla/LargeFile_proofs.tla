-------------------------- MODULE LargeFile_proofs --------------------------
(***************************************************************************)
(* Proofs about the shared compression controller, the streams that drive  *)
(* it and the framing of the bodies they send, for every number of streams *)
(* and every level range, window, streak, re-probe count and length of a   *)
(* file.                                                                   *)
(***************************************************************************)
EXTENDS LargeFile, SequenceTheorems, FiniteSetTheorems, TLAPS

------------------------------------------------------------------------------
(* The controller.  AdaptiveTypeOK is inductive.  RawRowBounded is not: the  *)
(* count of raw blocks starts afresh whenever a report enters raw mode, so   *)
(* the strengthening pays for a fresh start with the stream that reported: a *)
(* stream between two blocks stands for RawReprobe raw blocks.               *)

Idle == Stream \ Busy

RawBudget ==
    /\ ~preferRaw => rawRow <= RawReprobe * Cardinality(Idle)
    /\ preferRaw => rawRow + RawReprobe <= RawReprobe * Cardinality(Idle) + rawSince

AdaptiveInv == AdaptiveTypeOK /\ RawBudget

------------------------------------------------------------------------------
(* Levels. *)

\* A step of the level stays in the range and passes over zstd's level 0.
LEMMA NewLevelInRange ==
    ASSUME level \in Levels, NEW spare \in Nat
    PROVE  NewLevel(spare) \in Levels
<1>1. level \in Int /\ LevelMin <= level /\ level <= LevelMax /\ level # 0
  BY AdaptiveAssumption DEF Levels
<1>2. Climb(spare) \in 2..4 /\ Fall(spare) \in 1..3
  BY DEF Climb, Fall
<1>3. Nonzero(Lower(level + Climb(spare), LevelMax)) \in Levels
  BY <1>1, <1>2, AdaptiveAssumption DEF Nonzero, Lower, Levels
<1>4. Nonzero(Upper(level - Fall(spare), LevelMin)) \in Levels
  BY <1>1, <1>2, AdaptiveAssumption DEF Nonzero, Upper, Levels
<1> QED BY <1>3, <1>4 DEF NewLevel

LEMMA Limits ==
    /\ RawReprobe \in Int /\ RawReprobe >= 1
    /\ Streak \in Int /\ Streak >= 1
    /\ WindowBytes \in Int /\ WindowBytes >= 1
  BY AdaptiveAssumption

LEMMA InitType == AdaptiveInit => AdaptiveTypeOK
<1> SUFFICES ASSUME AdaptiveInit PROVE AdaptiveTypeOK
  OBVIOUS
<1>1. level \in Levels
  BY AdaptiveAssumption DEF AdaptiveInit, Levels
<1>2. preferRaw \in BOOLEAN
  BY DEF AdaptiveInit
<1>3. /\ rawSince \in 0..(RawReprobe - 1)
      /\ incompressibleRun \in 0..(Streak - 1)
      /\ winWire \in 0..(WindowBytes - 1)
      /\ rawRow \in Nat
  BY Limits DEF AdaptiveInit
<1>4. zipping \subseteq Stream \X Levels
  BY DEF AdaptiveInit
<1> QED BY <1>1, <1>2, <1>3, <1>4 DEF AdaptiveTypeOK

LEMMA NextType == AdaptiveTypeOK /\ [AdaptiveNext]_avars => AdaptiveTypeOK'
<1> SUFFICES ASSUME AdaptiveTypeOK, [AdaptiveNext]_avars PROVE AdaptiveTypeOK'
  OBVIOUS
<1> USE AdaptiveAssumption
<1>1. ASSUME NEW s \in Stream, RawBlock(s) PROVE AdaptiveTypeOK'
  <2>1. preferRaw' \in BOOLEAN
    BY <1>1 DEF AdaptiveTypeOK, RawBlock
  <2>2. rawSince' \in 0..(RawReprobe - 1) /\ winWire' \in 0..(WindowBytes - 1)
    <3>1. CASE rawSince + 1 >= RawReprobe
      BY <1>1, <3>1, Limits DEF AdaptiveTypeOK, RawBlock
    <3>2. CASE ~(rawSince + 1 >= RawReprobe)
      <4>1. rawSince' = rawSince + 1 /\ winWire' = winWire
        BY <1>1, <3>2 DEF RawBlock
      <4>2. rawSince \in 0..(RawReprobe - 1) /\ winWire \in 0..(WindowBytes - 1)
        BY DEF AdaptiveTypeOK
      <4> QED BY <3>2, <4>1, <4>2, Limits
    <3> QED BY <3>1, <3>2
  <2>3. rawRow' \in Nat
    BY <1>1 DEF AdaptiveTypeOK, RawBlock
  <2> QED BY <1>1, <2>1, <2>2, <2>3 DEF AdaptiveTypeOK, RawBlock
<1>2. ASSUME NEW s \in Stream, StartBlock(s) PROVE AdaptiveTypeOK'
  <2>1. Nonzero(level) \in Levels
    BY DEF AdaptiveTypeOK, Nonzero, Levels
  <2>2. zipping' \subseteq Stream \X Levels
    BY <1>2, <2>1 DEF AdaptiveTypeOK, StartBlock
  <2> QED BY <1>2, <2>2 DEF AdaptiveTypeOK, StartBlock, controlVars
<1>3. ASSUME NEW s \in Stream, NoteIncompressible(s) PROVE AdaptiveTypeOK'
  <2>1. zipping' \subseteq Stream \X Levels
    BY <1>3 DEF AdaptiveTypeOK, NoteIncompressible, Reported
  <2>2. preferRaw' \in BOOLEAN
    BY <1>3 DEF AdaptiveTypeOK, NoteIncompressible
  <2>3. /\ rawSince' \in 0..(RawReprobe - 1)
        /\ incompressibleRun' \in 0..(Streak - 1)
        /\ winWire' \in 0..(WindowBytes - 1)
    BY <1>3, Limits DEF AdaptiveTypeOK, NoteIncompressible
  <2> QED BY <1>3, <2>1, <2>2, <2>3 DEF AdaptiveTypeOK, NoteIncompressible
<1>4. ASSUME NEW s \in Stream, NEW wire \in WireSizes, NEW spare \in Spares,
             NoteCompressed(s, wire, spare)
      PROVE  AdaptiveTypeOK'
  <2>1. zipping' \subseteq Stream \X Levels
    BY <1>4 DEF AdaptiveTypeOK, NoteCompressed, Reported
  <2>2. NewLevel(spare) \in Levels
    BY NewLevelInRange DEF AdaptiveTypeOK
  <2>3. level' \in Levels
    BY <1>4, <2>2 DEF AdaptiveTypeOK, NoteCompressed
  <2>4. winWire' \in 0..(WindowBytes - 1)
    <3>1. wire \in Nat
      OBVIOUS
    <3> QED BY <1>4, <3>1, Limits DEF AdaptiveTypeOK, NoteCompressed
  <2>5. preferRaw' \in BOOLEAN
    BY <1>4 DEF AdaptiveTypeOK, NoteCompressed
  <2>6. rawSince' \in 0..(RawReprobe - 1)
    BY <1>4, Limits DEF AdaptiveTypeOK, NoteCompressed
  <2>7. incompressibleRun' \in 0..(Streak - 1) /\ rawRow' \in Nat
    BY <1>4, Limits DEF AdaptiveTypeOK, NoteCompressed
  <2> QED BY <2>1, <2>3, <2>4, <2>5, <2>6, <2>7 DEF AdaptiveTypeOK
<1>5. CASE UNCHANGED avars
  BY <1>5 DEF AdaptiveTypeOK, avars, controlVars
<1> QED BY <1>1, <1>2, <1>3, <1>4, <1>5 DEF AdaptiveNext

\* The level never leaves the range and never rests on zstd's default, the
\* counters never pass their limits, and every block under way was compressed at
\* a level of the range (nonzero_level, apply_spare).
THEOREM AdaptiveType == AdaptiveSpec => []AdaptiveTypeOK
  BY InitType, NextType, PTL DEF AdaptiveSpec

------------------------------------------------------------------------------
(* The budget of raw blocks. *)

LEMMA IdleFinite == IsFiniteSet(Idle) /\ Cardinality(Idle) \in Nat
<1>1. IsFiniteSet(Idle)
  BY FS_Difference, AdaptiveAssumption DEF Idle
<1> QED BY <1>1, FS_CardinalityType

LEMMA OneMore ==
    ASSUME NEW r \in Nat, NEW k \in Nat
    PROVE  r * (k + 1) = r * k + r /\ r * k \in Nat
  OBVIOUS

LEMMA MoreIsMore ==
    ASSUME NEW r \in Nat, NEW k \in Nat, NEW m \in Nat, k <= m
    PROVE  r * k <= r * m
<1>1. PICK d \in Nat : m = k + d
  <2>1. m - k \in Nat /\ m = k + (m - k)
    OBVIOUS
  <2> QED BY <2>1
<1>2. r * m = r * k + r * d /\ r * d \in Nat
  BY <1>1
<1> QED BY <1>2

\* A report frees its stream.
LEMMA ReportFrees ==
    ASSUME NEW s \in Stream, s \in Busy, Reported(s)
    PROVE  Cardinality(Idle') = Cardinality(Idle) + 1
<1>1. Idle' = Idle \cup {s} /\ s \notin Idle
  BY DEF Idle, Busy, Reported
<1> QED BY <1>1, IdleFinite, FS_AddElement

LEMMA InitBudget == AdaptiveInit => RawBudget
<1> SUFFICES ASSUME AdaptiveInit PROVE RawBudget
  OBVIOUS
<1>1. RawReprobe * Cardinality(Idle) \in Nat
  BY IdleFinite, OneMore, AdaptiveAssumption
<1> QED BY <1>1 DEF AdaptiveInit, RawBudget

LEMMA NextBudget == AdaptiveInv /\ [AdaptiveNext]_avars => RawBudget'
<1> SUFFICES ASSUME AdaptiveInv, [AdaptiveNext]_avars PROVE RawBudget'
  OBVIOUS
<1> DEFINE F == Cardinality(Idle)
           Due == RawReprobe * F
<1>1. /\ RawReprobe \in Nat \ {0} /\ F \in Nat /\ Due \in Nat
      /\ RawReprobe * (F + 1) = Due + RawReprobe
  BY IdleFinite, OneMore, AdaptiveAssumption
<1>2. /\ preferRaw \in BOOLEAN /\ rawSince \in Nat /\ rawSince < RawReprobe
      /\ rawRow \in Nat
  BY AdaptiveAssumption DEF AdaptiveInv, AdaptiveTypeOK
<1>3. /\ ~preferRaw => rawRow <= Due
      /\ preferRaw => rawRow + RawReprobe <= Due + rawSince
  BY DEF AdaptiveInv, RawBudget
<1>4. ASSUME NEW s \in Stream, RawBlock(s) PROVE RawBudget'
  <2>1. RawReprobe * Cardinality(Idle') = Due
    BY <1>4 DEF RawBlock, Idle, Busy
  <2>2. rawRow' = rawRow + 1 /\ preferRaw /\ RawReprobe' = RawReprobe
    BY <1>4 DEF RawBlock
  <2>3. CASE rawSince + 1 >= RawReprobe
    <3>1. preferRaw' = FALSE
      BY <1>4, <2>3 DEF RawBlock
    <3>2. rawRow' <= Due
      BY <1>1, <1>2, <1>3, <2>2, <2>3
    <3> QED BY <2>1, <3>1, <3>2 DEF RawBudget
  <2>4. CASE ~(rawSince + 1 >= RawReprobe)
    <3>1. preferRaw' = preferRaw /\ rawSince' = rawSince + 1
      BY <1>4, <2>4 DEF RawBlock
    <3>2. rawRow' + RawReprobe <= Due + rawSince'
      BY <1>1, <1>2, <1>3, <2>2, <3>1
    <3> QED BY <2>1, <2>2, <3>1, <3>2 DEF RawBudget
  <2> QED BY <2>3, <2>4
<1>5. ASSUME NEW s \in Stream, StartBlock(s) PROVE RawBudget'
  <2>1. IsFiniteSet(Idle') /\ Cardinality(Idle') \in Nat
    <3>1. Idle' \subseteq Stream
      BY DEF Idle
    <3> QED BY <3>1, FS_Subset, FS_CardinalityType, AdaptiveAssumption
  <2>2. RawReprobe * Cardinality(Idle') \in Nat
    BY <1>1, <2>1, OneMore
  <2>3. preferRaw' = FALSE /\ rawRow' = 0
    BY <1>2, <1>5 DEF StartBlock, controlVars
  <2> QED BY <2>2, <2>3 DEF RawBudget
<1>6. ASSUME NEW s \in Stream, s \in Busy, Reported(s), rawRow' = rawRow,
             (preferRaw' = TRUE /\ rawSince' = 0) \/ UNCHANGED <<preferRaw, rawSince>>
      PROVE  RawBudget'
  <2>1. RawReprobe * Cardinality(Idle') = Due + RawReprobe
    BY <1>1, <1>6, ReportFrees
  <2>2. CASE preferRaw' = TRUE /\ rawSince' = 0
    <3>1. rawRow <= Due
      BY <1>1, <1>2, <1>3
    <3> QED BY <1>1, <1>2, <1>6, <2>1, <2>2, <3>1 DEF RawBudget
  <2>3. CASE UNCHANGED <<preferRaw, rawSince>>
    BY <1>1, <1>2, <1>3, <1>6, <2>1, <2>3 DEF RawBudget
  <2> QED BY <1>6, <2>2, <2>3
<1>7. ASSUME NEW s \in Stream, NoteIncompressible(s) PROVE RawBudget'
  BY <1>6, <1>7 DEF NoteIncompressible
<1>8. ASSUME NEW s \in Stream, NEW wire \in WireSizes, NEW spare \in Spares,
             NoteCompressed(s, wire, spare)
      PROVE  RawBudget'
  <2>1. s \in Busy /\ Reported(s) /\ rawRow' = rawRow
    BY <1>8 DEF NoteCompressed
  <2>2. (preferRaw' = TRUE /\ rawSince' = 0) \/ UNCHANGED <<preferRaw, rawSince>>
    BY <1>8 DEF NoteCompressed
  <2> QED BY <1>6, <2>1, <2>2
<1>9. CASE UNCHANGED avars
  BY <1>9 DEF AdaptiveInv, RawBudget, Idle, Busy, avars, controlVars
<1> QED BY <1>4, <1>5, <1>7, <1>8, <1>9 DEF AdaptiveNext

LEMMA BudgetBounds == AdaptiveInv => RawRowBounded
<1> SUFFICES ASSUME AdaptiveInv PROVE RawRowBounded
  OBVIOUS
<1> DEFINE F == Cardinality(Idle)
           N == Cardinality(Stream)
<1>1. F \in Nat /\ N \in Nat /\ F <= N
  <2>1. Idle \subseteq Stream
    BY DEF Idle
  <2> QED BY <2>1, FS_Subset, FS_CardinalityType, AdaptiveAssumption
<1>2. /\ RawReprobe \in Nat /\ RawReprobe * F \in Nat /\ RawReprobe * N \in Nat
      /\ RawReprobe * F <= RawReprobe * N
  BY <1>1, MoreIsMore, OneMore, AdaptiveAssumption
<1>3. rawRow \in Nat /\ rawSince \in Nat /\ rawSince < RawReprobe /\ preferRaw \in BOOLEAN
  BY AdaptiveAssumption DEF AdaptiveInv, AdaptiveTypeOK
<1>4. rawRow <= RawReprobe * F
  BY <1>2, <1>3 DEF AdaptiveInv, RawBudget
<1> QED BY <1>2, <1>3, <1>4 DEF RawRowBounded

\* Whatever the streams report and whenever, compression is tried again after at
\* most RawReprobe raw blocks per stream (want_raw's promise, with the reports
\* that start its count afresh).
THEOREM RawRowIsBounded == AdaptiveSpec => []RawRowBounded
<1>1. AdaptiveInit => AdaptiveInv
  BY InitType, InitBudget DEF AdaptiveInv
<1>2. AdaptiveInv /\ [AdaptiveNext]_avars => AdaptiveInv'
  BY NextType, NextBudget DEF AdaptiveInv
<1> QED BY <1>1, <1>2, BudgetBounds, PTL DEF AdaptiveSpec

------------------------------------------------------------------------------
(* What a stream does while it sends its files is, to the controller, a      *)
(* behaviour of AdaptiveLevel: what is proved above holds here.              *)

LEMMA SenderStep ==
    ASSUME NEW s \in Stream, SendFile(s)
    PROVE  [AdaptiveNext]_avars
<1>1. CASE AnnounceRaw(s) \/ SendRaw(s) \/ EndRaw(s) \/ AnnounceBlocks(s)
           \/ TinyBlock(s) \/ EndBlocks(s)
  BY <1>1 DEF AnnounceRaw, SendRaw, EndRaw, AnnounceBlocks, TinyBlock, EndBlocks
<1>2. CASE ModeBlock(s)
  BY <1>2 DEF ModeBlock, AdaptiveNext
<1>3. CASE CompressBlock(s)
  BY <1>3 DEF CompressBlock, AdaptiveNext
<1>4. CASE ShrunkBlock(s)
  BY <1>4 DEF ShrunkBlock, AdaptiveNext
<1>5. CASE FlatBlock(s)
  BY <1>5 DEF FlatBlock, AdaptiveNext
<1> QED BY <1>1, <1>2, <1>3, <1>4, <1>5 DEF SendFile

LEMMA ReaderStep ==
    ASSUME NEW s \in Stream, ReceiveFile(s)
    PROVE  UNCHANGED avars
  BY DEF ReceiveFile, ReadHeader, ReadPayload, ReadFrame, ReadNext, Takes

LEMMA LargeStep == [LargeNext]_lvars => [AdaptiveNext]_avars
<1> SUFFICES ASSUME [LargeNext]_lvars PROVE [AdaptiveNext]_avars
  OBVIOUS
<1>1. ASSUME NEW s \in Stream, Resize(s) \/ NextFile(s) PROVE UNCHANGED avars
  BY <1>1 DEF Resize, NextFile
<1>2. CASE UNCHANGED lvars
  BY <1>2 DEF lvars
<1> QED BY <1>1, <1>2, SenderStep, ReaderStep DEF LargeNext

\* The streams use the controller as it is meant to be used: one question, then
\* one report, for every block that is compressed (send_chunk_adaptive).
THEOREM StreamsDriveController == LargeSpec => AdaptiveSpec
<1>1. LargeInit => AdaptiveInit
  BY DEF LargeInit
<1> QED BY <1>1, LargeStep, PTL DEF LargeSpec, AdaptiveSpec

\* However many files of whatever kind the streams send, compression is tried
\* again after at most RawReprobe raw blocks per stream.
THEOREM FilesReprobe == LargeSpec => []RawRowBounded
  BY StreamsDriveController, RawRowIsBounded, PTL

------------------------------------------------------------------------------
(* The framing of a body.  What is under way on a connection is fixed by how *)
(* much was read from the file, how much was received, and where the two     *)
(* ends are: the invariant says what it is.                                  *)

Payload == Tok("payload", 1)
After == Tok("next", 0)

\* h lines of a header, k blocks of payload, e lines after the file.
RawLine(c, h, n, k, e) ==
    /\ Len(c) = h + k + e
    /\ h = 1 => c[1] = Tok("R", n)
    /\ \A i \in 1..k : c[h + i] = Payload
    /\ e = 1 => c[h + k + 1] = After

\* h lines of a header, l blocks whose frame was read, k frames with their
\* blocks, then the E and the line after the file.
FrameLine(c, h, l, k, e) ==
    /\ Len(c) = h + l + 2 * k + 2 * e
    /\ h = 1 => c[1] = Tok("Z", 0)
    /\ l = 1 => c[h + 1] = Payload
    /\ \A j \in 0..(k - 1) : /\ c[h + l + 2 * j + 1] \in {Tok("R", 1), Tok("Zc", 1)}
                             /\ c[h + l + 2 * j + 2] = Payload
    /\ e = 1 => /\ c[h + l + 2 * k + 1] = Tok("E", 0)
                /\ c[h + l + 2 * k + 2] = After

Header(s) == IF reader[s] = "header" THEN 1 ELSE 0
Ended(s) == IF sender[s] = "sent" THEN 1 ELSE 0
Written(s) == IF sender[s] = "report" THEN pos[s] - 1 ELSE pos[s]

RawBody(s) ==
    /\ reader[s] \in {"header", "raw", "done"}
    /\ got[s] <= pos[s] /\ pos[s] + remain[s] <= MaxLength
    /\ RawLine(conn[s], Header(s), pos[s] + remain[s], pos[s] - got[s], Ended(s))
    /\ IF reader[s] = "header" THEN got[s] = 0
       ELSE /\ left[s] = pos[s] - got[s] + remain[s]
            /\ reader[s] = "done" <=> left[s] = 0

BlockBody(s) ==
    /\ reader[s] \in {"header", "blocks"}
    /\ remain[s] = 0 /\ left[s] \in {0, 1}
    /\ Written(s) >= 0 /\ got[s] + left[s] <= Written(s)
    /\ FrameLine(conn[s], Header(s), left[s], Written(s) - got[s] - left[s], Ended(s))
    /\ reader[s] = "header" => got[s] = 0 /\ left[s] = 0

\* Nothing is left of a file.
AllRead(s) == conn[s] = <<>> /\ got[s] = pos[s] /\ left[s] = 0

\* What follows a raw file cut short is too little for what was announced.
CutBody(s) ==
    /\ sender[s] = "sent"
    /\ reader[s] \in {"header", "raw", "done"}
    /\ IF reader[s] = "header"
       THEN /\ got[s] = 0
            /\ \E n \in 1..MaxLength : /\ conn[s] # <<>> /\ conn[s][1] = Tok("R", n)
                                       /\ Len(conn[s]) - 1 <= n
       ELSE /\ got[s] + left[s] <= MaxLength /\ Len(conn[s]) <= left[s]
            /\ reader[s] = "done" => left[s] = 0

Framed(s) ==
    /\ sender[s] = "open" =>
           /\ reader[s] = "header" /\ AllRead(s) /\ pos[s] = 0 /\ remain[s] = 0
    /\ sender[s] = "raw" => RawBody(s)
    /\ sender[s] \in {"blocks", "report"} => BlockBody(s)
    /\ sender[s] = "sent" /\ ~cut[s] =>
           \/ RawBody(s) /\ remain[s] = 0
           \/ BlockBody(s)
           \/ reader[s] = "idle" /\ AllRead(s)
    /\ cut[s] => CutBody(s)
    /\ ~cut[s] => ~misread[s]

FramedInv == LargeTypeOK /\ \A s \in Stream : Framed(s)

LEMMA LineTail ==
    ASSUME NEW c \in Seq(Token), c # <<>>
    PROVE  /\ Head(c) = c[1] /\ Head(c) \in Token
           /\ Tail(c) \in Seq(Token) /\ Len(Tail(c)) = Len(c) - 1
           /\ Len(c) \in Nat /\ Len(c) >= 1
           /\ \A i \in 1..(Len(c) - 1) : Tail(c)[i] = c[i + 1]
  BY HeadTailProperties, EmptySeq, LenProperties

LEMMA LinePlus ==
    ASSUME NEW c \in Seq(Token), NEW x \in Token, NEW y \in Token
    PROVE  /\ c \o <<x>> \in Seq(Token) /\ Len(c \o <<x>>) = Len(c) + 1
           /\ c \o <<x, y>> \in Seq(Token) /\ Len(c \o <<x, y>>) = Len(c) + 2
           /\ \A i \in 1..Len(c) : (c \o <<x>>)[i] = c[i] /\ (c \o <<x, y>>)[i] = c[i]
           /\ (c \o <<x>>)[Len(c) + 1] = x
           /\ (c \o <<x, y>>)[Len(c) + 1] = x /\ (c \o <<x, y>>)[Len(c) + 2] = y
           /\ Len(c) \in Nat
<1>1. Len(c) \in Nat
  BY LenProperties
<1>2. /\ <<x>> \in Seq(Token) /\ Len(<<x>>) = 1 /\ <<x>>[1] = x
      /\ <<x, y>> \in Seq(Token) /\ Len(<<x, y>>) = 2 /\ <<x, y>>[1] = x /\ <<x, y>>[2] = y
  OBVIOUS
<1>3. /\ c \o <<x>> \in Seq(Token) /\ Len(c \o <<x>>) = Len(c) + 1
      /\ \A i \in 1..(Len(c) + 1) :
             (c \o <<x>>)[i] = IF i <= Len(c) THEN c[i] ELSE <<x>>[i - Len(c)]
  BY <1>1, <1>2, ConcatProperties
<1>4. /\ c \o <<x, y>> \in Seq(Token) /\ Len(c \o <<x, y>>) = Len(c) + 2
      /\ \A i \in 1..(Len(c) + 2) :
             (c \o <<x, y>>)[i] = IF i <= Len(c) THEN c[i] ELSE <<x, y>>[i - Len(c)]
  BY <1>1, <1>2, ConcatProperties
<1>5. /\ \A i \in 1..Len(c) : (c \o <<x>>)[i] = c[i]
      /\ (c \o <<x>>)[Len(c) + 1] = x
  BY <1>1, <1>2, <1>3
<1>6. /\ \A i \in 1..Len(c) : (c \o <<x, y>>)[i] = c[i]
      /\ (c \o <<x, y>>)[Len(c) + 1] = x
  BY <1>1, <1>2, <1>4
<1>7. (c \o <<x, y>>)[Len(c) + 2] = y
  <2>1. Len(c) + 2 \in 1..(Len(c) + 2) /\ ~(Len(c) + 2 <= Len(c)) /\ Len(c) + 2 - Len(c) = 2
    BY <1>1
  <2> QED BY <1>2, <1>4, <2>1
<1> QED BY <1>1, <1>3, <1>4, <1>5, <1>6, <1>7

LEMMA Tokens ==
    ASSUME MaxLength >= 1
    PROVE  /\ Payload \in Token /\ Tok("R", 1) \in Token /\ Tok("Zc", 1) \in Token
  BY LargeAssumption DEF Payload, Tok, Token

LEMMA PlainTokens ==
    /\ After \in Token /\ Tok("E", 0) \in Token /\ Tok("Z", 0) \in Token
    /\ \A n \in 0..MaxLength : Tok("R", n) \in Token
  BY LargeAssumption DEF After, Tok, Token

LEMMA NothingUnderWay ==
    ASSUME NEW c \in Seq(Token), NEW n
    PROVE  /\ RawLine(c, 0, n, 0, 0) <=> c = <<>>
           /\ FrameLine(c, 0, 0, 0, 0) <=> c = <<>>
<1>1. Len(c) = 0 <=> c = <<>>
  BY EmptySeq
<1>2. 1..0 = {} /\ 0..(0 - 1) = {}
  OBVIOUS
<1> QED BY <1>1, <1>2 DEF RawLine, FrameLine

LEMMA RawReadHeader ==
    ASSUME NEW c \in Seq(Token), NEW n, NEW k \in Nat, NEW e \in {0, 1}, RawLine(c, 1, n, k, e),
           NEW m
    PROVE  /\ c # <<>> /\ Head(c) = Tok("R", n)
           /\ RawLine(Tail(c), 0, m, k, e)
<1>1. c # <<>> /\ Len(c) = 1 + k + e /\ Len(c) \in Nat
  BY EmptySeq, LenProperties DEF RawLine
<1>2. \A i \in 1..k : Tail(c)[i] = Payload
  <2> SUFFICES ASSUME NEW i \in 1..k PROVE Tail(c)[i] = Payload
    OBVIOUS
  <2>1. i \in 1..(Len(c) - 1) /\ i + 1 = 1 + i
    BY <1>1
  <2>2. Tail(c)[i] = c[1 + i]
    BY <1>1, <2>1, LineTail
  <2> QED BY <2>2 DEF RawLine
<1>3. e = 1 => Tail(c)[k + 1] = After
  <2> SUFFICES ASSUME e = 1 PROVE Tail(c)[k + 1] = After
    OBVIOUS
  <2>1. k + 1 \in 1..(Len(c) - 1) /\ k + 1 + 1 = 1 + k + 1
    BY <1>1
  <2> QED BY <1>1, <2>1, LineTail DEF RawLine
<1>4. Len(Tail(c)) = k + e /\ Head(c) = c[1]
  BY <1>1, LineTail
<1> QED BY <1>1, <1>2, <1>3, <1>4 DEF RawLine

LEMMA RawReadBlock ==
    ASSUME NEW c \in Seq(Token), NEW n, NEW k \in Nat, k >= 1, NEW e \in {0, 1},
           RawLine(c, 0, n, k, e), NEW m
    PROVE  /\ c # <<>> /\ Head(c) = Payload
           /\ RawLine(Tail(c), 0, m, k - 1, e)
<1>1. c # <<>> /\ Len(c) = k + e /\ Len(c) \in Nat
  BY EmptySeq, LenProperties DEF RawLine
<1>2. \A i \in 1..(k - 1) : Tail(c)[i] = Payload
  <2> SUFFICES ASSUME NEW i \in 1..(k - 1) PROVE Tail(c)[i] = Payload
    OBVIOUS
  <2>1. i \in 1..(Len(c) - 1) /\ i + 1 \in 1..k /\ 0 + (i + 1) = i + 1
    BY <1>1
  <2>2. Tail(c)[i] = c[0 + (i + 1)]
    BY <1>1, <2>1, LineTail
  <2> QED BY <2>1, <2>2 DEF RawLine
<1>3. e = 1 => Tail(c)[k] = After
  <2> SUFFICES ASSUME e = 1 PROVE Tail(c)[k] = After
    OBVIOUS
  <2>1. k \in 1..(Len(c) - 1) /\ 0 + k + 1 = k + 1
    BY <1>1
  <2> QED BY <1>1, <2>1, LineTail DEF RawLine
<1>4. Len(Tail(c)) = k - 1 + e /\ Head(c) = c[1]
  BY <1>1, LineTail
<1>5. c[1] = Payload
  <2>1. 1 \in 1..k /\ 0 + 1 = 1
    OBVIOUS
  <2> QED BY <2>1 DEF RawLine
<1>6. \A i \in 1..(k - 1) : 0 + i = i
  OBVIOUS
<1>7. 0 + (k - 1) + e = k - 1 + e /\ 0 + (k - 1) + 1 = k
  OBVIOUS
<1> QED BY <1>1, <1>2, <1>3, <1>4, <1>5, <1>6, <1>7 DEF RawLine

LEMMA RawReadAfter ==
    ASSUME NEW c \in Seq(Token), NEW n, NEW e \in {0, 1}, RawLine(c, 0, n, 0, e), c # <<>>
    PROVE  e = 1 /\ Tail(c) = <<>>
<1>1. e = 1 /\ Len(c) = 1
  BY EmptySeq DEF RawLine
<1>2. Len(Tail(c)) = 0 /\ Tail(c) \in Seq(Token)
  BY <1>1, LineTail
<1> QED BY <1>1, <1>2, EmptySeq

LEMMA RawSendBlock ==
    ASSUME NEW c \in Seq(Token), NEW h \in {0, 1}, NEW n, NEW k \in Nat, RawLine(c, h, n, k, 0),
           MaxLength >= 1
    PROVE  c \o <<Payload>> \in Seq(Token) /\ RawLine(c \o <<Payload>>, h, n, k + 1, 0)
<1> DEFINE d == c \o <<Payload>>
<1>1. /\ d \in Seq(Token) /\ Len(d) = Len(c) + 1 /\ d[Len(c) + 1] = Payload
      /\ \A i \in 1..Len(c) : d[i] = c[i]
  BY Tokens, LinePlus
<1>2. Len(c) = h + k
  BY DEF RawLine
<1> HIDE DEF d
<1>3. ASSUME NEW i \in 1..(k + 1) PROVE d[h + i] = Payload
  <2>1. CASE i = k + 1
    <3>1. h + i = Len(c) + 1
      BY <1>2, <2>1
    <3> QED BY <1>1, <3>1
  <2>2. CASE i # k + 1
    <3>1. i \in 1..k /\ h + i \in 1..Len(c)
      BY <1>2, <2>2
    <3> QED BY <1>1, <3>1 DEF RawLine
  <2> QED BY <2>1, <2>2
<1>4. h = 1 => d[1] = Tok("R", n)
  <2>1. h = 1 => 1 \in 1..Len(c)
    BY <1>2
  <2> QED BY <1>1, <2>1 DEF RawLine
<1>5. Len(d) = h + (k + 1) + 0 /\ 0 # 1
  BY <1>1, <1>2
<1>6. RawLine(d, h, n, k + 1, 0)
  BY <1>3, <1>4, <1>5 DEF RawLine
<1> QED BY <1>1, <1>6 DEF d

LEMMA RawSendAfter ==
    ASSUME NEW c \in Seq(Token), NEW h \in {0, 1}, NEW n, NEW k \in Nat, RawLine(c, h, n, k, 0)
    PROVE  c \o <<After>> \in Seq(Token) /\ RawLine(c \o <<After>>, h, n, k, 1)
<1> DEFINE d == c \o <<After>>
<1>1. /\ d \in Seq(Token) /\ Len(d) = Len(c) + 1 /\ d[Len(c) + 1] = After
      /\ \A i \in 1..Len(c) : d[i] = c[i]
  BY PlainTokens, LinePlus
<1>2. Len(c) = h + k
  BY DEF RawLine
<1> HIDE DEF d
<1>3. ASSUME NEW i \in 1..k PROVE d[h + i] = Payload
  <2>1. h + i \in 1..Len(c)
    BY <1>2
  <2> QED BY <1>1, <2>1 DEF RawLine
<1>4. h = 1 => d[1] = Tok("R", n)
  <2>1. h = 1 => 1 \in 1..Len(c)
    BY <1>2
  <2> QED BY <1>1, <2>1 DEF RawLine
<1> QED BY <1>1, <1>2, <1>3, <1>4 DEF RawLine, d

LEMMA FrameReadHeader ==
    ASSUME NEW c \in Seq(Token), NEW k \in Nat, NEW e \in {0, 1}, FrameLine(c, 1, 0, k, e)
    PROVE  /\ c # <<>> /\ Head(c) = Tok("Z", 0)
           /\ FrameLine(Tail(c), 0, 0, k, e)
<1>1. c # <<>> /\ Len(c) = 1 + 2 * k + 2 * e /\ Len(c) \in Nat
  BY EmptySeq, LenProperties DEF FrameLine
<1>2. \A i \in 1..(Len(c) - 1) : Tail(c)[i] = c[i + 1]
  BY <1>1, LineTail
<1>3. ASSUME NEW j \in 0..(k - 1)
      PROVE  /\ Tail(c)[0 + 0 + 2 * j + 1] \in {Tok("R", 1), Tok("Zc", 1)}
             /\ Tail(c)[0 + 0 + 2 * j + 2] = Payload
  <2>1. /\ 0 + 0 + 2 * j + 1 \in 1..(Len(c) - 1) /\ 0 + 0 + 2 * j + 2 \in 1..(Len(c) - 1)
        /\ 0 + 0 + 2 * j + 1 + 1 = 1 + 0 + 2 * j + 1 /\ 0 + 0 + 2 * j + 2 + 1 = 1 + 0 + 2 * j + 2
    BY <1>1
  <2>2. /\ Tail(c)[0 + 0 + 2 * j + 1] = c[1 + 0 + 2 * j + 1]
        /\ Tail(c)[0 + 0 + 2 * j + 2] = c[1 + 0 + 2 * j + 2]
    BY <1>2, <2>1
  <2> QED BY <2>2 DEF FrameLine
<1>4. ASSUME e = 1
      PROVE  /\ Tail(c)[0 + 0 + 2 * k + 1] = Tok("E", 0)
             /\ Tail(c)[0 + 0 + 2 * k + 2] = After
  <2>1. /\ 0 + 0 + 2 * k + 1 \in 1..(Len(c) - 1) /\ 0 + 0 + 2 * k + 2 \in 1..(Len(c) - 1)
        /\ 0 + 0 + 2 * k + 1 + 1 = 1 + 0 + 2 * k + 1 /\ 0 + 0 + 2 * k + 2 + 1 = 1 + 0 + 2 * k + 2
    BY <1>1, <1>4
  <2>2. /\ Tail(c)[0 + 0 + 2 * k + 1] = c[1 + 0 + 2 * k + 1]
        /\ Tail(c)[0 + 0 + 2 * k + 2] = c[1 + 0 + 2 * k + 2]
    BY <1>2, <2>1
  <2> QED BY <1>4, <2>2 DEF FrameLine
<1>5. Len(Tail(c)) = 0 + 0 + 2 * k + 2 * e /\ Head(c) = Tok("Z", 0)
  BY <1>1, LineTail DEF FrameLine
<1> QED BY <1>1, <1>3, <1>4, <1>5 DEF FrameLine

\* The line of a frame is read, and its block is what comes next.
LEMMA FrameReadLine ==
    ASSUME NEW c \in Seq(Token), NEW k \in Nat, k >= 1, NEW e \in {0, 1},
           FrameLine(c, 0, 0, k, e)
    PROVE  /\ c # <<>> /\ Head(c) \in {Tok("R", 1), Tok("Zc", 1)}
           /\ FrameLine(Tail(c), 0, 1, k - 1, e)
<1>1. c # <<>> /\ Len(c) = 2 * k + 2 * e /\ Len(c) \in Nat
  BY EmptySeq, LenProperties DEF FrameLine
<1>2. \A i \in 1..(Len(c) - 1) : Tail(c)[i] = c[i + 1]
  BY <1>1, LineTail
<1>3. ASSUME NEW j \in 0..(k - 1 - 1)
      PROVE  /\ Tail(c)[0 + 1 + 2 * j + 1] \in {Tok("R", 1), Tok("Zc", 1)}
             /\ Tail(c)[0 + 1 + 2 * j + 2] = Payload
  <2>1. /\ 0 + 1 + 2 * j + 1 \in 1..(Len(c) - 1) /\ 0 + 1 + 2 * j + 2 \in 1..(Len(c) - 1)
        /\ 0 + 1 + 2 * j + 1 + 1 = 0 + 0 + 2 * (j + 1) + 1
        /\ 0 + 1 + 2 * j + 2 + 1 = 0 + 0 + 2 * (j + 1) + 2
        /\ j + 1 \in 0..(k - 1)
    BY <1>1
  <2>2. /\ Tail(c)[0 + 1 + 2 * j + 1] = c[0 + 0 + 2 * (j + 1) + 1]
        /\ Tail(c)[0 + 1 + 2 * j + 2] = c[0 + 0 + 2 * (j + 1) + 2]
    BY <1>2, <2>1
  <2> QED BY <2>1, <2>2 DEF FrameLine
<1>4. ASSUME e = 1
      PROVE  /\ Tail(c)[0 + 1 + 2 * (k - 1) + 1] = Tok("E", 0)
             /\ Tail(c)[0 + 1 + 2 * (k - 1) + 2] = After
  <2>1. /\ 0 + 1 + 2 * (k - 1) + 1 \in 1..(Len(c) - 1)
        /\ 0 + 1 + 2 * (k - 1) + 2 \in 1..(Len(c) - 1)
        /\ 0 + 1 + 2 * (k - 1) + 1 + 1 = 0 + 0 + 2 * k + 1
        /\ 0 + 1 + 2 * (k - 1) + 2 + 1 = 0 + 0 + 2 * k + 2
    BY <1>1, <1>4
  <2>2. /\ Tail(c)[0 + 1 + 2 * (k - 1) + 1] = c[0 + 0 + 2 * k + 1]
        /\ Tail(c)[0 + 1 + 2 * (k - 1) + 2] = c[0 + 0 + 2 * k + 2]
    BY <1>2, <2>1
  <2> QED BY <1>4, <2>2 DEF FrameLine
<1>5. /\ 0 \in 0..(k - 1) /\ 0 + 0 + 2 * 0 + 1 = 1 /\ 0 + 0 + 2 * 0 + 2 = 2
      /\ 1 \in 1..(Len(c) - 1)
  BY <1>1
<1>6. c[1] \in {Tok("R", 1), Tok("Zc", 1)} /\ c[2] = Payload
  BY <1>5 DEF FrameLine
<1>7. Tail(c)[0 + 1] = Payload /\ Head(c) = c[1]
  <2>1. Tail(c)[1] = c[1 + 1]
    BY <1>2, <1>5
  <2> QED BY <1>1, <1>6, <2>1, LineTail
<1>8. Len(Tail(c)) = 0 + 1 + 2 * (k - 1) + 2 * e /\ 0 # 1
  BY <1>1, LineTail
<1> QED BY <1>1, <1>3, <1>4, <1>6, <1>7, <1>8 DEF FrameLine

LEMMA FrameReadBlock ==
    ASSUME NEW c \in Seq(Token), NEW k \in Nat, NEW e \in {0, 1}, FrameLine(c, 0, 1, k, e)
    PROVE  /\ c # <<>> /\ Head(c) = Payload
           /\ FrameLine(Tail(c), 0, 0, k, e)
<1>1. c # <<>> /\ Len(c) = 1 + 2 * k + 2 * e /\ Len(c) \in Nat
  BY EmptySeq, LenProperties DEF FrameLine
<1>2. \A i \in 1..(Len(c) - 1) : Tail(c)[i] = c[i + 1]
  BY <1>1, LineTail
<1>3. ASSUME NEW j \in 0..(k - 1)
      PROVE  /\ Tail(c)[0 + 0 + 2 * j + 1] \in {Tok("R", 1), Tok("Zc", 1)}
             /\ Tail(c)[0 + 0 + 2 * j + 2] = Payload
  <2>1. /\ 0 + 0 + 2 * j + 1 \in 1..(Len(c) - 1) /\ 0 + 0 + 2 * j + 2 \in 1..(Len(c) - 1)
        /\ 0 + 0 + 2 * j + 1 + 1 = 0 + 1 + 2 * j + 1 /\ 0 + 0 + 2 * j + 2 + 1 = 0 + 1 + 2 * j + 2
    BY <1>1
  <2>2. /\ Tail(c)[0 + 0 + 2 * j + 1] = c[0 + 1 + 2 * j + 1]
        /\ Tail(c)[0 + 0 + 2 * j + 2] = c[0 + 1 + 2 * j + 2]
    BY <1>2, <2>1
  <2> QED BY <2>2 DEF FrameLine
<1>4. ASSUME e = 1
      PROVE  /\ Tail(c)[0 + 0 + 2 * k + 1] = Tok("E", 0)
             /\ Tail(c)[0 + 0 + 2 * k + 2] = After
  <2>1. /\ 0 + 0 + 2 * k + 1 \in 1..(Len(c) - 1) /\ 0 + 0 + 2 * k + 2 \in 1..(Len(c) - 1)
        /\ 0 + 0 + 2 * k + 1 + 1 = 0 + 1 + 2 * k + 1 /\ 0 + 0 + 2 * k + 2 + 1 = 0 + 1 + 2 * k + 2
    BY <1>1, <1>4
  <2>2. /\ Tail(c)[0 + 0 + 2 * k + 1] = c[0 + 1 + 2 * k + 1]
        /\ Tail(c)[0 + 0 + 2 * k + 2] = c[0 + 1 + 2 * k + 2]
    BY <1>2, <2>1
  <2> QED BY <1>4, <2>2 DEF FrameLine
<1>5. Len(Tail(c)) = 0 + 0 + 2 * k + 2 * e /\ Head(c) = Payload /\ 0 # 1
  BY <1>1, LineTail DEF FrameLine
<1> QED BY <1>1, <1>3, <1>4, <1>5 DEF FrameLine

\* Behind the last block there is the E, then the line after the file.
LEMMA FrameReadEnd ==
    ASSUME NEW c \in Seq(Token), NEW e \in {0, 1}, FrameLine(c, 0, 0, 0, e), c # <<>>, NEW n
    PROVE  /\ e = 1 /\ Head(c) = Tok("E", 0)
           /\ RawLine(Tail(c), 0, n, 0, 1)
<1>1. e = 1 /\ Len(c) = 2
  BY EmptySeq DEF FrameLine
<1>2. c[1] = Tok("E", 0) /\ c[2] = After
  BY <1>1 DEF FrameLine
<1>3. Head(c) = c[1] /\ Len(Tail(c)) = 1 /\ Tail(c)[1] = c[2]
  <2>1. 1 \in 1..(2 - 1) /\ 1 + 1 = 2 /\ 2 - 1 = 1
    OBVIOUS
  <2> QED BY <1>1, <2>1, LineTail
<1>4. \A i \in 1..0 : Tail(c)[0 + i] = Payload
  OBVIOUS
<1>5. Len(Tail(c)) = 0 + 0 + 1 /\ Tail(c)[0 + 0 + 1] = After /\ 0 # 1
  BY <1>2, <1>3
<1>6. RawLine(Tail(c), 0, n, 0, 1)
  BY <1>4, <1>5 DEF RawLine
<1> QED BY <1>1, <1>2, <1>3, <1>6

LEMMA FrameSendBlock ==
    ASSUME NEW c \in Seq(Token), NEW h \in {0, 1}, NEW l \in {0, 1}, NEW k \in Nat,
           FrameLine(c, h, l, k, 0), MaxLength >= 1, NEW type \in {"R", "Zc"}
    PROVE  /\ c \o <<Tok(type, 1), Payload>> \in Seq(Token)
           /\ FrameLine(c \o <<Tok(type, 1), Payload>>, h, l, k + 1, 0)
<1> DEFINE d == c \o <<Tok(type, 1), Payload>>
<1>1. /\ d \in Seq(Token) /\ Len(d) = Len(c) + 2
      /\ d[Len(c) + 1] = Tok(type, 1) /\ d[Len(c) + 2] = Payload
      /\ \A i \in 1..Len(c) : d[i] = c[i]
  BY Tokens, LinePlus
<1>2. Len(c) = h + l + 2 * k
  BY DEF FrameLine
<1> HIDE DEF d
<1>3. ASSUME NEW j \in 0..(k + 1 - 1)
      PROVE  /\ d[h + l + 2 * j + 1] \in {Tok("R", 1), Tok("Zc", 1)}
             /\ d[h + l + 2 * j + 2] = Payload
  <2>1. CASE j = k
    <3>1. h + l + 2 * j + 1 = Len(c) + 1 /\ h + l + 2 * j + 2 = Len(c) + 2
      BY <1>2, <2>1
    <3> QED BY <1>1, <3>1
  <2>2. CASE j # k
    <3>1. j \in 0..(k - 1)
      BY <2>2
    <3>2. h + l + 2 * j + 1 \in 1..Len(c) /\ h + l + 2 * j + 2 \in 1..Len(c)
      BY <1>2, <3>1
    <3> QED BY <1>1, <3>1, <3>2 DEF FrameLine
  <2> QED BY <2>1, <2>2
<1>4. /\ h = 1 => d[1] = Tok("Z", 0)
      /\ l = 1 => d[h + 1] = Payload
  <2>1. (h = 1 => 1 \in 1..Len(c)) /\ (l = 1 => h + 1 \in 1..Len(c))
    BY <1>2
  <2> QED BY <1>1, <2>1 DEF FrameLine
<1>5. Len(d) = h + l + 2 * (k + 1) + 2 * 0 /\ 0 # 1
  BY <1>1, <1>2
<1>6. FrameLine(d, h, l, k + 1, 0)
  BY <1>3, <1>4, <1>5 DEF FrameLine
<1> QED BY <1>1, <1>6 DEF d

LEMMA FrameSendEnd ==
    ASSUME NEW c \in Seq(Token), NEW h \in {0, 1}, NEW l \in {0, 1}, NEW k \in Nat,
           FrameLine(c, h, l, k, 0)
    PROVE  /\ c \o <<Tok("E", 0), After>> \in Seq(Token)
           /\ FrameLine(c \o <<Tok("E", 0), After>>, h, l, k, 1)
<1> DEFINE d == c \o <<Tok("E", 0), After>>
<1>1. /\ d \in Seq(Token) /\ Len(d) = Len(c) + 2
      /\ d[Len(c) + 1] = Tok("E", 0) /\ d[Len(c) + 2] = After
      /\ \A i \in 1..Len(c) : d[i] = c[i]
  BY PlainTokens, LinePlus
<1>2. Len(c) = h + l + 2 * k
  BY DEF FrameLine
<1> HIDE DEF d
<1>3. ASSUME NEW j \in 0..(k - 1)
      PROVE  /\ d[h + l + 2 * j + 1] \in {Tok("R", 1), Tok("Zc", 1)}
             /\ d[h + l + 2 * j + 2] = Payload
  <2>1. h + l + 2 * j + 1 \in 1..Len(c) /\ h + l + 2 * j + 2 \in 1..Len(c)
    BY <1>2
  <2> QED BY <1>1, <2>1 DEF FrameLine
<1>4. /\ h = 1 => d[1] = Tok("Z", 0)
      /\ l = 1 => d[h + 1] = Payload
  <2>1. (h = 1 => 1 \in 1..Len(c)) /\ (l = 1 => h + 1 \in 1..Len(c))
    BY <1>2
  <2> QED BY <1>1, <2>1 DEF FrameLine
<1>5. Len(d) = h + l + 2 * k + 2 * 1
  BY <1>1, <1>2
<1>6. d[h + l + 2 * k + 1] = Tok("E", 0) /\ d[h + l + 2 * k + 2] = After
  BY <1>1, <1>2
<1>7. FrameLine(d, h, l, k, 1)
  BY <1>3, <1>4, <1>5, <1>6 DEF FrameLine
<1> QED BY <1>1, <1>7 DEF d

LEMMA OpeningLines ==
    /\ \A n \in 0..MaxLength : /\ <<>> \o <<Tok("R", n)>> \in Seq(Token)
                               /\ RawLine(<<>> \o <<Tok("R", n)>>, 1, n, 0, 0)
    /\ <<>> \o <<Tok("Z", 0)>> \in Seq(Token)
    /\ FrameLine(<<>> \o <<Tok("Z", 0)>>, 1, 0, 0, 0)
<1>1. <<>> \in Seq(Token) /\ Len(<<>>) = 0
  OBVIOUS
<1>2. ASSUME NEW x \in Token
      PROVE  <<>> \o <<x>> \in Seq(Token) /\ Len(<<>> \o <<x>>) = 1 /\ (<<>> \o <<x>>)[1] = x
  <2>1. Len(<<>>) + 1 = 1
    BY <1>1
  <2> QED BY <1>1, <2>1, LinePlus
<1>3. 1..0 = {} /\ 0..(0 - 1) = {} /\ 0 # 1 /\ 1 + 0 + 0 = 1 /\ 1 + 0 + 2 * 0 + 2 * 0 = 1
  OBVIOUS
<1>4. ASSUME NEW n \in 0..MaxLength
      PROVE  /\ <<>> \o <<Tok("R", n)>> \in Seq(Token)
             /\ RawLine(<<>> \o <<Tok("R", n)>>, 1, n, 0, 0)
  <2> DEFINE c == <<>> \o <<Tok("R", n)>>
  <2>1. c \in Seq(Token) /\ Len(c) = 1 /\ c[1] = Tok("R", n)
    BY <1>2, PlainTokens
  <2> HIDE DEF c
  <2>2. RawLine(c, 1, n, 0, 0)
    BY <1>3, <2>1 DEF RawLine
  <2> QED BY <2>1, <2>2 DEF c
<1>5. /\ <<>> \o <<Tok("Z", 0)>> \in Seq(Token)
      /\ FrameLine(<<>> \o <<Tok("Z", 0)>>, 1, 0, 0, 0)
  <2> DEFINE c == <<>> \o <<Tok("Z", 0)>>
  <2>1. c \in Seq(Token) /\ Len(c) = 1 /\ c[1] = Tok("Z", 0)
    BY <1>2, PlainTokens
  <2> HIDE DEF c
  <2>2. FrameLine(c, 1, 0, 0, 0)
    BY <1>3, <2>1 DEF FrameLine
  <2> QED BY <2>1, <2>2 DEF c
<1> QED BY <1>4, <1>5

LEMMA Here ==
    ASSUME LargeTypeOK, NEW s \in Stream
    PROVE  /\ MaxLength \in Nat
           /\ length[s] \in Nat /\ length[s] <= MaxLength
           /\ pos[s] \in Nat /\ pos[s] <= MaxLength
           /\ remain[s] \in Nat /\ remain[s] <= MaxLength
           /\ left[s] \in Nat /\ left[s] <= MaxLength
           /\ got[s] \in Nat /\ got[s] <= MaxLength
           /\ conn[s] \in Seq(Token)
           /\ Header(s) \in {0, 1} /\ Ended(s) \in {0, 1}
           /\ cut[s] \in BOOLEAN /\ misread[s] \in BOOLEAN
  BY LargeAssumption DEF LargeTypeOK, Header, Ended

LEMMA Amounts ==
    ASSUME LargeTypeOK, NEW s \in Stream
    PROVE  /\ MaxLength \in Nat
           /\ length[s] \in Nat /\ length[s] <= MaxLength
           /\ pos[s] \in Nat /\ pos[s] <= MaxLength
           /\ remain[s] \in Nat /\ remain[s] <= MaxLength
           /\ left[s] \in Nat /\ left[s] <= MaxLength
           /\ got[s] \in Nat /\ got[s] <= MaxLength
  BY Here

\* What is put on a connection, and what is taken from it.
LEMMA PutOn ==
    ASSUME LargeTypeOK, NEW s \in Stream, NEW toks, Put(s, toks), conn[s] \o toks \in Seq(Token)
    PROVE  conn'[s] = conn[s] \o toks /\ conn' \in [Stream -> Seq(Token)]
  BY DEF LargeTypeOK, Put

LEMMA TakenFrom ==
    ASSUME LargeTypeOK, NEW s \in Stream, NEW from, Takes(s, from)
    PROVE  /\ conn[s] # <<>> /\ conn'[s] = Tail(conn[s]) /\ conn' \in [Stream -> Seq(Token)]
           /\ reader[s] = from
           /\ UNCHANGED <<avars, length, pos, sender, remain, cut>>
<1>1. conn[s] \in Seq(Token) /\ conn[s] # <<>>
  BY DEF LargeTypeOK, Takes
<1>2. Tail(conn[s]) \in Seq(Token)
  BY <1>1, LineTail
<1> QED BY <1>1, <1>2 DEF LargeTypeOK, Takes, serverSide

LEMMA OthersKeep ==
    ASSUME LargeTypeOK, NEW s \in Stream, NEW t \in Stream, t # s,
           SendFile(s) \/ ReceiveFile(s) \/ Resize(s) \/ NextFile(s)
    PROVE  /\ pos'[t] = pos[t] /\ sender'[t] = sender[t] /\ remain'[t] = remain[t]
           /\ conn'[t] = conn[t] /\ reader'[t] = reader[t] /\ left'[t] = left[t]
           /\ got'[t] = got[t] /\ misread'[t] = misread[t] /\ cut'[t] = cut[t]
<1> USE DEF LargeTypeOK, serverSide, readerSide, Put
<1>1. CASE SendFile(s)
  BY <1>1 DEF SendFile, AnnounceRaw, SendRaw, EndRaw, AnnounceBlocks, TinyBlock, ModeBlock,
              CompressBlock, ShrunkBlock, FlatBlock, EndBlocks, AtSender, ReadsBlock, RawFrame,
              ZipFrame
<1>2. CASE ReceiveFile(s)
  BY <1>2 DEF ReceiveFile, ReadHeader, ReadPayload, ReadFrame, ReadNext, Takes
<1>3. CASE Resize(s) \/ NextFile(s)
  BY <1>3 DEF Resize, NextFile, AtSender
<1> QED BY <1>1, <1>2, <1>3

LEMMA FramedElsewhere ==
    ASSUME LargeTypeOK, NEW s \in Stream, NEW t \in Stream, t # s, Framed(t),
           SendFile(s) \/ ReceiveFile(s) \/ Resize(s) \/ NextFile(s)
    PROVE  Framed(t)'
<1>1. /\ pos'[t] = pos[t] /\ sender'[t] = sender[t] /\ remain'[t] = remain[t]
      /\ conn'[t] = conn[t] /\ reader'[t] = reader[t] /\ left'[t] = left[t]
      /\ got'[t] = got[t] /\ misread'[t] = misread[t] /\ cut'[t] = cut[t]
  BY OthersKeep
<1>2. /\ RawBody(t)' <=> RawBody(t)
      /\ BlockBody(t)' <=> BlockBody(t)
      /\ AllRead(t)' <=> AllRead(t)
      /\ CutBody(t)' <=> CutBody(t)
  BY <1>1, Zenon DEF RawBody, BlockBody, AllRead, CutBody, Header, Ended, Written
<1> QED BY <1>1, <1>2, Zenon DEF Framed

------------------------------------------------------------------------------
(* The steps of a body keep its framing. *)

LEMMA AnnouncesRaw ==
    ASSUME FramedInv, AdaptiveTypeOK', NEW s \in Stream, AnnounceRaw(s)
    PROVE  LargeTypeOK' /\ Framed(s)'
<1> USE DEF serverSide, readerSide
<1>0. LargeTypeOK /\ Framed(s) /\ sender[s] = "open"
  BY DEF FramedInv, AnnounceRaw, AtSender
<1>1. /\ reader[s] = "header" /\ conn[s] = <<>> /\ got[s] = pos[s] /\ pos[s] = 0
      /\ ~cut[s] /\ ~misread[s]
  BY <1>0 DEF Framed, AllRead, CutBody
<1>2. length[s] \in 0..MaxLength
  BY <1>0 DEF LargeTypeOK
<1>3. /\ conn[s] \o <<Tok("R", length[s])>> \in Seq(Token)
      /\ RawLine(conn[s] \o <<Tok("R", length[s])>>, 1, length[s], 0, 0)
  BY <1>1, <1>2, OpeningLines
<1>4. conn'[s] = conn[s] \o <<Tok("R", length[s])>> /\ conn' \in [Stream -> Seq(Token)]
  BY <1>0, <1>3, PutOn DEF AnnounceRaw
<1>5. /\ sender'[s] = "raw" /\ remain'[s] = length[s] /\ pos'[s] = 0 /\ got'[s] = 0
      /\ reader'[s] = "header" /\ ~cut'[s] /\ ~misread'[s]
  BY <1>0, <1>1 DEF AnnounceRaw, AtSender, LargeTypeOK
<1>6. LargeTypeOK'
  BY <1>0, <1>2, <1>4 DEF AnnounceRaw, AtSender, LargeTypeOK
<1>7. 0 + length[s] = length[s] /\ 0 - 0 = 0 /\ 0 <= 0 /\ length[s] <= MaxLength
  BY <1>2, LargeAssumption
<1>8. RawBody(s)'
  BY <1>3, <1>4, <1>5, <1>7 DEF RawBody, Header, Ended
<1> QED BY <1>5, <1>6, <1>8 DEF Framed

LEMMA AnnouncesBlocks ==
    ASSUME FramedInv, AdaptiveTypeOK', NEW s \in Stream, AnnounceBlocks(s)
    PROVE  LargeTypeOK' /\ Framed(s)'
<1> USE DEF serverSide, readerSide
<1>0. LargeTypeOK /\ Framed(s) /\ sender[s] = "open"
  BY DEF FramedInv, AnnounceBlocks, AtSender
<1>1. /\ reader[s] = "header" /\ conn[s] = <<>> /\ got[s] = pos[s] /\ pos[s] = 0
      /\ left[s] = 0 /\ remain[s] = 0 /\ ~cut[s] /\ ~misread[s]
  BY <1>0 DEF Framed, AllRead, CutBody
<1>3. /\ conn[s] \o <<Tok("Z", 0)>> \in Seq(Token)
      /\ FrameLine(conn[s] \o <<Tok("Z", 0)>>, 1, 0, 0, 0)
  BY <1>1, OpeningLines
<1>4. conn'[s] = conn[s] \o <<Tok("Z", 0)>> /\ conn' \in [Stream -> Seq(Token)]
  BY <1>0, <1>3, PutOn DEF AnnounceBlocks
<1>5. /\ sender'[s] = "blocks" /\ remain'[s] = 0 /\ pos'[s] = 0 /\ got'[s] = 0 /\ left'[s] = 0
      /\ reader'[s] = "header" /\ ~cut'[s] /\ ~misread'[s]
  BY <1>0, <1>1 DEF AnnounceBlocks, AtSender, LargeTypeOK
<1>6. LargeTypeOK'
  BY <1>0, <1>4 DEF AnnounceBlocks, AtSender, LargeTypeOK
<1>7. 0 - 0 - 0 = 0 /\ 0 + 0 = 0 /\ 0 <= 0 /\ 0 >= 0
  OBVIOUS
<1>8. BlockBody(s)'
  BY <1>3, <1>4, <1>5, <1>7 DEF BlockBody, Header, Ended, Written
<1> QED BY <1>5, <1>6, <1>8 DEF Framed

LEMMA SendsRaw ==
    ASSUME FramedInv, AdaptiveTypeOK', NEW s \in Stream, SendRaw(s)
    PROVE  LargeTypeOK' /\ Framed(s)'
<1> USE DEF serverSide, readerSide
<1>0. LargeTypeOK /\ Framed(s) /\ sender[s] = "raw" /\ remain[s] > 0 /\ pos[s] < length[s]
  BY DEF FramedInv, SendRaw
<1>1. RawBody(s) /\ ~cut[s] /\ ~misread[s]
  BY <1>0 DEF Framed, CutBody
<1>2. /\ got[s] <= pos[s] /\ pos[s] - got[s] \in Nat /\ MaxLength >= 1
      /\ RawLine(conn[s], Header(s), pos[s] + remain[s], pos[s] - got[s], 0)
  BY <1>0, <1>1, Here DEF RawBody, Ended
<1>3. /\ conn[s] \o <<Payload>> \in Seq(Token)
      /\ RawLine(conn[s] \o <<Payload>>, Header(s), pos[s] + remain[s], pos[s] - got[s] + 1, 0)
  BY <1>0, <1>2, Here, RawSendBlock
<1>4. conn'[s] = conn[s] \o <<Payload>> /\ conn' \in [Stream -> Seq(Token)]
  BY <1>0, <1>3, PutOn DEF SendRaw, Payload
<1>5. /\ sender'[s] = "raw" /\ remain'[s] = remain[s] - 1 /\ pos'[s] = pos[s] + 1
      /\ got'[s] = got[s] /\ left'[s] = left[s] /\ reader'[s] = reader[s]
      /\ cut'[s] = cut[s] /\ misread'[s] = misread[s]
  BY <1>0 DEF SendRaw, LargeTypeOK
<1>6. LargeTypeOK'
  <2>1. remain[s] - 1 \in 0..MaxLength /\ pos[s] + 1 \in 0..MaxLength
    BY <1>0, Here
  <2> QED BY <1>0, <1>4, <2>1 DEF SendRaw, LargeTypeOK
<1>7. /\ pos[s] + 1 + (remain[s] - 1) = pos[s] + remain[s]
      /\ pos[s] + 1 - got[s] = pos[s] - got[s] + 1
      /\ pos[s] + 1 - got[s] + (remain[s] - 1) = pos[s] - got[s] + remain[s]
      /\ got[s] <= pos[s] + 1
  BY <1>0, <1>2, Amounts
<1>8. RawBody(s)'
  <2>1. Header(s)' = Header(s) /\ Ended(s)' = 0
    BY <1>5 DEF Header, Ended
  <2>2. /\ pos'[s] + remain'[s] = pos[s] + remain[s]
        /\ pos'[s] - got'[s] = pos[s] - got[s] + 1
        /\ pos'[s] - got'[s] + remain'[s] = pos[s] - got[s] + remain[s]
        /\ got'[s] <= pos'[s]
    <3>1. pos'[s] = pos[s] + 1 /\ got'[s] = got[s] /\ remain'[s] = remain[s] - 1
      BY <1>5
    <3> QED BY <1>0, <1>2, <3>1, Amounts
  <2> QED BY <1>1, <1>3, <1>4, <1>5, <2>1, <2>2, Zenon DEF RawBody
<1> QED BY <1>1, <1>5, <1>6, <1>8 DEF Framed

\* A raw body ends whole, or short of what was announced.
LEMMA EndsRaw ==
    ASSUME FramedInv, AdaptiveTypeOK', NEW s \in Stream, EndRaw(s)
    PROVE  LargeTypeOK' /\ Framed(s)'
<1> USE DEF serverSide, readerSide
<1>0. LargeTypeOK /\ Framed(s) /\ sender[s] = "raw"
  BY DEF FramedInv, EndRaw, AtSender
<1>1. RawBody(s) /\ ~cut[s] /\ ~misread[s]
  BY <1>0 DEF Framed, CutBody
<1>2. /\ got[s] <= pos[s] /\ pos[s] - got[s] \in Nat
      /\ RawLine(conn[s], Header(s), pos[s] + remain[s], pos[s] - got[s], 0)
  BY <1>0, <1>1, Here DEF RawBody, Ended
<1>3. /\ conn[s] \o <<After>> \in Seq(Token)
      /\ RawLine(conn[s] \o <<After>>, Header(s), pos[s] + remain[s], pos[s] - got[s], 1)
  BY <1>0, <1>2, Here, RawSendAfter
<1>4. conn'[s] = conn[s] \o <<After>> /\ conn' \in [Stream -> Seq(Token)]
  BY <1>0, <1>3, PutOn DEF EndRaw, After
<1>5. /\ sender'[s] = "sent" /\ remain'[s] = remain[s] /\ pos'[s] = pos[s]
      /\ got'[s] = got[s] /\ left'[s] = left[s] /\ reader'[s] = reader[s]
      /\ cut'[s] <=> remain[s] > 0
      /\ misread'[s] = misread[s]
  BY <1>0 DEF EndRaw, AtSender, LargeTypeOK
<1>6. LargeTypeOK'
  BY <1>0, <1>4 DEF EndRaw, AtSender, LargeTypeOK
<1>7. RawBody(s)'
  BY <1>1, <1>3, <1>4, <1>5 DEF RawBody, Header, Ended
<1>8. CASE remain[s] = 0
  <2>0. ~(remain[s] > 0)
    BY <1>8
  <2>1. ~cut'[s] /\ ~misread'[s] /\ remain'[s] = 0
    BY <1>1, <1>5, <1>8, <2>0, Zenon
  <2> QED BY <1>5, <1>6, <1>7, <2>1 DEF Framed
<1>9. CASE remain[s] # 0
  <2>0. remain[s] >= 1 /\ remain[s] > 0
    BY <1>0, <1>9, Amounts
  <2>1. remain[s] >= 1 /\ cut'[s]
    BY <1>5, <2>0, Zenon
  <2>2. Len(conn'[s]) = Header(s) + (pos[s] - got[s]) + 1
    BY <1>3, <1>4 DEF RawLine
  <2>3. CASE reader[s] = "header"
    <3>1. got[s] = 0 /\ Header(s) = 1
      BY <1>1, <2>3 DEF RawBody, Header
    <3>2. Len(conn'[s]) - 1 <= pos[s] + remain[s] /\ Len(conn'[s]) # 0
      BY <1>0, <2>1, <2>2, <3>1, Here
    <3>3. conn'[s][1] = Tok("R", pos[s] + remain[s])
      BY <1>3, <1>4, <3>1 DEF RawLine
    <3>4. pos[s] + remain[s] \in 1..MaxLength
      BY <1>0, <1>1, <2>1, Here DEF RawBody
    <3>5. conn'[s] # <<>>
      BY <3>2
    <3>6. CutBody(s)'
      BY <1>5, <2>3, <3>1, <3>2, <3>3, <3>4, <3>5 DEF CutBody
    <3> QED BY <1>5, <1>6, <2>1, <3>6 DEF Framed
  <2>4. CASE reader[s] # "header"
    <3>1. /\ left[s] = pos[s] - got[s] + remain[s] /\ Header(s) = 0
          /\ reader[s] \in {"raw", "done"} /\ (reader[s] = "done" <=> left[s] = 0)
      BY <1>1, <2>4 DEF RawBody, Header
    <3>2. Len(conn'[s]) <= left[s] /\ got[s] + left[s] <= MaxLength
      <4>1. pos[s] + remain[s] <= MaxLength
        BY <1>1 DEF RawBody
      <4> QED BY <1>0, <1>2, <2>0, <2>2, <3>1, <4>1, Amounts
    <3>3. CutBody(s)'
      BY <1>5, <2>4, <3>1, <3>2 DEF CutBody
    <3> QED BY <1>5, <1>6, <2>1, <3>3 DEF Framed
  <2> QED BY <2>3, <2>4
<1> QED BY <1>8, <1>9

\* A block in a frame of its own.
LEMMA SendsFrame ==
    ASSUME FramedInv, NEW s \in Stream, NEW type \in {"R", "Zc"},
           sender[s] \in {"blocks", "report"}, Put(s, <<Tok(type, 1), Tok("payload", 1)>>),
           sender'[s] = "blocks", pos'[s] = Written(s) + 1, MaxLength >= 1,
           UNCHANGED <<readerSide, remain, cut>>
    PROVE  conn' \in [Stream -> Seq(Token)] /\ Framed(s)'
<1> USE DEF readerSide
<1>0. LargeTypeOK /\ Framed(s)
  BY DEF FramedInv
<1>1. BlockBody(s) /\ ~cut[s] /\ ~misread[s]
  BY <1>0 DEF Framed, CutBody
<1> DEFINE k == Written(s) - got[s] - left[s]
<1>2. /\ got[s] + left[s] <= Written(s) /\ k \in Nat /\ left[s] \in {0, 1} /\ Written(s) \in Nat
      /\ FrameLine(conn[s], Header(s), left[s], k, 0)
  <2>1. got[s] + left[s] <= Written(s) /\ left[s] \in {0, 1} /\ Written(s) >= 0 /\ Ended(s) = 0
    BY <1>1 DEF BlockBody, Ended
  <2>2. Written(s) \in Int
    BY <1>0, Here DEF Written
  <2> QED BY <1>0, <1>1, <2>1, <2>2, Here DEF BlockBody
<1> DEFINE c == conn[s] \o <<Tok(type, 1), Payload>>
<1>3. c \in Seq(Token) /\ FrameLine(c, Header(s), left[s], k + 1, 0)
  <2>1. conn[s] \in Seq(Token) /\ Header(s) \in {0, 1}
    BY <1>0, Here
  <2> HIDE DEF k
  <2> QED BY <1>2, <2>1, FrameSendBlock
<1>4. conn'[s] = c /\ conn' \in [Stream -> Seq(Token)]
  BY <1>0, <1>3, PutOn DEF Payload
<1> HIDE DEF c
<1>5. /\ Written(s)' = Written(s) + 1 /\ Header(s)' = Header(s) /\ Ended(s)' = 0
      /\ Written(s) + 1 - got[s] - left[s] = k + 1 /\ Written(s) + 1 >= 0
      /\ got[s] + left[s] <= Written(s) + 1
  <2>1. Written(s)' = Written(s) + 1 /\ Header(s)' = Header(s) /\ Ended(s)' = 0
    BY DEF Written, Header, Ended
  <2> QED BY <1>0, <1>2, <2>1, Amounts
<1> HIDE DEF k
<1>6. BlockBody(s)'
  <2>1. Written(s)' - got'[s] - left'[s] = k + 1 /\ got'[s] + left'[s] <= Written(s)'
    <3>1. got'[s] = got[s] /\ left'[s] = left[s] /\ Written(s)' = Written(s) + 1
      BY <1>5
    <3> QED BY <1>0, <1>2, <3>1, Amounts DEF k
  <2> QED BY <1>1, <1>3, <1>4, <1>5, <2>1, Zenon DEF BlockBody
<1> QED BY <1>1, <1>4, <1>6 DEF Framed

LEMMA SendsBlocks ==
    ASSUME FramedInv, AdaptiveTypeOK', NEW s \in Stream,
           TinyBlock(s) \/ ModeBlock(s) \/ ShrunkBlock(s) \/ FlatBlock(s)
    PROVE  LargeTypeOK' /\ Framed(s)'
<1> USE DEF serverSide, readerSide
<1>0. LargeTypeOK /\ Framed(s) /\ sender[s] \in {"blocks", "report"} /\ BlockBody(s)
  BY DEF FramedInv, TinyBlock, ModeBlock, ShrunkBlock, FlatBlock, ReadsBlock, AtSender, Framed
<1>1. CASE TinyBlock(s) \/ ModeBlock(s)
  <2>1. /\ sender[s] = "blocks" /\ pos[s] < length[s] /\ pos' = [pos EXCEPT ![s] = @ + 1]
        /\ Put(s, <<Tok("R", 1), Tok("payload", 1)>>)
        /\ UNCHANGED <<length, sender, remain, readerSide, cut>>
    BY <1>1 DEF TinyBlock, ModeBlock, ReadsBlock, RawFrame
  <2>2. pos[s] + 1 \in 0..MaxLength /\ MaxLength >= 1
    BY <1>0, <2>1, Amounts
  <2>3. pos'[s] = Written(s) + 1
    BY <1>0, <2>1 DEF Written, LargeTypeOK
  <2>4. conn' \in [Stream -> Seq(Token)] /\ Framed(s)'
    BY <1>0, <2>1, <2>2, <2>3, SendsFrame
  <2> QED BY <1>0, <2>1, <2>2, <2>4 DEF LargeTypeOK
<1>2. CASE ShrunkBlock(s) \/ FlatBlock(s)
  <2>1. /\ sender[s] = "report" /\ sender' = [sender EXCEPT ![s] = "blocks"]
        /\ UNCHANGED <<length, pos, remain, readerSide, cut>>
        /\ \/ Put(s, <<Tok("R", 1), Tok("payload", 1)>>)
           \/ Put(s, <<Tok("Zc", 1), Tok("payload", 1)>>)
    BY <1>2 DEF ShrunkBlock, FlatBlock, AtSender, RawFrame, ZipFrame
  <2>2. Written(s) = pos[s] - 1 /\ pos[s] - 1 >= 0
    BY <1>0, <2>1 DEF BlockBody, Written
  <2>3. pos[s] = Written(s) + 1 /\ MaxLength >= 1
    BY <1>0, <2>2, Amounts
  <2>4. sender'[s] = "blocks" /\ pos'[s] = Written(s) + 1
    BY <1>0, <2>1, <2>3 DEF LargeTypeOK
  <2>5. conn' \in [Stream -> Seq(Token)] /\ Framed(s)'
    BY <1>0, <2>1, <2>3, <2>4, SendsFrame
  <2> QED BY <1>0, <2>1, <2>5 DEF LargeTypeOK
<1> QED BY <1>1, <1>2

\* While a block is compressed nothing of it is under way.
LEMMA Compresses ==
    ASSUME FramedInv, AdaptiveTypeOK', NEW s \in Stream, CompressBlock(s)
    PROVE  LargeTypeOK' /\ Framed(s)'
<1> USE DEF serverSide, readerSide
<1>0. LargeTypeOK /\ Framed(s) /\ sender[s] = "blocks" /\ BlockBody(s) /\ ~cut[s] /\ ~misread[s]
  BY DEF FramedInv, CompressBlock, ReadsBlock, Framed, CutBody
<1>1. /\ pos[s] < length[s] /\ pos' = [pos EXCEPT ![s] = @ + 1]
      /\ sender' = [sender EXCEPT ![s] = "report"]
      /\ UNCHANGED <<length, remain, conn, readerSide, cut>>
  BY DEF CompressBlock, ReadsBlock
<1>2. pos[s] + 1 \in 0..MaxLength /\ pos[s] + 1 - 1 = pos[s]
  BY <1>0, <1>1, Amounts
<1>3. LargeTypeOK'
  BY <1>0, <1>1, <1>2 DEF LargeTypeOK
<1>4. sender'[s] = "report" /\ pos'[s] = pos[s] + 1
  BY <1>0, <1>1 DEF LargeTypeOK
<1>5. Written(s)' = Written(s) /\ Header(s)' = Header(s) /\ Ended(s)' = Ended(s)
  <2>1. Header(s)' = Header(s) /\ Ended(s)' = Ended(s)
    BY <1>0, <1>1, <1>4 DEF Header, Ended
  <2>2. Written(s) = pos[s] /\ Written(s)' = pos'[s] - 1
    BY <1>0, <1>4 DEF Written
  <2>3. pos'[s] - 1 = pos[s]
    BY <1>0, <1>4, Amounts
  <2> QED BY <2>1, <2>2, <2>3
<1>6. BlockBody(s)'
  BY <1>0, <1>1, <1>5, Zenon DEF BlockBody
<1> QED BY <1>0, <1>1, <1>3, <1>4, <1>6 DEF Framed

LEMMA EndsBlocks ==
    ASSUME FramedInv, AdaptiveTypeOK', NEW s \in Stream, EndBlocks(s)
    PROVE  LargeTypeOK' /\ Framed(s)'
<1> USE DEF serverSide, readerSide
<1>0. LargeTypeOK /\ Framed(s) /\ sender[s] = "blocks" /\ BlockBody(s) /\ ~cut[s] /\ ~misread[s]
  BY DEF FramedInv, EndBlocks, AtSender, Framed, CutBody
<1> DEFINE k == Written(s) - got[s] - left[s]
<1>1. /\ k \in Nat /\ left[s] \in {0, 1}
      /\ FrameLine(conn[s], Header(s), left[s], k, 0)
  <2>1. got[s] + left[s] <= Written(s) /\ left[s] \in {0, 1} /\ Ended(s) = 0
    BY <1>0 DEF BlockBody, Ended
  <2>2. Written(s) = pos[s]
    BY <1>0 DEF Written
  <2>3. k \in Nat
    BY <1>0, <2>1, <2>2, Amounts
  <2> QED BY <1>0, <2>1, <2>3 DEF BlockBody
<1> DEFINE c == conn[s] \o <<Tok("E", 0), After>>
<1>2. c \in Seq(Token) /\ FrameLine(c, Header(s), left[s], k, 1)
  <2>1. conn[s] \in Seq(Token) /\ Header(s) \in {0, 1}
    BY <1>0, Here
  <2> HIDE DEF k
  <2> QED BY <1>1, <2>1, FrameSendEnd
<1>3. conn'[s] = c /\ conn' \in [Stream -> Seq(Token)]
  BY <1>0, <1>2, PutOn DEF EndBlocks, After
<1> HIDE DEF c
<1>4. /\ sender' = [sender EXCEPT ![s] = "sent"] /\ sender'[s] = "sent"
      /\ UNCHANGED <<length, pos, remain, readerSide, cut>>
  BY <1>0 DEF EndBlocks, AtSender, LargeTypeOK
<1>5. LargeTypeOK'
  BY <1>0, <1>3, <1>4 DEF LargeTypeOK
<1>6. Written(s)' = Written(s) /\ Header(s)' = Header(s) /\ Ended(s)' = 1
  BY <1>0, <1>4 DEF Written, Header, Ended
<1>7. BlockBody(s)'
  BY <1>0, <1>2, <1>3, <1>4, <1>6, Zenon DEF BlockBody, k
<1> QED BY <1>0, <1>4, <1>5, <1>7 DEF Framed

\* A file that grows or shrinks changes nothing that is under way.
LEMMA Resizes ==
    ASSUME FramedInv, AdaptiveTypeOK', NEW s \in Stream, Resize(s)
    PROVE  LargeTypeOK' /\ Framed(s)'
<1> USE DEF serverSide, readerSide
<1>0. LargeTypeOK /\ Framed(s)
  BY DEF FramedInv
<1>1. UNCHANGED <<pos, sender, remain, conn, reader, left, got, misread, cut>>
  BY DEF Resize
<1>2. LargeTypeOK'
  BY <1>0 DEF Resize, LargeTypeOK
<1>3. /\ RawBody(s)' <=> RawBody(s)
      /\ BlockBody(s)' <=> BlockBody(s)
      /\ AllRead(s)' <=> AllRead(s)
      /\ CutBody(s)' <=> CutBody(s)
  BY <1>1, Zenon DEF RawBody, BlockBody, AllRead, CutBody, Header, Ended, Written
<1> QED BY <1>0, <1>1, <1>2, <1>3, Zenon DEF Framed

\* The stream goes on only where nothing is left of the file before.
LEMMA GoesOn ==
    ASSUME FramedInv, AdaptiveTypeOK', NEW s \in Stream, NextFile(s)
    PROVE  LargeTypeOK' /\ Framed(s)'
<1> USE DEF serverSide, readerSide
<1>0. LargeTypeOK /\ Framed(s) /\ sender[s] = "sent" /\ reader[s] = "idle"
  BY DEF FramedInv, NextFile, AtSender
<1>1. ~cut[s] /\ ~misread[s] /\ AllRead(s)
  BY <1>0 DEF Framed, CutBody, RawBody, BlockBody
<1>2. LargeTypeOK'
  BY <1>0, LargeAssumption DEF NextFile, AtSender, LargeTypeOK
<1>3. /\ sender'[s] = "open" /\ reader'[s] = "header" /\ pos'[s] = 0 /\ remain'[s] = 0
      /\ got'[s] = 0 /\ conn'[s] = conn[s] /\ left'[s] = left[s]
      /\ cut'[s] = cut[s] /\ misread'[s] = misread[s]
  BY <1>0 DEF NextFile, AtSender, LargeTypeOK
<1>4. AllRead(s)'
  BY <1>1, <1>3 DEF AllRead
<1> QED BY <1>1, <1>2, <1>3, <1>4 DEF Framed

\* Where a stream is that has something under way.
RawStage(s) == sender[s] = "raw" \/ (sender[s] = "sent" /\ remain[s] = 0)
BlockStage(s) == sender[s] \in {"blocks", "report", "sent"}

LEMMA UnderWay ==
    ASSUME FramedInv, NEW s \in Stream, conn[s] # <<>>
    PROVE  \/ cut[s] /\ CutBody(s)
           \/ ~cut[s] /\ ~misread[s] /\ RawStage(s) /\ RawBody(s)
           \/ ~cut[s] /\ ~misread[s] /\ BlockStage(s) /\ BlockBody(s)
<1>1. Framed(s) /\ sender[s] \in {"open", "raw", "blocks", "report", "sent"}
  BY DEF FramedInv, LargeTypeOK
<1>2. ~AllRead(s)
  BY DEF AllRead
<1> QED BY <1>1, <1>2, Zenon DEF Framed, RawStage, BlockStage

LEMMA StillRaw ==
    ASSUME NEW s \in Stream, RawStage(s)', RawBody(s)', ~cut'[s], ~misread'[s]
    PROVE  Framed(s)'
  BY Zenon DEF Framed, RawStage

LEMMA StillBlocks ==
    ASSUME NEW s \in Stream, BlockStage(s)', BlockBody(s)', ~cut'[s], ~misread'[s]
    PROVE  Framed(s)'
<1>1. /\ ~(sender'[s] = "open" /\ BlockStage(s)')
      /\ ~(sender'[s] = "raw" /\ BlockStage(s)')
  BY DEF BlockStage
<1> QED BY <1>1, Zenon DEF Framed

LEMMA StillCut ==
    ASSUME NEW s \in Stream, CutBody(s)', cut'[s]
    PROVE  Framed(s)'
<1>1. sender'[s] = "sent"
  BY DEF CutBody
<1>2. /\ sender'[s] # "open" /\ sender'[s] # "raw" /\ sender'[s] \notin {"blocks", "report"}
  BY <1>1
<1> QED BY <1>2, Zenon DEF Framed

\* A reader's step leaves the server's side alone.
LEMMA ReaderOnly ==
    ASSUME LargeTypeOK, NEW s \in Stream, NEW from, Takes(s, from)
    PROVE  /\ Ended(s)' = Ended(s) /\ Written(s)' = Written(s)
           /\ RawStage(s) => RawStage(s)'
           /\ BlockStage(s) => BlockStage(s)'
           /\ UNCHANGED <<length, pos, sender, remain, cut>>
           /\ conn[s] # <<>> /\ conn[s] \in Seq(Token) /\ Head(conn[s]) \in Token
           /\ conn'[s] = Tail(conn[s]) /\ conn' \in [Stream -> Seq(Token)]
           /\ reader[s] = from
<1>1. /\ conn[s] # <<>> /\ conn'[s] = Tail(conn[s]) /\ conn' \in [Stream -> Seq(Token)]
      /\ reader[s] = from /\ UNCHANGED <<length, pos, sender, remain, cut>>
  BY TakenFrom
<1>2. conn[s] \in Seq(Token) /\ Head(conn[s]) \in Token
  BY <1>1, Here, LineTail
<1> QED BY <1>1, <1>2 DEF Ended, Written, RawStage, BlockStage

LEMMA TakesHeader ==
    ASSUME FramedInv, AdaptiveTypeOK', NEW s \in Stream, ReadHeader(s)
    PROVE  LargeTypeOK' /\ Framed(s)'
<1> USE DEF serverSide, readerSide
<1>0. LargeTypeOK /\ Takes(s, "header")
  BY DEF FramedInv, ReadHeader
<1>1. /\ conn[s] # <<>> /\ conn'[s] = Tail(conn[s]) /\ conn' \in [Stream -> Seq(Token)]
      /\ reader[s] = "header" /\ Header(s) = 1 /\ Ended(s)' = Ended(s) /\ Written(s)' = Written(s)
      /\ UNCHANGED <<length, pos, sender, remain, cut, got, misread>>
      /\ conn[s] \in Seq(Token) /\ Ended(s) \in {0, 1}
  BY <1>0, ReaderOnly, Here DEF ReadHeader, Header
<1>3. ASSUME NEW n \in 0..MaxLength, Head(conn[s]) = Tok("R", n)
      PROVE  /\ left'[s] = n /\ reader'[s] = IF n = 0 THEN "done" ELSE "raw"
             /\ Header(s)' = 0 /\ LargeTypeOK'
  <2>1. Head(conn[s]).type = "R" /\ Head(conn[s]).n = n
    BY <1>3 DEF Tok
  <2>2. /\ reader' = [reader EXCEPT ![s] = IF n = 0 THEN "done" ELSE "raw"]
        /\ left' = [left EXCEPT ![s] = n]
    BY <2>1 DEF ReadHeader
  <2> QED BY <1>0, <1>1, <2>2 DEF LargeTypeOK, Header
<1>4. CASE ~cut[s] /\ ~misread[s] /\ RawStage(s) /\ RawBody(s)
  <2> DEFINE n == pos[s] + remain[s]
             k == pos[s] - got[s]
  <2>1. /\ n \in 0..MaxLength /\ k \in Nat /\ got[s] = 0 /\ got[s] <= pos[s]
        /\ RawLine(conn[s], 1, n, k, Ended(s)) /\ k + remain[s] = n
    <3>1. got[s] <= pos[s] /\ pos[s] + remain[s] <= MaxLength /\ got[s] = 0
      BY <1>1, <1>4 DEF RawBody
    <3>2. n \in 0..MaxLength /\ k \in Nat /\ k + remain[s] = n
      BY <1>0, <3>1, Amounts
    <3> QED BY <1>1, <1>4, <3>1, <3>2 DEF RawBody
  <2> HIDE DEF n, k
  <2>2. Head(conn[s]) = Tok("R", n) /\ RawLine(conn'[s], 0, n, k, Ended(s))
    BY <1>1, <2>1, RawReadHeader
  <2>3. /\ left'[s] = n /\ reader'[s] = IF n = 0 THEN "done" ELSE "raw"
        /\ Header(s)' = 0 /\ LargeTypeOK'
    BY <1>3, <2>1, <2>2
  <2>4. RawBody(s)'
    <3>1. /\ reader'[s] \in {"raw", "done"} /\ (reader'[s] = "done" <=> left'[s] = 0)
          /\ left'[s] = k + remain[s]
      BY <2>1, <2>3
    <3>2. pos'[s] + remain'[s] = n /\ pos'[s] - got'[s] = k /\ got'[s] <= pos'[s]
      BY <1>1, <2>1 DEF n, k
    <3>3. n <= MaxLength
      BY <2>1, LargeAssumption
    <3> QED BY <1>1, <2>2, <2>3, <3>1, <3>2, <3>3, Zenon DEF RawBody
  <2> QED BY <1>0, <1>1, <1>4, <2>3, <2>4, ReaderOnly, StillRaw
<1>5. CASE ~cut[s] /\ ~misread[s] /\ BlockStage(s) /\ BlockBody(s)
  <2> DEFINE k == Written(s) - got[s] - left[s]
  <2>1. /\ got[s] = 0 /\ left[s] = 0 /\ k \in Nat
        /\ FrameLine(conn[s], 1, 0, k, Ended(s))
    <3>1. got[s] = 0 /\ left[s] = 0 /\ Written(s) >= 0
      BY <1>1, <1>5 DEF BlockBody
    <3>2. k \in Nat
      BY <1>0, <3>1, Amounts DEF Written
    <3> QED BY <1>1, <1>5, <3>1, <3>2 DEF BlockBody
  <2> HIDE DEF k
  <2>2. Head(conn[s]) = Tok("Z", 0) /\ FrameLine(conn'[s], 0, 0, k, Ended(s))
    BY <1>1, <2>1, FrameReadHeader
  <2>3. Head(conn[s]).type = "Z"
    BY <2>2 DEF Tok
  <2>4. /\ reader' = [reader EXCEPT ![s] = "blocks"] /\ left' = [left EXCEPT ![s] = 0]
    BY <2>3 DEF ReadHeader
  <2>5. reader'[s] = "blocks" /\ left'[s] = 0 /\ LargeTypeOK' /\ Header(s)' = 0
    BY <1>0, <1>1, <2>4, LargeAssumption DEF LargeTypeOK, Header
  <2>6. BlockBody(s)'
    <3>1. Written(s)' - got'[s] - left'[s] = k
      BY <1>1, <2>1, <2>5 DEF k
    <3> QED BY <1>1, <1>5, <2>1, <2>2, <2>5, <3>1 DEF BlockBody
  <2> QED BY <1>0, <1>1, <1>5, <2>5, <2>6, ReaderOnly, StillBlocks
<1>6. CASE cut[s] /\ CutBody(s)
  <2>1. PICK n \in 1..MaxLength : conn[s][1] = Tok("R", n) /\ Len(conn[s]) - 1 <= n
    BY <1>1, <1>6 DEF CutBody
  <2>2. Head(conn[s]) = Tok("R", n) /\ Len(conn'[s]) = Len(conn[s]) - 1 /\ n \in 0..MaxLength
    BY <1>1, <2>1, LineTail
  <2>3. left'[s] = n /\ reader'[s] = "raw" /\ LargeTypeOK'
    BY <1>3, <2>2
  <2>4. got'[s] = 0 /\ got'[s] + left'[s] <= MaxLength /\ sender'[s] = "sent" /\ cut'[s]
    BY <1>1, <1>6, <2>3, LargeAssumption DEF CutBody
  <2>5. CutBody(s)'
    BY <2>1, <2>2, <2>3, <2>4 DEF CutBody
  <2> QED BY <2>3, <2>4, <2>5, StillCut
<1> QED BY <1>1, <1>4, <1>5, <1>6, UnderWay

LEMMA TakesRaw ==
    ASSUME FramedInv, AdaptiveTypeOK', NEW s \in Stream, ReadPayload(s, "raw", "done")
    PROVE  LargeTypeOK' /\ Framed(s)'
<1> USE DEF serverSide, readerSide
<1>0. LargeTypeOK /\ Takes(s, "raw") /\ left[s] > 0
  BY DEF FramedInv, ReadPayload
<1>1. /\ conn[s] # <<>> /\ conn'[s] = Tail(conn[s]) /\ conn' \in [Stream -> Seq(Token)]
      /\ reader[s] = "raw" /\ Header(s) = 0 /\ Ended(s)' = Ended(s)
      /\ UNCHANGED <<length, pos, sender, remain, cut>>
      /\ conn[s] \in Seq(Token) /\ Ended(s) \in {0, 1}
  BY <1>0, ReaderOnly, Here DEF Header
<1>2. /\ left'[s] = left[s] - 1 /\ got'[s] = got[s] + 1
      /\ reader'[s] = IF left[s] - 1 = 0 THEN "done" ELSE "raw"
      /\ Header(s)' = 0
  BY <1>0 DEF ReadPayload, LargeTypeOK, Header
<1>3. got[s] + left[s] <= MaxLength => LargeTypeOK'
  <2> SUFFICES ASSUME got[s] + left[s] <= MaxLength PROVE LargeTypeOK'
    OBVIOUS
  <2>1. left[s] - 1 \in 0..MaxLength /\ got[s] + 1 \in 0..MaxLength
    BY <1>0, Amounts
  <2>2. /\ left' = [left EXCEPT ![s] = left[s] - 1] /\ got' = [got EXCEPT ![s] = got[s] + 1]
        /\ reader' = [reader EXCEPT ![s] = IF left[s] - 1 = 0 THEN "done" ELSE "raw"]
    BY <1>0, <1>2 DEF ReadPayload
  <2>3. misread' \in [Stream -> BOOLEAN]
    BY <1>0 DEF ReadPayload, LargeTypeOK
  <2> QED BY <1>0, <1>1, <2>1, <2>2, <2>3 DEF LargeTypeOK
<1>4. CASE ~cut[s] /\ ~misread[s] /\ RawStage(s) /\ RawBody(s)
  <2> DEFINE n == pos[s] + remain[s]
             k == pos[s] - got[s]
  <2>1. /\ got[s] <= pos[s] /\ pos[s] + remain[s] <= MaxLength /\ left[s] = k + remain[s]
        /\ RawLine(conn[s], 0, n, k, Ended(s))
    BY <1>1, <1>4 DEF RawBody
  <2>2. k \in Nat
    BY <1>0, <2>1, Amounts
  <2>3. k >= 1
    <3> SUFFICES ASSUME k = 0 PROVE FALSE
      BY <2>2
    <3>1. remain[s] > 0
      BY <1>0, <2>1, Amounts
    <3>2. sender[s] = "raw"
      BY <1>4, <3>1 DEF RawStage
    <3>3. Ended(s) = 0
      BY <3>2 DEF Ended
    <3> HIDE DEF n, k
    <3> QED BY <1>1, <2>1, <3>3, NothingUnderWay
  <2>4. Head(conn[s]) = Payload /\ RawLine(conn'[s], 0, n, k - 1, Ended(s))
    <3> HIDE DEF n, k
    <3> QED BY <1>1, <2>1, <2>2, <2>3, RawReadBlock
  <2>5. Head(conn[s]).type = "payload"
    BY <2>4 DEF Payload, Tok
  <2>6. ~misread'[s]
    BY <1>0, <1>4, <2>5 DEF ReadPayload, LargeTypeOK
  <2>7. /\ got[s] + left[s] <= MaxLength /\ pos[s] - (got[s] + 1) = k - 1 /\ got[s] + 1 <= pos[s]
        /\ left[s] - 1 = k - 1 + remain[s]
    BY <1>0, <2>1, <2>3, Amounts
  <2> HIDE DEF n, k
  <2>8. RawBody(s)'
    <3>1. /\ reader'[s] \in {"raw", "done"} /\ (reader'[s] = "done" <=> left'[s] = 0)
          /\ left'[s] = k - 1 + remain[s]
      BY <1>2, <2>7
    <3>2. pos'[s] + remain'[s] = n /\ pos'[s] - got'[s] = k - 1 /\ got'[s] <= pos'[s]
      BY <1>1, <1>2, <2>7 DEF n
    <3>3. n <= MaxLength
      BY <2>1 DEF n
    <3>4. reader'[s] # "header"
      BY <3>1
    <3> QED BY <1>1, <1>2, <2>4, <3>1, <3>2, <3>3, <3>4, Zenon DEF RawBody
  <2> QED BY <1>0, <1>1, <1>3, <1>4, <2>6, <2>7, <2>8, ReaderOnly, StillRaw
<1>5. CASE BlockBody(s)
  BY <1>1, <1>5 DEF BlockBody
<1>6. CASE cut[s] /\ CutBody(s)
  <2>1. /\ got[s] + left[s] <= MaxLength /\ Len(conn[s]) <= left[s] /\ sender[s] = "sent"
    BY <1>1, <1>6 DEF CutBody
  <2>2. Len(conn'[s]) = Len(conn[s]) - 1 /\ Len(conn[s]) \in Nat
    BY <1>1, LineTail
  <2>3. /\ Len(conn'[s]) <= left[s] - 1 /\ got[s] + 1 + (left[s] - 1) <= MaxLength
    <3>1. Len(conn'[s]) <= left[s] - 1
      BY <1>0, <2>1, <2>2, Amounts
    <3>2. got[s] + 1 + (left[s] - 1) = got[s] + left[s]
      BY <1>0, Amounts
    <3> QED BY <2>1, <3>1, <3>2
  <2>4. CutBody(s)'
    BY <1>1, <1>2, <2>1, <2>3 DEF CutBody
  <2>5. cut'[s]
    BY <1>1, <1>6
  <2> QED BY <1>3, <2>1, <2>4, <2>5, StillCut
<1> QED BY <1>1, <1>4, <1>5, <1>6, UnderWay

LEMMA TakesBlock ==
    ASSUME FramedInv, AdaptiveTypeOK', NEW s \in Stream, ReadPayload(s, "blocks", "blocks")
    PROVE  LargeTypeOK' /\ Framed(s)'
<1> USE DEF serverSide, readerSide
<1>0. LargeTypeOK /\ Takes(s, "blocks") /\ left[s] > 0
  BY DEF FramedInv, ReadPayload
<1>1. /\ conn[s] # <<>> /\ conn'[s] = Tail(conn[s]) /\ conn' \in [Stream -> Seq(Token)]
      /\ reader[s] = "blocks" /\ Header(s) = 0 /\ Ended(s)' = Ended(s) /\ Written(s)' = Written(s)
      /\ UNCHANGED <<length, pos, sender, remain, cut>>
      /\ conn[s] \in Seq(Token) /\ Ended(s) \in {0, 1}
  BY <1>0, ReaderOnly, Here DEF Header
<1>2. ~cut[s] /\ ~misread[s] /\ BlockStage(s) /\ BlockBody(s)
  BY <1>1, UnderWay DEF CutBody, RawBody
<1> DEFINE k == Written(s) - got[s] - left[s]
<1>3. /\ left[s] = 1 /\ k \in Nat /\ got[s] + 1 <= Written(s) /\ Written(s) <= MaxLength
      /\ FrameLine(conn[s], 0, 1, k, Ended(s))
      /\ Written(s) - (got[s] + 1) - 0 = k
  <2>1. left[s] = 1 /\ got[s] + left[s] <= Written(s)
    BY <1>0, <1>2 DEF BlockBody
  <2>2. /\ k \in Nat /\ got[s] + 1 <= Written(s) /\ Written(s) <= MaxLength
        /\ Written(s) - (got[s] + 1) - 0 = k
    BY <1>0, <2>1, Amounts DEF Written
  <2> QED BY <1>1, <1>2, <2>1, <2>2 DEF BlockBody
<1> HIDE DEF k
<1>4. Head(conn[s]) = Payload /\ FrameLine(conn'[s], 0, 0, k, Ended(s))
  BY <1>1, <1>3, FrameReadBlock
<1>5. Head(conn[s]).type = "payload"
  BY <1>4 DEF Payload, Tok
<1>6. /\ left' = [left EXCEPT ![s] = 0] /\ got' = [got EXCEPT ![s] = got[s] + 1]
      /\ reader' = [reader EXCEPT ![s] = "blocks"]
      /\ left'[s] = 0 /\ got'[s] = got[s] + 1 /\ reader'[s] = "blocks" /\ Header(s)' = 0
  BY <1>0, <1>3 DEF ReadPayload, LargeTypeOK, Header
<1>7. ~misread'[s] /\ misread' \in [Stream -> BOOLEAN]
  BY <1>0, <1>2, <1>5 DEF ReadPayload, LargeTypeOK
<1>8. LargeTypeOK'
  <2>1. got[s] + 1 \in 0..MaxLength /\ 0 \in 0..MaxLength
    BY <1>0, <1>3, Amounts DEF Written
  <2> QED BY <1>0, <1>1, <1>6, <1>7, <2>1 DEF LargeTypeOK
<1>9. BlockBody(s)'
  <2>1. got'[s] + left'[s] <= Written(s)' /\ Written(s)' - got'[s] - left'[s] = k
    BY <1>0, <1>1, <1>3, <1>6, Amounts DEF Written
  <2>2. left'[s] \in {0, 1}
    BY <1>6
  <2>3. reader'[s] # "header"
    BY <1>6
  <2> QED BY <1>1, <1>2, <1>4, <1>6, <2>1, <2>2, <2>3 DEF BlockBody
<1> QED BY <1>0, <1>1, <1>2, <1>7, <1>8, <1>9, ReaderOnly, StillBlocks

LEMMA TakesFrame ==
    ASSUME FramedInv, AdaptiveTypeOK', NEW s \in Stream, ReadFrame(s)
    PROVE  LargeTypeOK' /\ Framed(s)'
<1> USE DEF serverSide, readerSide
<1>0. LargeTypeOK /\ Takes(s, "blocks") /\ left[s] = 0
  BY DEF FramedInv, ReadFrame
<1>1. /\ conn[s] # <<>> /\ conn'[s] = Tail(conn[s]) /\ conn' \in [Stream -> Seq(Token)]
      /\ reader[s] = "blocks" /\ Header(s) = 0 /\ Ended(s)' = Ended(s) /\ Written(s)' = Written(s)
      /\ UNCHANGED <<length, pos, sender, remain, cut, got, misread>>
      /\ conn[s] \in Seq(Token) /\ Ended(s) \in {0, 1}
  BY <1>0, ReaderOnly, Here DEF Header, ReadFrame
<1>2. ~cut[s] /\ ~misread[s] /\ BlockStage(s) /\ BlockBody(s)
  BY <1>1, UnderWay DEF CutBody, RawBody
<1> DEFINE k == Written(s) - got[s]
<1>3. /\ k \in Nat /\ got[s] <= Written(s) /\ Written(s) <= MaxLength
      /\ FrameLine(conn[s], 0, 0, k, Ended(s))
  <2>1. got[s] + 0 <= Written(s) /\ FrameLine(conn[s], 0, 0, Written(s) - got[s] - 0, Ended(s))
    BY <1>0, <1>1, <1>2 DEF BlockBody
  <2>2. /\ k \in Nat /\ got[s] <= Written(s) /\ Written(s) <= MaxLength
        /\ Written(s) - got[s] - 0 = k
    BY <1>0, <2>1, Amounts DEF Written
  <2> QED BY <2>1, <2>2
<1>4. ASSUME NEW n \in 0..MaxLength, NEW to \in {"blocks", "done"},
             left' = [left EXCEPT ![s] = n], reader' = [reader EXCEPT ![s] = to]
      PROVE  LargeTypeOK' /\ left'[s] = n /\ reader'[s] = to /\ Header(s)' = 0
  BY <1>0, <1>1, <1>4 DEF LargeTypeOK, Header
<1>5. CASE k >= 1
  <2> HIDE DEF k
  <2>1. /\ Head(conn[s]) \in {Tok("R", 1), Tok("Zc", 1)}
        /\ FrameLine(conn'[s], 0, 1, k - 1, Ended(s))
    BY <1>1, <1>3, <1>5, FrameReadLine
  <2>2. Head(conn[s]).n = 1 /\ Head(conn[s]).type # "E"
    BY <2>1 DEF Tok
  <2>3. left' = [left EXCEPT ![s] = 1] /\ reader' = [reader EXCEPT ![s] = "blocks"]
    BY <2>2 DEF ReadFrame
  <2>4. 1 \in 0..MaxLength /\ got[s] + 1 <= Written(s) /\ Written(s) - got[s] - 1 = k - 1
    BY <1>0, <1>3, <1>5, Amounts DEF Written, k
  <2>5. LargeTypeOK' /\ left'[s] = 1 /\ reader'[s] = "blocks" /\ Header(s)' = 0
    BY <1>4, <2>3, <2>4
  <2>6. BlockBody(s)'
    BY <1>1, <1>2, <2>1, <2>4, <2>5 DEF BlockBody
  <2> QED BY <1>0, <1>1, <1>2, <2>5, <2>6, ReaderOnly, StillBlocks
<1>6. CASE ~(k >= 1)
  <2>1. k = 0
    BY <1>3, <1>6
  <2> HIDE DEF k
  <2>2. /\ Ended(s) = 1 /\ Head(conn[s]) = Tok("E", 0)
        /\ RawLine(conn'[s], 0, pos[s], 0, 1)
    BY <1>1, <1>3, <2>1, FrameReadEnd
  <2>3. Head(conn[s]).n = 0 /\ Head(conn[s]).type = "E"
    BY <2>2 DEF Tok
  <2>4. left' = [left EXCEPT ![s] = 0] /\ reader' = [reader EXCEPT ![s] = "done"]
    BY <2>3 DEF ReadFrame
  <2>5. LargeTypeOK' /\ left'[s] = 0 /\ reader'[s] = "done" /\ Header(s)' = 0
    <3>1. 0 \in 0..MaxLength
      BY LargeAssumption
    <3> QED BY <1>4, <2>4, <3>1
  <2>6. sender[s] = "sent" /\ remain[s] = 0
    BY <1>2, <2>2 DEF Ended, BlockBody
  <2>7. got[s] = pos[s] /\ pos[s] + remain[s] = pos[s] /\ pos[s] - got[s] = 0 /\ 0 + remain[s] = 0
    BY <1>0, <1>3, <2>1, <2>6, Amounts DEF Written, k
  <2>8. RawBody(s)'
    <3>1. got[s] <= pos[s] /\ pos[s] <= MaxLength
      BY <1>0, <2>7, Amounts
    <3>2. reader'[s] # "header" /\ reader'[s] \in {"header", "raw", "done"}
      BY <2>5
    <3>3. /\ pos'[s] + remain'[s] = pos[s] /\ pos'[s] - got'[s] = 0
          /\ left'[s] = pos'[s] - got'[s] + remain'[s] /\ Ended(s)' = 1
          /\ got'[s] <= pos'[s]
      BY <1>1, <2>2, <2>5, <2>7, <3>1
    <3> QED BY <2>2, <2>5, <3>1, <3>2, <3>3, Zenon DEF RawBody
  <2> QED BY <1>1, <1>2, <2>5, <2>6, <2>8, StillRaw DEF RawStage
<1> QED BY <1>5, <1>6

LEMMA TakesNext ==
    ASSUME FramedInv, AdaptiveTypeOK', NEW s \in Stream, ReadNext(s)
    PROVE  LargeTypeOK' /\ Framed(s)'
<1> USE DEF serverSide, readerSide
<1>0. LargeTypeOK /\ Takes(s, "done")
  BY DEF FramedInv, ReadNext
<1>1. /\ conn[s] # <<>> /\ conn'[s] = Tail(conn[s]) /\ conn' \in [Stream -> Seq(Token)]
      /\ reader[s] = "done" /\ Header(s) = 0
      /\ UNCHANGED <<length, pos, sender, remain, cut, got, misread, left>>
      /\ conn[s] \in Seq(Token) /\ Ended(s) \in {0, 1}
  BY <1>0, ReaderOnly, Here DEF Header, ReadNext
<1>2. ~(cut[s] /\ CutBody(s))
  <2> SUFFICES ASSUME CutBody(s) PROVE FALSE
    OBVIOUS
  <2>1. Len(conn[s]) <= left[s] /\ left[s] = 0
    BY <1>1 DEF CutBody
  <2>2. Len(conn[s]) \in Nat /\ Len(conn[s]) >= 1
    BY <1>1, LineTail
  <2> QED BY <2>1, <2>2
<1>3. ~cut[s] /\ ~misread[s] /\ RawStage(s) /\ RawBody(s)
  BY <1>1, <1>2, UnderWay DEF BlockBody
<1>4. /\ left[s] = 0 /\ left[s] = pos[s] - got[s] + remain[s] /\ got[s] <= pos[s]
      /\ RawLine(conn[s], 0, pos[s] + remain[s], pos[s] - got[s], Ended(s))
  BY <1>1, <1>3 DEF RawBody
<1>5. pos[s] - got[s] = 0 /\ got[s] = pos[s]
  BY <1>0, <1>4, Amounts
<1>6. Ended(s) = 1 /\ conn'[s] = <<>>
  BY <1>1, <1>4, <1>5, RawReadAfter
<1>7. sender[s] = "sent"
  BY <1>6 DEF Ended
<1>8. LargeTypeOK' /\ reader'[s] = "idle"
  BY <1>0, <1>1 DEF ReadNext, LargeTypeOK
<1>9. AllRead(s)'
  BY <1>1, <1>4, <1>5, <1>6 DEF AllRead
<1> QED BY <1>1, <1>3, <1>7, <1>8, <1>9 DEF Framed

------------------------------------------------------------------------------

LEMMA FramedInit == LargeInit => FramedInv
<1> SUFFICES ASSUME LargeInit PROVE FramedInv
  OBVIOUS
<1>1. LargeTypeOK
  <2>1. AdaptiveTypeOK
    BY InitType DEF LargeInit
  <2>2. 0 \in 0..MaxLength /\ <<>> \in Seq(Token)
    BY LargeAssumption
  <2> QED BY <2>1, <2>2 DEF LargeInit, LargeTypeOK
<1>2. ASSUME NEW s \in Stream PROVE Framed(s)
  <2>1. /\ sender[s] = "open" /\ reader[s] = "header" /\ conn[s] = <<>> /\ pos[s] = 0
        /\ got[s] = 0 /\ left[s] = 0 /\ remain[s] = 0 /\ ~cut[s] /\ ~misread[s]
    BY DEF LargeInit
  <2> QED BY <2>1 DEF Framed, AllRead
<1> QED BY <1>1, <1>2 DEF FramedInv

LEMMA FramedStep == FramedInv /\ [LargeNext]_lvars => FramedInv'
<1> SUFFICES ASSUME FramedInv, [LargeNext]_lvars PROVE FramedInv'
  OBVIOUS
<1>1. AdaptiveTypeOK'
  BY LargeStep, NextType DEF FramedInv, LargeTypeOK
<1>2. ASSUME NEW s \in Stream, SendFile(s) PROVE LargeTypeOK' /\ Framed(s)'
  BY <1>1, <1>2, AnnouncesRaw, AnnouncesBlocks, SendsRaw, EndsRaw, SendsBlocks, Compresses,
     EndsBlocks
     DEF SendFile
<1>3. ASSUME NEW s \in Stream, ReceiveFile(s) PROVE LargeTypeOK' /\ Framed(s)'
  BY <1>1, <1>3, TakesHeader, TakesRaw, TakesBlock, TakesFrame, TakesNext DEF ReceiveFile
<1>4. ASSUME NEW s \in Stream, Resize(s) \/ NextFile(s) PROVE LargeTypeOK' /\ Framed(s)'
  BY <1>1, <1>4, Resizes, GoesOn
<1>5. CASE LargeNext
  <2>1. PICK s \in Stream : SendFile(s) \/ ReceiveFile(s) \/ Resize(s) \/ NextFile(s)
    BY <1>5 DEF LargeNext
  <2>2. LargeTypeOK' /\ Framed(s)'
    BY <1>2, <1>3, <1>4, <2>1
  <2>3. ASSUME NEW t \in Stream, t # s PROVE Framed(t)'
    BY <2>1, <2>3, FramedElsewhere DEF FramedInv
  <2> QED BY <2>2, <2>3 DEF FramedInv
<1>6. CASE UNCHANGED lvars
  <2>1. UNCHANGED <<avars, length, pos, sender, remain, conn, reader, left, got, misread, cut>>
    BY <1>6 DEF lvars, serverSide, readerSide
  <2>2. LargeTypeOK'
    BY <1>1, <2>1 DEF FramedInv, LargeTypeOK
  <2>3. ASSUME NEW s \in Stream PROVE Framed(s)'
    <3>1. /\ RawBody(s)' <=> RawBody(s)
          /\ BlockBody(s)' <=> BlockBody(s)
          /\ AllRead(s)' <=> AllRead(s)
          /\ CutBody(s)' <=> CutBody(s)
      BY <2>1, Zenon DEF RawBody, BlockBody, AllRead, CutBody, Header, Ended, Written
    <3>2. Framed(s)
      BY DEF FramedInv
    <3> QED BY <2>1, <3>1, <3>2, Zenon DEF Framed
  <2> QED BY <2>2, <2>3 DEF FramedInv
<1> QED BY <1>5, <1>6

\* The bodies' variables keep their types: what a frame announces, what is left of
\* it and what was received never exceed what a file can hold.
THEOREM LargeType == LargeSpec => []LargeTypeOK
<1>1. FramedInv => LargeTypeOK
  BY DEF FramedInv
<1> QED BY <1>1, FramedInit, FramedStep, PTL DEF LargeSpec

LEMMA FramedBodies == FramedInv => BodiesStayFramed
<1> SUFFICES ASSUME FramedInv, NEW s \in Stream, ~cut[s]
             PROVE  /\ ~misread[s]
                    /\ reader[s] = "idle" => got[s] = pos[s] /\ conn[s] = <<>>
                    /\ sender[s] = "sent" /\ conn[s] = <<>> => reader[s] = "idle"
  BY DEF BodiesStayFramed
<1>1. Framed(s) /\ sender[s] \in {"open", "raw", "blocks", "report", "sent"}
  BY DEF FramedInv, LargeTypeOK
<1>2. ~misread[s]
  BY <1>1 DEF Framed
<1>3. ASSUME reader[s] = "idle" PROVE got[s] = pos[s] /\ conn[s] = <<>>
  <2>1. ~RawBody(s) /\ ~BlockBody(s) /\ reader[s] # "header"
    BY <1>3 DEF RawBody, BlockBody
  <2>2. AllRead(s)
    BY <1>1, <2>1, Zenon DEF Framed
  <2> QED BY <2>2 DEF AllRead
<1>4. ASSUME sender[s] = "sent", conn[s] = <<>> PROVE reader[s] = "idle"
  <2>0. Len(conn[s]) = 0 /\ Ended(s) = 1
    BY <1>4 DEF Ended
  <2>1. ~RawBody(s)
    <3> SUFFICES ASSUME RawBody(s) PROVE FALSE
      OBVIOUS
    <3>1. 0 = Header(s) + (pos[s] - got[s]) + 1 /\ got[s] <= pos[s]
      BY <2>0 DEF RawBody, RawLine
    <3> QED BY <3>1, Amounts DEF FramedInv, Header
  <2>2. ~BlockBody(s)
    <3> SUFFICES ASSUME BlockBody(s) PROVE FALSE
      OBVIOUS
    <3> DEFINE k == Written(s) - got[s] - left[s]
    <3>1. 0 = Header(s) + left[s] + 2 * k + 2 * 1 /\ got[s] + left[s] <= Written(s)
      BY <2>0 DEF BlockBody, FrameLine
    <3>2. k \in Nat /\ left[s] \in Nat /\ Header(s) \in {0, 1}
      BY <3>1, Amounts DEF FramedInv, Header, Written
    <3> HIDE DEF k
    <3> QED BY <3>1, <3>2
  <2> QED BY <1>1, <1>4, <2>1, <2>2, Zenon DEF Framed
<1> QED BY <1>2, <1>3, <1>4

\* However the files change length and whatever the shared controller decides for
\* each block, the receiver takes in what was read and finds the line after the
\* file, unless a raw one came to an early end (send_large_file,
\* recv_large_body).
THEOREM BodiesAreFramed == LargeSpec => []BodiesStayFramed
  BY FramedInit, FramedStep, FramedBodies, PTL DEF LargeSpec
==============================================================================
