--------------------------- MODULE TreeMirror_proofs ---------------------------
(***************************************************************************)
(* Proofs about the mirror, for every set of shared folders, paths, trees, *)
(* patterns and file times, and any number of runs: file times survive the *)
(* way, a file is fetched once (FetchedOnce), what is ignored stays        *)
(* (IgnoredFilesKept), a run fails for a cause, what the walk offers is    *)
(* what the ignore rule leaves (WalkFollowsRule), what the mirror deletes  *)
(* was not offered for a reason (PrunedNotOffered), and a clean run leaves *)
(* what was offered and no more (CleanIsMirror).                           *)
(*                                                                         *)
(* The invariant says of an unfinished walk that each file and each        *)
(* ignored directory is dealt with, overlooked, or below a directory the   *)
(* walk still has to visit; it needs that the source stays a tree, and     *)
(* that each directory on the stack is marked as the whole rule says, not  *)
(* only as the test of its own name.                                       *)
(***************************************************************************)
EXTENDS TreeMirror, SequenceTheorems, TLAPS

------------------------------------------------------------------------------
(* File times: one goes over the wire and comes back as the same ticks, for  *)
(* every resolution and epoch, from 1970 on.                                 *)

\* Division is the one decomposition with a remainder below the divisor.
LEMMA Divided ==
    \A b \in Nat \ {0}, q \in Nat, r \in Nat :
        r < b => (q * b + r) \div b = q /\ (q * b + r) % b = r
  OBVIOUS

\* Every number has such a decomposition.
LEMMA DividedBack ==
    ASSUME NEW a \in Nat, NEW b \in Nat \ {0}
    PROVE  \E q, r \in Nat :
               r < b /\ a = q * b + r /\ q = a \div b /\ r = a % b
<1>1. a \div b \in Nat /\ a % b \in Nat /\ a % b < b
  OBVIOUS
<1>2. a = (a \div b) * b + (a % b)
  OBVIOUS
<1> QED BY <1>1, <1>2

\* Multiplying keeps numbers natural and in order.
LEMMA Products ==
    ASSUME NEW a \in Nat, NEW b \in Nat, NEW n \in Nat \ {0}
    PROVE  /\ a * n \in Nat
           /\ a >= b => a * n >= b * n
  OBVIOUS

\* Whole ticks of what is less than a second are less than a second.
LEMMA TicksFit ==
    ASSUME NEW r \in Nat, NEW t \in Nat \ {0}, NEW n \in Nat \ {0}, r < t * n
    PROVE  \E k \in Nat : k = r \div n /\ k < t /\ k * n \in Nat /\ k * n < t * n
<1>1. PICK k, rest \in Nat : rest < n /\ r = k * n + rest /\ k = r \div n
  BY DividedBack
<1>2. k * n \in Nat /\ t * n \in Nat
  BY Products
<1>3. k * n < t * n
  BY <1>1, <1>2
<1>4. k < t
  BY <1>1, <1>3, Products
<1> QED BY <1>1, <1>2, <1>3, <1>4

\* A source file's time is sent as ticks (systemtime_to_ticks), set at the receiver
\* (ticks_to_systemtime) and read again by need_fetch: from 1970 on the ticks
\* compare equal, whatever is lost below a tick.
THEOREM TicksSurvive ==
    ASSUME NEW nanos \in Nat
    PROVE  /\ ToTicks(nanos) \in Nat
           /\ ToTicks(FromTicks(ToTicks(nanos))) = ToTicks(nanos)
<1> DEFINE T == TicksPerSec
           N == NanosPerTick
           S == T * N
<1>1. T \in Nat \ {0} /\ N \in Nat \ {0} /\ EpochDiffSecs \in Nat
  BY MtimeAssumption
<1>2. S \in Nat \ {0} /\ NanosPerSec = S
  BY <1>1 DEF NanosPerSec
<1> HIDE DEF S
<1>3. PICK s, f \in Nat : f < S /\ s = nanos \div S /\ f = nanos % S
  BY <1>2, DividedBack
<1>4. PICK k \in Nat : k = f \div N /\ k < T /\ k * N \in Nat /\ k * N < S
  BY <1>1, <1>3, TicksFit DEF S
<1> DEFINE d == s + EpochDiffSecs
           ticks == d * T + k
           back == s * S + k * N
<1>5. d \in Nat /\ d * T \in Nat /\ s * S \in Nat
  BY <1>1, <1>2, <1>3, Products
<1>6. ToTicks(nanos) = ticks /\ ticks \in Nat
  BY <1>2, <1>3, <1>4, <1>5 DEF ToTicks
<1>7. ticks \div T = d /\ ticks % T = k
  <2> HIDE DEF d
  <2> QED BY <1>1, <1>4, <1>5, Divided, Zenon
<1>8. FromTicks(ticks) = back
  <2>1. d - EpochDiffSecs = s
    BY <1>1, <1>3
  <2> HIDE DEF d, ticks
  <2> QED BY <1>2, <1>7, <2>1 DEF FromTicks
<1>9. back \in Nat /\ back \div S = s /\ back % S = k * N
  <2>1. back \in Nat
    BY <1>4, <1>5
  <2>2. back \div S = s /\ back % S = k * N
    BY <1>2, <1>3, <1>4, Divided, Zenon
  <2> QED BY <2>1, <2>2
<1>10. (k * N) \div N = k
  <2>1. 0 \in Nat /\ 0 < N /\ k * N = k * N + 0
    BY <1>1, <1>4
  <2>2. (k * N + 0) \div N = k
    BY <1>1, <1>4, <2>1, Divided, Zenon
  <2> QED BY <2>1, <2>2, Zenon
<1>11. ToTicks(back) = ticks
  <2> HIDE DEF back
  <2> QED BY <1>2, <1>9, <1>10 DEF ToTicks
<1> QED BY <1>6, <1>8, <1>11

------------------------------------------------------------------------------
(* What both sides ignore stays.  IgnoredFilesKept is strengthened by what   *)
(* is on its way to the receiver: no file that the server ignores is.        *)

NothingIgnoredSent ==
    /\ offering \subseteq Patterns
    /\ \A item \in lines \union pending :
           item.type = "F" =>
               item.rel \in Rel /\ ~Ignored(offering, item.rel, FALSE)
    /\ \A item \in pending : item.type = "F"

KeptInv == NothingIgnoredSent /\ IgnoredFilesKept

\* A pattern takes no notice of case, so a file is not ignored under one
\* spelling of its path and written under another.
LEMMA FoldedIgnored ==
    ASSUME NEW set \in SUBSET Patterns, NEW p \in Rel, Ignored(set, Fold[p], FALSE)
    PROVE  Ignored(set, p, FALSE)
<1>1. PICK pattern \in set, q \in UpTo[Fold[p]] :
          q \in pattern.matches /\ (pattern.dirOnly => q # Fold[p])
  BY DEF Ignored
<1>2. PICK r \in UpTo[p] : q = Fold[r]
  BY <1>1, TreeAssumption
<1>3. r \in Rel
  BY <1>2, TreeAssumption
<1>4. r \in pattern.matches
  BY <1>1, <1>2, <1>3 DEF Patterns
<1>5. pattern.dirOnly => r # p
  BY <1>1, <1>2
<1> QED BY <1>2, <1>4, <1>5 DEF Ignored

LEMMA KeptInit == TreeInit => KeptInv
  BY DEF TreeInit, KeptInv, NothingIgnoredSent, IgnoredFilesKept

LEMMA KeptStep == KeptInv /\ [TreeNext]_treeVars => KeptInv'
<1> SUFFICES ASSUME KeptInv, [TreeNext]_treeVars PROVE KeptInv'
  OBVIOUS
<1> USE DEF KeptInv, NothingIgnoredSent
<1>1. ASSUME NEW r, NEW d, VisitDir(r, d) PROVE KeptInv'
  <2>1. PICK files \in SUBSET Rel :
            /\ \A p \in files : ~Ignored(offering, p, FALSE)
            /\ lines' = lines \union {Offer(r, p) : p \in files}
    BY <1>1 DEF VisitDir, Listing
  <2>2. UNCHANGED <<offering, keeping, pending, disk, before>>
    BY <1>1 DEF VisitDir, diskVars, runVars
  <2>3. IgnoredFilesKept'
    BY <2>2 DEF IgnoredFilesKept, Ignored
  <2>4. ASSUME NEW item \in lines', item.type = "F"
        PROVE  item.rel \in Rel /\ ~Ignored(offering, item.rel, FALSE)
    <3>1. CASE item \in lines
      BY <2>4, <3>1
    <3>2. CASE item \notin lines
      <4>1. PICK p \in files : item = Offer(r, p)
        BY <2>1, <2>4, <3>2
      <4>2. item.rel = p
        BY <4>1 DEF Offer
      <4> QED BY <2>1, <4>2
    <3> QED BY <3>1, <3>2
  <2> QED BY <2>2, <2>3, <2>4 DEF Ignored
<1>2. ASSUME NEW r, NEW d, NEW dirsOnly,
             VisitIgnored(r, d) \/ CannotList(r, d, dirsOnly)
      PROVE  KeptInv'
  <2>1. UNCHANGED <<offering, keeping, pending, disk, before>>
    BY <1>2 DEF VisitIgnored, CannotList, diskVars, runVars
  <2>2. lines' \subseteq lines \union {DirLine(r, d)}
    BY <1>2 DEF VisitIgnored, CannotList
  <2> QED BY <2>1, <2>2 DEF IgnoredFilesKept, Ignored, DirLine
<1>3. ASSUME NEW item \in lines, TakeDir(item) PROVE KeptInv'
  <2>1. UNCHANGED <<offering, keeping, pending, before>> /\ lines' \subseteq lines
    BY <1>3 DEF TakeDir, Taken, walkVars, runVars
  <2>2. \A p \in Rel : disk[p].kind = "file" => disk'[p] = disk[p]
    BY <1>3 DEF TakeDir, Blocked, WithDirs, IsFile
  <2> QED BY <2>1, <2>2 DEF IgnoredFilesKept, Ignored
<1>4. ASSUME NEW item \in lines, TakeOffer(item) PROVE KeptInv'
  <2>1. UNCHANGED <<offering, keeping, disk, before>> /\ lines' \subseteq lines
    BY <1>4 DEF TakeOffer, Taken, walkVars, runVars
  <2>2. pending' \subseteq pending \union {item} /\ item.type = "F"
    BY <1>4 DEF TakeOffer
  <2> QED BY <2>1, <2>2 DEF IgnoredFilesKept, Ignored
<1>5. ASSUME NEW item \in pending, WriteFile(item) PROVE KeptInv'
  <2>1. /\ UNCHANGED <<offering, keeping, lines, before>>
        /\ pending' \subseteq pending
    BY <1>5 DEF WriteFile, walkVars, runVars
  <2>2. Place(item) \in Rel /\ ~Ignored(offering, Place(item), FALSE)
    BY FoldedIgnored, TreeAssumption DEF Place
  <2>3. \A p \in Rel \ {Place(item)} : disk[p].kind = "file" => disk'[p] = disk[p]
    <3> DEFINE above == UpTo[Place(item)] \ {Place(item)}
    <3>1. CASE Blocked(above)
      BY <1>5, <3>1 DEF WriteFile
    <3>2. CASE ~Blocked(above)
      <4>1. \A p \in Rel : disk[p].kind = "file" => WithDirs(above)[p] = disk[p]
        BY <3>2 DEF Blocked, WithDirs, IsFile
      <4>2. \A p \in Rel \ {Place(item)} : disk'[p] = WithDirs(above)[p]
        BY <1>5, <2>2, <3>2 DEF WriteFile, WithDirs
      <4> QED BY <4>1, <4>2
    <3> QED BY <3>1, <3>2
  <2> QED BY <2>1, <2>2, <2>3 DEF IgnoredFilesKept, Ignored
<1>6. CASE FinishClean
  <2>1. UNCHANGED <<offering, keeping, lines, pending, before>>
    BY <1>6 DEF FinishClean, walkVars
  <2>2. \A p \in Rel : Ignored(keeping, p, FALSE) => disk'[p] = disk[p]
    BY <1>6 DEF FinishClean, Unseen
  <2> QED BY <2>1, <2>2 DEF IgnoredFilesKept, Ignored
<1>7. CASE FinishBroken
  BY <1>7 DEF FinishBroken, IgnoredFilesKept
<1>8. CASE BeginRun
  BY <1>8 DEF BeginRun, IgnoredFilesKept
<1>9. CASE CutSession \/ (\E r \in Root, p \in Rel, k \in Kinds : EditSource(r, p, k))
           \/ UNCHANGED treeVars
  <2>1. UNCHANGED <<offering, keeping, lines, pending, disk, before>>
    BY <1>9 DEF CutSession, EditSource, treeVars, walkVars, diskVars, runVars
  <2> QED BY <2>1 DEF IgnoredFilesKept, Ignored
<1>10. CASE Walk
  <2>1. PICK v \in stack :
            VisitDir(v[1], v[2]) \/ VisitIgnored(v[1], v[2]) \/ CannotList(v[1], v[2], v[3])
    BY <1>10 DEF Walk
  <2> QED BY <2>1, <1>1, <1>2
<1> QED BY <1>3, <1>4, <1>5, <1>6, <1>7, <1>8, <1>9, <1>10
      DEF TreeNext, SessionStep, Receive

\* A file of the receiver that both sides ignore is neither written over by the
\* session nor deleted by its mirror, whatever the patterns and the spelling.
THEOREM IgnoredStay == TreeSpec => []IgnoredFilesKept
<1>1. KeptInv => IgnoredFilesKept
  BY DEF KeptInv
<1> QED BY <1>1, KeptInit, KeptStep, PTL DEF TreeSpec

------------------------------------------------------------------------------
(* What was fetched once is not fetched again.  FetchedOnce is strengthened  *)
(* by what the receiver's copies are: each has the time its source's ticks   *)
(* give, and is the one from the start of the run or one written in it.      *)

\* A copy has the time its source's ticks give, and is a file.
CopiesStamped ==
    \A p \in Rel :
        /\ disk[p].from \in Source \union {Nobody}
        /\ disk[p].from # Nobody =>
               /\ disk[p].kind = "file"
               /\ disk[p].time = Stamped(ToTicks(Written[disk[p].from]))

\* An offer's ticks are those of the file it names.
Told(item) ==
    /\ <<item.root, item.rel>> \in offered
    /\ item.ticks = ToTicks(Written[<<item.root, item.rel>>])

\* A copy from an earlier run is still there, or an offer was written over it.
OverwrittenByOffer ==
    \A p \in Rel :
        before[p].from # Nobody =>
            disk[p] = before[p] \/ (disk[p].from \in offered /\ Fold[disk[p].from[2]] = p)

\* The inductive invariant.
FetchInv ==
    /\ offered \subseteq Source
    /\ \A v \in stack : v[1] \in Root
    /\ \A item \in lines \union pending : item.type = "F" => Told(item)
    /\ \A item \in pending : item.type = "F"
    /\ CopiesStamped
    /\ receiver = "running" => OverwrittenByOffer
    /\ FetchedOnce

LEMMA FetchInit == TreeInit => FetchInv
<1> SUFFICES ASSUME TreeInit PROVE FetchInv
  OBVIOUS
<1>1. CopiesStamped
  BY TreeAssumption DEF TreeInit, CopiesStamped
<1>2. FetchedOnce
  BY DEF TreeInit, FetchedOnce
<1> QED BY <1>1, <1>2 DEF TreeInit, FetchInv

\* Directories made where nothing stands in the way leave every copy alone.
LEMMA DirsSpareCopies ==
    ASSUME NEW dirs, CopiesStamped, ~Blocked(dirs)
    PROVE  /\ \A p \in Rel : disk[p].from # Nobody => WithDirs(dirs)[p] = disk[p]
           /\ \A p \in Rel : WithDirs(dirs)[p] = disk[p] \/ WithDirs(dirs)[p] = Folder
  BY DEF CopiesStamped, Blocked, WithDirs, IsFile

\* So a step that makes directories only keeps what is known of the copies.
LEMMA SparedStays ==
    ASSUME FetchInv, receiver = "running",
           \A p \in Rel : disk[p].from # Nobody => disk'[p] = disk[p],
           \A p \in Rel : disk'[p] = disk[p] \/ disk'[p] = Folder,
           UNCHANGED <<offered, before>>
    PROVE  CopiesStamped' /\ OverwrittenByOffer'
<1>1. Nobody \notin Source
  BY TreeAssumption
<1>2. CopiesStamped'
  BY <1>1 DEF FetchInv, CopiesStamped, Folder
<1>3. OverwrittenByOffer'
  BY <1>1 DEF FetchInv, OverwrittenByOffer
<1> QED BY <1>2, <1>3

\* From 1970 on, a copy that was made is not asked for again.
LEMMA CopyNotNeeded ==
    ASSUME CopiesStamped, NEW item, Told(item), <<item.root, item.rel>> \in Source,
           Place(item) \in Rel, disk[Place(item)].from = <<item.root, item.rel>>,
           Written[<<item.root, item.rel>>] >= 0
    PROVE  ~NeedFetch(item)
<1> DEFINE s == <<item.root, item.rel>>
<1>1. Nobody \notin Source /\ Written[s] \in Nat
  BY TreeAssumption
<1>2. disk[Place(item)].kind = "file" /\ disk[Place(item)].time = Stamped(ToTicks(Written[s]))
  BY <1>1 DEF CopiesStamped
<1>3. ToTicks(Written[s]) \in Nat /\ ToTicks(FromTicks(ToTicks(Written[s]))) = ToTicks(Written[s])
  BY <1>1, TicksSurvive
<1>4. ToTicks(Stamped(ToTicks(Written[s]))) = ToTicks(Written[s])
  BY <1>3 DEF Stamped
<1> QED BY <1>2, <1>4 DEF NeedFetch, Told

LEMMA FetchStep == FetchInv /\ [TreeNext]_treeVars => FetchInv'
<1> SUFFICES ASSUME FetchInv, [TreeNext]_treeVars PROVE FetchInv'
  OBVIOUS
<1> USE DEF FetchInv
<1>1. ASSUME NEW v \in stack, VisitDir(v[1], v[2]) PROVE FetchInv'
  <2> DEFINE r == v[1]
  <2>1. r \in Root
    OBVIOUS
  <2>2. PICK files \in SUBSET Rel :
            /\ offered' = offered \union {<<r, p>> : p \in files}
            /\ lines' = lines \union {Offer(r, p) : p \in files}
    BY <1>1 DEF VisitDir, Listing
  <2>3. UNCHANGED <<pending, disk, before, wanted, receiver>> /\ receiver = "running"
    BY <1>1 DEF VisitDir, diskVars, runVars
  <2>4. offered \subseteq offered' /\ offered' \subseteq Source
    BY <2>1, <2>2 DEF Source
  <2>5. \A w \in stack' : w[1] \in Root
    <3>1. \A w \in stack' : w \in stack \/ \E q, f : w = <<r, q, f>>
      BY <1>1 DEF VisitDir, Visited
    <3> QED BY <2>1, <3>1
  <2>6. ASSUME NEW item \in lines' \union pending', item.type = "F" PROVE Told(item)'
    <3>1. CASE item \in lines \union pending
      BY <2>4, <2>6, <3>1 DEF Told
    <3>2. CASE item \notin lines \union pending
      <4>1. PICK p \in files : item = Offer(r, p)
        BY <2>2, <2>3, <2>6, <3>2
      <4> QED BY <2>2, <4>1 DEF Told, Offer
    <3> QED BY <3>1, <3>2
  <2>7. CopiesStamped' /\ OverwrittenByOffer' /\ FetchedOnce'
    BY <2>3, <2>4 DEF CopiesStamped, OverwrittenByOffer, FetchedOnce
  <2> QED BY <2>3, <2>4, <2>5, <2>6, <2>7
<1>2. ASSUME NEW v \in stack, VisitIgnored(v[1], v[2]) \/ CannotList(v[1], v[2], v[3])
      PROVE  FetchInv'
  <2>1. UNCHANGED <<pending, disk, before, wanted, receiver, offered>> /\ receiver = "running"
    BY <1>2 DEF VisitIgnored, CannotList, diskVars, runVars
  <2>2. lines' \subseteq lines \union {DirLine(v[1], v[2])}
    BY <1>2 DEF VisitIgnored, CannotList
  <2>3. \A w \in stack' : w[1] \in Root
    <3>1. \/ stack' = (stack \ {<<v[1], v[2], TRUE>>})
                          \union {<<v[1], q, TRUE>> : q \in Subdirs(v[1], v[2])}
          \/ stack' = (stack \ {<<v[1], v[2], v[3]>>}) \union {}
      BY <1>2 DEF VisitIgnored, CannotList, Visited
    <3>2. \A w \in stack' : w \in stack \/ \E q : w = <<v[1], q, TRUE>>
      BY <3>1
    <3> SUFFICES ASSUME NEW w \in stack' PROVE w[1] \in Root
      OBVIOUS
    <3>3. CASE w \in stack
      BY <3>3
    <3>4. ASSUME NEW q, w = <<v[1], q, TRUE>> PROVE w[1] \in Root
      <4>1. w[1] = v[1]
        BY <3>4
      <4> QED BY <4>1
    <3> QED BY <3>2, <3>3, <3>4
  <2>4. \A item \in lines' \union pending' : item.type = "F" => Told(item)'
    BY <2>1, <2>2 DEF Told, DirLine
  <2> QED BY <2>1, <2>3, <2>4 DEF CopiesStamped, OverwrittenByOffer, FetchedOnce
<1>3. ASSUME NEW item \in lines, TakeDir(item) PROVE FetchInv'
  <2>1. /\ receiver = "running" /\ lines' \subseteq lines
        /\ UNCHANGED <<walkVars, pending, wanted, before, receiver>>
    BY <1>3 DEF TakeDir, Taken, runVars
  <2>2. /\ \A p \in Rel : disk[p].from # Nobody => disk'[p] = disk[p]
        /\ \A p \in Rel : disk'[p] = disk[p] \/ disk'[p] = Folder
    BY <1>3, DirsSpareCopies DEF TakeDir
  <2>3. CopiesStamped' /\ OverwrittenByOffer'
    BY <2>1, <2>2, SparedStays DEF walkVars
  <2> QED BY <2>1, <2>3 DEF walkVars, Told, FetchedOnce
<1>4. ASSUME NEW item \in lines, TakeOffer(item) PROVE FetchInv'
  <2> DEFINE s == <<item.root, item.rel>>
             p == Place(item)
  <2>1. /\ receiver = "running" /\ lines' \subseteq lines /\ item.type = "F"
        /\ UNCHANGED <<walkVars, disk, before, receiver>>
    BY <1>4 DEF TakeOffer, Taken, runVars
  <2>2. Told(item) /\ s \in Source /\ s \in offered /\ p \in Rel /\ p = Fold[s[2]]
    BY <2>1, TreeAssumption DEF Told, Source, Place
  <2>3. ASSUME NeedFetch(item), before[p].from = s
        PROVE  Written[s] < 0 \/ \E t \in offered \ {s} : Fold[t[2]] = p
    <3> SUFFICES ASSUME ~(Written[s] < 0) PROVE \E t \in offered \ {s} : Fold[t[2]] = p
      OBVIOUS
    <3>1. Written[s] >= 0 /\ s # Nobody
      <4>1. Written[s] \in Int
        BY <2>2, TreeAssumption, Zenon
      <4>2. s # Nobody
        BY <2>2, TreeAssumption, Zenon
      <4> QED BY <4>1, <4>2
    <3>2. disk[p].from # s
      BY <2>2, <2>3, <3>1, CopyNotNeeded
    <3> QED BY <2>1, <2>2, <2>3, <3>1, <3>2 DEF OverwrittenByOffer
  <2>4. wanted' \subseteq wanted \union {s} /\ (s \in wanted' => s \in wanted \/ NeedFetch(item))
    BY <1>4 DEF TakeOffer
  <2>5. FetchedOnce'
    BY <2>1, <2>2, <2>3, <2>4 DEF FetchedOnce, walkVars
  <2>6. pending' \subseteq pending \union {item}
    BY <1>4 DEF TakeOffer
  <2> QED BY <2>1, <2>2, <2>5, <2>6 DEF walkVars, Told, CopiesStamped, OverwrittenByOffer
<1>5. ASSUME NEW item \in pending, WriteFile(item) PROVE FetchInv'
  <2> DEFINE s == <<item.root, item.rel>>
             above == UpTo[Place(item)] \ {Place(item)}
  <2>1. /\ receiver = "running" /\ pending' \subseteq pending
        /\ UNCHANGED <<walkVars, lines, wanted, before, receiver>>
    BY <1>5 DEF WriteFile, runVars
  <2>2. Told(item) /\ s \in Source /\ s \in offered /\ Place(item) \in Rel /\ Place(item) = Fold[s[2]]
    BY TreeAssumption DEF Told, Source, Place
  <2>3. CASE \/ disk' = disk
             \/ ~Blocked(above) /\ disk' = WithDirs(above)
    <3>1. CopiesStamped' /\ OverwrittenByOffer'
      BY <2>1, <2>3, DirsSpareCopies, SparedStays DEF walkVars
    <3> QED BY <2>1, <3>1 DEF walkVars, Told, FetchedOnce
  <2>4. CASE /\ ~Blocked(above)
             /\ disk' = [WithDirs(above) EXCEPT ![Place(item)] = Copy(s, Stamped(item.ticks))]
    <3>1. disk'[Place(item)] = Copy(s, Stamped(item.ticks))
      BY <2>2, <2>4 DEF WithDirs
    <3>2. \A p \in Rel \ {Place(item)} : disk'[p] = WithDirs(above)[p]
      BY <2>4 DEF WithDirs
    <3>3. /\ \A p \in Rel : disk[p].from # Nobody => WithDirs(above)[p] = disk[p]
          /\ \A p \in Rel : WithDirs(above)[p] = disk[p] \/ WithDirs(above)[p] = Folder
      BY <2>4, DirsSpareCopies
    <3>4. CopiesStamped'
      <4> SUFFICES ASSUME NEW p \in Rel
                   PROVE  /\ disk'[p].from \in Source \union {Nobody}
                          /\ disk'[p].from # Nobody =>
                                 /\ disk'[p].kind = "file"
                                 /\ disk'[p].time = Stamped(ToTicks(Written[disk'[p].from]))
        BY DEF CopiesStamped
      <4>1. CASE p = Place(item)
        BY <2>2, <3>1, <4>1 DEF Copy, Told
      <4>2. CASE p # Place(item)
        <5>1. disk'[p] = disk[p] \/ disk'[p] = Folder
          BY <3>2, <3>3, <4>2
        <5>2. CASE disk'[p] = disk[p]
          BY <5>2 DEF CopiesStamped
        <5>3. CASE disk'[p] = Folder
          BY <5>3 DEF Folder
        <5> QED BY <5>1, <5>2, <5>3
      <4> QED BY <4>1, <4>2
    <3>5. OverwrittenByOffer'
      <4> SUFFICES ASSUME NEW p \in Rel, before[p].from # Nobody
                   PROVE  \/ disk'[p] = before[p]
                          \/ disk'[p].from \in offered /\ Fold[disk'[p].from[2]] = p
        BY <2>1 DEF OverwrittenByOffer, walkVars
      <4>1. CASE p = Place(item)
        <5>1. disk'[p].from = s
          BY <3>1, <4>1 DEF Copy
        <5>2. s[2] = item.rel
          OBVIOUS
        <5> QED BY <2>2, <4>1, <5>1, <5>2
      <4>2. CASE p # Place(item)
        <5>1. disk[p] = before[p] \/ (disk[p].from \in offered /\ Fold[disk[p].from[2]] = p)
          BY <2>1 DEF OverwrittenByOffer
        <5>2. Nobody \notin offered
          BY TreeAssumption
        <5> QED BY <3>2, <3>3, <4>2, <5>1, <5>2
      <4> QED BY <4>1, <4>2
    <3> QED BY <2>1, <3>4, <3>5 DEF walkVars, Told, FetchedOnce
  <2> QED BY <1>5, <2>3, <2>4 DEF WriteFile
<1>6. CASE FinishClean
  <2>1. \A p \in Rel : disk'[p] = disk[p] \/ disk'[p] = Absent
    BY <1>6 DEF FinishClean
  <2>2. UNCHANGED <<walkVars, lines, pending, wanted, before>> /\ receiver' = "clean"
    BY <1>6 DEF FinishClean
  <2>3. CopiesStamped'
    BY <2>1 DEF CopiesStamped, Absent
  <2> QED BY <2>2, <2>3 DEF walkVars, Told, FetchedOnce
<1>7. CASE FinishBroken
  BY <1>7 DEF FinishBroken, CopiesStamped, FetchedOnce
<1>8. CASE BeginRun
  <2>1. \A v \in stack' : v[1] \in Root
    <3>1. \A v \in stack' : \E r \in Root : v = <<r, RootRel[r], FALSE>>
      BY <1>8, Zenon DEF BeginRun
    <3> SUFFICES ASSUME NEW v \in stack' PROVE v[1] \in Root
      OBVIOUS
    <3>2. PICK r \in Root : v = <<r, RootRel[r], FALSE>>
      BY <3>1, Zenon
    <3> QED BY <3>2
  <2>2. /\ UNCHANGED disk /\ before' = disk
        /\ offered' = {} /\ lines' = {} /\ pending' = {} /\ wanted' = {}
    BY <1>8 DEF BeginRun
  <2> QED BY <2>1, <2>2 DEF CopiesStamped, OverwrittenByOffer, FetchedOnce
<1>9. CASE CutSession \/ (\E r \in Root, p \in Rel, k \in Kinds : EditSource(r, p, k))
           \/ UNCHANGED treeVars
  <2>1. UNCHANGED <<walkVars, lines, pending, disk, before, wanted, receiver>>
    BY <1>9 DEF CutSession, EditSource, treeVars, diskVars, runVars
  <2> QED BY <2>1 DEF walkVars, Told, CopiesStamped, OverwrittenByOffer, FetchedOnce
<1>10. CASE Walk
  BY <1>1, <1>2, <1>10 DEF Walk
<1> QED BY <1>3, <1>4, <1>5, <1>6, <1>7, <1>8, <1>9, <1>10
        DEF TreeNext, SessionStep, Receive

\* A copy whose source is from 1970 or later is fetched again only if another file
\* was offered for its place, for every resolution and epoch of the ticks.
THEOREM FetchedOnlyOnce == TreeSpec => []FetchedOnce
<1>1. FetchInv => FetchedOnce
  BY DEF FetchInv
<1> QED BY <1>1, FetchInit, FetchStep, PTL DEF TreeSpec

------------------------------------------------------------------------------
(* A run fails for a cause.  The invariant says where what stands in the way *)
(* of a directory or a file has come from: it was there at the run's start,  *)
(* or the run itself has made it for another line.                           *)

FilesTold == {Fold[s[2]] : s \in offered}
DirsAbove == UNION {UpTo[p] \ {p} : p \in FilesTold}
DirsMade == UNION {UpTo[Fold[s[2]]] : s \in made}
DirsTold == DirsMade \union DirsAbove

HasCause ==
    \/ cut
    \/ \E p \in FilesTold : before[p].kind = "dir" \/ p \in DirsTold
    \/ \E p \in DirsTold : before[p].kind = "file"

\* Every line names what the walk has found.
LinesTold ==
    /\ \A v \in stack : v[3] = TRUE => v[2] \in Rel
    /\ \A s \in offered \union made : s[2] \in Rel
    /\ \A item \in lines \union pending :
           /\ item.type = "F" => <<item.root, item.rel>> \in offered
           /\ item.type = "D" => <<item.root, item.rel>> \in made
    /\ \A item \in pending : item.type = "F"

DiskExplained ==
    \A p \in Rel :
        /\ disk[p].kind = "file" => before[p].kind = "file" \/ p \in FilesTold
        /\ disk[p].kind = "dir" => before[p].kind = "dir" \/ p \in DirsTold

\* The inductive invariant.
CauseInv ==
    /\ LinesTold
    /\ receiver = "running" => DiskExplained /\ (broken => HasCause)

LEMMA ToldGrows ==
    ASSUME offered \subseteq offered', made \subseteq made', before' = before, cut' = cut
    PROVE  /\ FilesTold \subseteq FilesTold' /\ DirsTold \subseteq DirsTold'
           /\ HasCause => HasCause'
<1>1. FilesTold \subseteq FilesTold'
  BY DEF FilesTold
<1>2. DirsTold \subseteq DirsTold'
  BY <1>1 DEF DirsTold, DirsMade, DirsAbove
<1> QED BY <1>1, <1>2 DEF HasCause

\* What a line names is told.
LEMMA ItemTold ==
    ASSUME LinesTold, NEW item \in lines \union pending
    PROVE  /\ item.type = "F" => /\ Place(item) \in FilesTold /\ Place(item) \in Rel
                                 /\ UpTo[Place(item)] \ {Place(item)} \subseteq DirsTold \intersect Rel
           /\ item.type = "D" => UpTo[Place(item)] \subseteq DirsTold \intersect Rel
<1> DEFINE s == <<item.root, item.rel>>
<1>1. s[2] = item.rel /\ Place(item) = Fold[item.rel]
  BY DEF Place
<1>2. item.rel \in Rel => Fold[item.rel] \in Rel /\ UpTo[Fold[item.rel]] \subseteq Rel
  BY TreeAssumption
<1>3. CASE item.type = "F"
  <2>1. s \in offered /\ item.rel \in Rel
    BY <1>1, <1>3 DEF LinesTold
  <2>2. Place(item) \in FilesTold
    BY <1>1, <2>1 DEF FilesTold
  <2>3. UpTo[Place(item)] \ {Place(item)} \subseteq DirsTold
    <3>1. UpTo[Place(item)] \ {Place(item)} \subseteq DirsAbove
      BY <2>2, Zenon DEF DirsAbove
    <3> QED BY <3>1 DEF DirsTold
  <2> QED BY <1>1, <1>2, <1>3, <2>1, <2>2, <2>3
<1>4. CASE item.type = "D"
  <2>1. s \in made /\ item.rel \in Rel
    BY <1>1, <1>4 DEF LinesTold
  <2>2. UpTo[Place(item)] \subseteq DirsTold
    BY <1>1, <2>1 DEF DirsTold, DirsMade
  <2> QED BY <1>1, <1>2, <1>4, <2>1, <2>2
<1> QED BY <1>3, <1>4

\* A file in the way of a directory that was told is a cause.
LEMMA BlockedHasCause ==
    ASSUME DiskExplained, NEW dirs \in SUBSET (DirsTold \intersect Rel), Blocked(dirs)
    PROVE  HasCause
<1>1. PICK q \in dirs : disk[q].kind = "file"
  BY DEF Blocked, IsFile
<1> QED BY <1>1 DEF DiskExplained, HasCause

\* What a directory adds to the stack is below it.
LEMMA FoundBelow ==
    ASSUME NEW r, NEW d, NEW v, NEW set, NEW skipped,
           \/ Visited(v, {<<r, p, TRUE>> : p \in Subdirs(r, d)}, skipped)
           \/ Visited(v, {<<r, p, Ignored(set, p, TRUE)>> : p \in Subdirs(r, d)}, skipped)
           \/ Visited(v, {}, skipped)
    PROVE  \A w \in stack' : w \in stack \/ w[2] \in Rel
<1>1. Subdirs(r, d) \subseteq Rel
  BY DEF Subdirs, Listing
<1>2. ASSUME NEW w \in stack', w \notin stack
      PROVE  \E p \in Rel : \E x : w = <<r, p, x>>
  BY <1>1, <1>2, Zenon DEF Visited
<1> QED BY <1>2

LEMMA CauseInit == TreeInit => CauseInv
  BY DEF TreeInit, CauseInv, LinesTold

LEMMA CauseStep == CauseInv /\ [TreeNext]_treeVars => CauseInv'
<1> SUFFICES ASSUME CauseInv, [TreeNext]_treeVars PROVE CauseInv'
  OBVIOUS
<1>1. ASSUME NEW r, NEW d, VisitDir(r, d) PROVE CauseInv'
  <2>1. PICK files \in SUBSET Rel :
            /\ offered' = offered \union {<<r, p>> : p \in files}
            /\ lines' = lines \union {Offer(r, p) : p \in files}
    BY <1>1 DEF VisitDir, Listing
  <2>2. /\ receiver = "running"
        /\ UNCHANGED <<made, pending, disk, before, cut, broken, receiver>>
    BY <1>1 DEF VisitDir, diskVars, runVars
  <2>3. \A v \in stack' : v \in stack \/ v[2] \in Rel
    <3> DEFINE found == {<<r, p, Ignored(offering, p, TRUE)>> : p \in Subdirs(r, d)}
    <3>1. stack' = (stack \ {<<r, d, FALSE>>}) \union found
      BY <1>1, Zenon DEF VisitDir, Visited
    <3>2. ASSUME NEW v \in stack', v \notin stack PROVE v[2] \in Rel
      <4>1. \E p \in Subdirs(r, d) : \E x : v = <<r, p, x>>
        BY <3>1, <3>2, Zenon
      <4>2. Subdirs(r, d) \subseteq Rel
        BY DEF Subdirs, Listing
      <4> QED BY <4>1, <4>2
    <3> QED BY <3>2
  <2>5. ASSUME NEW item \in lines' \ lines
        PROVE  item.type = "F" /\ <<item.root, item.rel>> \in offered'
    <3>1. PICK p \in files : item = Offer(r, p)
      BY <2>1, <2>5
    <3>2. item.type = "F" /\ item.root = r /\ item.rel = p
      BY <3>1 DEF Offer
    <3> QED BY <2>1, <3>2
  <2>6. \A s \in offered' \union made' : s[2] \in Rel
    <3>1. \A p \in files : <<r, p>>[2] \in Rel
      OBVIOUS
    <3> QED BY <2>1, <2>2, <3>1 DEF CauseInv, LinesTold
  <2>4. LinesTold'
    BY <2>1, <2>2, <2>3, <2>5, <2>6 DEF CauseInv, LinesTold
  <2> QED BY <2>1, <2>2, <2>4, ToldGrows DEF CauseInv, DiskExplained
<1>2. ASSUME NEW r, NEW d, NEW dirsOnly, VisitIgnored(r, d) \/ CannotList(r, d, dirsOnly)
      PROVE  CauseInv'
  <2>1. /\ receiver = "running"
        /\ UNCHANGED <<offered, pending, disk, before, cut, broken, receiver>>
        /\ made \subseteq made'
    BY <1>2 DEF VisitIgnored, CannotList, diskVars, runVars
  <2>2. d \in Rel
    BY <1>2, TreeAssumption DEF VisitIgnored, CannotList, CauseInv, LinesTold
  <2>3. \/ made' = made \union {<<r, d>>} /\ lines' = lines \union {DirLine(r, d)}
        \/ made' = made /\ lines' = lines
    BY <1>2 DEF VisitIgnored, CannotList
  <2>4. \A v \in stack' : v \in stack \/ v[2] \in Rel
    BY <1>2, FoundBelow DEF VisitIgnored, CannotList
  <2>5. LinesTold'
    BY <2>1, <2>2, <2>3, <2>4 DEF CauseInv, LinesTold, DirLine
  <2> QED BY <2>1, <2>5, ToldGrows DEF CauseInv, DiskExplained
<1>3. ASSUME NEW item \in lines, TakeDir(item) PROVE CauseInv'
  <2>1. /\ receiver = "running" /\ item.type = "D" /\ lines' \subseteq lines
        /\ UNCHANGED <<stack, offered, made, pending, before, cut, receiver>>
    BY <1>3 DEF TakeDir, Taken, walkVars, runVars
  <2>2. LinesTold' /\ FilesTold' = FilesTold /\ DirsTold' = DirsTold /\ (HasCause' <=> HasCause)
    BY <2>1 DEF CauseInv, LinesTold, FilesTold, DirsTold, DirsMade, DirsAbove, HasCause
  <2>3. UpTo[Place(item)] \subseteq DirsTold \intersect Rel
    BY <2>1, ItemTold DEF CauseInv
  <2>4. CASE Blocked(UpTo[Place(item)])
    <3>1. HasCause /\ disk' = disk
      BY <1>3, <2>1, <2>3, <2>4, BlockedHasCause DEF CauseInv, TakeDir
    <3> QED BY <2>1, <2>2, <3>1 DEF CauseInv, DiskExplained
  <2>5. CASE ~Blocked(UpTo[Place(item)])
    <3>1. disk' = WithDirs(UpTo[Place(item)]) /\ broken' = broken
      BY <1>3, <2>5 DEF TakeDir
    <3>2. DiskExplained'
      BY <2>1, <2>2, <2>3, <3>1 DEF CauseInv, DiskExplained, WithDirs, Folder
    <3> QED BY <2>1, <2>2, <3>1, <3>2 DEF CauseInv
  <2> QED BY <2>4, <2>5
<1>4. ASSUME NEW item \in lines, TakeOffer(item) PROVE CauseInv'
  <2>1. /\ receiver = "running" /\ item.type = "F"
        /\ lines' \subseteq lines /\ pending' \subseteq pending \union {item}
        /\ UNCHANGED <<stack, offered, made, disk, before, cut, broken, receiver>>
    BY <1>4 DEF TakeOffer, Taken, walkVars, runVars
  <2>2. LinesTold' /\ FilesTold' = FilesTold /\ DirsTold' = DirsTold /\ (HasCause' <=> HasCause)
    BY <2>1 DEF CauseInv, LinesTold, FilesTold, DirsTold, DirsMade, DirsAbove, HasCause
  <2> QED BY <2>1, <2>2 DEF CauseInv, DiskExplained
<1>5. ASSUME NEW item \in pending, WriteFile(item) PROVE CauseInv'
  <2> DEFINE above == UpTo[Place(item)] \ {Place(item)}
  <2>1. /\ receiver = "running" /\ item.type = "F" /\ pending' \subseteq pending
        /\ UNCHANGED <<stack, lines, offered, made, before, cut, receiver>>
    BY <1>5 DEF WriteFile, walkVars, runVars, CauseInv, LinesTold
  <2>2. LinesTold' /\ FilesTold' = FilesTold /\ DirsTold' = DirsTold /\ (HasCause' <=> HasCause)
    BY <2>1 DEF CauseInv, LinesTold, FilesTold, DirsTold, DirsMade, DirsAbove, HasCause
  <2>3. Place(item) \in FilesTold \intersect Rel /\ above \subseteq DirsTold \intersect Rel
    BY <2>1, ItemTold DEF CauseInv
  <2>4. CASE Blocked(above)
    <3>1. HasCause /\ disk' = disk
      BY <1>5, <2>1, <2>3, <2>4, BlockedHasCause DEF CauseInv, WriteFile
    <3> QED BY <2>1, <2>2, <3>1 DEF CauseInv, DiskExplained
  <2>5. CASE ~Blocked(above)
    <3>1. \/ broken' = TRUE /\ disk[Place(item)].kind = "dir" /\ disk' = WithDirs(above)
          \/ /\ broken' = broken
             /\ \E t : disk' = [WithDirs(above) EXCEPT ![Place(item)] = Copy(t[1], t[2])]
      <4>1. CASE disk[Place(item)].kind = "dir"
        BY <1>5, <2>5, <4>1 DEF WriteFile
      <4>2. CASE disk[Place(item)].kind # "dir"
        <5> DEFINE t == << <<item.root, item.rel>>, Stamped(item.ticks) >>
        <5>1. /\ disk' = [WithDirs(above) EXCEPT ![Place(item)] = Copy(t[1], t[2])]
              /\ broken' = broken
          BY <1>5, <2>5, <4>2 DEF WriteFile
        <5> QED BY <5>1, Zenon
      <4> QED BY <4>1, <4>2
    <3>4. /\ \A p \in Rel \ {Place(item)} : disk'[p] = WithDirs(above)[p]
          /\ disk'[Place(item)].kind = "dir" => disk[Place(item)].kind = "dir"
      <4>1. Place(item) \in Rel /\ WithDirs(above) = [p \in Rel |-> WithDirs(above)[p]]
            /\ WithDirs(above)[Place(item)] = disk[Place(item)]
        BY <2>3 DEF WithDirs
      <4>2. \A t : Copy(t[1], t[2]).kind = "file"
        BY DEF Copy
      <4> QED BY <3>1, <4>1, <4>2
    <3>2. DiskExplained'
      BY <2>1, <2>2, <2>3, <3>4 DEF CauseInv, DiskExplained, WithDirs, Folder
    <3>3. disk[Place(item)].kind = "dir" => HasCause
      BY <2>1, <2>3 DEF CauseInv, DiskExplained, HasCause
    <3> QED BY <2>1, <2>2, <3>1, <3>2, <3>3 DEF CauseInv
  <2> QED BY <2>4, <2>5
<1>6. CASE CutSession
  <2>1. /\ cut' = TRUE /\ UNCHANGED <<stack, lines, pending, offered, made, disk, before, receiver>>
    BY <1>6 DEF CutSession, walkVars, diskVars
  <2>2. LinesTold' /\ FilesTold' = FilesTold /\ DirsTold' = DirsTold /\ HasCause'
    BY <2>1 DEF CauseInv, LinesTold, FilesTold, DirsTold, DirsMade, DirsAbove, HasCause
  <2> QED BY <1>6, <2>1, <2>2 DEF CutSession, CauseInv, DiskExplained
<1>7. CASE FinishClean \/ FinishBroken
  <2>1. receiver' # "running" /\ LinesTold'
    BY <1>7 DEF FinishClean, FinishBroken, walkVars, CauseInv, LinesTold
  <2> QED BY <2>1 DEF CauseInv
<1>8. CASE BeginRun
  <2>1. /\ LinesTold' /\ broken' = FALSE /\ before' = disk /\ disk' = disk
    <3>1. \A v \in stack' : v[3] = FALSE
      <4>1. stack' = {<<r, RootRel[r], FALSE>> : r \in Root}
        BY <1>8 DEF BeginRun
      <4>2. ASSUME NEW v \in stack' PROVE v[3] = FALSE
        <5>1. PICK r \in Root : v = <<r, RootRel[r], FALSE>>
          BY <4>1, Zenon
        <5> QED BY <5>1
      <4> QED BY <4>2
    <3> QED BY <1>8, <3>1 DEF BeginRun, LinesTold
  <2> QED BY <2>1 DEF CauseInv, DiskExplained
<1>9. CASE (\E r \in Root, p \in Rel, k \in Kinds : EditSource(r, p, k)) \/ UNCHANGED treeVars
  <2>1. UNCHANGED <<stack, lines, pending, offered, made, disk, before, cut, broken, receiver>>
    BY <1>9 DEF EditSource, treeVars, walkVars, diskVars, runVars
  <2>2. LinesTold' /\ FilesTold' = FilesTold /\ DirsTold' = DirsTold /\ (HasCause' <=> HasCause)
    BY <2>1 DEF CauseInv, LinesTold, FilesTold, DirsTold, DirsMade, DirsAbove, HasCause
  <2> QED BY <2>1, <2>2 DEF CauseInv, DiskExplained
<1>10. CASE Walk
  <2>1. PICK v \in stack :
            VisitDir(v[1], v[2]) \/ VisitIgnored(v[1], v[2]) \/ CannotList(v[1], v[2], v[3])
    BY <1>10 DEF Walk
  <2> QED BY <2>1, <1>1, <1>2
<1> QED BY <1>3, <1>4, <1>5, <1>6, <1>7, <1>8, <1>9, <1>10
      DEF TreeNext, SessionStep, Receive

\* A run of any trees and patterns ends incomplete only when its connection broke or
\* a name is a file here and a directory there.
THEOREM FailsForACause == TreeSpec => IncompleteHasCause
<1>1. CauseInv /\ [TreeNext]_treeVars /\ receiver = "running" /\ receiver' = "incomplete"
          => HasCause
  <2> SUFFICES ASSUME CauseInv, [TreeNext]_treeVars, receiver = "running",
                      receiver' = "incomplete"
               PROVE  HasCause
    OBVIOUS
  <2>1. broken
    BY DEF TreeNext, SessionStep, Walk, Receive, VisitDir, VisitIgnored, CannotList, TakeDir,
           TakeOffer, WriteFile, CutSession, FinishClean, FinishBroken, BeginRun, EditSource,
           treeVars, runVars
  <2> QED BY <2>1 DEF CauseInv
<1> QED BY <1>1, CauseInit, CauseStep, PTL
       DEF TreeSpec, IncompleteHasCause, HasCause, FilesTold, DirsTold, DirsMade, DirsAbove


------------------------------------------------------------------------------
(* Paths. *)

\* What a prefix of a path is.
LEMMA Prefixes ==
    ASSUME NEW p \in Rel, NEW i \in 1..Len(p)
    PROVE  /\ SubSeq(p, 1, i) \in Rel
           /\ Len(SubSeq(p, 1, i)) = i
           /\ \A j \in 1..i : SubSeq(SubSeq(p, 1, i), 1, j) = SubSeq(p, 1, j)
           /\ SubSeq(p, 1, Len(p)) = p
<1>1. p \in Seq(Name) /\ Len(p) \in Nat
  BY TreeAssumption
<1>2. SubSeq(p, 1, i) \in UpTo[p]
  BY DEF UpTo
<1>3. SubSeq(p, 1, i) \in Rel
  BY <1>2, TreeAssumption
<1>4. /\ SubSeq(p, 1, i) \in Seq(Name)
      /\ Len(SubSeq(p, 1, i)) = i
      /\ \A k \in 1..i : SubSeq(p, 1, i)[k] = p[k]
  BY <1>1, SubSeqProperties
<1>5. ASSUME NEW j \in 1..i
      PROVE  SubSeq(SubSeq(p, 1, i), 1, j) = SubSeq(p, 1, j)
  <2> DEFINE a == SubSeq(SubSeq(p, 1, i), 1, j)
             b == SubSeq(p, 1, j)
  <2>1. /\ a \in Seq(Name) /\ Len(a) = j
        /\ \A k \in 1..j : a[k] = SubSeq(p, 1, i)[k]
    BY <1>4, SubSeqProperties
  <2>2. /\ b \in Seq(Name) /\ Len(b) = j
        /\ \A k \in 1..j : b[k] = p[k]
    BY <1>1, SubSeqProperties
  <2>3. \A k \in 1..j : a[k] = b[k]
    BY <1>4, <2>1, <2>2
  <2> HIDE DEF a, b
  <2>4. a = b
    BY <2>1, <2>2, <2>3, SeqEqual
  <2> QED BY <2>4 DEF a, b
<1>6. SubSeq(p, 1, Len(p)) = p
  BY <1>1, SubSeqFull
<1> QED BY <1>3, <1>4, <1>5, <1>6

\* The paths on the way down to a path are those of its prefixes.
LEMMA UpToIsUp ==
    ASSUME NEW p \in Rel
    PROVE  /\ Len(p) \in Nat \ {0} /\ p \in UpTo[p]
           /\ UpTo[p] \subseteq Rel
           /\ \A q \in UpTo[p] : Len(q) \in 1..Len(p) /\ q = SubSeq(p, 1, Len(q))
           /\ \A q \in UpTo[p] \ {p} : Len(q) < Len(p)
<1>1. Len(p) \in Nat \ {0}
  BY TreeAssumption, EmptySeq
<1>2. p \in UpTo[p]
  BY <1>1, Prefixes DEF UpTo
<1>3. UpTo[p] \subseteq Rel
  BY TreeAssumption
<1>4. \A q \in UpTo[p] : Len(q) \in 1..Len(p) /\ q = SubSeq(p, 1, Len(q))
  BY Prefixes DEF UpTo
<1>5. \A q \in UpTo[p] \ {p} : Len(q) < Len(p)
  BY <1>1, <1>4, Prefixes
<1> QED BY <1>1, <1>2, <1>3, <1>4, <1>5

\* They are nested.
LEMMA UpToNested ==
    ASSUME NEW p \in Rel, NEW q \in UpTo[p]
    PROVE  UpTo[q] = {r \in UpTo[p] : Len(r) <= Len(q)}
<1>1. q \in Rel /\ Len(q) \in 1..Len(p) /\ q = SubSeq(p, 1, Len(q))
  BY UpToIsUp
<1>2. \A i \in 1..Len(q) : SubSeq(q, 1, i) = SubSeq(p, 1, i) /\ Len(SubSeq(p, 1, i)) = i
  <2> SUFFICES ASSUME NEW i \in 1..Len(q)
               PROVE  SubSeq(q, 1, i) = SubSeq(p, 1, i) /\ Len(SubSeq(p, 1, i)) = i
    OBVIOUS
  <2>1. i \in 1..Len(p)
    BY <1>1, UpToIsUp
  <2> QED BY <1>1, <2>1, Prefixes
<1>3. ASSUME NEW r \in UpTo[q] PROVE r \in UpTo[p] /\ Len(r) <= Len(q)
  <2>1. PICK i \in 1..Len(q) : r = SubSeq(q, 1, i)
    BY <1>1 DEF UpTo
  <2>2. i \in 1..Len(p) /\ i <= Len(q)
    BY <1>1, <2>1, UpToIsUp
  <2> QED BY <1>2, <2>1, <2>2 DEF UpTo
<1>4. ASSUME NEW r \in UpTo[p], Len(r) <= Len(q) PROVE r \in UpTo[q]
  <2>1. Len(r) \in 1..Len(q) /\ r = SubSeq(p, 1, Len(r))
    BY <1>1, <1>4, UpToIsUp
  <2>2. r = SubSeq(q, 1, Len(r))
    BY <1>2, <2>1
  <2> QED BY <1>1, <2>1, <2>2 DEF UpTo
<1> QED BY <1>3, <1>4

\* The directory above.
LEMMA UpToParent ==
    ASSUME NEW p \in Rel
    PROVE  \/ Parent[p] = <<>> /\ UpTo[p] = {p}
           \/ Parent[p] \in UpTo[p] \ {p} /\ UpTo[p] = UpTo[Parent[p]] \union {p}
<1>1. Len(p) \in Nat \ {0} /\ p \in Seq(Name)
  BY UpToIsUp, TreeAssumption
<1>2. CASE Len(p) = 1
  <2>1. Parent[p] = <<>>
    <3>1. Parent[p] = SubSeq(p, 1, Len(p) - 1)
      BY DEF Parent
    <3>2. Len(p) - 1 = 0
      BY <1>2
    <3>3. SubSeq(p, 1, 0) = <<>>
      BY SubSeqEmpty
    <3> QED BY <3>1, <3>2, <3>3, Zenon
  <2>2. UpTo[p] = {p}
    BY <1>2, UpToIsUp
  <2> QED BY <2>1, <2>2
<1>3. CASE Len(p) # 1
  <2> DEFINE d == SubSeq(p, 1, Len(p) - 1)
  <2>1. Len(p) - 1 \in 1..Len(p)
    <3>1. \A n \in Nat \ {0} : n # 1 => n - 1 \in 1..n
      OBVIOUS
    <3> QED BY <1>1, <1>3, <3>1
  <2>2. d \in UpTo[p] /\ Len(d) = Len(p) - 1
    BY <2>1, Prefixes DEF UpTo
  <2>3. UpTo[d] = {r \in UpTo[p] : Len(r) <= Len(p) - 1}
    BY <2>2, UpToNested
  <2>4. UpTo[p] = UpTo[d] \union {p}
    BY <1>1, <2>3, UpToIsUp
  <2> QED BY <1>1, <2>2, <2>4 DEF Parent
<1> QED BY <1>2, <1>3

\* The next directory on the way down to a path.
LEMMA NextOnWay ==
    ASSUME NEW p \in Rel, NEW d \in (UpTo[p] \ {p}) \union {<<>>}
    PROVE  \E q \in UpTo[p] : Parent[q] = d
<1>1. CASE d = <<>>
  <2> DEFINE q == SubSeq(p, 1, 1)
  <2>1. 1 \in 1..Len(p)
    BY UpToIsUp
  <2>2. q \in UpTo[p] /\ q \in Rel /\ Len(q) = 1
    BY <2>1, Prefixes DEF UpTo
  <2>3. Parent[q] = <<>>
    BY <2>2, SubSeqEmpty DEF Parent
  <2> QED BY <1>1, <2>2, <2>3
<1>2. CASE d \in UpTo[p] \ {p}
  <2> DEFINE n == Len(d) + 1
             q == SubSeq(p, 1, n)
  <2>1. n \in 1..Len(p) /\ Len(d) \in 1..n /\ d = SubSeq(p, 1, Len(d))
    BY <1>2, UpToIsUp
  <2>2. q \in UpTo[p] /\ q \in Rel /\ Len(q) = n
    BY <2>1, Prefixes DEF UpTo
  <2>3. SubSeq(q, 1, Len(q) - 1) = d
    BY <2>1, <2>2, Prefixes
  <2> QED BY <2>2, <2>3 DEF Parent
<1> QED BY <1>1, <1>2

------------------------------------------------------------------------------
(* The walk. *)

\* Where the walk comes by on its way to a path.
Above(p) == (UpTo[p] \ {p}) \union {<<>>}

\* A path is dealt with, overlooked, or still to be reached.
FileCovered(r, p) ==
    \/ <<r, p>> \in offered
    \/ Overlooked(r, p)
    \/ \E d \in Above(p), f \in BOOLEAN : <<r, d, f>> \in stack

DirCovered(r, p) ==
    \/ <<r, p>> \in made
    \/ Overlooked(r, p)
    \/ \E d \in Above(p) \union {p}, f \in BOOLEAN : <<r, d, f>> \in stack

\* A directory on the stack is marked by the rule, not by its own name alone.
MarkedRight(v) ==
    \E r \in Root :
        \/ v = <<r, RootRel[r], FALSE>>
        \/ \E d \in Rel \ {RootRel[r]} :
               /\ kind[r][d] = "dir"
               /\ \/ v = <<r, d, TRUE>> /\ Ignored(offering, d, TRUE)
                  \/ v = <<r, d, FALSE>> /\ ~Ignored(offering, d, TRUE)

OfferedRight(s) ==
    \E r \in Root, p \in Rel :
        s = <<r, p>> /\ kind[r][p] = "file" /\ ~Ignored(offering, p, FALSE)

MadeRight(s) ==
    \E r \in Root : \E p \in Rel \ {RootRel[r]} :
        s = <<r, p>> /\ kind[r][p] = "dir" /\ Ignored(offering, p, TRUE)

Covers ==
    \A r \in Root, p \in Rel :
        /\ kind[r][p] = "file" /\ ~Ignored(offering, p, FALSE) => FileCovered(r, p)
        /\ kind[r][p] = "dir" /\ p # RootRel[r] /\ Ignored(offering, p, TRUE) => DirCovered(r, p)

WalkInv ==
    /\ \A v \in stack : MarkedRight(v)
    /\ \A s \in offered : OfferedRight(s)
    /\ \A s \in made : MadeRight(s)
    /\ Covers

------------------------------------------------------------------------------

\* What is below an ignored directory is ignored.
LEMMA IgnoredBelow ==
    ASSUME NEW set, NEW p \in Rel, NEW q \in UpTo[p] \ {p}, NEW isDir,
           Ignored(set, q, TRUE)
    PROVE  Ignored(set, p, isDir)
<1>1. PICK pattern \in set, r \in UpTo[q] : r \in pattern.matches
  BY DEF Ignored
<1>2. r \in UpTo[p] /\ Len(r) <= Len(q) /\ Len(q) < Len(p) /\ Len(q) \in Nat /\ Len(p) \in Nat
  BY <1>1, UpToNested, UpToIsUp
<1>3. r # p
  BY <1>2
<1> QED BY <1>1, <1>2, <1>3 DEF Ignored

\* The walk's next entry on the way to a path that is there.
LEMMA WalkDown ==
    ASSUME WellFormed(kind), NEW r \in Root, NEW p \in Rel, kind[r][p] # "none",
           NEW d \in Above(p)
    PROVE  \E q \in UpTo[p] : q \in Listing(r, d) /\ (q # p => q \in Subdirs(r, d))
<1>1. PICK q \in UpTo[p] : Parent[q] = d
  BY NextOnWay DEF Above
<1>2. q \in Rel /\ (q # p => kind[r][q] = "dir")
  BY UpToIsUp DEF WellFormed
<1> QED BY <1>1, <1>2 DEF Listing, Subdirs

\* A shared folder is in no listing of the walk.
LEMMA RootNotListed ==
    ASSUME NEW r \in Root, NEW d, NEW p \in Listing(r, d), d = RootRel[r] \/ d \in Rel
    PROVE  p # RootRel[r]
<1>1. p \in Rel /\ Parent[p] = d
  BY DEF Listing
<1> SUFFICES ASSUME p = RootRel[r] PROVE FALSE
  OBVIOUS
<1>2. Len(p) = 1 /\ p # <<>> /\ <<>> \notin Rel
  BY <1>1, TreeAssumption
<1>3. UpTo[p] = {p}
  BY <1>1, <1>2, UpToIsUp
<1>4. Parent[p] = <<>>
  BY <1>1, <1>3, UpToParent
<1> QED BY <1>1, <1>2, <1>4

\* The source stays a tree.
LEMMA EditStaysWellFormed ==
    ASSUME WellFormed(kind), kind \in [Root -> [Rel -> Kinds]],
           NEW r \in Root, NEW p \in Rel, NEW k \in Kinds, EditSource(r, p, k)
    PROVE  WellFormed(kind')
<1>1. kind' = [kind EXCEPT ![r] = [q \in Rel |->
                  IF q = p THEN k
                  ELSE IF q # p /\ p \in UpTo[q] /\ k # "dir" THEN "none" ELSE kind[r][q]]]
  BY DEF EditSource
<1>2. \A q \in Rel :
          kind'[r][q] = IF q = p THEN k
                        ELSE IF p \in UpTo[q] /\ k # "dir" THEN "none" ELSE kind[r][q]
  BY <1>1
<1>3. \A s \in Root \ {r} : kind'[s] = kind[s]
  BY <1>1
<1>4. p # RootRel[r]
  BY DEF EditSource
<1>5. RootRel[r] # <<>> => kind'[r][RootRel[r]] = "dir"
  <2> SUFFICES ASSUME RootRel[r] # <<>> PROVE kind'[r][RootRel[r]] = "dir"
    OBVIOUS
  <2>1. RootRel[r] \in Rel /\ Len(RootRel[r]) = 1
    BY TreeAssumption
  <2>2. UpTo[RootRel[r]] = {RootRel[r]}
    BY <2>1, UpToIsUp
  <2> QED BY <1>2, <1>4, <2>1, <2>2 DEF WellFormed
<1>6. ASSUME NEW q \in Rel, kind'[r][q] # "none"
      PROVE  /\ RootRel[r] # <<>> => RootRel[r] \in UpTo[q]
             /\ \A t \in UpTo[q] \ {q} : kind'[r][t] = "dir"
  <2>1. CASE q # p
    <3>1. kind[r][q] # "none" /\ ~(p \in UpTo[q] /\ k # "dir")
      BY <1>2, <1>6, <2>1
    <3>2. ASSUME NEW t \in UpTo[q] \ {q} PROVE kind'[r][t] = "dir"
      <4>1. t \in Rel /\ kind[r][t] = "dir" /\ UpTo[t] \subseteq UpTo[q]
        BY <3>1, UpToIsUp, UpToNested DEF WellFormed
      <4> QED BY <1>2, <3>1, <4>1
    <3> QED BY <3>1, <3>2 DEF WellFormed
  <2>2. CASE q = p
    <3>1. k # "none"
      BY <1>2, <1>6, <2>2
    <3>2. CASE Parent[p] = <<>> /\ UpTo[p] = {p}
      <4>1. RootRel[r] = <<>>
        BY <3>1, <3>2, TreeAssumption DEF EditSource
      <4> QED BY <2>2, <3>2, <4>1
    <3>3. CASE Parent[p] \in UpTo[p] \ {p} /\ UpTo[p] = UpTo[Parent[p]] \union {p}
      <4> DEFINE d == Parent[p]
      <4>1. d \in Rel /\ Len(d) < Len(p)
        BY <3>3, UpToIsUp
      <4>2. kind[r][d] = "dir"
        BY <3>1, <4>1, TreeAssumption DEF EditSource, WellFormed
      <4>3. \A t \in UpTo[d] : kind[r][t] = "dir" /\ t \in Rel
        BY <4>1, <4>2, UpToIsUp DEF WellFormed
      <4>4. \A t \in UpTo[d] : p \notin UpTo[t]
        <5> SUFFICES ASSUME NEW t \in UpTo[d], p \in UpTo[t] PROVE FALSE
          OBVIOUS
        <5>1. Len(t) <= Len(d) /\ Len(p) <= Len(t) /\ Len(t) \in Nat /\ Len(d) \in Nat /\ Len(p) \in Nat
          BY <4>1, <4>3, UpToIsUp
        <5> QED BY <4>1, <5>1
      <4>5. \A t \in UpTo[d] : t # p
        BY <4>3, <4>4, UpToIsUp
      <4>6. RootRel[r] # <<>> => RootRel[r] \in UpTo[d]
        BY <4>1, <4>2 DEF WellFormed
      <4> QED BY <1>2, <2>2, <3>3, <4>3, <4>4, <4>5, <4>6
    <3> QED BY <3>2, <3>3, UpToParent
  <2> QED BY <2>1, <2>2
<1>7. \A s \in Root \ {r} :
          /\ RootRel[s] # <<>> => kind'[s][RootRel[s]] = "dir"
          /\ \A q \in Rel : kind'[s][q] # "none" =>
                 /\ RootRel[s] # <<>> => RootRel[s] \in UpTo[q]
                 /\ \A t \in UpTo[q] \ {q} : kind'[s][t] = "dir"
  BY <1>3 DEF WellFormed
<1> QED BY <1>5, <1>6, <1>7 DEF WellFormed

\* One directory listed, its files offered.
LEMMA WalkVisitDir ==
    ASSUME WellFormed(kind), WalkInv, NEW r, NEW d, VisitDir(r, d)
    PROVE  WalkInv'
<1> DEFINE v == <<r, d, FALSE>>
<1>1. v \in stack /\ r \in Root /\ (d = RootRel[r] \/ d \in Rel)
  BY DEF VisitDir, WalkInv, MarkedRight
<1>2. UNCHANGED <<kind, offering, made>>
  BY DEF VisitDir, sourceVars
<1>3. PICK skipped \in SUBSET (Listing(r, d) \intersect Opaque) :
          /\ stack' = (stack \ {v}) \union
                         {<<r, p, Ignored(offering, p, TRUE)>> : p \in Subdirs(r, d)}
          /\ missed' = missed \union {<<r, p>> : p \in {q \in skipped : kind[r][q] = "file"}}
          /\ offered' = offered \union
                 {<<r, p>> : p \in {p \in Listing(r, d) \ skipped :
                                        kind[r][p] = "file" /\ ~Ignored(offering, p, FALSE)}}
  BY DEF VisitDir, Visited
<1>4. ASSUME NEW q \in Subdirs(r, d)
      PROVE  /\ q \in Rel /\ q # RootRel[r] /\ kind[r][q] = "dir"
             /\ \E f \in BOOLEAN : /\ f = TRUE <=> Ignored(offering, q, TRUE)
                                   /\ <<r, q, f>> \in stack'
  <2>1. q \in Rel /\ kind[r][q] = "dir" /\ q # RootRel[r]
    BY <1>1, RootNotListed DEF Subdirs, Listing
  <2>2. Ignored(offering, q, TRUE) \in BOOLEAN
    BY DEF Ignored
  <2>3. <<r, q, Ignored(offering, q, TRUE)>> \in stack'
    BY <1>3
  <2> QED BY <2>1, <2>2, <2>3
<1>5. ASSUME NEW w \in stack' PROVE MarkedRight(w)'
  <2>1. CASE w \in stack
    BY <1>2, <2>1 DEF WalkInv, MarkedRight, Ignored
  <2>2. CASE w \notin stack
    <3>1. PICK q \in Subdirs(r, d) : w = <<r, q, Ignored(offering, q, TRUE)>>
      BY <1>3, <2>2
    <3>2. \/ w = <<r, q, TRUE>> /\ Ignored(offering, q, TRUE)
          \/ w = <<r, q, FALSE>> /\ ~Ignored(offering, q, TRUE)
      <4>1. Ignored(offering, q, TRUE) \in BOOLEAN
        BY DEF Ignored
      <4> QED BY <3>1, <4>1, Zenon
    <3>3. /\ q \in Rel \ {RootRel[r]} /\ kind'[r][q] = "dir"
          /\ \/ w = <<r, q, TRUE>> /\ Ignored(offering, q, TRUE)'
             \/ w = <<r, q, FALSE>> /\ ~Ignored(offering, q, TRUE)'
      BY <1>2, <1>4, <3>2, Zenon DEF Ignored
    <3> QED BY <1>1, <3>3, Zenon DEF MarkedRight
  <2> QED BY <2>1, <2>2
<1>6. ASSUME NEW s \in offered' PROVE OfferedRight(s)'
  <2>1. CASE s \in offered
    BY <1>2, <2>1 DEF WalkInv, OfferedRight, Ignored
  <2>2. CASE s \notin offered
    BY <1>1, <1>2, <1>3, <2>2 DEF OfferedRight, Ignored, Listing
  <2> QED BY <2>1, <2>2
<1>7. ASSUME NEW s \in made' PROVE MadeRight(s)'
  BY <1>2 DEF WalkInv, MadeRight, Ignored
<1>8. \A t \in Root, p \in Rel : Overlooked(t, p) => Overlooked(t, p)'
  BY <1>3 DEF Overlooked
<1>9. ASSUME NEW t \in Root, NEW p \in Rel,
             kind[t][p] = "file", ~Ignored(offering, p, FALSE)
      PROVE  FileCovered(t, p)'
  <2>1. FileCovered(t, p)
    BY <1>9 DEF WalkInv, Covers
  <2>2. CASE t = r /\ d \in Above(p)
    <3>1. PICK q \in UpTo[p] : q \in Listing(r, d) /\ (q # p => q \in Subdirs(r, d))
      BY <1>9, <2>2, WalkDown
    <3>2. CASE q = p
      <4>1. <<r, p>> \in offered' \/ <<r, p>> \in missed'
        BY <1>3, <1>9, <2>2, <3>1, <3>2
      <4> QED BY <2>2, <4>1, UpToIsUp DEF FileCovered, Overlooked
    <3>3. CASE q # p
      <4>1. \E f \in BOOLEAN : <<r, q, f>> \in stack'
        BY <1>4, <3>1, <3>3
      <4> QED BY <2>2, <3>1, <3>3, <4>1 DEF FileCovered, Above
    <3> QED BY <3>2, <3>3
  <2>3. CASE ~(t = r /\ d \in Above(p))
    <3>1. \A e \in Above(p), f \in BOOLEAN : <<t, e, f>> \in stack => <<t, e, f>> \in stack'
      BY <1>3, <2>3
    <3> QED BY <1>3, <1>8, <2>1, <3>1 DEF FileCovered
  <2> QED BY <2>2, <2>3
<1>10. ASSUME NEW t \in Root, NEW p \in Rel,
              kind[t][p] = "dir", p # RootRel[t], Ignored(offering, p, TRUE)
       PROVE  DirCovered(t, p)'
  <2>1. DirCovered(t, p)
    BY <1>10 DEF WalkInv, Covers
  <2>2. CASE t = r /\ d \in Above(p)
    <3>1. PICK q \in UpTo[p] : q \in Subdirs(r, d)
      BY <1>10, <2>2, WalkDown DEF Subdirs
    <3>2. \E f \in BOOLEAN : <<r, q, f>> \in stack'
      BY <1>4, <3>1
    <3> QED BY <2>2, <3>1, <3>2 DEF DirCovered, Above
  <2>3. CASE ~(t = r /\ d \in Above(p))
    <3>1. ~(t = r /\ d = p)
      BY <1>1, <1>10 DEF WalkInv, MarkedRight
    <3>2. \A e \in Above(p) \union {p}, f \in BOOLEAN :
              <<t, e, f>> \in stack => <<t, e, f>> \in stack'
      BY <1>3, <2>3, <3>1
    <3> QED BY <1>2, <1>8, <2>1, <3>2 DEF DirCovered
  <2> QED BY <2>2, <2>3
<1>11. Covers'
  BY <1>2, <1>9, <1>10 DEF Covers, Ignored
<1> QED BY <1>5, <1>6, <1>7, <1>11 DEF WalkInv

\* Both ways past a directory below an ignored one, and past one that cannot be
\* listed.
LEMMA WalkPassDir ==
    ASSUME WellFormed(kind), WalkInv, NEW r, NEW d, NEW f \in BOOLEAN,
           (f = TRUE /\ VisitIgnored(r, d)) \/ CannotList(r, d, f)
    PROVE  WalkInv'
<1> DEFINE v == <<r, d, f>>
<1>1. /\ v \in stack /\ r \in Root
      /\ f = TRUE => d \in Rel \ {RootRel[r]} /\ kind[r][d] = "dir" /\ Ignored(offering, d, TRUE)
  BY DEF VisitIgnored, CannotList, WalkInv, MarkedRight
<1>2. UNCHANGED <<kind, offering, offered>>
  BY DEF VisitIgnored, CannotList, sourceVars
<1>3. /\ stack \ {v} \subseteq stack' /\ missed \subseteq missed' /\ made \subseteq made'
      /\ made' \subseteq made \union {<<r, d>>}
      /\ f = TRUE => <<r, d>> \in made'
      /\ f = FALSE => made' = made
      /\ stack' \subseteq stack \union {<<r, q, TRUE>> : q \in Subdirs(r, d)}
  BY DEF VisitIgnored, CannotList, Visited
<1>4. \/ <<r, d>> \in missed' /\ stack' = stack \ {v}
      \/ f = TRUE /\ \A q \in Subdirs(r, d) : <<r, q, TRUE>> \in stack'
  BY DEF VisitIgnored, CannotList, Visited
<1>5. ASSUME NEW w \in stack' PROVE MarkedRight(w)'
  <2>1. CASE w \in stack
    BY <1>2, <2>1 DEF WalkInv, MarkedRight, Ignored
  <2>2. CASE w \notin stack
    <3>1. PICK q \in Subdirs(r, d) : w = <<r, q, TRUE>> /\ f = TRUE
      BY <1>3, <1>4, <2>2
    <3>2. q \in Rel /\ kind[r][q] = "dir" /\ q # RootRel[r] /\ Parent[q] = d
      BY <1>1, <3>1, RootNotListed DEF Subdirs, Listing
    <3>3. d \in UpTo[q] \ {q}
      BY <1>1, <3>1, <3>2, UpToParent, TreeAssumption
    <3>4. Ignored(offering, q, TRUE)
      BY <1>1, <3>1, <3>2, <3>3, IgnoredBelow
    <3>5. kind'[r][q] = "dir" /\ Ignored(offering, q, TRUE)'
      BY <1>2, <3>2, <3>4, Zenon DEF Ignored
    <3> QED BY <1>1, <3>1, <3>2, <3>5, Zenon DEF MarkedRight
  <2> QED BY <2>1, <2>2
<1>6. ASSUME NEW s \in offered' PROVE OfferedRight(s)'
  BY <1>2 DEF WalkInv, OfferedRight, Ignored
<1>7. ASSUME NEW s \in made' PROVE MadeRight(s)'
  BY <1>1, <1>2, <1>3 DEF WalkInv, MadeRight, Ignored
<1>8. \A t \in Root, p \in Rel : Overlooked(t, p) => Overlooked(t, p)'
  BY <1>3 DEF Overlooked
<1>9. ASSUME NEW t \in Root, NEW p \in Rel,
             kind[t][p] = "file", ~Ignored(offering, p, FALSE)
      PROVE  FileCovered(t, p)'
  <2>1. FileCovered(t, p)
    BY <1>9 DEF WalkInv, Covers
  <2>2. CASE t = r /\ d \in Above(p)
    <3>1. f = FALSE
      BY <1>1, <1>9, <2>2, IgnoredBelow, TreeAssumption DEF Above
    <3>2. <<r, d>> \in missed'
      BY <1>4, <3>1
    <3> QED BY <2>2, <3>2 DEF FileCovered, Overlooked, Above
  <2>3. CASE ~(t = r /\ d \in Above(p))
    <3>1. \A e \in Above(p), g \in BOOLEAN : <<t, e, g>> \in stack => <<t, e, g>> \in stack'
      BY <1>3, <2>3
    <3> QED BY <1>2, <1>8, <2>1, <3>1 DEF FileCovered
  <2> QED BY <2>2, <2>3
<1>10. ASSUME NEW t \in Root, NEW p \in Rel,
              kind[t][p] = "dir", p # RootRel[t], Ignored(offering, p, TRUE)
       PROVE  DirCovered(t, p)'
  <2>1. DirCovered(t, p)
    BY <1>10 DEF WalkInv, Covers
  <2>2. CASE t = r /\ (d \in Above(p) \/ d = p) /\ <<r, d>> \in missed'
    BY <2>2, UpToIsUp DEF DirCovered, Overlooked, Above
  <2>3. CASE t = r /\ d = p /\ f = TRUE
    BY <1>3, <2>3 DEF DirCovered
  <2>4. CASE t = r /\ d \in Above(p) /\ f = TRUE /\ \A q \in Subdirs(r, d) : <<r, q, TRUE>> \in stack'
    <3>1. PICK q \in UpTo[p] : q \in Subdirs(r, d)
      BY <1>10, <2>4, WalkDown DEF Subdirs
    <3> QED BY <2>4, <3>1 DEF DirCovered, Above
  <2>5. CASE ~(t = r /\ (d \in Above(p) \/ d = p))
    <3>1. \A e \in Above(p) \union {p}, g \in BOOLEAN :
              <<t, e, g>> \in stack => <<t, e, g>> \in stack'
      BY <1>3, <2>5
    <3> QED BY <1>3, <1>8, <2>1, <3>1 DEF DirCovered
  <2> QED BY <1>4, <2>2, <2>3, <2>4, <2>5
<1>11. Covers'
  BY <1>2, <1>9, <1>10 DEF Covers, Ignored
<1> QED BY <1>5, <1>6, <1>7, <1>11 DEF WalkInv

\* The walk starts above all there is.
LEMMA WalkBegins ==
    ASSUME WellFormed(kind), BeginRun
    PROVE  WalkInv'
<1>1. /\ stack' = {<<r, RootRel[r], FALSE>> : r \in Root} /\ offered' = {} /\ made' = {}
      /\ kind' = kind
  BY DEF BeginRun, sourceVars
<1>2. ASSUME NEW w \in stack' PROVE MarkedRight(w)'
  BY <1>1, Zenon DEF MarkedRight
<1>3. ASSUME NEW r \in Root, NEW p \in Rel, kind[r][p] # "none", p # RootRel[r]
      PROVE  \E d \in Above(p), f \in BOOLEAN : <<r, d, f>> \in stack'
  <2>1. RootRel[r] \in Above(p)
    BY <1>3 DEF Above, WellFormed
  <2>2. <<r, RootRel[r], FALSE>> \in stack'
    BY <1>1
  <2> QED BY <2>1, <2>2
<1>4. \A r \in Root, p \in Rel : kind[r][p] = "file" => p # RootRel[r]
  BY TreeAssumption DEF WellFormed
<1>5. Covers'
  BY <1>1, <1>3, <1>4 DEF Covers, FileCovered, DirCovered
<1>6. (\A s \in offered : OfferedRight(s))' /\ (\A s \in made : MadeRight(s))'
  BY <1>1
<1> QED BY <1>2, <1>5, <1>6 DEF WalkInv

LEMMA WalkUntouched ==
    ASSUME WalkInv, UNCHANGED <<kind, offering, stack, missed, offered, made>>
    PROVE  WalkInv'
<1>1. \A v : MarkedRight(v)' <=> MarkedRight(v)
  BY DEF MarkedRight, Ignored
<1>2. \A s : OfferedRight(s)' <=> OfferedRight(s)
  BY DEF OfferedRight, Ignored
<1>3. \A s : MadeRight(s)' <=> MadeRight(s)
  BY DEF MadeRight, Ignored
<1>4. Covers'
  BY DEF WalkInv, Covers, FileCovered, DirCovered, Overlooked, Ignored
<1> QED BY <1>1, <1>2, <1>3, <1>4 DEF WalkInv

\* A pattern that matches on the way down is the rule ignore.rs promises.
LEMMA RuleIsTest ==
    ASSUME NEW set, NEW p \in Rel, NEW isDir
    PROVE  IgnoredByRule(set, p, isDir) <=> Ignored(set, p, isDir)
<1>1. p \in UpTo[p]
  BY UpToIsUp
<1> QED BY <1>1 DEF IgnoredByRule, MatchedBy, Ignored

\* An offer is on its way, or its place is known to be in use.
OffersCount ==
    \A s \in offered :
        \/ \E item \in lines : item.type = "F" /\ item.rel = s[2]
        \/ Fold[s[2]] \in seen

\* The inductive invariant.
MirrorInv ==
    /\ kind \in [Root -> [Rel -> Kinds]] /\ WellFormed(kind)
    /\ receiver = "running" => WalkInv /\ OffersCount
    /\ settled => receiver # "running"
    /\ PrunedNotOffered

LEMMA MirrorInit == TreeInit => MirrorInv
  BY TreeAssumption DEF TreeInit, MirrorInv, PrunedNotOffered

LEMMA MirrorStep == MirrorInv /\ [TreeNext]_treeVars => MirrorInv'
<1> SUFFICES ASSUME MirrorInv, [TreeNext]_treeVars PROVE MirrorInv'
  OBVIOUS
<1> USE DEF MirrorInv
<1>1. ASSUME NEW r, NEW d, VisitDir(r, d) PROVE MirrorInv'
  <2>1. WalkInv' /\ receiver = "running" /\ UNCHANGED <<kind, settled, receiver, seen>>
    BY <1>1, WalkVisitDir DEF VisitDir, sourceVars, runVars, diskVars
  <2>2. PICK files :
            /\ offered' = offered \union {<<r, p>> : p \in files}
            /\ lines' = lines \union {Offer(r, p) : p \in files}
    BY <1>1 DEF VisitDir
  <2>3. ASSUME NEW s \in offered'
        PROVE  \/ \E item \in lines' : item.type = "F" /\ item.rel = s[2]
               \/ Fold[s[2]] \in seen
    <3>1. CASE s \in offered
      BY <2>1, <2>2, <3>1 DEF OffersCount
    <3>2. CASE s \notin offered
      <4>1. PICK p \in files : s = <<r, p>>
        BY <2>2, <2>3, <3>2
      <4>2. Offer(r, p) \in lines' /\ Offer(r, p).type = "F" /\ Offer(r, p).rel = p
        BY <2>2 DEF Offer
      <4> QED BY <4>1, <4>2
    <3> QED BY <3>1, <3>2
  <2> QED BY <2>1, <2>3 DEF OffersCount, PrunedNotOffered
<1>2. ASSUME NEW r, NEW d, NEW f \in BOOLEAN,
             (f = TRUE /\ VisitIgnored(r, d)) \/ CannotList(r, d, f)
      PROVE  MirrorInv'
  <2>1. WalkInv'
    BY <1>2, WalkPassDir DEF VisitIgnored, CannotList
  <2>2. /\ receiver = "running" /\ UNCHANGED <<kind, settled, receiver, seen, offered>>
        /\ lines \subseteq lines'
    BY <1>2 DEF VisitIgnored, CannotList, sourceVars, runVars, diskVars
  <2> QED BY <2>1, <2>2 DEF OffersCount, PrunedNotOffered
<1>3. ASSUME NEW item \in lines, TakeDir(item) PROVE MirrorInv'
  <2>1. /\ receiver = "running" /\ item.type = "D" /\ lines' = lines \ {item}
        /\ UNCHANGED <<sourceVars, walkVars, seen, settled, receiver>>
    BY <1>3 DEF TakeDir, Taken, runVars
  <2>2. WalkInv'
    BY <2>1, WalkUntouched DEF sourceVars, walkVars
  <2>3. OffersCount'
    BY <2>1 DEF OffersCount, walkVars
  <2> QED BY <2>1, <2>2, <2>3 DEF sourceVars, PrunedNotOffered
<1>4. ASSUME NEW item \in lines, TakeOffer(item) PROVE MirrorInv'
  <2>1. /\ receiver = "running" /\ lines' = lines \ {item}
        /\ seen' = seen \union {Fold[item.rel]}
        /\ UNCHANGED <<sourceVars, walkVars, settled, receiver>>
    BY <1>4 DEF TakeOffer, Taken, Place, runVars
  <2>2. WalkInv'
    BY <2>1, WalkUntouched DEF sourceVars, walkVars
  <2>3. OffersCount'
    BY <2>1 DEF OffersCount, walkVars
  <2> QED BY <2>1, <2>2, <2>3 DEF sourceVars, PrunedNotOffered
<1>5. ASSUME (\E item \in pending : WriteFile(item)) \/ CutSession PROVE MirrorInv'
  <2>1. /\ receiver = "running"
        /\ UNCHANGED <<sourceVars, walkVars, lines, seen, settled, receiver>>
    BY <1>5 DEF WriteFile, CutSession, runVars, diskVars
  <2>2. WalkInv'
    BY <2>1, WalkUntouched DEF sourceVars, walkVars
  <2>3. OffersCount'
    BY <2>1 DEF OffersCount, walkVars
  <2> QED BY <2>1, <2>2, <2>3 DEF sourceVars, PrunedNotOffered
<1>6. ASSUME FinishClean PROVE MirrorInv'
  <2>1. /\ receiver = "running" /\ stack = {} /\ lines = {} /\ receiver' = "clean"
        /\ pruned' = Unseen /\ UNCHANGED <<kind, offering, missed>>
    BY <1>6 DEF FinishClean, sourceVars, walkVars
  <2>2. ASSUME NEW p \in Unseen, NEW s \in Source, Fold[s[2]] = p, kind[s[1]][s[2]] = "file",
               ~Ignored(offering, s[2], FALSE)
        PROVE  Overlooked(s[1], s[2])
    <3>1. s[1] \in Root /\ s[2] \in Rel /\ s = <<s[1], s[2]>>
      BY DEF Source
    <3>2. s \in offered \/ Overlooked(s[1], s[2])
      BY <2>1, <2>2, <3>1 DEF WalkInv, Covers, FileCovered
    <3>3. s \notin offered
      BY <2>1, <2>2 DEF OffersCount, Unseen
    <3> QED BY <3>2, <3>3
  <2>3. PrunedNotOffered'
    BY <2>1, <2>2 DEF PrunedNotOffered, Overlooked, Ignored
  <2> QED BY <2>1, <2>3
<1>7. ASSUME FinishBroken PROVE MirrorInv'
  <2>1. receiver = "running" /\ receiver' = "incomplete" /\ UNCHANGED <<kind, settled>>
    BY <1>7 DEF FinishBroken, sourceVars
  <2> QED BY <2>1 DEF PrunedNotOffered
<1>8. ASSUME BeginRun PROVE MirrorInv'
  <2>1. kind' = kind /\ settled' = FALSE /\ offered' = {}
    BY <1>8 DEF BeginRun, sourceVars
  <2>2. WalkInv'
    BY <1>8, WalkBegins
  <2> QED BY <2>1, <2>2 DEF OffersCount, PrunedNotOffered
<1>9. ASSUME NEW r \in Root, NEW p \in Rel, NEW k \in Kinds, EditSource(r, p, k)
      PROVE  MirrorInv'
  <2>1. receiver # "running" /\ settled' = FALSE /\ UNCHANGED receiver
    BY <1>9 DEF EditSource
  <2>2. kind' \in [Root -> [Rel -> Kinds]]
    BY <1>9 DEF EditSource, Kinds
  <2>3. WellFormed(kind')
    BY <1>9, EditStaysWellFormed
  <2> QED BY <2>1, <2>2, <2>3 DEF PrunedNotOffered
<1>10. CASE UNCHANGED treeVars
  <2>1. UNCHANGED <<sourceVars, walkVars, lines, seen, settled, receiver, pruned>>
    BY <1>10 DEF treeVars, diskVars, runVars
  <2>2. WalkInv => WalkInv'
    BY <2>1, WalkUntouched DEF sourceVars, walkVars
  <2> QED BY <2>1, <2>2 DEF sourceVars, walkVars, OffersCount, PrunedNotOffered,
                            Overlooked, Ignored
<1>11. CASE Walk
  <2>1. PICK v \in stack :
            VisitDir(v[1], v[2]) \/ VisitIgnored(v[1], v[2]) \/ CannotList(v[1], v[2], v[3])
    BY <1>11 DEF Walk
  <2>2. receiver = "running"
    BY <2>1 DEF VisitDir, VisitIgnored, CannotList
  <2>3. v[3] \in BOOLEAN
    <3>1. MarkedRight(v)
      BY <2>2 DEF WalkInv
    <3>2. \E r, d : \E f \in BOOLEAN : v = <<r, d, f>>
      BY <3>1, Zenon DEF MarkedRight
    <3> QED BY <3>2
  <2> QED BY <1>1, <1>2, <2>1, <2>3
<1> QED BY <1>3, <1>4, <1>5, <1>6, <1>7, <1>8, <1>9, <1>10, <1>11
        DEF TreeNext, SessionStep, Receive

LEMMA MirrorInvariant == TreeSpec => []MirrorInv
  BY MirrorInit, MirrorStep, PTL DEF TreeSpec

------------------------------------------------------------------------------

\* A finished walk has offered the files the ignore rule leaves and named the
\* directories it takes, whatever the tree, the patterns and what fails to list.
THEOREM WalkFollows == TreeSpec => []WalkFollowsRule
<1>1. MirrorInv => WalkFollowsRule
  <2> SUFFICES ASSUME MirrorInv, receiver = "running", stack = {},
                      NEW r \in Root, NEW p \in Rel, ~Overlooked(r, p)
               PROVE  /\ <<r, p>> \in offered <=>
                             kind[r][p] = "file" /\ ~IgnoredByRule(offering, p, FALSE)
                      /\ <<r, p>> \in made <=>
                             kind[r][p] = "dir" /\ p # RootRel[r] /\ IgnoredByRule(offering, p, TRUE)
    BY DEF WalkFollowsRule
  <2>1. WalkInv
    BY DEF MirrorInv
  <2>2. <<r, p>> \in offered <=> kind[r][p] = "file" /\ ~Ignored(offering, p, FALSE)
    BY <2>1 DEF WalkInv, OfferedRight, Covers, FileCovered
  <2>3. <<r, p>> \in made <=> kind[r][p] = "dir" /\ p # RootRel[r] /\ Ignored(offering, p, TRUE)
    BY <2>1 DEF WalkInv, MadeRight, Covers, DirCovered
  <2> QED BY <2>2, <2>3, RuleIsTest
<1> QED BY <1>1, MirrorInvariant, PTL

\* The mirror deletes no file that a shared folder has and the walk saw, unless the
\* server's ignore set withholds it.
THEOREM PrunesOnlyWithheld == TreeSpec => []PrunedNotOffered
<1>1. MirrorInv => PrunedNotOffered
  BY DEF MirrorInv
<1> QED BY <1>1, MirrorInvariant, PTL

------------------------------------------------------------------------------
(* A clean run leaves a mirror.  The invariant follows each line: what it    *)
(* names is still on its way or has its place on the receiver's disk, and    *)
(* its top folder is bounded by a mirror root.  That a root is a directory,  *)
(* and the mirror so does its work, needs that the disk stays a tree.        *)

IsTree(d) ==
    \A p \in Rel : d[p].kind # "none" => \A q \in UpTo[p] \ {p} : d[q].kind = "dir"

\* A line names what the walk has found.
LinesName ==
    /\ \A item \in lines \union pending :
           item.rel \in Rel /\ (item.type = "F" => <<item.root, item.rel>> \in offered)
    /\ \A item \in pending : item.type = "F"
    /\ \A p \in seen : \E s \in offered : Fold[s[2]] = p

\* An offered file, from one of the folders that offered it, is at a place.
Landed(p) == IsFile(p) /\ \E s \in offered : disk[p].from = s /\ Fold[s[2]] = p

FilesLand ==
    \A s \in offered :
        \/ \E item \in lines \union pending : item.type = "F" /\ item.rel = s[2]
        \/ Landed(Fold[s[2]])

DirsLand ==
    \A s \in made :
        \/ \E item \in lines : item.type = "D" /\ item.rel = s[2]
        \/ disk[Fold[s[2]]].kind = "dir"

RootsNoted ==
    \A s \in offered \union made :
        \/ \E item \in lines : item.rel = s[2]
        \/ Fold[Top[s[2]]] \in roots

LinesLand == FilesLand /\ DirsLand /\ RootsNoted

\* The inductive invariant, on top of MirrorInv.
LandInv ==
    /\ IsTree(disk)
    /\ receiver = "running" => LinesName /\ (broken \/ LinesLand)
    /\ CleanIsMirror

\* The folded path of a place on the way is on the way.
LEMMA FoldedWay ==
    ASSUME NEW p \in Rel
    PROVE  /\ Fold[p] \in Rel /\ UpTo[Fold[p]] \subseteq Rel
           /\ Top[p] \in UpTo[p] /\ Top[p] \in Rel /\ Fold[Top[p]] \in UpTo[Fold[p]]
<1>1. Len(p) \in Nat \ {0}
  BY UpToIsUp
<1>2. Top[p] \in UpTo[p] /\ Top[p] \in Rel
  BY <1>1, Prefixes DEF Top, UpTo
<1> QED BY <1>2, TreeAssumption

\* Directories made on the way to a place where no file is in the way.
LEMMA DirsOnTheWay ==
    ASSUME IsTree(disk), NEW p \in Rel, NEW dirs, dirs = UpTo[p] \/ dirs = UpTo[p] \ {p},
           ~Blocked(dirs)
    PROVE  /\ IsTree(WithDirs(dirs))
           /\ \A q \in Rel : IsFile(q) => WithDirs(dirs)[q] = disk[q]
           /\ \A q \in Rel : disk[q].kind = "dir" \/ q \in dirs => WithDirs(dirs)[q].kind = "dir"
<1>1. \A q \in Rel : IsFile(q) => WithDirs(dirs)[q] = disk[q]
  BY DEF Blocked, WithDirs
<1>2. \A q \in Rel : disk[q].kind = "dir" \/ q \in dirs => WithDirs(dirs)[q].kind = "dir"
  BY DEF WithDirs, Folder
<1>3. ASSUME NEW q \in Rel, WithDirs(dirs)[q].kind # "none", NEW r \in UpTo[q] \ {q}
      PROVE  WithDirs(dirs)[r].kind = "dir"
  <2>1. r \in Rel
    BY UpToIsUp
  <2>2. CASE q \in dirs
    <3>1. UpTo[q] = {t \in UpTo[p] : Len(t) <= Len(q)}
      BY <2>2, UpToNested
    <3>2. Len(r) < Len(q) /\ Len(q) <= Len(p) /\ Len(r) \in Nat /\ Len(q) \in Nat /\ Len(p) \in Nat
      BY <2>1, <2>2, UpToIsUp
    <3>3. r \in UpTo[p] \ {p}
      BY <3>1, <3>2
    <3> QED BY <1>2, <2>1, <3>3
  <2>3. CASE q \notin dirs
    BY <1>2, <1>3, <2>1, <2>3 DEF WithDirs, IsTree
  <2> QED BY <2>2, <2>3
<1> QED BY <1>1, <1>2, <1>3 DEF IsTree

\* A file laid where no directory is.
LEMMA FileLaid ==
    ASSUME NEW d, d = [q \in Rel |-> d[q]], IsTree(d), NEW p \in Rel, d[p].kind # "dir",
           \A q \in UpTo[p] \ {p} : d[q].kind = "dir", NEW s, NEW t
    PROVE  IsTree([d EXCEPT ![p] = Copy(s, t)])
<1> DEFINE e == [d EXCEPT ![p] = Copy(s, t)]
<1>1. \A q \in Rel : e[q] = IF q = p THEN Copy(s, t) ELSE d[q]
  OBVIOUS
<1> HIDE DEF e
<1>2. ASSUME NEW q \in Rel, e[q].kind # "none", NEW r \in UpTo[q] \ {q}
      PROVE  e[r].kind = "dir"
  <2>1. r \in Rel
    BY UpToIsUp
  <2>2. d[r].kind = "dir"
    BY <1>1, <1>2 DEF IsTree
  <2> QED BY <1>1, <2>1, <2>2
<1> QED BY <1>2 DEF IsTree, e

LEMMA LandInit == TreeInit => LandInv
  BY TreeAssumption DEF TreeInit, LandInv, IsTree, CleanIsMirror

LEMMA LandStep == MirrorInv /\ LandInv /\ [TreeNext]_treeVars => LandInv'
<1> SUFFICES ASSUME MirrorInv, LandInv, [TreeNext]_treeVars PROVE LandInv'
  OBVIOUS
<1> USE DEF LandInv
<1>a. receiver = "running" => ~settled
  BY DEF MirrorInv
<1>b. receiver = "running" => \A s \in offered \union made : s[2] \in Rel
  <2> SUFFICES ASSUME receiver = "running", NEW s \in offered \union made PROVE s[2] \in Rel
    OBVIOUS
  <2>1. OfferedRight(s) \/ MadeRight(s)
    BY DEF MirrorInv, WalkInv
  <2>2. PICK r \in Root, p \in Rel : s = <<r, p>>
    BY <2>1, Zenon DEF OfferedRight, MadeRight
  <2> QED BY <2>2
<1>1. ASSUME NEW r, NEW d, VisitDir(r, d) PROVE LandInv'
  <2>1. PICK files \in SUBSET Rel :
            /\ offered' = offered \union {<<r, p>> : p \in files}
            /\ lines' = lines \union {Offer(r, p) : p \in files}
    BY <1>1 DEF VisitDir, Listing
  <2>2. /\ receiver = "running"
        /\ UNCHANGED <<made, pending, disk, seen, roots, broken, settled, receiver>>
    BY <1>1 DEF VisitDir, diskVars, runVars
  <2>3. ASSUME NEW p \in files
        PROVE  /\ Offer(r, p) \in lines' /\ <<r, p>> \in offered'
               /\ Offer(r, p).type = "F" /\ Offer(r, p).root = r /\ Offer(r, p).rel = p
    BY <2>1 DEF Offer
  <2>4. LinesName'
    <3>1. ASSUME NEW item \in lines', item \notin lines
          PROVE  item.rel \in Rel /\ <<item.root, item.rel>> \in offered'
      <4>1. PICK p \in files : item = Offer(r, p)
        BY <2>1, <3>1
      <4> QED BY <2>3, <4>1
    <3> QED BY <2>1, <2>2, <3>1 DEF LinesName
  <2>5. \A s \in offered' :
            s \in offered \/ \E item \in lines' : item.type = "F" /\ item.rel = s[2]
    <3> SUFFICES ASSUME NEW s \in offered', s \notin offered
                 PROVE  \E item \in lines' : item.type = "F" /\ item.rel = s[2]
      OBVIOUS
    <3>1. PICK p \in files : s = <<r, p>>
      BY <2>1
    <3>2. s[2] = p
      BY <3>1
    <3> QED BY <2>3, <3>2
  <2>6. LinesLand => LinesLand'
    BY <2>1, <2>2, <2>5 DEF LinesLand, FilesLand, DirsLand, RootsNoted, Landed, IsFile
  <2> QED BY <1>a, <2>2, <2>4, <2>6 DEF MirrorInv, CleanIsMirror
<1>2. ASSUME NEW r, NEW d, NEW f, VisitIgnored(r, d) \/ CannotList(r, d, f) PROVE LandInv'
  <2>1. /\ receiver = "running"
        /\ UNCHANGED <<offered, pending, disk, seen, roots, broken, settled, receiver>>
    BY <1>2 DEF VisitIgnored, CannotList, diskVars, runVars
  <2>2. \/ made' = made /\ lines' = lines
        \/ /\ made' = made \union {<<r, d>>} /\ lines' = lines \union {DirLine(r, d)}
           /\ d \in Rel
    <3>1. CASE VisitIgnored(r, d)
      <4>1. MarkedRight(<<r, d, TRUE>>)
        BY <3>1 DEF VisitIgnored, MirrorInv, WalkInv
      <4>2. d \in Rel
        BY <4>1 DEF MarkedRight
      <4> QED BY <3>1, <4>2 DEF VisitIgnored
    <3>2. CASE CannotList(r, d, f)
      BY <3>2, TreeAssumption DEF CannotList
    <3> QED BY <1>2, <3>1, <3>2
  <2>3. DirLine(r, d).type = "D" /\ DirLine(r, d).rel = d /\ <<r, d>>[2] = d
    BY DEF DirLine
  <2>4. LinesName'
    BY <2>1, <2>2, <2>3 DEF LinesName
  <2>5. LinesLand => LinesLand'
    BY <2>1, <2>2, <2>3 DEF LinesLand, FilesLand, DirsLand, RootsNoted, Landed, IsFile
  <2> QED BY <1>a, <2>1, <2>4, <2>5 DEF MirrorInv, CleanIsMirror
<1>3. ASSUME NEW item \in lines, TakeDir(item) PROVE LandInv'
  <2>1. /\ receiver = "running" /\ item.type = "D" /\ lines' = lines \ {item}
        /\ UNCHANGED <<offered, made, pending, seen, settled, receiver>>
    BY <1>3 DEF TakeDir, Taken, walkVars, runVars
  <2>2. LinesName' /\ item.rel \in Rel /\ (broken \/ LinesLand)
    BY <2>1 DEF LinesName
  <2>3. CASE Blocked(UpTo[Place(item)])
    BY <1>a, <1>3, <2>1, <2>2, <2>3 DEF TakeDir, CleanIsMirror
  <2>4. CASE ~Blocked(UpTo[Place(item)])
    <3>1. /\ disk' = WithDirs(UpTo[Place(item)]) /\ broken' = broken
          /\ roots' = roots \union {Fold[Top[item.rel]]}
      BY <1>3, <2>4 DEF TakeDir, MirrorRoot
    <3>2. Place(item) = Fold[item.rel] /\ Place(item) \in UpTo[Place(item)] /\ Place(item) \in Rel
      BY <2>2, FoldedWay, UpToIsUp DEF Place
    <3>3. /\ IsTree(disk')
          /\ \A q \in Rel : IsFile(q) => disk'[q] = disk[q]
          /\ \A q \in Rel : disk[q].kind = "dir" \/ q = Place(item) => disk'[q].kind = "dir"
      BY <2>4, <3>1, <3>2, DirsOnTheWay
    <3>4. LinesLand => LinesLand'
      <4> SUFFICES ASSUME LinesLand PROVE LinesLand'
        OBVIOUS
      <4>1. \A s \in offered \union made : Fold[s[2]] \in Rel
        BY <1>b, <2>1, FoldedWay
      <4>2. FilesLand'
        BY <2>1, <3>3, <4>1 DEF LinesLand, FilesLand, Landed, IsFile
      <4>3. DirsLand'
        BY <2>1, <3>2, <3>3, <4>1 DEF LinesLand, DirsLand
      <4>4. RootsNoted'
        BY <2>1, <3>1 DEF LinesLand, RootsNoted
      <4> QED BY <4>2, <4>3, <4>4 DEF LinesLand
    <3> QED BY <1>a, <2>1, <2>2, <3>1, <3>3, <3>4 DEF CleanIsMirror
  <2> QED BY <2>3, <2>4
<1>4. ASSUME NEW item \in lines, TakeOffer(item) PROVE LandInv'
  <2> DEFINE s0 == <<item.root, item.rel>>
  <2>1. /\ receiver = "running" /\ item.type = "F" /\ lines' = lines \ {item}
        /\ seen' = seen \union {Fold[item.rel]} /\ roots' = roots \union {Fold[Top[item.rel]]}
        /\ UNCHANGED <<offered, made, disk, broken, settled, receiver>>
    BY <1>4 DEF TakeOffer, Taken, Place, MirrorRoot, walkVars, runVars
  <2>2. \/ pending' = pending \union {item}
        \/ pending' = pending /\ ~NeedFetch(item)
    BY <1>4 DEF TakeOffer
  <2>3. item.rel \in Rel /\ s0 \in offered /\ s0[2] = item.rel
    BY <2>1 DEF LinesName
  <2>4. LinesName'
    BY <2>1, <2>2, <2>3 DEF LinesName
  <2>5. ~NeedFetch(item) => Landed(Fold[item.rel])
    BY <2>3 DEF NeedFetch, Place, Landed, IsFile
  <2>6. LinesLand => LinesLand'
    <3> SUFFICES ASSUME LinesLand PROVE LinesLand'
      OBVIOUS
    <3>1. FilesLand'
      BY <2>1, <2>2, <2>5 DEF LinesLand, FilesLand, Landed, IsFile
    <3>2. DirsLand' /\ RootsNoted'
      BY <2>1 DEF LinesLand, DirsLand, RootsNoted
    <3> QED BY <3>1, <3>2 DEF LinesLand
  <2> QED BY <1>a, <2>1, <2>4, <2>6 DEF CleanIsMirror
<1>5. ASSUME NEW item \in pending, WriteFile(item) PROVE LandInv'
  <2> DEFINE s0 == <<item.root, item.rel>>
             above == UpTo[Place(item)] \ {Place(item)}
  <2>1. /\ receiver = "running" /\ item.type = "F" /\ pending' = pending \ {item}
        /\ UNCHANGED <<lines, offered, made, seen, roots, settled, receiver>>
    BY <1>5 DEF WriteFile, LinesName, walkVars, runVars
  <2>2. /\ LinesName' /\ item.rel \in Rel /\ s0 \in offered /\ s0[2] = item.rel
        /\ (broken \/ LinesLand)
    BY <2>1 DEF LinesName
  <2>3. Place(item) = Fold[item.rel] /\ Place(item) \in Rel
    BY <2>2, FoldedWay DEF Place
  <2>4. CASE Blocked(above)
    BY <1>a, <1>5, <2>1, <2>2, <2>4 DEF WriteFile, CleanIsMirror
  <2>5. CASE ~Blocked(above)
    <3>1. /\ IsTree(WithDirs(above))
          /\ \A q \in Rel : IsFile(q) => WithDirs(above)[q] = disk[q]
          /\ \A q \in Rel : disk[q].kind = "dir" \/ q \in above => WithDirs(above)[q].kind = "dir"
          /\ WithDirs(above)[Place(item)] = disk[Place(item)]
      BY <2>3, <2>5, DirsOnTheWay DEF WithDirs
    <3>2. CASE disk[Place(item)].kind = "dir"
      <4>1. broken' = TRUE /\ disk' = WithDirs(above)
        BY <1>5, <2>5, <3>2 DEF WriteFile
      <4> QED BY <1>a, <2>1, <2>2, <3>1, <4>1 DEF CleanIsMirror
    <3>3. CASE disk[Place(item)].kind # "dir"
      <4> DEFINE copy == Copy(s0, Stamped(item.ticks))
      <4>1. broken' = broken /\ disk' = [WithDirs(above) EXCEPT ![Place(item)] = copy]
        BY <1>5, <2>5, <3>3 DEF WriteFile
      <4>2. WithDirs(above) = [q \in Rel |-> WithDirs(above)[q]]
        BY DEF WithDirs
      <4>3. \A q \in above : WithDirs(above)[q].kind = "dir"
        BY <2>3, <3>1, UpToIsUp
      <4>4. IsTree(disk')
        BY <2>3, <3>1, <3>3, <4>1, <4>2, <4>3, FileLaid
      <4>5. \A q \in Rel : disk'[q] = IF q = Place(item) THEN copy ELSE WithDirs(above)[q]
        BY <4>1, <4>2
      <4>6. copy.kind = "file" /\ copy.from = s0
        BY DEF Copy
      <4>7. LinesLand => LinesLand'
        <5> SUFFICES ASSUME LinesLand PROVE LinesLand'
          OBVIOUS
        <5>1. \A s \in offered \union made : Fold[s[2]] \in Rel
          BY <1>b, <2>1, FoldedWay
        <5>2. Landed(Place(item))'
          BY <2>1, <2>2, <2>3, <4>5, <4>6 DEF Landed, IsFile
        <5>3. \A q \in Rel : Landed(q) => Landed(q)'
          <6> SUFFICES ASSUME NEW q \in Rel, q # Place(item), Landed(q) PROVE Landed(q)'
            BY <5>2
          <6>1. disk'[q] = disk[q]
            BY <3>1, <4>5 DEF Landed
          <6> QED BY <2>1, <6>1 DEF Landed, IsFile
        <5>4. FilesLand'
          BY <2>1, <2>3, <5>1, <5>2, <5>3 DEF LinesLand, FilesLand
        <5>5. DirsLand' /\ RootsNoted'
          BY <2>1, <3>1, <3>3, <4>5, <5>1 DEF LinesLand, DirsLand, RootsNoted
        <5> QED BY <5>4, <5>5 DEF LinesLand
      <4> QED BY <1>a, <2>1, <2>2, <4>1, <4>4, <4>7 DEF CleanIsMirror
    <3> QED BY <3>2, <3>3
  <2> QED BY <2>4, <2>5
<1>6. CASE CutSession
  <2>1. /\ receiver = "running" /\ broken' = TRUE
        /\ UNCHANGED <<offered, made, lines, pending, disk, seen, settled, receiver>>
    BY <1>6 DEF CutSession, walkVars, diskVars
  <2> QED BY <1>a, <2>1 DEF LinesName, CleanIsMirror
<1>7. CASE FinishClean
  <2>1. /\ receiver = "running" /\ ~broken /\ lines = {} /\ pending = {} /\ receiver' = "clean"
        /\ \A p \in Rel : disk'[p] = IF p \in Unseen THEN Absent ELSE disk[p]
        /\ UNCHANGED <<offered, made, keeping>>
    BY <1>7 DEF FinishClean, walkVars
  <2>2. IsTree(disk')
    <3>1. \A p \in Unseen : IsFile(p)
      BY DEF Unseen
    <3>2. \A p \in Rel : UpTo[p] \subseteq Rel
      BY TreeAssumption
    <3> QED BY <2>1, <3>1, <3>2 DEF IsTree, IsFile, Absent
  <2>3. /\ \A s \in offered : Landed(Fold[s[2]]) /\ Fold[s[2]] \in seen /\ Fold[s[2]] \in Rel
        /\ \A s \in made : disk[Fold[s[2]]].kind = "dir"
        /\ \A s \in offered \union made : Fold[Top[s[2]]] \in roots
    BY <1>b, <2>1, FoldedWay
       DEF MirrorInv, OffersCount, LinesLand, FilesLand, DirsLand, RootsNoted
  <2>4. ASSUME NEW p \in {Fold[s[2]] : s \in offered}
        PROVE  IsFile(p)' /\ disk'[p].from \in {s \in offered : Fold[s[2]] = p}
    <3>1. p \in Rel /\ p \in seen /\ Landed(p)
      BY <2>3
    <3>2. p \notin Unseen
      BY <3>1 DEF Unseen
    <3> QED BY <2>1, <3>1, <3>2 DEF Landed, IsFile
  <2>5. ASSUME NEW p \in Rel, IsFile(p)', NEW s \in offered \union made, Top[p] = Fold[Top[s[2]]]
        PROVE  p \in {Fold[t[2]] : t \in offered} \/ Ignored(keeping, p, FALSE)
    <3>1. IsFile(p) /\ p \notin Unseen /\ Top[p] \in roots /\ Top[p] \in UpTo[p]
      BY <2>1, <2>3, <2>5, FoldedWay DEF IsFile, Absent
    <3>2. CASE disk[Top[p]].kind = "dir"
      <4>1. p \in seen \/ Ignored(keeping, p, FALSE)
        BY <3>1, <3>2 DEF Unseen
      <4> QED BY <2>1, <4>1 DEF LinesName
    <3>3. CASE disk[Top[p]].kind # "dir"
      <4>1. Top[p] = p
        BY <3>1, <3>3 DEF IsTree, IsFile
      <4>2. s[2] \in Rel /\ p \in UpTo[Fold[s[2]]] /\ Fold[s[2]] \in Rel
        BY <1>b, <2>1, <2>5, <4>1, FoldedWay
      <4>3. disk[Fold[s[2]]].kind # "none"
        BY <2>3 DEF Landed, IsFile
      <4>4. p = Fold[s[2]]
        BY <3>3, <4>1, <4>2, <4>3 DEF IsTree
      <4> QED BY <2>3, <3>3, <4>1, <4>4
    <3> QED BY <3>2, <3>3
  <2>6. CleanIsMirror'
    BY <2>1, <2>4, <2>5 DEF CleanIsMirror, Ignored
  <2> QED BY <2>1, <2>2, <2>6
<1>8. CASE FinishBroken
  <2>1. ~settled /\ settled' = settled /\ disk' = disk /\ receiver' # "running"
    BY <1>a, <1>8 DEF FinishBroken
  <2> QED BY <2>1 DEF CleanIsMirror
<1>9. CASE BeginRun
  <2>1. /\ settled' = FALSE /\ disk' = disk
        /\ lines' = {} /\ pending' = {} /\ seen' = {} /\ offered' = {} /\ made' = {}
    BY <1>9 DEF BeginRun
  <2> QED BY <2>1 DEF CleanIsMirror, LinesName, LinesLand, FilesLand, DirsLand, RootsNoted
<1>10. ASSUME NEW r \in Root, NEW p \in Rel, NEW k \in Kinds, EditSource(r, p, k)
       PROVE  LandInv'
  BY <1>10 DEF EditSource, diskVars, CleanIsMirror
<1>11. CASE UNCHANGED treeVars
  <2>1. UNCHANGED <<offered, made, lines, pending, disk, seen, roots, broken, keeping, settled,
                    receiver>>
    BY <1>11 DEF treeVars, walkVars, diskVars, runVars
  <2> QED BY <2>1 DEF LinesName, LinesLand, FilesLand, DirsLand, RootsNoted, Landed, IsFile,
                      CleanIsMirror, Ignored
<1>12. CASE Walk
  <2>1. PICK v \in stack :
            VisitDir(v[1], v[2]) \/ VisitIgnored(v[1], v[2]) \/ CannotList(v[1], v[2], v[3])
    BY <1>12 DEF Walk
  <2> QED BY <2>1, <1>1, <1>2
<1> QED BY <1>3, <1>4, <1>5, <1>6, <1>7, <1>8, <1>9, <1>10, <1>11, <1>12
        DEF TreeNext, SessionStep, Receive

\* A clean run leaves each offered file at its place and nothing else below what was
\* named, for every tree, set of patterns and receiver's disk, and after any number
\* of broken runs and changes of the source.
THEOREM CleanRunMirrors == TreeSpec => []CleanIsMirror
<1>1. LandInv => CleanIsMirror
  BY DEF LandInv
<1> QED BY <1>1, LandInit, LandStep, MirrorInvariant, PTL DEF TreeSpec

------------------------------------------------------------------------------
(* Types. *)

LEMMA Divisions ==
    ASSUME NEW a \in Int, NEW b \in Nat \ {0}
    PROVE  a \div b \in Int /\ a % b \in Int
  OBVIOUS

LEMMA IntProducts ==
    ASSUME NEW a \in Int, NEW b \in Int
    PROVE  a * b \in Int
  OBVIOUS

LEMMA TimesAreInts ==
    /\ \A nanos \in Int : ToTicks(nanos) \in Int
    /\ \A ticks \in Int : FromTicks(ticks) \in Int /\ Stamped(ticks) \in Int
<1>1. /\ TicksPerSec \in Nat \ {0} /\ NanosPerTick \in Nat \ {0} /\ EpochDiffSecs \in Int
      /\ TicksPerSec \in Int /\ NanosPerTick \in Int
  BY MtimeAssumption
<1>2. NanosPerSec \in Nat \ {0} /\ NanosPerSec \in Int
  <2>1. \A m, n \in Nat \ {0} : m * n \in Nat \ {0}
    OBVIOUS
  <2> QED BY <1>1, <2>1 DEF NanosPerSec
<1>3. ASSUME NEW nanos \in Int PROVE ToTicks(nanos) \in Int
  <2>1. /\ nanos \div NanosPerSec \in Int /\ nanos % NanosPerSec \in Int
        /\ (-nanos) \div NanosPerTick \in Int
    BY <1>1, <1>2, Divisions
  <2>2. (nanos % NanosPerSec) \div NanosPerTick \in Int
    BY <1>1, <2>1, Divisions
  <2> DEFINE q == nanos \div NanosPerSec
             k == (nanos % NanosPerSec) \div NanosPerTick
             n == (-nanos) \div NanosPerTick
  <2>3. q \in Int /\ k \in Int /\ n \in Int
    BY <2>1, <2>2
  <2> HIDE DEF q, k, n
  <2>4. (q + EpochDiffSecs) * TicksPerSec \in Int /\ EpochDiffSecs * TicksPerSec \in Int
    BY <1>1, <2>3, IntProducts
  <2>5. (q + EpochDiffSecs) * TicksPerSec + k \in Int
    BY <2>3, <2>4
  <2>6. -n - EpochDiffSecs * TicksPerSec \in Int
    BY <2>3, <2>4
  <2> QED BY <2>5, <2>6 DEF ToTicks, q, k, n
<1>4. ASSUME NEW ticks \in Int PROVE FromTicks(ticks) \in Int
  <2> DEFINE q == ticks \div TicksPerSec
             k == ticks % TicksPerSec
  <2>1. q \in Int /\ k \in Int
    BY <1>1, Divisions
  <2> HIDE DEF q, k
  <2>2. (q - EpochDiffSecs) * NanosPerSec \in Int /\ k * NanosPerTick \in Int
    BY <1>1, <1>2, <2>1, IntProducts
  <2>3. (q - EpochDiffSecs) * NanosPerSec + k * NanosPerTick \in Int
    BY <2>2
  <2> QED BY <2>3 DEF FromTicks, q, k
<1> QED BY <1>3, <1>4 DEF Stamped

Offers == [type : {"F"}, root : Root, rel : Rel, ticks : Int]
DirLines == [type : {"D"}, root : Root, rel : Rel, ticks : Int]
Places == Rel \union {<<>>}

\* The source, and the counters.
SourceTypes ==
    /\ kind \in [Root -> [Rel -> Kinds]] /\ WellFormed(kind)
    /\ edits \in 0..MaxEdits /\ cuts \in 0..MaxCuts /\ treeRun \in 0..MaxTreeRuns

\* The walk; a shared folder itself is never marked as ignored.
WalkTypes ==
    /\ offering \subseteq Patterns /\ keeping \subseteq Patterns
    /\ stack \subseteq Root \X Places \X BOOLEAN
    /\ \A v \in stack : v[3] = TRUE => v[2] \in Rel
    /\ missed \subseteq Root \X Places
    /\ offered \subseteq Source /\ made \subseteq Source

\* The lines under way, the receiver's tree and its sets.
ReceiverTypes ==
    /\ lines \subseteq Offers \union DirLines /\ pending \subseteq Offers
    /\ disk \in [Rel -> Entries] /\ before \in [Rel -> Entries]
    /\ seen \subseteq Rel /\ roots \subseteq Rel /\ pruned \subseteq Rel
    /\ wanted \subseteq Source

StateTypes ==
    /\ broken \in BOOLEAN /\ cut \in BOOLEAN /\ settled \in BOOLEAN
    /\ receiver \in {"idle", "running", "clean", "incomplete"}

TreeTypes == SourceTypes /\ WalkTypes /\ ReceiverTypes /\ StateTypes

LEMMA TreeTypesAreOK == TreeTypes => TreeTypeOK
<1> SUFFICES ASSUME TreeTypes PROVE TreeTypeOK
  OBVIOUS
<1>1. lines \subseteq [type : {"D", "F"}, root : Root, rel : Rel, ticks : Int]
  BY DEF TreeTypes, ReceiverTypes, Offers, DirLines
<1> QED BY <1>1 DEF TreeTypes, SourceTypes, WalkTypes, ReceiverTypes, StateTypes, TreeTypeOK,
                    Offers, Places

LEMMA TreeTypesInit == TreeInit => TreeTypes
<1> SUFFICES ASSUME TreeInit PROVE TreeTypes
  OBVIOUS
<1>1. SourceTypes
  BY TreeAssumption DEF TreeInit, SourceTypes
<1>2. WalkTypes
  BY DEF TreeInit, WalkTypes
<1>3. ReceiverTypes
  BY TreeAssumption DEF TreeInit, ReceiverTypes
<1>4. StateTypes
  BY DEF TreeInit, StateTypes
<1> QED BY <1>1, <1>2, <1>3, <1>4 DEF TreeTypes

LEMMA SourceTypesStep == SourceTypes /\ [TreeNext]_treeVars => SourceTypes'
<1> SUFFICES ASSUME SourceTypes, [TreeNext]_treeVars PROVE SourceTypes'
  OBVIOUS
<1>1. ASSUME NEW r \in Root, NEW p \in Rel, NEW k \in Kinds, EditSource(r, p, k)
      PROVE  SourceTypes'
  <2>1. WellFormed(kind')
    BY <1>1, EditStaysWellFormed DEF SourceTypes
  <2>2. kind' \in [Root -> [Rel -> Kinds]]
    <3> DEFINE changed == [q \in Rel |->
                   IF q = p THEN k
                   ELSE IF q # p /\ p \in UpTo[q] /\ k # "dir" THEN "none" ELSE kind[r][q]]
    <3>1. kind' = [kind EXCEPT ![r] = changed]
      BY <1>1 DEF EditSource
    <3>2. changed \in [Rel -> Kinds]
      BY DEF SourceTypes, Kinds
    <3> HIDE DEF changed
    <3> QED BY <3>1, <3>2 DEF SourceTypes
  <2>3. /\ edits' = edits + 1 /\ edits < MaxEdits /\ UNCHANGED <<cuts, treeRun>>
    BY <1>1 DEF EditSource
  <2> QED BY <2>1, <2>2, <2>3, TreeAssumption DEF SourceTypes
<1>2. CASE BeginRun
  BY <1>2, TreeAssumption DEF BeginRun, SourceTypes, sourceVars
<1>3. CASE CutSession
  BY <1>3, TreeAssumption DEF CutSession, SourceTypes, sourceVars
<1>4. CASE \/ Walk \/ Receive \/ UNCHANGED treeVars
  <2>1. UNCHANGED <<kind, edits, cuts, treeRun>>
    BY <1>4 DEF Walk, VisitDir, VisitIgnored, CannotList, Receive, TakeDir, TakeOffer, WriteFile,
       FinishClean, FinishBroken, sourceVars, runVars, treeVars
  <2> QED BY <2>1 DEF SourceTypes
<1> QED BY <1>1, <1>2, <1>3, <1>4 DEF TreeNext, SessionStep

LEMMA StackEntries ==
    ASSUME NEW r \in Root, NEW d \in Places, NEW f \in BOOLEAN
    PROVE  LET v == <<r, d, f>>
           IN  v \in Root \X Places \X BOOLEAN /\ v[2] = d /\ v[3] = f
  OBVIOUS

LEMMA WalkTypesStep == WalkTypes /\ [TreeNext]_treeVars => WalkTypes'
<1> SUFFICES ASSUME WalkTypes, [TreeNext]_treeVars PROVE WalkTypes'
  OBVIOUS
<1>0. \A r, d : Listing(r, d) \subseteq Rel /\ Subdirs(r, d) \subseteq Rel
  BY DEF Listing, Subdirs
<1>1. ASSUME NEW r, NEW d, VisitDir(r, d) PROVE WalkTypes'
  <2>1. <<r, d, FALSE>> \in stack /\ r \in Root
    BY <1>1 DEF VisitDir, WalkTypes
  <2> DEFINE found == {<<r, p, Ignored(offering, p, TRUE)>> : p \in Subdirs(r, d)}
  <2>2. PICK skipped \in SUBSET Rel, files \in SUBSET Rel :
            /\ Visited(<<r, d, FALSE>>, found,
                       {<<r, p>> : p \in {q \in skipped : kind[r][q] = "file"}})
            /\ offered' = offered \union {<<r, p>> : p \in files}
    BY <1>0, <1>1 DEF VisitDir
  <2>3. \A p : Ignored(offering, p, TRUE) \in BOOLEAN
    BY Zenon DEF Ignored
  <2>4. found \subseteq Root \X Places \X BOOLEAN /\ \A v \in found : v[2] \in Rel
    <3> SUFFICES ASSUME NEW v \in found
                 PROVE  v \in Root \X Places \X BOOLEAN /\ v[2] \in Rel
      OBVIOUS
    <3>1. PICK p \in Subdirs(r, d) : v = <<r, p, Ignored(offering, p, TRUE)>>
      OBVIOUS
    <3>2. p \in Rel /\ p \in Places
      BY <1>0 DEF Places
    <3> QED BY <2>1, <2>3, <3>1, <3>2, StackEntries, Zenon
  <2> HIDE DEF found
  <2>5. /\ stack' = (stack \ {<<r, d, FALSE>>}) \union found
        /\ missed' = missed \union {<<r, p>> : p \in {q \in skipped : kind[r][q] = "file"}}
    BY <2>2 DEF Visited
  <2>6. /\ stack' \subseteq Root \X Places \X BOOLEAN
        /\ \A v \in stack' : v[3] = TRUE => v[2] \in Rel
    BY <2>4, <2>5 DEF WalkTypes
  <2>7. missed' \subseteq Root \X Places /\ offered' \subseteq Source
    BY <2>1, <2>2, <2>5 DEF WalkTypes, Places, Source
  <2>8. UNCHANGED <<offering, keeping, made>>
    BY <1>1 DEF VisitDir, runVars
  <2> QED BY <2>6, <2>7, <2>8 DEF WalkTypes
<1>2. ASSUME NEW r, NEW d, NEW f \in BOOLEAN,
             (f = TRUE /\ VisitIgnored(r, d)) \/ CannotList(r, d, f)
      PROVE  WalkTypes'
  <2>1. <<r, d, f>> \in stack
    BY <1>2 DEF VisitIgnored, CannotList
  <2>2. r \in Root /\ d \in Places /\ (f = TRUE => d \in Rel)
    BY <2>1 DEF WalkTypes
  <2>3. /\ stack' \subseteq stack \union {<<r, p, TRUE>> : p \in Subdirs(r, d)}
        /\ missed' \subseteq missed \union {<<r, d>>}
        /\ made' = made \/ (f = TRUE /\ made' = made \union {<<r, d>>})
        /\ UNCHANGED <<offering, keeping, offered>>
    BY <1>2 DEF VisitIgnored, CannotList, Visited, runVars
  <2>4. /\ stack' \subseteq Root \X Places \X BOOLEAN
        /\ \A v \in stack' : v[3] = TRUE => v[2] \in Rel
    <3> SUFFICES ASSUME NEW v \in stack'
                 PROVE  v \in Root \X Places \X BOOLEAN /\ (v[3] = TRUE => v[2] \in Rel)
      OBVIOUS
    <3>1. CASE v \in stack
      BY <3>1 DEF WalkTypes
    <3>2. ASSUME NEW p \in Subdirs(r, d), v = <<r, p, TRUE>>
          PROVE  v \in Root \X Places \X BOOLEAN /\ v[2] \in Rel
      <4>1. p \in Rel /\ p \in Places /\ TRUE \in BOOLEAN
        BY <1>0 DEF Places
      <4> QED BY <2>2, <3>2, <4>1, StackEntries, Zenon
    <3> QED BY <2>3, <3>1, <3>2
  <2>5. missed' \subseteq Root \X Places /\ made' \subseteq Source
    BY <2>2, <2>3 DEF WalkTypes, Source
  <2> QED BY <2>3, <2>4, <2>5 DEF WalkTypes
<1>3. CASE BeginRun
  <2>1. \A r \in Root : RootRel[r] \in Places
    BY TreeAssumption DEF Places
  <2>2. /\ stack' \subseteq Root \X Places \X BOOLEAN
        /\ \A v \in stack' : v[3] = FALSE
    <3> SUFFICES ASSUME NEW r \in Root
                 PROVE  LET v == <<r, RootRel[r], FALSE>>
                        IN  v \in Root \X Places \X BOOLEAN /\ v[3] = FALSE
      BY <1>3 DEF BeginRun
    <3>1. FALSE \in BOOLEAN
      OBVIOUS
    <3> QED BY <2>1, <3>1, StackEntries, Zenon
  <2>3. \A v \in stack' : v[3] # TRUE
    BY <2>2
  <2> QED BY <1>3, <2>2, <2>3 DEF BeginRun, WalkTypes
<1>4. CASE FinishBroken
  BY <1>4 DEF FinishBroken, WalkTypes
<1>5. CASE \/ \E item \in lines : TakeDir(item) \/ TakeOffer(item)
           \/ \E item \in pending : WriteFile(item)
           \/ FinishClean \/ CutSession \/ UNCHANGED treeVars
           \/ \E r \in Root, p \in Rel, k \in Kinds : EditSource(r, p, k)
  <2>1. UNCHANGED <<offering, keeping, stack, missed, offered, made>>
    BY <1>5 DEF TakeDir, TakeOffer, WriteFile, FinishClean, CutSession, EditSource, walkVars,
       runVars, treeVars
  <2> QED BY <2>1 DEF WalkTypes
<1>6. CASE Walk
  <2>1. PICK v \in stack :
            VisitDir(v[1], v[2]) \/ VisitIgnored(v[1], v[2]) \/ CannotList(v[1], v[2], v[3])
    BY <1>6 DEF Walk
  <2>2. v[3] \in BOOLEAN
    BY DEF WalkTypes
  <2> QED BY <1>1, <1>2, <2>1, <2>2
<1> QED BY <1>3, <1>4, <1>5, <1>6 DEF TreeNext, SessionStep, Receive

\* A folder made on the way to a path, an entry removed, a file written.
LEMMA DisksAreDisks ==
    /\ Absent \in Entries /\ Folder \in Entries
    /\ \A s \in Source, t \in Int : Copy(s, t) \in Entries
    /\ disk \in [Rel -> Entries] => \A dirs : WithDirs(dirs) \in [Rel -> Entries]
<1>1. Absent \in Entries /\ Folder \in Entries
  BY DEF Absent, Folder, Entries, Kinds
<1>2. \A s \in Source, t \in Int : Copy(s, t) \in Entries
  BY DEF Copy, Entries, Kinds
<1>3. disk \in [Rel -> Entries] => \A dirs : WithDirs(dirs) \in [Rel -> Entries]
  BY <1>1 DEF WithDirs
<1> QED BY <1>1, <1>2, <1>3

LEMMA PlacesOnDisk ==
    ASSUME NEW item, item.rel \in Rel
    PROVE  Place(item) \in Rel /\ MirrorRoot(item) \in Rel
<1>1. Top[item.rel] \in Rel
  <2>1. 1 \in 1..Len(item.rel)
    BY UpToIsUp
  <2> QED BY <2>1, Prefixes DEF Top
<1> QED BY <1>1, TreeAssumption DEF Place, MirrorRoot

LEMMA ReceiverTypesStep ==
    WalkTypes /\ ReceiverTypes /\ [TreeNext]_treeVars => ReceiverTypes'
<1> SUFFICES ASSUME WalkTypes, ReceiverTypes, [TreeNext]_treeVars PROVE ReceiverTypes'
  OBVIOUS
<1>1. ASSUME NEW r, NEW d, VisitDir(r, d) PROVE ReceiverTypes'
  <2>1. r \in Root
    BY <1>1 DEF VisitDir, WalkTypes
  <2>2. PICK files \in SUBSET Rel : lines' = lines \union {Offer(r, p) : p \in files}
    BY <1>1 DEF VisitDir, Listing
  <2>3. \A p \in files : Offer(r, p) \in Offers
    <3> SUFFICES ASSUME NEW p \in files PROVE Offer(r, p) \in Offers
      OBVIOUS
    <3>1. Written[<<r, p>>] \in Int
      BY <2>1, TreeAssumption DEF Source
    <3>2. ToTicks(Written[<<r, p>>]) \in Int
      BY <3>1, TimesAreInts
    <3> QED BY <2>1, <3>2 DEF Offer, Offers
  <2>4. UNCHANGED <<pending, disk, before, seen, roots, pruned, wanted>>
    BY <1>1 DEF VisitDir, diskVars, runVars
  <2> QED BY <2>2, <2>3, <2>4 DEF ReceiverTypes
<1>2. ASSUME NEW r, NEW d, NEW f \in BOOLEAN,
             (f = TRUE /\ VisitIgnored(r, d)) \/ CannotList(r, d, f)
      PROVE  ReceiverTypes'
  <2>1. <<r, d, f>> \in stack
    BY <1>2 DEF VisitIgnored, CannotList
  <2>2. r \in Root /\ (f = TRUE => d \in Rel)
    BY <2>1 DEF WalkTypes
  <2>3. lines' = lines \/ (f = TRUE /\ lines' = lines \union {DirLine(r, d)})
    BY <1>2 DEF VisitIgnored, CannotList
  <2>4. f = TRUE => DirLine(r, d) \in DirLines
    BY <2>2 DEF DirLine, DirLines
  <2>5. UNCHANGED <<pending, disk, before, seen, roots, pruned, wanted>>
    BY <1>2 DEF VisitIgnored, CannotList, diskVars, runVars
  <2> QED BY <2>3, <2>4, <2>5 DEF ReceiverTypes
<1>3. CASE Walk
  <2>1. PICK v \in stack :
            VisitDir(v[1], v[2]) \/ VisitIgnored(v[1], v[2]) \/ CannotList(v[1], v[2], v[3])
    BY <1>3 DEF Walk
  <2>2. v[3] \in BOOLEAN
    BY DEF WalkTypes
  <2> QED BY <1>1, <1>2, <2>1, <2>2
<1>4. ASSUME NEW item \in lines, TakeDir(item) PROVE ReceiverTypes'
  <2>1. Place(item) \in Rel /\ MirrorRoot(item) \in Rel
    BY PlacesOnDisk DEF ReceiverTypes, Offers, DirLines
  <2>2. disk' = disk \/ disk' = WithDirs(UpTo[Place(item)])
    BY <1>4 DEF TakeDir
  <2>3. disk' \in [Rel -> Entries]
    BY <2>2, DisksAreDisks DEF ReceiverTypes
  <2>4. /\ roots' \subseteq roots \union {MirrorRoot(item)} /\ lines' \subseteq lines
        /\ UNCHANGED <<pending, before, seen, pruned, wanted>>
    BY <1>4 DEF TakeDir, Taken, runVars
  <2> QED BY <2>1, <2>3, <2>4 DEF ReceiverTypes
<1>5. ASSUME NEW item \in lines, TakeOffer(item) PROVE ReceiverTypes'
  <2>1. item \in Offers /\ <<item.root, item.rel>> \in Source
    BY <1>5 DEF TakeOffer, ReceiverTypes, Offers, DirLines, Source
  <2>2. Place(item) \in Rel /\ MirrorRoot(item) \in Rel
    BY <2>1, PlacesOnDisk DEF Offers
  <2>3. /\ roots' = roots \union {MirrorRoot(item)} /\ seen' = seen \union {Place(item)}
        /\ lines' \subseteq lines /\ pending' \subseteq pending \union {item}
        /\ wanted' \subseteq wanted \union {<<item.root, item.rel>>}
        /\ UNCHANGED <<disk, before, pruned>>
    BY <1>5 DEF TakeOffer, Taken, runVars
  <2> QED BY <2>1, <2>2, <2>3 DEF ReceiverTypes
<1>6. ASSUME NEW item \in pending, WriteFile(item) PROVE ReceiverTypes'
  <2>1. item.rel \in Rel /\ item.ticks \in Int /\ <<item.root, item.rel>> \in Source
    BY DEF ReceiverTypes, Offers, Source
  <2> DEFINE copy == Copy(<<item.root, item.rel>>, Stamped(item.ticks))
  <2>2. Place(item) \in Rel /\ copy \in Entries
    BY <2>1, PlacesOnDisk, TimesAreInts, DisksAreDisks
  <2> HIDE DEF copy
  <2>3. \E dirs : \/ disk' = disk
                  \/ disk' = WithDirs(dirs)
                  \/ disk' = [WithDirs(dirs) EXCEPT ![Place(item)] = copy]
    BY <1>6 DEF WriteFile, copy
  <2>4. disk' \in [Rel -> Entries]
    BY <2>2, <2>3, DisksAreDisks DEF ReceiverTypes
  <2>5. pending' \subseteq pending /\ UNCHANGED <<lines, before, seen, roots, pruned, wanted>>
    BY <1>6 DEF WriteFile, runVars
  <2> QED BY <2>4, <2>5 DEF ReceiverTypes
<1>7. CASE FinishClean
  <2>1. disk' = [p \in Rel |-> IF p \in Unseen THEN Absent ELSE disk[p]]
    BY <1>7 DEF FinishClean
  <2>2. disk' \in [Rel -> Entries]
    BY <2>1, DisksAreDisks DEF ReceiverTypes
  <2>3. /\ pruned' \subseteq Rel /\ seen' = {} /\ roots' = {}
        /\ UNCHANGED <<lines, pending, wanted, before>>
    BY <1>7 DEF FinishClean, Unseen
  <2> QED BY <2>2, <2>3 DEF ReceiverTypes
<1>8. CASE BeginRun \/ FinishBroken
  BY <1>8 DEF BeginRun, FinishBroken, ReceiverTypes
<1>9. CASE \/ CutSession \/ UNCHANGED treeVars
           \/ \E r \in Root, p \in Rel, k \in Kinds : EditSource(r, p, k)
  <2>1. UNCHANGED <<lines, pending, disk, before, seen, roots, pruned, wanted>>
    BY <1>9 DEF CutSession, EditSource, diskVars, runVars, treeVars
  <2> QED BY <2>1 DEF ReceiverTypes
<1> QED BY <1>3, <1>4, <1>5, <1>6, <1>7, <1>8, <1>9 DEF TreeNext, SessionStep, Receive

LEMMA StateTypesStep == StateTypes /\ [TreeNext]_treeVars => StateTypes'
<1> SUFFICES ASSUME StateTypes, [TreeNext]_treeVars PROVE StateTypes'
  OBVIOUS
<1>1. CASE Walk \/ UNCHANGED treeVars
  <2>1. UNCHANGED <<broken, cut, settled, receiver>>
    BY <1>1 DEF Walk, VisitDir, VisitIgnored, CannotList, runVars, treeVars
  <2> QED BY <2>1 DEF StateTypes
<1>2. CASE \/ \E item \in lines : TakeDir(item) \/ TakeOffer(item)
           \/ \E item \in pending : WriteFile(item)
  <2>1. UNCHANGED <<cut, settled, receiver>> /\ (broken' = TRUE \/ broken' = broken)
    BY <1>2 DEF TakeDir, TakeOffer, WriteFile, runVars
  <2> QED BY <2>1 DEF StateTypes
<1>3. CASE \/ FinishClean \/ FinishBroken \/ CutSession \/ BeginRun
           \/ \E r \in Root, p \in Rel, k \in Kinds : EditSource(r, p, k)
  <2>1. /\ broken' \in {broken, TRUE, FALSE} /\ cut' \in {cut, TRUE, FALSE}
        /\ settled' \in {settled, TRUE, FALSE}
        /\ receiver' \in {receiver, "running", "clean", "incomplete"}
    BY <1>3 DEF FinishClean, FinishBroken, CutSession, BeginRun, EditSource
  <2> QED BY <2>1 DEF StateTypes
<1> QED BY <1>1, <1>2, <1>3 DEF TreeNext, SessionStep, Receive

\* The source stays a tree below its shared folders, and every line, entry and path
\* is one of the tree's, file times included, whatever the rounding of ticks.
THEOREM TreeType == TreeSpec => []TreeTypeOK
<1>1. TreeTypes /\ [TreeNext]_treeVars => TreeTypes'
  BY SourceTypesStep, WalkTypesStep, ReceiverTypesStep, StateTypesStep DEF TreeTypes
<1> QED BY <1>1, TreeTypesInit, TreeTypesAreOK, PTL DEF TreeSpec
==============================================================================
