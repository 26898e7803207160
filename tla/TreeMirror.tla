------------------------------ MODULE TreeMirror ------------------------------
(***************************************************************************)
(* Which paths a session offers, makes and deletes: the walk of the shared *)
(* folders (rust/src/server.rs send_pass and producer_walk), the ignore    *)
(* test of both sides (ignore.rs), and the receiver's directories, files,  *)
(* file times, mirror roots and mirror_delete (client.rs, mtime.rs).       *)
(*                                                                         *)
(* A path is the sequence of its names below the shared folder's parent,   *)
(* as rel_to_base gives it.  The lines of a session are a set: a           *)
(* directory's listing has no order, and the streams of a parallel         *)
(* transfer take units in any order, one going on when another failed.  A  *)
(* source file stands for its size and content.  Partial and locked files, *)
(* and when a failed stream spoils a run, are in ParallelSync and          *)
(* ClassicSession; the source changes between runs only (in ClassicSession *)
(* also within).  Links, paths out of the destination (safe_join) and a    *)
(* receiver that cannot list or remove what it has are left out.           *)
(***************************************************************************)
EXTENDS Mtime, Sequences, FiniteSets

CONSTANTS
    Name,         \* the names of files and directories
    Root,         \* the shared folders
    RootRel,      \* rel_to_base of each: its own name, <<>> for a whole drive
    Rel,          \* the paths there may be below them
    Fold,         \* the path the receiver's file system takes for one
    Opaque,       \* paths whose read_dir or metadata may fail
    Written,      \* mtime of each source file, in nanoseconds from 1970
    FirstKinds,   \* the source's possible first contents
    FirstDisks,   \* the receiver's possible first contents
    Nobody,       \* the source of a file that never came from the source
    MaxEdits,     \* bound: changes of the source between runs
    MaxCuts,      \* bound: sessions that break
    MaxTreeRuns   \* bound: runs

Kinds == {"none", "dir", "file"}
Parent == [p \in Rel |-> SubSeq(p, 1, Len(p) - 1)]
Top == [p \in Rel |-> SubSeq(p, 1, 1)]
UpTo == [p \in Rel |-> {SubSeq(p, 1, i) : i \in 1..Len(p)}]
Source == Root \X Rel
Entries == [kind : Kinds, from : Source \union {Nobody}, time : Int]
Patterns ==
    {pattern \in [dirOnly : BOOLEAN, matches : SUBSET Rel] :
        \A p \in Rel : p \in pattern.matches <=> Fold[p] \in pattern.matches}
\* A shared folder is there, and what is there is in it, below directories only.
WellFormed(kinds) ==
    \A r \in Root :
        /\ RootRel[r] # <<>> => kinds[r][RootRel[r]] = "dir"
        /\ \A p \in Rel : kinds[r][p] # "none" =>
               /\ RootRel[r] # <<>> => RootRel[r] \in UpTo[p]
               /\ \A q \in UpTo[p] \ {p} : kinds[r][q] = "dir"

ASSUME TreeAssumption ==
    /\ \A r \in Root : RootRel[r] = <<>> \/ (RootRel[r] \in Rel /\ Len(RootRel[r]) = 1)
    /\ Rel \subseteq Seq(Name) \ {<<>>}
    /\ \A p \in Rel : UpTo[p] \subseteq Rel
    /\ Fold \in [Rel -> Rel]
    /\ \A p \in Rel : UpTo[Fold[p]] = {Fold[q] : q \in UpTo[p]} /\ Fold[Fold[p]] = Fold[p]
    /\ Opaque \subseteq Rel
    /\ Written \in [Source -> Int]
    /\ FirstKinds \subseteq [Root -> [Rel -> Kinds]]
    /\ \A kinds \in FirstKinds : WellFormed(kinds)
    /\ FirstDisks \subseteq [Rel -> Entries]
    /\ \A first \in FirstDisks, p \in Rel :
           /\ first[p].from = Nobody
           /\ first[p].kind # "none" => \A q \in UpTo[p] \ {p} : first[q].kind = "dir"
    /\ Nobody \notin Source
    /\ MaxEdits \in Nat /\ MaxCuts \in Nat /\ MaxTreeRuns \in Nat \ {0}

VARIABLES
    kind,      \* what each path is at the source
    edits, cuts, treeRun,
    offering,  \* the ignore set of the server: what it does not offer
    keeping,   \* the ignore set of the client: what it does not delete
    stack,     \* directories the walk has to visit: <<root, path, dirs_only>>
    lines,     \* D lines and offers on their way to the receiver
    pending,   \* offers taken in and wanted, not yet received
    disk,      \* the receiver's entry at each path
    seen, roots,
    broken,    \* the session cannot end well any more
    receiver,  \* "idle" | "running" | "clean" | "incomplete"
    missed,    \* history: what the walk could not list or look at
    offered,   \* history: the files offered in this run
    made,      \* history: the directories of its D lines
    wanted,    \* history: the files it asked for
    before,    \* history: the receiver's disk at its start
    pruned,    \* history: what its mirror_delete removed
    cut,       \* history: its connection broke
    settled    \* history: the last run was clean and nothing changed since

sourceVars == <<kind, edits>>
walkVars == <<offering, stack, missed, offered, made>>
diskVars == <<pending, disk, seen, roots, wanted>>
runVars == <<treeRun, cuts, keeping, receiver, before, pruned, cut, settled>>
treeVars == <<sourceVars, walkVars, lines, diskVars, broken, runVars>>

Absent == [kind |-> "none", from |-> Nobody, time |-> 0]
Folder == [kind |-> "dir", from |-> Nobody, time |-> 0]
Copy(s, t) == [kind |-> "file", from |-> s, time |-> t]
IsFile(p) == disk[p].kind = "file"

------------------------------------------------------------------------------
(* ignore.rs.  A pattern is the set of the paths its glob matches - for a    *)
(* name pattern every path with a last name that matches - and whether it    *)
(* ends in a slash.                                                          *)

\* Variant: a pattern that ends in a slash is not tried on ancestors.
IgnoredNoAncestors(set, p, isDir) ==
    \E pattern \in set, q \in UpTo[p] :
        q \in pattern.matches /\ (pattern.dirOnly => q = p /\ isDir)

\* is_ignored: every prefix of the path, the inner ones being directories.
Ignored(set, p, isDir) ==
    \E pattern \in set, q \in UpTo[p] :
        q \in pattern.matches /\ (pattern.dirOnly => q # p \/ isDir)

------------------------------------------------------------------------------

TreeInit ==
    /\ kind \in FirstKinds /\ edits = 0 /\ cuts = 0 /\ treeRun = 0
    /\ offering = {} /\ keeping = {}
    /\ stack = {} /\ lines = {} /\ pending = {}
    /\ disk \in FirstDisks
    /\ seen = {} /\ roots = {} /\ broken = FALSE /\ receiver = "idle"
    /\ missed = {} /\ offered = {} /\ made = {} /\ wanted = {}
    /\ before = disk /\ pruned = {} /\ cut = FALSE
    /\ settled = FALSE

\* Between runs a path at the source comes, goes, or becomes of another kind.
EditSource(r, p, k) ==
    /\ receiver # "running" /\ edits < MaxEdits
    /\ p # RootRel[r] /\ kind[r][p] # k
    /\ \/ k = "none" \/ Parent[p] = RootRel[r]
       \/ Parent[p] \in Rel /\ kind[r][Parent[p]] = "dir"
    /\ edits' = edits + 1
    /\ kind' = [kind EXCEPT ![r] = [q \in Rel |->
                    IF q = p THEN k
                    ELSE IF q # p /\ p \in UpTo[q] /\ k # "dir" THEN "none" ELSE @[q]]]
    /\ settled' = FALSE
    /\ UNCHANGED <<walkVars, lines, diskVars, broken, treeRun, cuts, keeping, receiver,
                   before, pruned, cut>>

\* A session begins, with the server's ignore set and the client's.
BeginRun ==
    /\ receiver # "running" /\ treeRun < MaxTreeRuns
    /\ treeRun' = treeRun + 1
    /\ receiver' = "running"
    /\ offering' \in SUBSET Patterns /\ keeping' \in SUBSET Patterns
    /\ stack' = {<<r, RootRel[r], FALSE>> : r \in Root}
    /\ lines' = {} /\ pending' = {} /\ seen' = {} /\ roots' = {}
    /\ broken' = FALSE /\ cut' = FALSE
    /\ missed' = {} /\ offered' = {} /\ made' = {} /\ wanted' = {} /\ pruned' = {}
    /\ before' = disk
    /\ settled' = FALSE
    /\ UNCHANGED <<sourceVars, cuts, disk>>

------------------------------------------------------------------------------
(* The walk. *)

Listing(r, d) == {p \in Rel : Parent[p] = d /\ kind[r][p] # "none"}
Subdirs(r, d) == {p \in Listing(r, d) : kind[r][p] = "dir"}
Offer(r, p) == [type |-> "F", root |-> r, rel |-> p, ticks |-> ToTicks(Written[<<r, p>>])]
DirLine(r, p) == [type |-> "D", root |-> r, rel |-> p, ticks |-> 0]

Visited(v, found, skipped) ==
    /\ stack' = (stack \ {v}) \union found
    /\ missed' = missed \union skipped

\* A directory that is not ignored: its files are offered, but for those that
\* are ignored or whose metadata fails; its directories are to be visited.
VisitDir(r, d) ==
    /\ receiver = "running" /\ <<r, d, FALSE>> \in stack
    /\ \E skipped \in SUBSET (Listing(r, d) \intersect Opaque) :
           LET files == {p \in Listing(r, d) \ skipped :
                            kind[r][p] = "file" /\ ~Ignored(offering, p, FALSE)}
           IN  /\ Visited(<<r, d, FALSE>>,
                          {<<r, p, Ignored(offering, p, TRUE)>> : p \in Subdirs(r, d)},
                          {<<r, p>> : p \in {q \in skipped : kind[r][q] = "file"}})
               /\ offered' = offered \union {<<r, p>> : p \in files}
               /\ lines' = lines \union {Offer(r, p) : p \in files}
    /\ UNCHANGED <<sourceVars, offering, made, diskVars, broken, runVars>>

\* An ignored directory is made at the receiver, empty, and so are those below.
VisitIgnored(r, d) ==
    /\ receiver = "running" /\ <<r, d, TRUE>> \in stack
    /\ Visited(<<r, d, TRUE>>, {<<r, p, TRUE>> : p \in Subdirs(r, d)}, {})
    /\ made' = made \union {<<r, d>>}
    /\ lines' = lines \union {DirLine(r, d)}
    /\ UNCHANGED <<sourceVars, offering, offered, diskVars, broken, runVars>>

\* read_dir fails: the directory passes for an empty one.
CannotList(r, d, dirsOnly) ==
    /\ receiver = "running" /\ <<r, d, dirsOnly>> \in stack /\ d \in Opaque
    /\ Visited(<<r, d, dirsOnly>>, {}, {<<r, d>>})
    /\ IF dirsOnly
       THEN made' = made \union {<<r, d>>} /\ lines' = lines \union {DirLine(r, d)}
       ELSE UNCHANGED <<made, lines>>
    /\ UNCHANGED <<sourceVars, offering, offered, diskVars, broken, runVars>>

------------------------------------------------------------------------------
(* The receiver. *)

Place(item) == Fold[item.rel]

\* Variant: the mirror is bounded by the line's own path.
MirrorRootDeep(item) == Fold[item.rel]
MirrorRoot(item) == Fold[Top[item.rel]]

\* Variant: create_dir, which fails for a directory that is there too.
BlockedByAny(dirs) == \E q \in dirs : disk[q].kind # "none"

\* create_dir_all fails where a file stands in the way.
Blocked(dirs) == \E q \in dirs : IsFile(q)
WithDirs(dirs) == [p \in Rel |-> IF p \in dirs THEN Folder ELSE disk[p]]

Taken(item) == lines' = lines \ {item}

TakeDir(item) ==
    /\ receiver = "running" /\ item \in lines /\ item.type = "D"
    /\ Taken(item)
    /\ IF Blocked(UpTo[Place(item)])
       THEN broken' = TRUE /\ UNCHANGED <<disk, roots>>
       ELSE /\ disk' = WithDirs(UpTo[Place(item)])
            /\ roots' = roots \union {MirrorRoot(item)}
            /\ UNCHANGED broken
    /\ UNCHANGED <<sourceVars, walkVars, pending, seen, wanted, runVars>>

\* need_fetch: size and content come with the source file, the time does not.
NeedFetch(item) ==
    LET entry == disk[Place(item)]
    IN  \/ entry.kind # "file"
        \/ entry.from # <<item.root, item.rel>>
        \/ ToTicks(entry.time) # item.ticks

\* A bundle's answers are given before its first file is written, a large
\* file's when it is offered: both are orders of this step and the next.
TakeOffer(item) ==
    /\ receiver = "running" /\ item \in lines /\ item.type = "F"
    /\ Taken(item)
    /\ roots' = roots \union {MirrorRoot(item)}
    /\ seen' = seen \union {Place(item)}
    /\ IF NeedFetch(item)
       THEN /\ pending' = pending \union {item}
            /\ wanted' = wanted \union {<<item.root, item.rel>>}
       ELSE UNCHANGED <<pending, wanted>>
    /\ UNCHANGED <<sourceVars, walkVars, disk, broken, runVars>>

\* set_ticks, whose failure is ignored: negative ticks are thousands of years
\* before any file system's first time, and the file keeps some other time.  The
\* receiver's file system is taken to keep every tick, as NTFS and ext4 do.
Stamped(ticks) == IF ticks >= 0 THEN FromTicks(ticks) ELSE 0

\* create_dir_all, File::create and the payload, then the mtime.
WriteFile(item) ==
    LET above == UpTo[Place(item)] \ {Place(item)}
    IN  /\ receiver = "running" /\ item \in pending
        /\ pending' = pending \ {item}
        /\ IF Blocked(above)
           THEN broken' = TRUE /\ UNCHANGED disk
           ELSE IF disk[Place(item)].kind = "dir"
           THEN broken' = TRUE /\ disk' = WithDirs(above)
           ELSE /\ disk' = [WithDirs(above) EXCEPT ![Place(item)] =
                               Copy(<<item.root, item.rel>>, Stamped(item.ticks))]
                /\ UNCHANGED broken
        /\ UNCHANGED <<sourceVars, walkVars, lines, seen, roots, wanted, runVars>>

\* The connection breaks.
CutSession ==
    /\ receiver = "running" /\ ~broken /\ cuts < MaxCuts
    /\ cuts' = cuts + 1
    /\ cut' = TRUE /\ broken' = TRUE
    /\ UNCHANGED <<sourceVars, walkVars, lines, diskVars, treeRun, keeping, receiver, before,
                   pruned, settled>>

\* Variant: the mirror does not ask what is ignored.
UnseenOrIgnored ==
    {p \in Rel : /\ IsFile(p) /\ p \notin seen
                 /\ \E q \in roots \intersect UpTo[p] : disk[q].kind = "dir"}

\* Variant: only what was fetched counts as seen.
UnseenOrUnfetched ==
    {p \in Rel : /\ IsFile(p) /\ p \notin {Fold[s[2]] : s \in wanted}
                 /\ \E q \in roots \intersect UpTo[p] : disk[q].kind = "dir"
                 /\ ~Ignored(keeping, p, FALSE)}

\* delete_unseen below every mirror root that is a directory.
Unseen ==
    {p \in Rel : /\ IsFile(p) /\ p \notin seen
                 /\ \E q \in roots \intersect UpTo[p] : disk[q].kind = "dir"
                 /\ ~Ignored(keeping, p, FALSE)}

\* mirror_delete; the session's own sets are dropped.
FinishClean ==
    /\ receiver = "running" /\ ~broken
    /\ stack = {} /\ lines = {} /\ pending = {}
    /\ receiver' = "clean" /\ settled' = TRUE
    /\ pruned' = Unseen
    /\ disk' = [p \in Rel |-> IF p \in Unseen THEN Absent ELSE disk[p]]
    /\ seen' = {} /\ roots' = {}
    /\ UNCHANGED <<sourceVars, walkVars, lines, pending, wanted, broken, treeRun, cuts, keeping,
                   before, cut>>

\* The session is over, nothing is deleted.  Its histories end with it.
FinishBroken ==
    /\ receiver = "running" /\ broken
    /\ receiver' = "incomplete"
    /\ stack' = {} /\ lines' = {} /\ pending' = {} /\ seen' = {} /\ roots' = {}
    /\ broken' = FALSE /\ cut' = FALSE
    /\ missed' = {} /\ offered' = {} /\ made' = {} /\ wanted' = {}
    /\ before' = disk
    /\ UNCHANGED <<sourceVars, offering, disk, treeRun, cuts, keeping, pruned, settled>>

------------------------------------------------------------------------------

Walk ==
    \E v \in stack :
        VisitDir(v[1], v[2]) \/ VisitIgnored(v[1], v[2]) \/ CannotList(v[1], v[2], v[3])

Receive ==
    \/ \E item \in lines : TakeDir(item) \/ TakeOffer(item)
    \/ \E item \in pending : WriteFile(item)
    \/ FinishClean \/ FinishBroken

SessionStep == Walk \/ Receive \/ CutSession

TreeNext ==
    \/ SessionStep
    \/ BeginRun
    \/ \E r \in Root, p \in Rel, k \in Kinds : EditSource(r, p, k)

TreeSpec == TreeInit /\ [][TreeNext]_treeVars

------------------------------------------------------------------------------
(* Properties. *)

TreeTypeOK ==
    /\ kind \in [Root -> [Rel -> Kinds]] /\ WellFormed(kind)
    /\ edits \in 0..MaxEdits /\ cuts \in 0..MaxCuts /\ treeRun \in 0..MaxTreeRuns
    /\ offering \subseteq Patterns /\ keeping \subseteq Patterns
    /\ stack \subseteq Root \X (Rel \union {<<>>}) \X BOOLEAN
    /\ lines \subseteq [type : {"D", "F"}, root : Root, rel : Rel, ticks : Int]
    /\ pending \subseteq [type : {"F"}, root : Root, rel : Rel, ticks : Int]
    /\ disk \in [Rel -> Entries] /\ before \in [Rel -> Entries]
    /\ seen \subseteq Rel /\ roots \subseteq Rel /\ pruned \subseteq Rel
    /\ broken \in BOOLEAN /\ cut \in BOOLEAN /\ settled \in BOOLEAN
    /\ receiver \in {"idle", "running", "clean", "incomplete"}
    /\ missed \subseteq Root \X (Rel \union {<<>>})
    /\ offered \subseteq Source /\ made \subseteq Source /\ wanted \subseteq Source

\* What ignore.rs promises: a path is ignored if it or a directory above it
\* matches, a pattern with a slash at its end matching directories only.
MatchedBy(set, p, isDir) == \E pattern \in set : p \in pattern.matches /\ (pattern.dirOnly => isDir)
IgnoredByRule(set, p, isDir) ==
    MatchedBy(set, p, isDir) \/ \E q \in UpTo[p] \ {p} : MatchedBy(set, q, TRUE)

Overlooked(r, p) == \E q \in UpTo[p] \union {<<>>} : <<r, q>> \in missed

\* A finished walk, which leaves an ignored directory at its top and tests
\* nothing below, has offered exactly the files the rule does not ignore and
\* named exactly the directories it does, the shared folders excepted.  Only what
\* could not be listed is missing.
WalkFollowsRule ==
    receiver = "running" /\ stack = {} =>
        \A r \in Root, p \in Rel :
            Overlooked(r, p)
            \/ /\ <<r, p>> \in offered <=>
                      kind[r][p] = "file" /\ ~IgnoredByRule(offering, p, FALSE)
               /\ <<r, p>> \in made <=>
                      kind[r][p] = "dir" /\ p # RootRel[r] /\ IgnoredByRule(offering, p, TRUE)

\* A receiver's file that both sides ignore is neither fetched over nor deleted,
\* wherever the pattern matches on its path.
IgnoredFilesKept ==
    \A p \in Rel :
        before[p].kind = "file" /\ Ignored(offering, p, FALSE) /\ Ignored(keeping, p, FALSE)
            => disk[p] = before[p]

\* The mirror deletes only what no shared folder has, could not list, or
\* withholds by the server's ignore set.  With one set on both sides the last is
\* no reason (IgnoredFilesKept); with a client's own set it is.
PrunedNotOffered ==
    settled =>
        \A p \in pruned, s \in Source :
            Fold[s[2]] = p /\ kind[s[1]][s[2]] = "file" =>
                Ignored(offering, s[2], FALSE) \/ Overlooked(s[1], s[2])

\* After a clean run each offered file is at its place, or another that was
\* offered for the same place, and no other file is left below a folder that
\* was named, but those the client ignores.
CleanIsMirror ==
    settled =>
        LET places == {Fold[s[2]] : s \in offered}
            named == {Fold[Top[s[2]]] : s \in offered \union made}
        IN  /\ \A p \in places : IsFile(p) /\ disk[p].from \in {s \in offered : Fold[s[2]] = p}
            /\ \A p \in Rel :
                   IsFile(p) /\ Top[p] \in named => p \in places \/ Ignored(keeping, p, FALSE)

\* A file that is fetched although the receiver had its copy is older than 1970,
\* or shares its place with another: mtimes survive the way over the wire and
\* through the receiver's file system, so a second run fetches nothing.
FetchedOnce ==
    \A s \in wanted :
        before[Fold[s[2]]].from = s =>
            Written[s] < 0 \/ \E t \in offered \ {s} : Fold[t[2]] = Fold[s[2]]

\* A run fails for a broken connection, or because one name stands for a file
\* here and a directory there: at the receiver's start against the source, or in
\* one shared folder against another.
IncompleteHasCause ==
    [][receiver = "running" /\ receiver' = "incomplete" =>
        LET files == {Fold[s[2]] : s \in offered}
            dirs == (UNION {UpTo[Fold[s[2]]] : s \in made})
                        \union (UNION {UpTo[p] \ {p} : p \in files})
        IN  \/ cut
            \/ \E p \in files : before[p].kind = "dir" \/ p \in dirs
            \/ \E p \in dirs : before[p].kind = "file"]_treeVars
================================================================================
