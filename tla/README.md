# folder-transfer: the model and its proofs

folder-transfer (`ft`) copies one or more folders from a server to a receiver over TLS and leaves
the receiver's copy an exact mirror. This directory models the Rust program (`rust/src`): the
parallel server and client, the single-stream session with its two-phase cutover, the bodies of
large files and their adaptive compression, and a deployment over time: a server's start from a
config file it upgrades, the connection file, and what a session offers, makes and deletes in a
tree. TLC checks the models on small instances; TLAPS proves every safety property that the passing runs
check, and that the models fit together, for every value of the constants.

## 1. The system

| Part | Code | State | Operations |
|---|---|---|---|
| parallel server | `server.rs` 637-951 | work queue, `done` flag, one thread per connection, join handles, idle clock | walk and push, pop, serve, NOUNIT, accept, reap, stop, join |
| parallel client | `client.rs` 41-443, 636-785 | workers, shared `seen` set and mirror roots, the receiver's disk | connect, take in offers, answer masks, receive, end, mirror, report |
| single-stream server | `server.rs` 303-442, 502-628 | where the walk is, the pending bundle, the cutover flag file | SYNC, pass, mask, bodies, PASS-END, wait for the flag, GO, DONE, BYE, once, idle timeout |
| single-stream client | `client.rs` 492-626 | `seen`, roots, disk | pass, GO, DONE, mirror, BYE, report |
| walk, ignore, paths | `server.rs` 303-416, 671-740, `ignore.rs`, `paths.rs` | a stack of directories | classify, bundle, ignore, join safely |
| framing | `wire.rs`, `server.rs` 76-300, `client.rs` 150-406 | a buffered connection | lines and payloads on one stream |
| adaptive compression | `compress.rs` | level, raw mode, window | climb, drop, go raw, re-probe |
| mtime | `mtime.rs` | none | ticks to system time and back |
| configuration | `config.rs`, `main.rs` | a JSONC file, its backup, the connection file | load, merge with defaults, add missing keys, back up, write |
| letting in | `server.rs` 548-580, `tls.rs`, `token.rs` | an identity and a token per start | pin the certificate, check token and address, push CFG |
| bindings | `ffi.rs`, `ffi/` | a handle per server or fetch | start, poll, stop |
| firewall, progress, debug | own files | none of the transfer's | |
| PowerShell edition | `ft-*.ps1` | as above | the older program with the same protocol |

**How they interact.** On the server a producer thread walks the folders and pushes *units* (a
bundle of small files, one large file, an empty-directory marker) into a bounded queue; a handler
thread per connection pops units and sends them; the accept loop starts handlers, drops the
handles of finished ones and decides when to stop. On the client one worker per connection
receives units. Workers share the `seen` set. When all have ended, and none ended badly, the main
thread deletes every local file below a mirror root that is not in `seen`. The single-stream
session sends the same offers over one connection, once, or twice with a pause for the cutover.
Before any of this a server has read its config file and rewritten it if keys are missing, minted a
token and a certificate, written both to the connection file and bound its port; the operator
carries that file to the receiver. Ignore patterns and the number of streams reach the client in
the CFG line, which the receiver's own options may override.

**What is hard.** Three threads' worth of unlocked reads on the server (capacity, emptiness,
`done`); a client that deletes files on the evidence of what it was *not* told; connections that
break anywhere, with units and bytes in flight; a second run against a server that has half
finished; a source that is written to while it is walked, looked at, opened and read; a pause
that waits for a file; a config file that the program and the operator both rewrite, with kills and
failed writes in between; two programs that must agree on what is ignored and on the mode.

**What makes each part correct.**

- Parallel server: every unit goes to one stream once; NOUNIT and the clean stop come only when
  nothing is left; the queue stays within its cap; the process comes back.
- Parallel client: a run reported done has everything it was offered and deleted nothing the
  source has; every run ends.
- Single-stream session: what did not change during the last pass is mirrored exactly, what was
  there throughout is not deleted, a stale copy never looks current, a one-time server leaves only
  after a delivery.
- Walk, ignore, paths: both walks offer the same files; nothing lands outside the destination;
  deleting and offering agree about what is ignored.
- Framing: the receiver consumes exactly the bytes the sender meant.
- Adaptive level: stays in its range without 0, leaves raw mode again.
- mtime: ticks survive the way over the wire and the receiver's disk, so nothing is fetched twice.
- Configuration: what the operator saved is never lost and always means the same; a receiver with
  the current connection file is let in and takes the server's mode.

## 2. Modules

| Module | Models |
|---|---|
| `WorkPool` | abstract: a pool that hands each unit to one stream, once; the unit is finished or wasted |
| `MirrorRun`, `MirrorRun_proofs` | abstract: what a transfer promises about the receiver's files, over one stream or many; what follows from it |
| `ParallelServe` | the parallel server |
| `ParallelServe_proofs` | its theorems |
| `ParallelSync` | `ParallelServe` composed with connections and the parallel client |
| `ParallelSync_proofs` | that its server is `ParallelServe`'s, and its theorems |
| `ClassicSession` | the single-stream server and client, the source's writers and the operator |
| `ClassicSession_proofs` | its theorems |
| `AdaptiveLevel` | the compression controller and the questions and reports of the streams that share it |
| `LargeFile` | the body of a large file on its connection, built on `AdaptiveLevel` |
| `LargeFile_proofs` | the theorems of both: the controller's bounds, that the streams drive it as it is meant, the framing |
| `Mtime` | the two conversions of file times |
| `TreeMirror` | sessions over small trees: walk, ignore rule, directories, file times, mirror |
| `TreeMirror_proofs` | its theorems and those of `Mtime`: what the receiver keeps and is left with, why a run fails, what the walk offers |
| `Launch`, `Launch_proofs` | a server's start: config, upgrade, connection file, port; its theorems |
| `Deployment` | `Launch` and `TreeMirror` composed by the connection file and the CFG line |
| `Deployment_proofs` | that it refines both, and its theorems |
| `MCParallelServe`, `MCParallelSync`, `MCClassicSession`, `MCLargeFile`, `MCDeployment` | constants for TLC |

### MirrorRun

The promise both kinds of transfer keep, without server, connection, lines or threads: a run records what
it is offered, owes what it asked for, writes only what it owes, and prunes only when it owes
nothing and no stream failed. `Offer` is `handle_bundle` up to the mask, `Receive` the rest of it,
`Finish` the mirror. Both sessions carry an `INSTANCE` of it:

| abstract | `ParallelSync` | `ClassicSession` |
|---|---|---|
| `phase` | the run's outcome; `broken` once a worker has failed | the client's stage |
| `seen` | the set all streams share | the set of the pass under way |
| `owed` | what the workers that wait for bodies want | the files of `pending` |
| `copy` good | current | stamped from an offer |
| `MaySkip` | files in use at the source | any file: it may vanish before it is opened |

### ParallelServe

Units are numbered in the order the walk pushes them. `SeeSpace` and `Push` are
`enqueue_blocking`'s test and push, which take the lock separately; `StoreDone` is the producer
thread's last act. A handler goes `handshake`, `poll`, then `PopUnit` to `serving` or `PopNone` to
`empty`; from `empty` it loads `done` in a step of its own (`SendNounit`, `PollAgain`).
`AbandonUnit` is every way of returning in the middle of a unit. The accept loop alternates
between `accept()` and `ReapAndCheck`; `Verdict` is the chain of break conditions and `JoinThreads`
the joins at the end. `done.load` and `queue.len()` of the clean verdict are one step: with no
handle left nobody pops, and once `done` is set nobody pushes. `IdleMax` caps the idle clock, which
is only ever compared with two limits.

### ParallelSync

Extends `ParallelServe`: each server step is conjoined with what it writes. `wire` carries offers,
bodies and NOUNIT to the client. The mask travels the other way as `want` and `replied`. `Drop`
breaks a connection at any moment and keeps some prefix of what was under way; a write to a broken
connection may still succeed and its bytes vanish. `fresh` is the stream mode of an empty
destination, in which no masks are exchanged. `StreamFails` is `serve_units` returning an error,
with its rule about zero units; of the files it waited for any may be whole already and one may be
truncated or short. `takenBy` remembers the units the server took out of its queue for a stream. `EndRun` is `run_parallel_impl`
after the joins: verdict, mirror, report. `Rerun` is the same command again. Files have four
states on the receiver: absent, old, partial, current. The source is constant here.

### ClassicSession

The source changes. A file's size and mtime are its *version*; a write makes one that never was
before (the program's own change detection rests on this). On the receiver content and stamp are
separate, since body and mtime are written separately. `LookAt` (metadata), `OpenFile` and
`SendBody` (read to the end) are separate steps, and a file written to in between may be read as it
was, as it is, or torn. A re-run that comes while the server is still in the session of the one that
failed gets no OK within the client's 90 s and is `Refused`, as by a server that has ended.
Reading a directory's listing is folded into `LookAt`: a file the listing did not have is looked
at, at the time of the listing, and found absent. Every file has its own time, so a listing's
single moment is one of the behaviours. `EndPass` with the cutover removes an old flag file first,
as `wait_cutover` does. `Drop` stands for every way a connection ends early, time-outs on both
sides and read errors of the server included. A TLS connection that ends without notice is an
error to its reader, never an end of file, so `run_passes` either succeeds or fails.

### AdaptiveLevel

One step of the lock each: `RawBlock` and `StartBlock` are `want_raw` (and the level read with it),
`NoteCompressed` and `NoteIncompressible` the reports after the block was written. `zipping` holds
the streams in between with the level they read, so reports arrive in any order and late: after
another stream has entered raw mode, left it or emptied the window. `spare` is an input, in tenths;
the clocks and byte counts it is computed from, and the debug log, are left out. Bundled files read
the level and change nothing, so they are no action.

### LargeFile

Lengths are in blocks, and a connection is a queue of lines and payload blocks. A raw body
announces the length of that moment (`AnnounceRaw`) and ends with it or with the file, whichever
comes first (`EndRaw`); a compressed one frames each block (`TinyBlock` below `MIN_COMPRESS`,
`ModeBlock` in raw mode, `ShrunkBlock`, `FlatBlock` when it did not shrink) and ends with `E`. The
client takes what its state asks for: a line, or payload of the announced size, whatever arrives.
`Resize` is any program that writes to the source; `NextFile` lets a stream go on with the
controller as it is. A raw file found short is marked `cut`. Failures to open and read errors, which
end the connection, are in `ParallelSync` and `ClassicSession`.

### Mtime

`ToTicks` and `FromTicks` are the two functions of `mtime.rs` with the seconds of the epoch, the
ticks of a second and the nanoseconds of a tick as parameters. `ToTicks` keeps the branch for times
before 1970 as it is written, with the epoch subtracted (section 5).

### TreeMirror

A path is the sequence of its names below the shared folder's parent. `stack` holds what the walk
has still to visit, with `dirs_only`: `VisitDir` lists a directory, offers its files unless the
ignore set has them, and puts its directories on the stack; `VisitIgnored` is a directory under an
ignored one, named by a D line; `CannotList` is a failed `read_dir`. A pattern is the set of paths
its glob matches, with its trailing slash, so that `Ignored` keeps the loops of `is_ignored` over
the prefixes and leaves the glob out. `lines` and `pending` are what is under way, in any order:
directory listings have none, and the parallel streams take units as they like. On the receiver an
entry is nothing, a directory, or a file with the source file it came from and its mtime;
`NeedFetch` compares these, `WriteFile` makes the directories above and sets the time (`Stamped`: the
receiver's file system is taken to keep every tick, as the NTFS and ext4 of the documents do), `Unseen` is
what `delete_unseen` removes below the mirror roots. `Fold` is what the receiver's file system takes
for the same path. `offering` is the server's ignore set and `keeping` the client's. A session that
is `broken` may still take lines in before it ends, as the other streams of a parallel run do.

### Launch

`text` is the config file and the connection file, `bak` the backup. Each `fs::write` is two steps,
truncation and content, so a kill or a failed write falls between any two: `TruncateBak`, `WriteBak`,
`TruncateConfig`, `WriteConfig` are the upgrade, `TruncateConnection` and `WriteConnection` the
generated client file. `NeedsUpgrade` includes the refusal of `upgrade_serve_file`: its text goes
after the last character before the closing brace, and is swallowed when that is a comment; the
lines an upgrade adds end in comments, so a file is upgraded at most once. `Settings` is the merge of
`cmd_serve`. Several starts may overlap, the operator may save the config at any moment (`Save`) or
put the backup back (`Restore`), and the connection file may be given as a config by mistake.
`raced` remembers that such a save or second load fell into an upgrade.

### Deployment

`Start` is a step of `Launch`, `Session` one of `TreeMirror`, and what joins them is `Carry` (the
connection file as it is now goes to the receiver), `LetIn` (certificate and token are those of a
process that listens, the address is allowed), `Pushed` and `StreamsOf` (which side decides the
mode) and `KeptBy` (whose ignore set the deletion uses). `KillServer` breaks the session with the
process. A get that is refused, or whose sides disagree on the mode, moves nothing and is no action.

## 3. Runs

| Run | Shows | Instance |
|---|---|---|
| `parallel_serve` | conservation of units, queue bound, timely NOUNIT and stop, every stream of a client that reads ends beside one that may stop reading, refinement of `WorkPool` | 4 units, queue 2, 2 connections (one of them `Deaf`), grace 2, idle 3 |
| `serve_return` (violation) | the joined producer waits for queue space for ever | 3 units, queue 2, 1 connection |
| `parallel_sync` | a clean run has all it was offered and misses no unit its streams were given after their first line; a run given the whole walk mirrors exactly; refinement of `MirrorRun` | 2 units of one file, queue 1, 2 runs of 2 streams, 1 failing connection |
| `parallel_sync_ends` | the client's run ends | a bundle of two and a directory marker, 1 run of 2 streams, 1 failing connection |
| `sync_stranded` (violation) | a unit left in the queue by the race on `done`, its files deleted by the mirror | no failure at all |
| `sync_zero_unit` (violation) | a unit lost with a stream that had received nothing, its files deleted | 1 failing connection |
| `sync_rerun` (violation) | a re-run is offered only what is left and deletes what the first run fetched | 2 runs, 1 failing connection |
| `classic_session` | a stale copy never looks current, unchanged files are mirrored, what was there is not pruned, a one-time server leaves only after a delivery, sessions end, refinement of `MirrorRun` | 3 files (small, large, absent at first), 1 change, 1 drop, 2 runs, plain and cutover |
| `classic_report` (violation) | INCOMPLETE, "nothing deleted", after a mirror that deleted | 1 drop |
| `large_file` | bodies stay framed while files change length; the shared level keeps its range and leaves raw mode | 2 streams, file after file of at most 2 blocks, levels -1 and 1, re-probe and streak 2 |
| `raw_shrink` (violation) | a raw file that shrinks gets fewer bytes than announced | 1 stream |
| `deployment` | saved settings survive and are served, a fresh connection file lets in, the walk follows the ignore rule, only what is not offered is deleted, a clean run is a mirror, nothing is fetched twice, a failed run has a cause | 3 starts, 2 faults, 3 configs, 2 shared folders, 6 paths, 2 runs, 1 edit, 1 broken connection |

**Why these bounds.** The server's races need one unit more than the queue holds and two handlers;
four units through a queue of two give every handler a second turn with the producer blocked in
between. The grace and idle limits are small because only their order against other events
matters. One of the two clients may stop reading, so that the other's stream is seen to end beside a stuck
one. In `ParallelSync` two streams are enough for one to have what the other lacks, two runs
for a resume, and one failure because a failed stream already makes the run unclean. In
`ClassicSession` bundle size two with three files gives full, flushed and left-over bundles; one
change is enough to fall into each gap between listing, metadata, open and read of one file, and a
second run sees what it left behind. In `LargeFile` two streams give a report that is late for the
other's mode change, and `NextFile` makes the history of the controller as long as one likes; two
blocks give a file a first, an inner and an end boundary to shrink or grow across. The small level
range lets one step pass both bounds and 0, as the real steps of up to 4 do at the ends of theirs.
In `deployment` three starts and two faults give a start beside another, an upgrade cut off, and a
third start that finds what is left. The configs lack different keys, one cannot be upgraded, one
forces the single-stream mode, one has an empty `allowIp`. The trees have a file below an ignored
directory, a file and a directory of one name, two shared folders of one name (one on a drive of its
own, whose files have no folder above them), and two spellings of one path; a file of before 1970 is
among them. A tick has 3 nanoseconds, a second 2 ticks,
and the epoch is 4 seconds, so that times fall between ticks. The
first contents are listed as scenarios, each with the mishaps that can come, because trouble in the
launch and trouble in the session meet only in the connection file and the ignore set.

**Deadlock** is not checked: a finished server, client or run has no step left, and that is where
they are meant to stop; in `LargeFile` the receiver of a cut file waits for ever, and a deployment is over
when its bounds are used up. Liveness is checked
instead, and in `LargeFile` an invariant says that no receiver of a whole file is left waiting.

**Fairness.** `ParallelServe`: weak fairness of the producer and of the accept loop, as threads are
scheduled, and of each handler, except while it writes to a client in `Deaf`. A handler that waits for
its client's next line fails in the end, because its socket has a read time-out (`server.rs:766`).
There is no write time-out: once the buffers are full, a write to a client that stays connected and
no longer reads never returns (`wire.rs:73-78`), so no step is promised there (`MayBlock`). `Deaf` is
the set of connections whose client may do that; `EveryStreamFinishes` is about the others and holds
beside a deaf one; the deaf one's own handler may be stuck for ever (section 5). In `ParallelSync` the clients
are modelled and read all they are sent until they end, so `Deaf` is empty there. `ParallelSync`
further: each client worker (a client has a read time-out of 90 s), and strong fairness of `Connect`,
since a connection request stays in the listener's backlog until an `accept()` returns it.
`ClassicSession`: both processes (the client reads until it ends), the idle time-out of a server nobody connects to, and the
operator, who is asked by a banner to create the flag. No fairness is assumed of drops, changes or
re-runs, and none at all in `deployment`, where every property is a safety property.

## 4. What is proved

In `ParallelServe_proofs`, for all `NUnits`, `QueueCap > 0`, `GraceTicks`, `IdleTicks` in `Nat` and
any sets `Handler` and `Deaf \subseteq Handler`:

- `TypeCorrect`: `[]TypeOK`.
- `QueueBounded`: `[]QueueWithinCap`. Alone it is not inductive, since `Push` has no test. The
  strengthening says that a producer about to push has seen space and nobody else pushes since.
- `NounitIsTimely`: `[]NounitMeansAllProduced`, from "done is set only once the walk has ended".
- `Conservation`: `[]UnitsConserved`. The invariant counts: the queue holds the units
  `Popped+1 .. produced` in order, so a pop takes the one unit that no handler, `served` or `lost`
  can contain. One lemma per group of actions: push, pop, release, and steps that leave all of
  these alone.
- `CleanStopDrains`: `[]CleanStopMeansDrained`, from conservation and the fact that the handles
  the loop dropped are finished, so nothing is held.
- `RefinesWorkPool`: `Spec => Pool!Spec`; a push maps to a stutter, a pop to `Take`.

In `ParallelSync_proofs`, for every number of units, streams, runs and drops, every division of the
files into units and every first disk (`SyncAssumption`):

- `SyncServes`: `SyncSpec => Spec`. Every step of server, connections and client is a step of
  `ParallelServe` or none, so all the theorems above hold under any client.
- `SyncTypes`: `[]SyncTypeOK`. The invariant adds that a message is about one unit and its files.
- `CleanRuns`: `[]CleanRunIsComplete`. Four parts. *Roles*: a worker is at work in the current run
  only, the probe is the first, and a run ends clean only when no worker failed. *Framing*: on each
  connection what follows an offer is the body that was asked for, so a worker waiting for a body
  reads no other (`Streamed`, `Awaited`, `Followed`, `Asked`). *Seen*: a file that was seen is
  current, or lockable, or wanted by a worker that is waiting for its body or has failed. A stream
  that fails with a unit is `failed` for good, which is what makes the verdict right; the zero-unit
  rule does not reach it because a worker that wants something has a unit.
- `NoUnitMissed`: `[]CleanRunMissesNoUnit`. A unit taken for a stream is known to its client, announced
  on the wire, or spent on a broken connection whose client has yet to notice; a client with a unit that
  notices is `failed`, so in a clean run only the first of these is left.
- `FullRuns`: `[]FullRunMirrors`. Units are popped in order, so unit 1 went to the first run that had
  any; a run that all units reached has no run with a unit before it, and nothing was deleted before
  it. This is what `sync_rerun` shows to fail for other runs.
- `RefinesMirror`: `SyncSpec => ImplementsMirror`. An offer read maps to `Offer`, a body to `Receive`, a
  stream's failure with a unit to `Fail`, the verdict to `Finish`, everything of server and connections
  to a stutter. That a body answers just what is owed is *Framing* (`Awaited`), and that only
  workers of the run at hand are at work is *Roles*; the verdict itself waits for all of them.

In `ClassicSession_proofs`, for any set of files, bundle size, number of changes, drops and runs
(`ClassicAssumption`):

- `ClassicType`: `[]ClassicTypeOK`, with the type of every line on its way.
- `OnceDelivers`: `[]OnceServerDelivered`. The invariant `Channel` says which lines can be under way at
  each pair of stages of server and client; a BYE is under way only from a client whose mirror is done.
- `StampsAreTrue`: `[]StampNeverHides`. Versions only grow, so a version that is offered and is still
  the source's was never written since; what is opened and sent under such an offer is that version
  (`BodiesFit`), and everything else is stamped with a version the source never has again.
- `PrunedFilesWereGone`: `[]PrunedWasGone`, and `CleanRunMirrors`: `[]UnchangedFilesMirrored`. `span` is
  the set of versions a file had during the pass. The invariant: a file the pass is done with was
  absent, passed over, on its way in an offer, or is in `seen` (`NoneMissed`); and what server, channel
  and client hold of a file is a version of the span, or the file changed (`SpanKept`, `SpanOffered`,
  `SpanReceived`). Between the passes of a cutover both start afresh, once nothing of the first pass
  is under way.
- `RefinesMirror`: `ClassicSpec => ImplementsMirror`. A re-run maps to `Begin`, `ReadGo` to `NextPass`,
  and a BYE that cannot be written to `LoseReport`. The invariant is `Stages`: a client owes something
  only while it waits for bodies, so nothing is owed when the next pass or the mirror begins.

In `MirrorRun_proofs`, for any `File` and `MaySkip`: `PromiseHasAll`, `Spec => []DoneHasAll`. What is in
`seen` is good, skippable or owed as long as no stream failed, and nothing is owed at the end. Through
`RefinesMirror` it holds of a parallel sync, whose source does not change. In a single-stream session
every file may be skipped, so there it says nothing, and the refinement is about which writes and
deletions may happen and when; what a clean run holds is `StampsAreTrue` and `CleanRunMirrors`.

In `LargeFile_proofs`, for every finite set `Stream`, every level range around 0 and all positive
limits (`AdaptiveAssumption`), about the controller alone:

- `AdaptiveType`: `[]AdaptiveTypeOK`, with a lemma that a step of the level stays in the range and
  passes over 0.
- `RawRowIsBounded`: `[]RawRowBounded`, at most `RawReprobe` raw blocks per stream in a row. It is not
  inductive: a report that enters raw mode starts `rawSince` afresh. In the strengthening a stream
  between two blocks is worth `RawReprobe` raw blocks; a report makes one more stream idle and
  pays for the fresh start.

and about the streams, for every `MaxLength` too:

- `StreamsDriveController`: `LargeSpec => AdaptiveSpec`, step by step, and with it `FilesReprobe`.
- `LargeType`: `[]LargeTypeOK`, and `BodiesAreFramed`: `[]BodiesStayFramed`. The invariant says of each
  stream what its connection holds between the two ends: for a raw body what the sender owes and what
  is on its way make up what the receiver lacks; for one in blocks, how many were read equals what was
  received and is under way, a header being followed by its payload. A cut raw file leaves the
  receiver short by a known number, and nothing is said of what it reads next.

In `TreeMirror_proofs`, for every resolution and epoch: `TicksSurvive`, from division with remainder;
and for every tree, pattern set, first disk and number of runs (`TreeAssumption`):

- `IgnoredStay`: `[]IgnoredFilesKept`. The invariant adds that no line under way carries a path the
  server's set ignores; a lemma carries that over to the folded path it is written to.
- `FetchedOnlyOnce`: `[]FetchedOnce`. The invariant says that every copy of the source bears the time
  its own offer's ticks stand for, and that an entry of the receiver's start is still there or was
  overwritten by an offer for its place; `TicksSurvive` then makes the comparison of `NeedFetch` equal.
- `FailsForACause`: `[][...]` of `IncompleteHasCause`. The invariant explains every file and directory on
  the disk of a running session: it was there at the start, or a line named it or a place below it. A
  line that meets an entry of the other kind so has its cause, and nothing else breaks a session.

- `WalkFollows`: `[]WalkFollowsRule`. A path is *covered* if it is offered, or overlooked, or an entry
  of the stack is on the way to it; every step keeps all paths covered, and an empty stack leaves
  only the first two. The mark of a stack entry equals what the rule says of its directory, because
  what is below an ignored directory is ignored.
- `PrunesOnlyWithheld`: `[]PrunedNotOffered`, from the same and the fact that an offer is under way or
  its place is in `seen`.
- `CleanRunMirrors`: `[]CleanIsMirror`. While nothing is broken, what a line names is under way or has
  its place on the disk, and its top folder is a mirror root unless the line is under way. Everything
  on the disk has only directories above it, so the root of a file that must go is a directory and
  the mirror reaches the file. `TreeAssumption` asks the same of the receiver's first disk.
- `TreeType`: `[]TreeTypeOK`. A change at the source leaves a tree; a shared folder itself is never marked
  as ignored, so that every D line names a path; file times stay integers through both conversions.

In `Launch_proofs`, for any number of starts and faults (`LaunchAssumption`):

- `SettingsAreKept`: `[]SettingsSurvive`, and `ServersRunAsSaved`: `[]RunsAsSaved`. A text *agrees* with
  the last save if it has all of its keys and its other keys are defaults; an upgrade keeps agreement,
  and agreement makes `Settings` equal. The invariant says which of config, backup and each process's
  text agrees at each stage, and that at most one process is in an upgrade unless `raced`.
- `LaunchType`: `[]LaunchTypeOK`, with no two servers on the port, from the same and lemmas on texts.

In `Deployment_proofs`: `DeployLaunches` and `DeployMirrors`, `DeploySpec => LaunchSpec` and
`DeploySpec => TreeSpec`, so that all of the above holds of a deployment; and `SavedIgnoreStays`,
`[]SavedIgnoreHolds`, from both and from the invariant that a session's two ignore sets are its
server's and the client's choice. `FreshCopies`: `[]FreshCopyWorks`. The invariant follows the server
that wrote the connection file last: from its bind on, the file holds that server's own text unless
the file was taken for a config since. `DeployType`: `[]DeployTypeOK`, from the types of the parts.

Left to TLC: liveness (`EveryStreamFinishes`, `RunEnds`, `SessionEnds`), which needs fairness and
`ENABLED` and so is out of the prover's reach. The inductive invariants were themselves checked by TLC
on the runs' instances before they were proved.

## 5. Findings

1. `server.rs:801`: a unit can stay in the queue after every stream got NOUNIT, and the mirror then
   deletes its files (`sync_stranded`).
2. `client.rs:672`: a stream without a unit counts as clean although the server may have spent a unit
   on it (`sync_zero_unit`).
3. `client.rs:764`, `client.rs:779`: resuming against a running server prunes the first run's files
   (`sync_rerun`).
4. `server.rs:945`: idle and all-gone stops hang on a blocked producer (`serve_return`).
5. `client.rs:558`: a lost BYE is reported as "nothing deleted" (`classic_report`).
6. `server.rs:272`: a raw large file that shrinks while it is sent leaves the client reading the next
   lines as its payload (`raw_shrink`).

Met while modelling, without a run of their own:

- `server.rs:766`: the stall time-out does not abort a client that stays connected and stops reading: it
  is set for reads only, and a handler's write to such a client has no end. `main.rs:57` and
  `ARCHITECTURE.md:118-119` say that a silent client is aborted.
- `client.rs:410`: when the last file of a shared folder is removed, the receiver's copy stays, because
  no line names the folder and it becomes no mirror root. `README.md:48-49` says that files removed on
  the source are deleted.
- `server.rs:679`: a shared folder that is a whole drive has files without a folder above them; each is
  its own mirror root, so what disappears at the drive's top is not deleted either.
- `server.rs:360` (and 341, 709): a file whose metadata call fails is passed over without a word, and a
  clean run then deletes the receiver's copy although the source has the file. `CHANGELOG.md:217-218`
  speaks of files that the source no longer has.
- `client.rs:595`: a client with an ignore set of its own deletes what only the server's set withholds;
  `ignore.rs:2-3` and `README.md:201-202` promise that ignored content is never deleted.
- `client.rs:177`: a name that is a file on one side and a directory on the other fails every run, is
  reported as a lost connection (`client.rs:607`), and is never cleared away since only a clean run
  deletes.
- `server.rs:482`: two shared folders of one name are merged, and files of one path overwrite each
  other in every run.
- `mtime.rs:43`: before 1970 the epoch is subtracted instead of added, so the ticks sent are negative,
  cannot be set as a time, and the file is fetched again by every run.
- `main.rs:322`: the connection file is written before the port is bound, so a start that fails takes
  the file from the server that still runs. No document says which server it must then fit.
- `config.rs:163`: after one upgrade the file ends in a comment, so a later version cannot add its
  keys. `RunsAsSaved` shows that the missing keys still have their defaults.

The properties that hold say what is true of the code besides all these, and so except them; none of
them is evidence about the case it excepts:

| Property | Excepts |
|---|---|
| `NounitMeansAllProduced` | finding 1: it says nothing of what is left in the queue |
| `CleanRunMissesNoUnit` | finding 2: it is about streams that received a first line |
| `FullRunMirrors` | finding 3: it is about runs that all units reached |
| `BodiesStayFramed` | finding 6: files that are `cut` |
| `EveryStreamFinishes` | `server.rs:766`: clients in `Deaf` |
| `UnchangedFilesMirrored` | `client.rs:410`: a run that saw nothing of the folder |
| `PrunedWasGone` | `server.rs:360`: files passed over |
| `PrunedNotOffered`, `IgnoredFilesKept` | `client.rs:595`: what only one side ignores |
| `IncompleteHasCause` | `client.rs:177`: a name of two kinds counts as a cause |
| `CleanIsMirror` | `server.rs:482`: any of the files that share a place will do |
| `FetchedOnce` | `server.rs:482` and `mtime.rs:43`: shared places and times before 1970 |
| `FreshCopyWorks` | `main.rs:322`: the last start failed |

## 6. Not modelled, and the plan

Next, in order:

1. `safe_join` and symbolic links in `TreeMirror`, a receiver that cannot list or remove what it has.
2. The life of an FFI handle.

Left out for good: rustls, certificates and random bytes (libraries), the firewall rule, progress and
debug output (no state the transfer depends on), argument parsing and prompts, the JSON parser and
the glob matcher (their results are parameters), zstd (a library), the PowerShell edition (an older
program with the same protocol), the WAN proxy, benchmarks and release scripts.
