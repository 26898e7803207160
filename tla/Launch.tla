--------------------------------- MODULE Launch ---------------------------------
(***************************************************************************)
(* How a server comes up: its config file is read, merged with defaults    *)
(* and brought up to date on disk (rust/src/config.rs), an identity is     *)
(* minted and written to the connection file, and the port is bound        *)
(* (rust/src/main.rs cmd_serve, tls.rs, token.rs, server.rs).              *)
(*                                                                         *)
(* fs::write is two steps, truncation and content; a process may be killed *)
(* or a write fail at each.  Processes that start at the same time share   *)
(* the files, and the operator's editor saves over them.  A text is what   *)
(* its parser gets out of it: one that is not whole does not parse.  A     *)
(* process stands for its own token and certificate.  Four settings are    *)
(* kept; the others are merged and added in the same way.  Flags of `ft    *)
(* serve`, which win over the file, are left out.                          *)
(***************************************************************************)
EXTENDS Integers

CONSTANTS
    MaxStarts,  \* bound: processes started
    MaxFaults,  \* bound: kills, failed writes, saves, starts beside another
    SavedTexts, \* the texts the operator may save
    Address     \* the receiver's address

Process == 1..MaxStarts
File == {"config", "connection"}
Keys == {"streams", "cutover", "once", "allowIp"}

\* SERVE_UPGRADE_KEYS
UpgradeDefault == [streams |-> 4, cutover |-> FALSE, once |-> FALSE, allowIp |-> ""]

Text(whole, folders, keys, ignore, open, by) ==
    [whole |-> whole,     \* parses
     folders |-> folders, \* names a folder to share
     keys |-> keys,       \* the settings it has
     ignore |-> ignore,
     open |-> open,       \* no comment between its last key and the closing brace
     by |-> by]           \* the process whose token and fingerprint it has, or 0
NoKeys == [k \in {} |-> 0]
Short == Text(FALSE, FALSE, NoKeys, {}, FALSE, 0)

IsText(t) ==
    /\ t = Text(t.whole, t.folders, t.keys, t.ignore, t.open, t.by)
    /\ {t.whole, t.folders, t.open} \subseteq BOOLEAN
    /\ DOMAIN t.keys \subseteq Keys
    /\ t.by \in Process \union {0}

ASSUME LaunchAssumption ==
    /\ MaxStarts \in Nat /\ MaxFaults \in Nat
    /\ Address # ""
    /\ \A t \in SavedTexts : IsText(t) /\ t.whole /\ t.folders /\ t.by = 0

VARIABLES
    text,    \* each file
    bak,     \* its .bak
    starts, faults,
    stage,   \* how far each process is
    file,    \* the file it was given
    raw,     \* what it read there
    saved,   \* history: the operator's last save
    raced,   \* history: that save fell between a load and its upgrade
    since,   \* history: processes that loaded after it
    last     \* history: the last process to write the connection file

launchVars == <<text, bak, starts, faults, stage, file, raw, saved, raced, since, last>>

Upgrading == {"loaded", "bakCut", "bakFull", "cut"}
Starting == Upgrading \union {"ready", "connCut", "bind"}
Listening == {p \in Process : stage[p] = "listening"}

------------------------------------------------------------------------------
(* Reading and merging. *)

KeyOr(t, k, default) == IF k \in DOMAIN t.keys THEN t.keys[k] ELSE default

\* cmd_serve: the cutover forces one stream and once, an empty address is none.
Settings(t) ==
    LET cutover == KeyOr(t, "cutover", FALSE)
        streams == KeyOr(t, "streams", 4)
        address == KeyOr(t, "allowIp", "")
    IN  [streams |-> IF cutover \/ streams < 1 THEN 1 ELSE streams,
         cutover |-> cutover,
         once |-> cutover \/ KeyOr(t, "once", FALSE),
         allowIp |-> IF address = "" THEN "any" ELSE address,
         ignore |-> t.ignore]

\* upgrade_serve_file refuses a result that does not parse: text added after a
\* comment on the last line is swallowed by it.
NeedsUpgrade(t) == DOMAIN t.keys # Keys /\ t.open

\* Variant: what the file says is overwritten with the defaults.
UpgradedAfresh(t) == [t EXCEPT !.keys = UpgradeDefault, !.open = FALSE]

\* Each added line ends in a comment, so an upgraded file is not open.
Upgraded(t) ==
    [t EXCEPT !.keys = [k \in Keys |-> KeyOr(t, k, UpgradeDefault[k])], !.open = FALSE]

------------------------------------------------------------------------------

LaunchInit ==
    /\ saved \in SavedTexts
    /\ text = [f \in File |-> IF f = "config" THEN saved ELSE Short]
    /\ bak = [f \in File |-> Short]
    /\ starts = 0 /\ faults = 0
    /\ stage = [p \in Process |-> "off"]
    /\ file = [p \in Process |-> "config"]
    /\ raw = [p \in Process |-> Short]
    /\ raced = FALSE /\ since = {} /\ last = 0

Faulty == faults < MaxFaults /\ faults' = faults + 1
OthersRun == \E q \in Process : stage[q] \in Starting \union {"listening"}
Upgrades(p) == stage[p] \in Upgrading /\ NeedsUpgrade(raw[p])

\* ft serve <file>: read and parsed.  A start beside another process, and one with
\* the connection file for a config, count as faults.
Load(p, f) ==
    /\ p = starts + 1 /\ starts' = p
    /\ IF OthersRun \/ f = "connection" THEN Faulty ELSE UNCHANGED faults
    /\ file' = [file EXCEPT ![p] = f]
    /\ IF text[f].whole
       THEN /\ stage' = [stage EXCEPT ![p] = "loaded"]
            /\ raw' = [raw EXCEPT ![p] = text[f]]
            /\ since' = IF f = "config" THEN since \union {p} ELSE since
            /\ raced' = (raced \/ \E q \in Process : Upgrades(q) /\ file[q] = f)
       ELSE /\ stage' = [stage EXCEPT ![p] = "ended"]
            /\ UNCHANGED <<raw, since, raced>>
    /\ UNCHANGED <<text, bak, saved, last>>

Steps(p, from, to) == stage[p] = from /\ stage' = [stage EXCEPT ![p] = to]
Fills(f, t) == text' = [text EXCEPT ![f] = t]
Keeps(f, t) == bak' = [bak EXCEPT ![f] = t]
othersOfUpgrade == <<starts, faults, file, raw, saved, raced, since, last>>

NoUpgrade(p) ==
    /\ ~NeedsUpgrade(raw[p]) /\ Steps(p, "loaded", "ready")
    /\ UNCHANGED <<text, bak, othersOfUpgrade>>

\* Variant: the config is truncated while its backup is.
TruncateBoth(p) ==
    /\ NeedsUpgrade(raw[p]) /\ Steps(p, "loaded", "bakCut")
    /\ Keeps(file[p], Short) /\ Fills(file[p], Short)
    /\ UNCHANGED othersOfUpgrade

TruncateBak(p) ==
    /\ NeedsUpgrade(raw[p]) /\ Steps(p, "loaded", "bakCut")
    /\ Keeps(file[p], Short)
    /\ UNCHANGED <<text, othersOfUpgrade>>

WriteBak(p) ==
    /\ Steps(p, "bakCut", "bakFull")
    /\ Keeps(file[p], raw[p])
    /\ UNCHANGED <<text, othersOfUpgrade>>

TruncateConfig(p) ==
    /\ Steps(p, "bakFull", "cut")
    /\ Fills(file[p], Short)
    /\ UNCHANGED <<bak, othersOfUpgrade>>

WriteConfig(p) ==
    /\ Steps(p, "cut", "ready")
    /\ Fills(file[p], Upgraded(raw[p]))
    /\ UNCHANGED <<bak, othersOfUpgrade>>

\* A failed write of the upgrade is a note on the console, and the start goes on
\* with what was read; one of the connection file ends the process.
WriteFails(p) ==
    /\ Faulty
    /\ Upgrades(p) \/ (stage[p] \in {"ready", "connCut"} /\ raw[p].folders)
    /\ stage' = [stage EXCEPT ![p] = IF Upgrades(p) THEN "ready" ELSE "ended"]
    /\ UNCHANGED <<text, bak, starts, file, raw, saved, raced, since, last>>

NoFolders(p) ==
    /\ ~raw[p].folders /\ Steps(p, "ready", "ended")
    /\ UNCHANGED <<text, bak, othersOfUpgrade>>

\* make_server_identity, token::generate and generate_client: the connection
\* file is written before the port is bound.
TruncateConnection(p) ==
    /\ raw[p].folders /\ Steps(p, "ready", "connCut")
    /\ Fills("connection", Short)
    /\ last' = p
    /\ UNCHANGED <<bak, starts, faults, file, raw, saved, raced, since>>

WriteConnection(p) ==
    /\ Steps(p, "connCut", "bind")
    /\ Fills("connection", Text(TRUE, FALSE, NoKeys, {}, TRUE, p))
    /\ last' = p
    /\ UNCHANGED <<bak, starts, faults, file, raw, saved, raced, since>>

\* Variant: a port that is taken is shared.
BindShared(p) ==
    /\ Steps(p, "bind", "listening")
    /\ UNCHANGED <<text, bak, othersOfUpgrade>>

Bind(p) ==
    /\ Steps(p, "bind", IF Listening = {} THEN "listening" ELSE "ended")
    /\ UNCHANGED <<text, bak, othersOfUpgrade>>

\* A folder that is not there (resolve_folders), which is before the port is bound.
CannotServe(p) ==
    /\ Faulty /\ Steps(p, "bind", "ended")
    /\ UNCHANGED <<text, bak, starts, file, raw, saved, raced, since, last>>

Advance(p) ==
    \/ NoUpgrade(p) \/ TruncateBak(p) \/ WriteBak(p) \/ TruncateConfig(p) \/ WriteConfig(p)
    \/ NoFolders(p) \/ TruncateConnection(p) \/ WriteConnection(p) \/ Bind(p)

\* The idle time-out, or the operator.
Stop(p) ==
    /\ Steps(p, "listening", "ended")
    /\ UNCHANGED <<text, bak, othersOfUpgrade>>

Kill(p) ==
    /\ Faulty
    /\ stage[p] \in Starting \union {"listening"}
    /\ stage' = [stage EXCEPT ![p] = "ended"]
    /\ UNCHANGED <<text, bak, starts, file, raw, saved, raced, since, last>>

\* The operator saves a config from an editor, or puts the backup in place of a
\* config that does not parse.
Save(t) ==
    /\ Faulty
    /\ t # saved /\ saved' = t /\ Fills("config", t)
    /\ since' = {}
    /\ raced' = \E p \in Process : Upgrades(p) /\ file[p] = "config"
    /\ UNCHANGED <<bak, starts, stage, file, raw, last>>

Restore ==
    /\ ~text["config"].whole /\ bak["config"].whole
    /\ Fills("config", bak["config"])
    /\ UNCHANGED <<bak, starts, faults, stage, file, raw, saved, raced, since, last>>

LaunchNext ==
    \/ \E p \in Process, f \in File : Load(p, f)
    \/ \E p \in Process :
          Advance(p) \/ WriteFails(p) \/ CannotServe(p) \/ Stop(p) \/ Kill(p)
    \/ \E t \in SavedTexts : Save(t)
    \/ Restore

LaunchSpec == LaunchInit /\ [][LaunchNext]_launchVars

------------------------------------------------------------------------------
(* Properties. *)

LaunchTypeOK ==
    /\ \A f \in File : IsText(text[f]) /\ IsText(bak[f])
    /\ starts \in 0..MaxStarts /\ faults \in 0..MaxFaults
    /\ stage \in [Process -> Starting \union {"off", "listening", "ended"}]
    /\ \A p \in Process : stage[p] = "off" <=> p > starts
    /\ file \in [Process -> File]
    /\ \A p \in Process : IsText(raw[p])
    /\ saved \in SavedTexts /\ raced \in BOOLEAN
    /\ since \subseteq 1..starts /\ last \in 0..starts
    /\ \A p, q \in Listening : p = q

Carries(t) ==
    /\ t.whole /\ t.folders = saved.folders /\ t.ignore = saved.ignore
    /\ \A k \in DOMAIN saved.keys : k \in DOMAIN t.keys /\ t.keys[k] = saved.keys[k]

\* At every moment, so whatever is killed or fails next, what the operator saved
\* last is in the config file or in its backup, unless it was saved while a
\* process was about to write an upgrade of the text before, or two processes
\* upgrade the file at once.
SettingsSurvive == ~raced => Carries(text["config"]) \/ Carries(bak["config"])

\* A server that read its config after the operator's last save runs with what
\* that save meant, however often the file was upgraded in between.
RunsAsSaved ==
    ~raced => \A p \in since :
        stage[p] = "listening" => Settings(raw[p]) = Settings(saved)
================================================================================
