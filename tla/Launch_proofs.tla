----------------------------- MODULE Launch_proofs -----------------------------
(***************************************************************************)
(* Proofs about the config file, for any number of starts, failed writes,  *)
(* kills and saves: the saved settings are never lost (SettingsSurvive)    *)
(* and every server runs with them (RunsAsSaved).                          *)
(*                                                                         *)
(* The invariant says where the settings are while a process upgrades the  *)
(* file: in the file up to its backup's write, in the backup from then on. *)
(* It needs that only one process is at that, which is what raced leaves   *)
(* out, and that an upgrade adds to the text only what its absence means.  *)
(***************************************************************************)
EXTENDS Launch, TLAPS

\* One text has all that another has, and means the same.
Agrees(t, s) ==
    /\ t.whole /\ t.folders = s.folders /\ t.ignore = s.ignore
    /\ DOMAIN s.keys \subseteq DOMAIN t.keys
    /\ \A k \in Keys : KeyOr(t, k, UpgradeDefault[k]) = KeyOr(s, k, UpgradeDefault[k])

\* The process will overwrite the config file.
UpgradesConfig(p) == Upgrades(p) /\ file[p] = "config"

\* What each variable is, raced or not.
Shape ==
    /\ DOMAIN text = File /\ DOMAIN bak = File
    /\ stage = [p \in Process |-> stage[p]]
    /\ DOMAIN file = Process /\ DOMAIN raw = Process
    /\ starts \in Nat /\ since \subseteq Process /\ \A p \in since : p <= starts
    /\ \A p \in Process : p > starts => stage[p] = "off"
    /\ \A p \in Process : stage[p] \in {"bakCut", "bakFull", "cut"} => NeedsUpgrade(raw[p])
    /\ saved \in SavedTexts

\* Where the settings are.
Sound ==
    /\ text["config"].whole => Agrees(text["config"], saved)
    /\ Agrees(text["config"], saved) \/ Agrees(bak["config"], saved)
    /\ \A p, q \in Process : UpgradesConfig(p) /\ UpgradesConfig(q) => p = q
    /\ \A p \in Process : UpgradesConfig(p) =>
           /\ Agrees(raw[p], saved)
           /\ stage[p] \in {"loaded", "bakCut"} => Agrees(text["config"], saved)
           /\ stage[p] \in {"bakFull", "cut"} => Agrees(bak["config"], saved)
    /\ \A p \in since : Agrees(raw[p], saved)

LaunchInv == Shape /\ (~raced => Sound)

------------------------------------------------------------------------------
(* Texts. *)

LEMMA AgreesIsWhole == \A t, s : Agrees(t, s) => t.whole
  BY DEF Agrees

LEMMA ShortIsNot == ~Short.whole
  BY DEF Short, Text

LEMMA SavedIsText ==
    \A t \in SavedTexts : IsText(t) /\ t.whole /\ DOMAIN t.keys \subseteq Keys
  BY LaunchAssumption, Zenon DEF IsText

LEMMA Bounds == MaxStarts \in Nat /\ MaxFaults \in Nat
  BY LaunchAssumption, Zenon

LEMMA SavedAgrees == \A s \in SavedTexts : Agrees(s, s)
  BY SavedIsText DEF Agrees

\* An upgrade adds to the text what its absence means.
LEMMA UpgradeAgrees ==
    ASSUME NEW t, NEW s \in SavedTexts, Agrees(t, s)
    PROVE  Agrees(Upgraded(t), s)
<1> DEFINE u == Upgraded(t)
<1>1. u = [t EXCEPT !.keys = [k \in Keys |-> KeyOr(t, k, UpgradeDefault[k])], !.open = FALSE]
  BY DEF Upgraded
<1>2. u.whole = t.whole /\ u.folders = t.folders /\ u.ignore = t.ignore
  BY <1>1
<1>3. u.keys = [k \in Keys |-> KeyOr(t, k, UpgradeDefault[k])]
  BY <1>1
<1>4. DOMAIN s.keys \subseteq DOMAIN u.keys
  BY <1>3, SavedIsText
<1>5. \A k \in Keys : KeyOr(u, k, UpgradeDefault[k]) = KeyOr(t, k, UpgradeDefault[k])
  BY <1>3 DEF KeyOr
<1> QED BY <1>2, <1>4, <1>5 DEF Agrees

LEMMA AgreesCarries ==
    ASSUME NEW t, saved \in SavedTexts, Agrees(t, saved)
    PROVE  Carries(t)
<1>1. ASSUME NEW k \in DOMAIN saved.keys
      PROVE  k \in DOMAIN t.keys /\ t.keys[k] = saved.keys[k]
  BY SavedIsText DEF Agrees, KeyOr
<1> QED BY <1>1 DEF Agrees, Carries

LEMMA AgreesSettings ==
    ASSUME NEW t, NEW s, Agrees(t, s)
    PROVE  Settings(t) = Settings(s)
<1>1. /\ UpgradeDefault["streams"] = 4 /\ UpgradeDefault["cutover"] = FALSE
      /\ UpgradeDefault["once"] = FALSE /\ UpgradeDefault["allowIp"] = ""
  BY DEF UpgradeDefault
<1>2. /\ KeyOr(t, "streams", 4) = KeyOr(s, "streams", 4)
      /\ KeyOr(t, "cutover", FALSE) = KeyOr(s, "cutover", FALSE)
      /\ KeyOr(t, "once", FALSE) = KeyOr(s, "once", FALSE)
      /\ KeyOr(t, "allowIp", "") = KeyOr(s, "allowIp", "")
      /\ t.ignore = s.ignore
  BY <1>1, Zenon DEF Agrees, Keys
<1> QED BY <1>2, Zenon DEF Settings

------------------------------------------------------------------------------

LEMMA LaunchInvInit == LaunchInit => LaunchInv
<1> SUFFICES ASSUME LaunchInit PROVE LaunchInv
  OBVIOUS
<1>1. text["config"] = saved /\ saved \in SavedTexts
  BY DEF LaunchInit, File
<1>2. Shape
  BY <1>1 DEF LaunchInit, Shape
<1>3. Sound
  BY <1>1, SavedAgrees DEF LaunchInit, Sound, UpgradesConfig, Upgrades, Upgrading
<1> QED BY <1>2, <1>3 DEF LaunchInv

\* A step of one process that has started.
LEMMA ShapeOfStep ==
    ASSUME Shape, NEW p \in Process, NEW to,
           stage[p] # "off", stage' = [stage EXCEPT ![p] = to],
           to \in {"bakCut", "bakFull", "cut"} => NeedsUpgrade(raw[p]),
           DOMAIN text' = File, DOMAIN bak' = File,
           UNCHANGED <<file, raw, starts, since, saved>>
    PROVE  Shape' /\ stage'[p] = to /\ \A q \in Process \ {p} : stage'[q] = stage[q]
<1>1. /\ stage'[p] = to /\ \A q \in Process \ {p} : stage'[q] = stage[q]
      /\ stage' = [q \in Process |-> stage'[q]]
  BY DEF Shape
<1>2. \A q \in Process : q > starts => stage'[q] = "off"
  BY <1>1 DEF Shape
<1>3. \A q \in Process : stage'[q] \in {"bakCut", "bakFull", "cut"} => NeedsUpgrade(raw[q])
  BY <1>1 DEF Shape
<1> QED BY <1>1, <1>2, <1>3 DEF Shape

\* A step that leaves the config file, its backup and their upgrades alone.
LEMMA Framed ==
    ASSUME LaunchInv, Shape',
           text'["config"] = text["config"], bak'["config"] = bak["config"],
           UNCHANGED <<raw, file, saved, since, raced>>,
           \A p \in Process : UpgradesConfig(p)' => UpgradesConfig(p) /\ stage'[p] = stage[p]
    PROVE  LaunchInv'
<1> SUFFICES ASSUME ~raced PROVE Sound'
  BY DEF LaunchInv
<1>1. Sound
  BY DEF LaunchInv
<1> QED BY <1>1 DEF Sound

\* A process that is done with the config file, or was never at it.
LEMMA StoppedOrReady ==
    ASSUME LaunchInv, NEW p \in Process, NEW to, to \notin Upgrading,
           stage[p] # "off", stage' = [stage EXCEPT ![p] = to],
           DOMAIN text' = File, text'["config"] = text["config"],
           UNCHANGED <<bak, file, raw, starts, since, saved, raced>>
    PROVE  LaunchInv'
<1>1. /\ Shape' /\ stage'[p] = to
      /\ \A q \in Process \ {p} : stage'[q] = stage[q]
  BY ShapeOfStep DEF LaunchInv, Shape, Upgrading
<1>2. \A q \in Process : UpgradesConfig(q)' => UpgradesConfig(q) /\ stage'[q] = stage[q]
  BY <1>1 DEF UpgradesConfig, Upgrades
<1> QED BY <1>1, <1>2, Framed

\* One write of an upgrade: of the connection file, or of the config by the only
\* process at it.
LEMMA UpgradeStep ==
    ASSUME LaunchInv, NEW p \in Process,
           TruncateBak(p) \/ WriteBak(p) \/ TruncateConfig(p) \/ WriteConfig(p)
    PROVE  LaunchInv'
<1> USE DEF LaunchInv
<1>1. /\ stage[p] \in Upgrading /\ NeedsUpgrade(raw[p])
      /\ UNCHANGED <<starts, file, raw, saved, raced, since>>
      /\ DOMAIN text' = File /\ DOMAIN bak' = File
      /\ \A f \in File \ {file[p]} : text'[f] = text[f] /\ bak'[f] = bak[f]
  BY DEF TruncateBak, WriteBak, TruncateConfig, WriteConfig, Steps, Keeps, Fills,
         othersOfUpgrade, Shape, Upgrading
<1>2. PICK to \in {"bakCut", "bakFull", "cut", "ready"} : stage' = [stage EXCEPT ![p] = to]
  BY DEF TruncateBak, WriteBak, TruncateConfig, WriteConfig, Steps
<1>3. /\ Shape' /\ stage'[p] = to
      /\ \A q \in Process \ {p} : stage'[q] = stage[q]
  <2>1. stage[p] # "off"
    BY <1>1 DEF Upgrading
  <2> QED BY <1>1, <1>2, <2>1, ShapeOfStep
<1>4. CASE file[p] # "config"
  <2>1. text'["config"] = text["config"] /\ bak'["config"] = bak["config"]
    BY <1>1, <1>4 DEF File
  <2>2. \A q \in Process : UpgradesConfig(q)' => UpgradesConfig(q) /\ stage'[q] = stage[q]
    BY <1>1, <1>3, <1>4 DEF UpgradesConfig, Upgrades
  <2> QED BY <1>1, <1>3, <2>1, <2>2, Framed
<1>5. CASE file[p] = "config"
  <2> SUFFICES ASSUME ~raced PROVE Sound'
    BY <1>1, <1>3
  <2>1. Sound /\ UpgradesConfig(p)
    BY <1>1, <1>5 DEF UpgradesConfig, Upgrades
  <2>2. \A q \in Process : UpgradesConfig(q)' => q = p
    BY <1>1, <1>3, <2>1 DEF Sound, UpgradesConfig, Upgrades
  <2>3. Agrees(raw[p], saved) /\ \A q \in since : Agrees(raw[q], saved)
    BY <2>1 DEF Sound
  <2>4. "config" \in DOMAIN text /\ "config" \in DOMAIN bak
    BY DEF Shape, File
  <2>5. CASE TruncateBak(p)
    <3>1. text' = text /\ stage[p] = "loaded" /\ stage'[p] = "bakCut"
      BY <1>3, <2>5, <1>2 DEF TruncateBak, Steps, Shape
    <3>2. Agrees(text'["config"], saved)
      BY <2>1, <3>1 DEF Sound
    <3> QED BY <1>1, <2>2, <2>3, <3>1, <3>2 DEF Sound
  <2>6. CASE WriteBak(p)
    <3>1. text' = text /\ stage[p] = "bakCut" /\ stage'[p] = "bakFull" /\ bak'["config"] = raw[p]
      BY <1>5, <2>4, <2>6 DEF WriteBak, Steps, Keeps, Shape
    <3> QED BY <1>1, <2>1, <2>2, <2>3, <3>1 DEF Sound
  <2>7. CASE TruncateConfig(p)
    <3>1. /\ bak' = bak /\ stage[p] = "bakFull" /\ stage'[p] = "cut"
          /\ ~text'["config"].whole
      BY <1>5, <2>4, <2>7, ShortIsNot DEF TruncateConfig, Steps, Fills, Shape
    <3>2. Agrees(bak["config"], saved)
      BY <2>1, <3>1 DEF Sound
    <3> QED BY <1>1, <2>2, <2>3, <3>1, <3>2 DEF Sound
  <2>8. CASE WriteConfig(p)
    <3>1. /\ stage'[p] = "ready" /\ text'["config"] = Upgraded(raw[p])
      BY <1>5, <2>4, <2>8 DEF WriteConfig, Steps, Fills, Shape
    <3>2. Agrees(text'["config"], saved)
      BY <2>3, <3>1, UpgradeAgrees DEF Shape
    <3>3. \A q \in Process : ~UpgradesConfig(q)'
      BY <2>2, <3>1 DEF UpgradesConfig, Upgrades, Upgrading
    <3> QED BY <1>1, <2>3, <3>2, <3>3 DEF Sound
  <2> QED BY <2>5, <2>6, <2>7, <2>8
<1> QED BY <1>4, <1>5

\* A start takes its settings from a file that has them.
LEMMA LoadStep ==
    ASSUME LaunchInv, NEW p \in Process, NEW f \in File, Load(p, f)
    PROVE  LaunchInv'
<1> USE DEF LaunchInv
<1>1. p = starts + 1 /\ stage[p] = "off" /\ p \notin since
  BY DEF Load, Shape
<1>2. /\ starts' = p /\ UNCHANGED <<text, bak, saved>>
      /\ file' = [file EXCEPT ![p] = f]
      /\ \A q \in Process \ {p} : file'[q] = file[q] /\ raw'[q] = raw[q] /\ stage'[q] = stage[q]
      /\ stage' = [q \in Process |-> stage'[q]]
      /\ DOMAIN file' = Process /\ DOMAIN raw' = Process
      /\ file'[p] = f
  BY DEF Load, Shape
<1>3. \/ /\ text[f].whole /\ stage'[p] = "loaded" /\ raw'[p] = text[f]
         /\ since' = IF f = "config" THEN since \union {p} ELSE since
         /\ raced' = (raced \/ \E q \in Process : Upgrades(q) /\ file[q] = f)
      \/ stage'[p] = "ended" /\ since' = since /\ raced' = raced
  BY DEF Load, Shape
<1>4. Shape'
  <2>1. since' \subseteq since \union {p}
    BY <1>3
  <2>4. /\ starts' \in Nat /\ since' \subseteq Process
        /\ \A q \in since' : q <= starts'
    <3>1. Process \subseteq Int
      BY DEF Process
    <3> QED BY <1>1, <1>2, <2>1, <3>1 DEF Shape
  <2>2. \A q \in Process : q > starts' => stage'[q] = "off"
    <3>1. \A q \in Process : q > starts' => q # p /\ q > starts
      BY <1>1, <1>2 DEF Shape, Process
    <3> QED BY <1>2, <3>1 DEF Shape
  <2>3. \A q \in Process : stage'[q] \in {"bakCut", "bakFull", "cut"} => NeedsUpgrade(raw'[q])
    BY <1>2, <1>3 DEF Shape
  <2> QED BY <1>2, <2>2, <2>3, <2>4 DEF Shape
<1>5. \A q \in Process \ {p} : UpgradesConfig(q)' <=> UpgradesConfig(q)
  BY <1>2 DEF UpgradesConfig, Upgrades
<1> SUFFICES ASSUME ~raced' PROVE Sound'
  BY <1>4
<1>6. Sound
  BY <1>3
<1>7. \A q \in since : Agrees(raw'[q], saved)
  BY <1>1, <1>2, <1>6 DEF Sound, Shape
<1>8. CASE ~UpgradesConfig(p)'
  <2>1. p \in since' => Agrees(raw'[p], saved)
    BY <1>1, <1>3, <1>6 DEF Sound
  <2>2. \A q \in since' : Agrees(raw'[q], saved)
    BY <1>3, <1>7, <2>1
  <2>3. \A q \in Process : UpgradesConfig(q)' => UpgradesConfig(q) /\ q # p
    BY <1>5, <1>8
  <2> QED BY <1>2, <1>6, <2>2, <2>3 DEF Sound
<1>9. CASE UpgradesConfig(p)'
  <2>1. f = "config" /\ stage'[p] = "loaded"
    BY <1>2, <1>3, <1>9 DEF UpgradesConfig, Upgrades, Upgrading
  <2>2. text["config"].whole /\ raw'[p] = text["config"] /\ since' = since \union {p}
        /\ \A q \in Process : ~UpgradesConfig(q)
    BY <1>3, <2>1 DEF UpgradesConfig
  <2>3. Agrees(text["config"], saved)
    BY <1>6, <2>2 DEF Sound
  <2>4. \A q \in Process : UpgradesConfig(q)' => q = p
    BY <1>5, <2>2
  <2> QED BY <1>2, <1>6, <1>7, <2>1, <2>2, <2>3, <2>4 DEF Sound
<1> QED BY <1>8, <1>9

LEMMA LaunchInvStep == LaunchInv /\ [LaunchNext]_launchVars => LaunchInv'
<1> SUFFICES ASSUME LaunchInv, [LaunchNext]_launchVars PROVE LaunchInv'
  OBVIOUS
<1>1. Shape
  BY DEF LaunchInv
<1>2. ASSUME NEW p \in Process,
             NoUpgrade(p) \/ NoFolders(p) \/ TruncateConnection(p) \/ WriteConnection(p)
                 \/ Bind(p) \/ CannotServe(p) \/ Stop(p) \/ WriteFails(p) \/ Kill(p)
      PROVE  LaunchInv'
  <2>1. PICK to \in {"ready", "ended", "connCut", "bind", "listening"} :
            stage' = [stage EXCEPT ![p] = to]
    BY <1>2 DEF NoUpgrade, NoFolders, TruncateConnection, WriteConnection, Bind, CannotServe,
                Stop, WriteFails, Kill, Steps
  <2>2. stage[p] # "off"
    BY <1>2 DEF NoUpgrade, NoFolders, TruncateConnection, WriteConnection, Bind, CannotServe,
                Stop, WriteFails, Kill, Steps, Upgrades, Upgrading, Starting
  <2>3. UNCHANGED <<bak, file, raw, starts, since, saved, raced>>
    BY <1>2 DEF NoUpgrade, NoFolders, TruncateConnection, WriteConnection, Bind,
                CannotServe, Stop, WriteFails, Kill, othersOfUpgrade
  <2>5. text' = text \/ \E t : text' = [text EXCEPT !["connection"] = t]
    BY <1>2 DEF NoUpgrade, NoFolders, TruncateConnection, WriteConnection, Bind,
                CannotServe, Stop, WriteFails, Kill, Fills, othersOfUpgrade
  <2>6. DOMAIN text' = File /\ text'["config"] = text["config"]
    BY <1>1, <2>5 DEF Shape, File
  <2>4. to \notin Upgrading
    BY DEF Upgrading
  <2> QED BY <2>1, <2>2, <2>3, <2>4, <2>6, StoppedOrReady
<1>3. ASSUME NEW t \in SavedTexts, Save(t) PROVE LaunchInv'
  <2>1. /\ saved' = t /\ text'["config"] = t /\ DOMAIN text' = File /\ since' = {}
        /\ UNCHANGED <<bak, starts, stage, file, raw>>
        /\ raced' = \E p \in Process : Upgrades(p) /\ file[p] = "config"
    BY <1>1, <1>3, Zenon DEF Save, Fills, Shape, File
  <2>2. Shape'
    BY <1>1, <2>1 DEF Shape
  <2>3. ~raced' => \A p \in Process : ~UpgradesConfig(p)'
    BY <2>1 DEF UpgradesConfig, Upgrades
  <2>4. ~raced' => Sound'
    BY <2>1, <2>3, SavedAgrees DEF Sound
  <2> QED BY <2>2, <2>4 DEF LaunchInv
<1>4. CASE Restore
  <2>1. /\ ~text["config"].whole /\ text'["config"] = bak["config"] /\ DOMAIN text' = File
        /\ UNCHANGED <<bak, starts, stage, file, raw, saved, raced, since>>
    BY <1>1, <1>4 DEF Restore, Fills, Shape, File
  <2>2. Shape'
    BY <1>1, <2>1 DEF Shape
  <2>3. ASSUME ~raced PROVE Sound'
    <3>1. Sound /\ Agrees(bak["config"], saved)
      BY <2>1, <2>3, AgreesIsWhole DEF LaunchInv, Sound
    <3>2. \A p \in Process : UpgradesConfig(p)' <=> UpgradesConfig(p)
      BY <2>1 DEF UpgradesConfig, Upgrades
    <3> QED BY <2>1, <3>1, <3>2 DEF Sound
  <2> QED BY <2>1, <2>2, <2>3 DEF LaunchInv
<1>5. CASE UNCHANGED launchVars
  <2>1. Shape'
    BY <1>1, <1>5 DEF launchVars, Shape
  <2>2. \A p \in Process : UpgradesConfig(p)' => UpgradesConfig(p) /\ stage'[p] = stage[p]
    BY <1>5 DEF launchVars, UpgradesConfig, Upgrades
  <2> QED BY <1>5, <2>1, <2>2, Framed DEF launchVars
<1> QED BY <1>2, <1>3, <1>4, <1>5, LoadStep, UpgradeStep DEF LaunchNext, Advance

LEMMA LaunchInvariant == LaunchSpec => []LaunchInv
  BY LaunchInvInit, LaunchInvStep, PTL DEF LaunchSpec

\* Whatever is killed or fails, the operator's last save is in the config or in its
\* backup, for any number of starts and any texts.
THEOREM SettingsAreKept == LaunchSpec => []SettingsSurvive
<1>1. LaunchInv => SettingsSurvive
  BY AgreesCarries DEF LaunchInv, Shape, Sound, SettingsSurvive
<1> QED BY <1>1, LaunchInvariant, PTL

\* A server runs with what the operator's last save meant.
THEOREM ServersRunAsSaved == LaunchSpec => []RunsAsSaved
<1>1. LaunchInv => RunsAsSaved
  BY AgreesSettings DEF LaunchInv, Sound, RunsAsSaved
<1> QED BY <1>1, LaunchInvariant, PTL

------------------------------------------------------------------------------
(* Types. *)

LEMMA ShortIsText == IsText(Short)
  BY DEF IsText, Short, Text, NoKeys

LEMMA ConnectionIsText ==
    ASSUME NEW p \in Process
    PROVE  IsText(Text(TRUE, FALSE, NoKeys, {}, TRUE, p))
  BY DEF IsText, Text, NoKeys

\* An upgrade makes a text of a text.
LEMMA UpgradedIsText ==
    ASSUME NEW t, IsText(t)
    PROVE  IsText(Upgraded(t))
<1> DEFINE keys == [k \in Keys |-> KeyOr(t, k, UpgradeDefault[k])]
<1>1. t = [whole |-> t.whole, folders |-> t.folders, keys |-> t.keys, ignore |-> t.ignore,
           open |-> t.open, by |-> t.by]
  BY Zenon DEF IsText, Text
<1>2. Upgraded(t) = [t EXCEPT !.keys = keys, !.open = FALSE]
  BY DEF Upgraded
<1>3. Upgraded(t) = [whole |-> t.whole, folders |-> t.folders, keys |-> keys,
                     ignore |-> t.ignore, open |-> FALSE, by |-> t.by]
  BY <1>1, <1>2
<1> HIDE DEF keys
<1>4. /\ Upgraded(t).whole = t.whole /\ Upgraded(t).folders = t.folders
      /\ Upgraded(t).keys = keys /\ Upgraded(t).ignore = t.ignore
      /\ Upgraded(t).open = FALSE /\ Upgraded(t).by = t.by
  BY <1>3
<1>5. Upgraded(t) = Text(Upgraded(t).whole, Upgraded(t).folders, Upgraded(t).keys,
                         Upgraded(t).ignore, Upgraded(t).open, Upgraded(t).by)
  BY <1>3, <1>4, Zenon DEF Text
<1>6. DOMAIN keys = Keys
  BY DEF keys
<1>7. {t.whole, t.folders, t.open} \subseteq BOOLEAN /\ t.by \in Process \union {0}
  BY Zenon DEF IsText
<1>8. {t.whole, t.folders, FALSE} \subseteq BOOLEAN
  BY <1>7, Zenon
<1> QED BY <1>4, <1>5, <1>6, <1>7, <1>8, Zenon DEF IsText

TextsOK == /\ \A f \in File : IsText(text[f]) /\ IsText(bak[f])
           /\ \A p \in Process : IsText(raw[p])

StagesOK ==
    /\ stage \in [Process -> Starting \union {"off", "listening", "ended"}]
    /\ \A p \in Process : stage[p] = "off" <=> p > starts
    /\ \A p, q \in Listening : p = q

CountsOK ==
    /\ starts \in 0..MaxStarts /\ faults \in 0..MaxFaults
    /\ file \in [Process -> File]
    /\ saved \in SavedTexts /\ raced \in BOOLEAN
    /\ since \subseteq 1..starts /\ last \in 0..starts

LEMMA LaunchTypeParts == LaunchTypeOK <=> TextsOK /\ StagesOK /\ CountsOK
  BY DEF LaunchTypeOK, TextsOK, StagesOK, CountsOK

LEMMA LaunchTypesInit == LaunchInit => TextsOK /\ StagesOK /\ CountsOK
<1> SUFFICES ASSUME LaunchInit PROVE TextsOK /\ StagesOK /\ CountsOK
  OBVIOUS
<1>1. /\ text = [f \in File |-> IF f = "config" THEN saved ELSE Short]
      /\ bak = [f \in File |-> Short] /\ raw = [p \in Process |-> Short]
      /\ saved \in SavedTexts
  BY DEF LaunchInit
<1>2. TextsOK
  BY <1>1, SavedIsText, ShortIsText DEF TextsOK
<1>3. StagesOK
  BY DEF LaunchInit, StagesOK, Listening, Process
<1>4. CountsOK
  <2>1. /\ starts = 0 /\ faults = 0 /\ since = {} /\ last = 0 /\ raced \in BOOLEAN
        /\ file = [p \in Process |-> "config"] /\ "config" \in File
    BY DEF LaunchInit, File
  <2> QED BY <1>1, <2>1, Bounds DEF CountsOK
<1> QED BY <1>2, <1>3, <1>4

LEMMA TextsStep ==
    ASSUME Shape, TextsOK, [LaunchNext]_launchVars
    PROVE  TextsOK'
<1>1. \/ UNCHANGED <<text, bak, raw>>
      \/ /\ UNCHANGED <<text, bak>>
         /\ \E p \in Process, f \in File : raw' = [raw EXCEPT ![p] = text[f]]
      \/ /\ UNCHANGED <<text, raw>>
         /\ \E p \in Process : \E t \in {Short, raw[p]} : bak' = [bak EXCEPT ![file[p]] = t]
      \/ /\ UNCHANGED <<bak, raw>>
         /\ \/ \E f : text' = [text EXCEPT ![f] = Short]
            \/ \E p \in Process : \E f : text' = [text EXCEPT ![f] = Upgraded(raw[p])]
            \/ \E p \in Process :
                   text' = [text EXCEPT !["connection"] =
                               Text(TRUE, FALSE, NoKeys, {}, TRUE, p)]
            \/ \E t \in SavedTexts : text' = [text EXCEPT !["config"] = t]
            \/ text' = [text EXCEPT !["config"] = bak["config"]]
  <2>1. ASSUME NEW p \in Process, NEW f \in File, Load(p, f)
        PROVE  /\ UNCHANGED <<text, bak>>
               /\ raw' = raw \/ raw' = [raw EXCEPT ![p] = text[f]]
    BY <2>1 DEF Load
  <2>2. ASSUME NEW p \in Process, \/ NoUpgrade(p) \/ NoFolders(p) \/ Bind(p) \/ WriteFails(p)
                                  \/ CannotServe(p) \/ Stop(p) \/ Kill(p)
        PROVE  UNCHANGED <<text, bak, raw>>
    BY <2>2 DEF NoUpgrade, NoFolders, Bind, WriteFails, CannotServe, Stop, Kill, othersOfUpgrade
  <2>3. ASSUME NEW p \in Process, TruncateBak(p) \/ WriteBak(p)
        PROVE  /\ UNCHANGED <<text, raw>>
               /\ \E t \in {Short, raw[p]} : bak' = [bak EXCEPT ![file[p]] = t]
    BY <2>3 DEF TruncateBak, WriteBak, Keeps, othersOfUpgrade
  <2>4. ASSUME NEW p \in Process, TruncateConfig(p) \/ TruncateConnection(p)
        PROVE  UNCHANGED <<bak, raw>> /\ \E f : text' = [text EXCEPT ![f] = Short]
    BY <2>4 DEF TruncateConfig, TruncateConnection, Fills, othersOfUpgrade
  <2>5. ASSUME NEW p \in Process, WriteConfig(p)
        PROVE  UNCHANGED <<bak, raw>> /\ text' = [text EXCEPT ![file[p]] = Upgraded(raw[p])]
    BY <2>5 DEF WriteConfig, Fills, othersOfUpgrade
  <2>6. ASSUME NEW p \in Process, WriteConnection(p)
        PROVE  /\ UNCHANGED <<bak, raw>>
               /\ text' = [text EXCEPT !["connection"] =
                               Text(TRUE, FALSE, NoKeys, {}, TRUE, p)]
    BY <2>6, Zenon DEF WriteConnection, Fills
  <2>7. ASSUME NEW t \in SavedTexts, Save(t)
        PROVE  UNCHANGED <<bak, raw>> /\ text' = [text EXCEPT !["config"] = t]
    BY <2>7 DEF Save, Fills
  <2>8. CASE Restore
    BY <2>8 DEF Restore, Fills
  <2>9. CASE UNCHANGED launchVars
    BY <2>9 DEF launchVars
  <2> QED BY <2>1, <2>2, <2>3, <2>4, <2>5, <2>6, <2>7, <2>8, <2>9, Zenon DEF LaunchNext, Advance
<1>2. DOMAIN text = File /\ DOMAIN bak = File /\ DOMAIN raw = Process /\ "config" \in File
  BY DEF Shape, File
<1>3. ASSUME NEW f, NEW t, IsText(t), text' = [text EXCEPT ![f] = t]
      PROVE  \A g \in File : IsText(text'[g])
  BY <1>2, <1>3 DEF TextsOK
<1>4. ASSUME NEW f, NEW t, IsText(t), bak' = [bak EXCEPT ![f] = t]
      PROVE  \A g \in File : IsText(bak'[g])
  BY <1>2, <1>4 DEF TextsOK
<1>5. ASSUME NEW p, NEW t, IsText(t), raw' = [raw EXCEPT ![p] = t]
      PROVE  \A q \in Process : IsText(raw'[q])
  BY <1>2, <1>5 DEF TextsOK
<1>6. /\ \A p \in Process : IsText(raw[p]) /\ IsText(Upgraded(raw[p]))
      /\ \A f \in File : IsText(text[f]) /\ IsText(bak[f])
  BY UpgradedIsText DEF TextsOK
<1>7. \A g \in File : IsText(text'[g])
  BY <1>1, <1>2, <1>3, <1>6, SavedIsText, ShortIsText, ConnectionIsText, Zenon
<1>8. \A g \in File : IsText(bak'[g])
  BY <1>1, <1>4, <1>6, ShortIsText
<1>9. \A q \in Process : IsText(raw'[q])
  BY <1>1, <1>5, <1>6
<1> QED BY <1>7, <1>8, <1>9 DEF TextsOK

\* A step of one process that has started, and listens only if no other does.
LEMMA StagesOfStep ==
    ASSUME Shape, StagesOK, NEW p \in Process, stage[p] # "off", starts' = starts,
           NEW to \in Starting \union {"listening", "ended"},
           to = "listening" => Listening = {},
           stage' = [stage EXCEPT ![p] = to]
    PROVE  StagesOK'
<1>1. /\ stage'[p] = to /\ \A q \in Process \ {p} : stage'[q] = stage[q]
      /\ stage' \in [Process -> Starting \union {"off", "listening", "ended"}]
  BY DEF StagesOK
<1>2. to # "off"
  BY DEF Starting, Upgrading
<1>3. \A q \in Process : stage'[q] = "off" <=> stage[q] = "off"
  BY <1>1, <1>2
<1>4. Listening' \subseteq Listening \/ Listening' = {p}
  BY <1>1 DEF Listening
<1>5. \A q \in Process : stage'[q] = "off" <=> q > starts'
  BY <1>3 DEF StagesOK
<1>6. \A q, r \in Listening' : q = r
  BY <1>4 DEF StagesOK
<1> QED BY <1>1, <1>5, <1>6 DEF StagesOK

LEMMA StagesStep ==
    ASSUME Shape, StagesOK, [LaunchNext]_launchVars
    PROVE  StagesOK'
<1>1. ASSUME NEW p \in Process, NEW f \in File, Load(p, f)
      PROVE  StagesOK'
  <2>1. PICK to \in {"loaded", "ended"} : stage' = [stage EXCEPT ![p] = to]
    BY <1>1 DEF Load
  <2>2. p = starts + 1 /\ starts' = p /\ starts \in Nat
    BY <1>1 DEF Load, Shape
  <2>3. /\ stage'[p] = to /\ \A q \in Process \ {p} : stage'[q] = stage[q]
        /\ stage' \in [Process -> Starting \union {"off", "listening", "ended"}]
    BY <2>1 DEF StagesOK, Starting, Upgrading
  <2>4. \A q \in Process : q > starts' <=> q # p /\ q > starts
    BY <2>2 DEF Process
  <2>5. \A q \in Process : stage'[q] = "off" <=> q > starts'
    BY <2>3, <2>4 DEF StagesOK
  <2>6. Listening' \subseteq Listening
    BY <2>3 DEF Listening
  <2> QED BY <2>3, <2>5, <2>6 DEF StagesOK
<1>2. ASSUME NEW p \in Process,
             Advance(p) \/ WriteFails(p) \/ CannotServe(p) \/ Stop(p) \/ Kill(p)
      PROVE  StagesOK'
  <2>1. stage[p] # "off" /\ starts' = starts
    BY <1>2 DEF Advance, NoUpgrade, TruncateBak, WriteBak, TruncateConfig, WriteConfig,
       NoFolders, TruncateConnection, WriteConnection, Bind, WriteFails, CannotServe, Stop, Kill,
       Steps, Upgrades, Upgrading, Starting, othersOfUpgrade
  <2>2. \E to \in Starting \union {"listening", "ended"} :
            (to = "listening" => Listening = {}) /\ stage' = [stage EXCEPT ![p] = to]
    BY <1>2 DEF Advance, NoUpgrade, TruncateBak, WriteBak, TruncateConfig, WriteConfig,
       NoFolders, TruncateConnection, WriteConnection, Bind, WriteFails, CannotServe, Stop, Kill,
       Steps, Upgrading, Starting
  <2> QED BY <2>1, <2>2, StagesOfStep
<1>3. CASE \/ \E t \in SavedTexts : Save(t)
           \/ Restore \/ UNCHANGED launchVars
  BY <1>3 DEF Save, Restore, launchVars, StagesOK, Listening
<1> QED BY <1>1, <1>2, <1>3 DEF LaunchNext

LEMMA CountsStep ==
    ASSUME Shape, StagesOK, CountsOK, [LaunchNext]_launchVars
    PROVE  CountsOK'
<1>1. faults' \in 0..MaxFaults
  <2>1. faults' = faults \/ Faulty
    BY DEF LaunchNext, Advance, Load, NoUpgrade, TruncateBak, WriteBak, TruncateConfig,
       WriteConfig, NoFolders, TruncateConnection, WriteConnection, Bind, WriteFails, CannotServe,
       Stop, Kill, Save, Restore, othersOfUpgrade, launchVars
  <2> QED BY <2>1, Bounds DEF CountsOK, Faulty
<1>2. ASSUME NEW p \in Process, NEW f \in File, Load(p, f)
      PROVE  CountsOK'
  <2>1. /\ starts' = p /\ p = starts + 1 /\ last' = last /\ saved' = saved
        /\ file' = [file EXCEPT ![p] = f] /\ since' \subseteq since \union {p}
    BY <1>2 DEF Load
  <2>2. raced' \in BOOLEAN
    BY <1>2, Zenon DEF Load, CountsOK
  <2>3. starts' \in 0..MaxStarts /\ since' \subseteq 1..starts' /\ last' \in 0..starts'
    BY <2>1, Bounds DEF CountsOK, Process
  <2> QED BY <1>1, <2>1, <2>2, <2>3 DEF CountsOK
<1>3. ASSUME NEW p \in Process,
             Advance(p) \/ WriteFails(p) \/ CannotServe(p) \/ Stop(p) \/ Kill(p)
      PROVE  CountsOK'
  <2>1. UNCHANGED <<starts, file, saved, raced, since>>
    BY <1>3 DEF Advance, NoUpgrade, TruncateBak, WriteBak, TruncateConfig, WriteConfig,
       NoFolders, TruncateConnection, WriteConnection, Bind, WriteFails, CannotServe, Stop, Kill,
       othersOfUpgrade
  <2>2. last' = last \/ (last' = p /\ stage[p] # "off")
    BY <1>3 DEF Advance, NoUpgrade, TruncateBak, WriteBak, TruncateConfig, WriteConfig,
       NoFolders, TruncateConnection, WriteConnection, Bind, WriteFails, CannotServe, Stop, Kill,
       Steps, othersOfUpgrade
  <2>3. stage[p] # "off" => p \in 0..starts
    BY DEF StagesOK, CountsOK, Process
  <2> QED BY <1>1, <2>1, <2>2, <2>3 DEF CountsOK
<1>4. ASSUME NEW t \in SavedTexts, Save(t)
      PROVE  CountsOK'
  <2>1. saved' = t /\ since' = {} /\ UNCHANGED <<starts, file, last>>
    BY <1>4 DEF Save
  <2>2. raced' \in BOOLEAN
    BY <1>4, Zenon DEF Save
  <2> QED BY <1>1, <2>1, <2>2 DEF CountsOK
<1>5. CASE Restore \/ UNCHANGED launchVars
  BY <1>1, <1>5 DEF Restore, launchVars, CountsOK
<1> QED BY <1>2, <1>3, <1>4, <1>5 DEF LaunchNext

\* What a launch has in its files and reads from them is a text each, a process
\* that has started is at some stage, and no two servers listen on the port.
THEOREM LaunchType == LaunchSpec => []LaunchTypeOK
<1>1. LaunchInv => Shape
  BY DEF LaunchInv
<1> QED BY <1>1, LaunchTypesInit, TextsStep, StagesStep, CountsStep, LaunchTypeParts,
           LaunchInvariant, PTL DEF LaunchSpec
================================================================================
