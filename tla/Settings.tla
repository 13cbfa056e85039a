------------------------------ MODULE Settings ------------------------------
(***************************************************************************)
(* The operator's settings: config.json and the copy of it in memory       *)
(* (src/src/config_manager/), the commands that change them over the CLI   *)
(* socket (src/src/cli/config.go, network.go), and the applier that makes  *)
(* the private radios match (src/src/cli/operator_settings.go).            *)
(*                                                                         *)
(* One setting is followed, the private network's passphrase; its SSID and *)
(* encryption are written the same way.  Of the rest of the configuration  *)
(* it matters whether it is the operator's or the factory's.               *)
(*                                                                         *)
(* UCI keeps three copies: what `uci set` staged, in memory, and `uci get` *)
(* reads; what `uci commit` wrote to flash; and what the radios serve      *)
(* since `wifi reload`.  Every connection has its own goroutine.           *)
(***************************************************************************)
EXTENDS Naturals, FiniteSets

CONSTANTS
    Shells,         \* CLI connections
    Main,           \* the daemon's own start
    Nobody,
    LastRadio,      \* private_radio0 .. private_radio<LastRadio>
    Keys,           \* passphrases of 8 to 63 characters
    Blank, Short,   \* none, and one the radios would refuse
    MaxBusy,        \* bound: commands under way at once, the start included
    MaxMishaps,     \* bound: writes and commands that fail, edits by hand
    MaxStops        \* bound: ends of the process and losses of power

ASSUME EveryoneIsNamed == Main \notin Shells /\ Nobody \notin Shells \cup {Main}

ASSUME RadiosAreCounted == LastRadio \in Nat

VARIABLES
    file,           \* config.json on flash
    mounted,        \* its inode is pinned: no rename over it
    mem,            \* ConfigManager.config
    mu,             \* who holds ConfigManager.mu
    cmd,            \* per goroutine, where its command is
    staged, committed, served,
    upgraded,       \* config.json was first written by another version
    mishaps, stops,
    upset           \* what has disturbed the commands since power came

uci == <<staged, committed, served>>
settings == <<file, mounted, mem, mu, cmd, uci, upgraded, mishaps, stops, upset>>

Goroutines == Shells \cup {Main}
Radios == 0..LastRadio

Defaults == [key |-> Blank, mints |-> "factory", version |-> "this"]
Whole(config) == [is |-> "whole", cfg |-> config]
Torn == [is |-> "torn", cfg |-> Defaults]
Missing == [is |-> "missing", cfg |-> Defaults]

Idle == [at |-> "idle", verb |-> "none", key |-> Blank, cfg |-> Defaults,
         radio |-> 0, wrote |-> FALSE]
Starting == [Idle EXCEPT !.at = "starting", !.verb = "start"]

SettingsInit ==
    /\ \E key \in {Blank} \cup Keys, version \in {"this", "older"} :
          file = Whole([key |-> key, mints |-> "own", version |-> version])
    /\ mounted \in BOOLEAN
    /\ mem = Defaults
    /\ mu = Nobody
    /\ cmd = [c \in Goroutines |-> IF c = Main THEN Starting ELSE Idle]
    /\ \E key \in Keys : staged = [r \in Radios |-> key]
    /\ committed = staged /\ served = staged
    /\ upgraded = (file.cfg.version = "older")
    /\ mishaps = 0 /\ stops = 0
    /\ upset = {}

At(c, at) == cmd[c].at = at
Go(c, at) == cmd' = [cmd EXCEPT ![c].at = at]
Finish(c) == cmd' = [cmd EXCEPT ![c] = Idle]
GoOn(c, at) == cmd' = [cmd EXCEPT ![c] = [Idle EXCEPT !.at = at, !.verb = cmd[c].verb]]
Converges(c, key) ==
    cmd' = [cmd EXCEPT ![c] = [Idle EXCEPT !.at = "converging", !.verb = cmd[c].verb, !.key = key]]

Mishap ==
    /\ mishaps < MaxMishaps
    /\ mishaps' = mishaps + 1
    /\ upset' = upset \cup {"mishap"}

Calm == UNCHANGED <<mishaps, upset>>
Fixed == UNCHANGED <<mounted, upgraded, stops>>

----------------------------------------------------------------------------
(* config.json.                                                            *)

Release(c) == mu' = IF mu = c THEN Nobody ELSE mu

(* What follows a save: the setter applies, `config save` reads its file   *)
(* back, set-password has applied already, and the start goes on with the  *)
(* copy it took.                                                           *)
Saved(c) ==
    /\ Release(c)
    /\ CASE cmd[c].verb = "set"      -> GoOn(c, "applying")
         [] cmd[c].verb = "save"     -> GoOn(c, "reloading")
         [] cmd[c].verb = "password" -> Finish(c)
         [] cmd[c].verb = "start"    -> Converges(c, cmd[c].cfg.key)

(* A start that cannot save ends the process, which is started again.      *)
NotSaved(c) ==
    /\ Mishap
    /\ Release(c)
    /\ cmd' = [cmd EXCEPT ![c] = IF c = Main THEN Starting ELSE Idle]

SaveInPlace(c) ==   \* mutant: the file is truncated and written again
    /\ At(c, "saving")
    /\ file' = Torn /\ Go(c, "rewriting") /\ UNCHANGED mu /\ Calm
    /\ UNCHANGED <<mem, uci>> /\ Fixed

(* A temporary file is renamed over the old one; where that cannot be, the *)
(* old one is truncated and written in place.                              *)
SaveConfig(c) ==
    /\ At(c, "saving")
    /\ \/ ~mounted /\ file' = Whole(cmd[c].cfg) /\ Saved(c) /\ Calm
       \/ mounted /\ file' = Torn /\ Go(c, "rewriting") /\ UNCHANGED mu /\ Calm
       \/ NotSaved(c) /\ UNCHANGED file
    /\ UNCHANGED <<mem, uci>> /\ Fixed

WriteConfigInPlaceDurably(c) ==
    /\ At(c, "rewriting")
    /\ \/ file' = Whole(cmd[c].cfg) /\ Saved(c) /\ Calm
       \/ NotSaved(c) /\ UNCHANGED file
    /\ UNCHANGED <<mem, uci>> /\ Fixed

----------------------------------------------------------------------------
(* The start.  A file that cannot be parsed, or is of another version, is  *)
(* first moved to the backups.                                             *)

BackupAndLog == IF mounted THEN file' = file ELSE file' = Missing

MigrateConfig(config) == [config EXCEPT !.version = Defaults.version]

SavesAtStart(config) ==
    /\ mem' = config
    /\ cmd' = [cmd EXCEPT ![Main].at = "saving", ![Main].cfg = config]

EnsureDefaultConfig ==
    /\ At(Main, "starting")
    /\ \/ file.is = "missing" /\ SavesAtStart(Defaults) /\ UNCHANGED file
       \/ file.is = "torn" /\ ~mounted /\ BackupAndLog /\ SavesAtStart(Defaults)
       \/ /\ file.is = "whole" /\ file.cfg.version # Defaults.version
          /\ BackupAndLog
          /\ SavesAtStart(MigrateConfig(file.cfg))
       \/ /\ file.is = "whole" /\ file.cfg.version = Defaults.version
          /\ mem' = file.cfg
          /\ Converges(Main, file.cfg.key)
          /\ UNCHANGED file
    /\ UNCHANGED <<mu, uci>> /\ Calm /\ Fixed

(* A torn file that cannot be moved away ends every start.                 *)
StartFails ==
    /\ At(Main, "starting") /\ file.is = "torn" /\ mounted
    /\ UNCHANGED settings

(* The CLI server is up before main applies the settings the start read.   *)
Serving == cmd[Main].at \notin {"starting", "saving", "rewriting"} \/ cmd[Main].verb # "start"

----------------------------------------------------------------------------
(* The commands.                                                           *)

Begin(c, record) ==
    /\ c \in Shells /\ At(c, "idle") /\ Serving
    /\ Cardinality({d \in Goroutines : ~At(d, "idle")}) < MaxBusy
    /\ cmd' = [cmd EXCEPT ![c] = record]
    /\ LET others == {d \in Goroutines \ {c} : ~At(d, "idle")}
       IN  upset' = upset \cup (IF others = {} THEN {} ELSE {"overlap"})
                          \cup (IF others # {} /\ "save" \in {record.verb} \cup
                                                   {cmd[d].verb : d \in others}
                                THEN {"save"} ELSE {})
    /\ UNCHANGED <<file, mem, mu, uci, mishaps>> /\ Fixed

(* The schema bounds what one key may be set to; empty is allowed.         *)
Acceptable(key) == key # Short

HandleConfigSet(c, key) ==
    Acceptable(key) /\ Begin(c, [Idle EXCEPT !.at = "locking", !.verb = "set", !.key = key])

HandlePrivateNetworkSetPassword(c, key) ==
    key \in Keys /\ Begin(c, [Idle EXCEPT !.at = "writing", !.verb = "password", !.key = key])

(* It is meant for a file edited by hand, and applies what memory says.    *)
HandleConfigApply(c) == Begin(c, [Idle EXCEPT !.at = "applying", !.verb = "apply"])

(* `config get` blanks the passphrase, so blank means unchanged.           *)
Preserved(key) == IF key = Blank THEN mem.key ELSE key

HandleConfigSave(c, key) ==
    /\ mu = Nobody
    /\ Begin(c, [Idle EXCEPT !.at = "saving", !.verb = "save",
                    !.cfg = [key |-> Preserved(key), mints |-> "own", version |-> "this"]])

SetFieldReflect(key) == [mem EXCEPT !.key = key]

SetDotPathUnlocked(c) ==   \* mutant: the lock is dropped before the file is written
    /\ At(c, "locking") /\ mu = Nobody
    /\ mem' = SetFieldReflect(cmd[c].key)
    /\ cmd' = [cmd EXCEPT ![c].at = "saving", ![c].cfg = mem']
    /\ UNCHANGED <<file, mu, uci>> /\ Calm /\ Fixed

(* Memory is changed first, and stays changed when the save fails.         *)
SetDotPath(c) ==
    /\ At(c, "locking") /\ mu = Nobody
    /\ mu' = c
    /\ mem' = SetFieldReflect(cmd[c].key)
    /\ cmd' = [cmd EXCEPT ![c].at = "saving", ![c].cfg = mem']
    /\ UNCHANGED <<file, uci>> /\ Calm /\ Fixed

LoadConfig(c) ==
    /\ At(c, "reloading")
    /\ IF file.is = "whole"
       THEN cmd' = [cmd EXCEPT ![c].at = "loaded", ![c].cfg = file.cfg]
       ELSE Finish(c)
    /\ UNCHANGED <<file, mem, mu, uci>> /\ Calm /\ Fixed

ReloadConfig(c) ==
    /\ At(c, "loaded") /\ mu = Nobody
    /\ mem' = cmd[c].cfg
    /\ GoOn(c, "applying")
    /\ UNCHANGED <<file, mu, uci>> /\ Calm /\ Fixed

----------------------------------------------------------------------------
(* The radios.                                                             *)

(* Empty is not an instruction, and what the radios would refuse is        *)
(* reported and left.                                                      *)
Credential(key) == key \in Keys

ApplyPrivateNetworkCredentials(c, key) ==
    IF Credential(key)
    THEN cmd' = [cmd EXCEPT ![c] = [Idle EXCEPT !.at = "writing", !.verb = cmd[c].verb, !.key = key]]
    ELSE Finish(c)

(* A command applies what memory says now, the start what it read then.    *)
ApplyOperatorSettings(c) ==
    /\ \/ At(c, "applying") /\ mu = Nobody /\ ApplyPrivateNetworkCredentials(c, mem.key)
       \/ At(c, "converging") /\ ApplyPrivateNetworkCredentials(c, cmd[c].key)
    /\ UNCHANGED <<file, mem, mu, uci>> /\ Calm /\ Fixed

(* One radio after the other, those that differ; the first failure ends    *)
(* the command and leaves the radios before it staged.                     *)
SetPrivateRadioOption(c) ==
    /\ At(c, "writing") /\ cmd[c].radio <= LastRadio
    /\ \/ /\ staged[cmd[c].radio] = cmd[c].key
          /\ cmd' = [cmd EXCEPT ![c].radio = @ + 1]
          /\ UNCHANGED staged /\ Calm
       \/ /\ staged[cmd[c].radio] # cmd[c].key
          /\ \/ /\ staged' = [staged EXCEPT ![cmd[c].radio] = cmd[c].key]
                /\ cmd' = [cmd EXCEPT ![c].radio = @ + 1, ![c].wrote = TRUE]
                /\ Calm
             \/ Mishap /\ Finish(c) /\ UNCHANGED staged
    /\ UNCHANGED <<file, mem, mu, committed, served>> /\ Fixed

Recorded(c) == IF cmd[c].verb = "password" THEN Go(c, "locking") ELSE Finish(c)

NeverRecorded(c) == Finish(c)   \* mutant: set-password leaves config.json alone

(* What a command put on the radios goes into config.json, or the next     *)
(* apply would take it back.                                               *)
RecordPrivateSetting(c) == Recorded(c)

CommitUCI(c) ==
    /\ At(c, "writing") /\ cmd[c].radio > LastRadio
    /\ IF ~cmd[c].wrote THEN RecordPrivateSetting(c) /\ UNCHANGED committed /\ Calm
       ELSE \/ committed' = staged /\ Go(c, "radios") /\ Calm
            \/ Mishap /\ Finish(c) /\ UNCHANGED committed
    /\ UNCHANGED <<file, mem, mu, staged, served>> /\ Fixed

ReloadWireless(c) ==
    /\ At(c, "radios")
    /\ \/ served' = committed /\ RecordPrivateSetting(c) /\ Calm
       \/ Mishap /\ Finish(c) /\ UNCHANGED served
    /\ UNCHANGED <<file, mem, mu, staged, committed>> /\ Fixed

(* The upstream manager commits the same wireless package, and reloads all *)
(* of it or one radio.                                                     *)
ConnectorCommits ==
    /\ Serving
    /\ staged # committed /\ committed' = staged
    /\ UNCHANGED <<file, mem, mu, cmd, staged, served>> /\ Calm /\ Fixed

ConnectorReloads ==
    /\ Serving
    /\ committed # served
    /\ \E some \in SUBSET Radios :
          served' = [r \in Radios |-> IF r \in some THEN committed[r] ELSE served[r]]
    /\ UNCHANGED <<file, mem, mu, cmd, staged, committed>> /\ Calm /\ Fixed

----------------------------------------------------------------------------
(* The operator edits config.json by hand: a whole file with another       *)
(* passphrase.                                                             *)
EditConfig(key) ==
    /\ file.is = "whole"
    /\ file' = Whole([file.cfg EXCEPT !.key = key])
    /\ mishaps < MaxMishaps
    /\ mishaps' = mishaps + 1
    /\ upset' = upset \cup {"edit"}
    /\ UNCHANGED <<mem, mu, cmd, uci>> /\ Fixed

----------------------------------------------------------------------------
(* The process ends and procd starts it again; or the power does, and what *)
(* was staged with it.                                                     *)

Stop ==
    /\ stops < MaxStops
    /\ stops' = stops + 1
    /\ mem' = Defaults
    /\ mu' = Nobody
    /\ cmd' = [c \in Goroutines |-> IF c = Main THEN Starting ELSE Idle]
    /\ UNCHANGED <<file, mounted, upgraded, committed, mishaps>>

Respawn == Stop /\ upset' = upset \cup {"respawn"} /\ UNCHANGED <<staged, served>>

Reboot == Stop /\ upset' = {} /\ staged' = committed /\ served' = committed

----------------------------------------------------------------------------

Commanded(c) ==
    \/ \E key \in Keys \cup {Blank, Short} : HandleConfigSet(c, key) \/ HandleConfigSave(c, key)
    \/ \E key \in Keys : HandlePrivateNetworkSetPassword(c, key)
    \/ HandleConfigApply(c)

Proceeds(c) ==
    \/ SaveConfig(c) \/ WriteConfigInPlaceDurably(c) \/ SetDotPath(c)
    \/ LoadConfig(c) \/ ReloadConfig(c)
    \/ ApplyOperatorSettings(c) \/ SetPrivateRadioOption(c) \/ CommitUCI(c) \/ ReloadWireless(c)

SettingsNext ==
    \/ EnsureDefaultConfig
    \/ StartFails
    \/ \E c \in Shells : Commanded(c)
    \/ \E c \in Goroutines : Proceeds(c)
    \/ ConnectorCommits
    \/ ConnectorReloads
    \/ \E key \in Keys \cup {Blank, Short} : EditConfig(key)
    \/ Respawn
    \/ Reboot

SettingsSpec == SettingsInit /\ [][SettingsNext]_settings

----------------------------------------------------------------------------
(* Properties.                                                             *)

Quiet == \A c \in Goroutines : At(c, "idle")

(* With no command under way the radios serve the passphrase config.json   *)
(* declares, wherever the power was lost before and whoever had edited the *)
(* file, as long as since then commands came one at a time, none failed    *)
(* half way, the file was not edited and the process was not killed        *)
(* (operator_settings.go:17, network.go:224).                              *)
RadiosMatchFile ==
    Quiet /\ upset = {} /\ Credential(file.cfg.key) =>
        \A r \in Radios : served[r] = file.cfg.key

(* Commands that set one key, overlapping each other, the start and any    *)
(* crash, leave memory and file agreed, so none is lost to the next save   *)
(* (config_dotpath.go:29).  Only `config save`, and an edit by hand, write *)
(* outside the lock.                                                       *)
SettersAgree ==
    Quiet /\ upset \cap {"save", "mishap", "edit"} = {} => file = Whole(mem)

(* No end of the process or of the power, and no failed write, brings the  *)
(* factory's mints back (config_manager_config.go:234), unless the file    *)
(* was to be migrated or cannot be renamed over.                           *)
ConfigSurvives ==
    Serving /\ mem.mints = "factory" => upgraded \/ mounted
----------------------------------------------------------------------------
(* What the properties rest on, as an inductive invariant.                 *)

Passphrases == Keys \cup {Blank, Short}
Configs == [key : Passphrases, mints : {"own", "factory"}, version : {"this", "older"}]
Places == {"idle", "starting", "saving", "rewriting", "converging", "locking",
           "applying", "reloading", "loaded", "writing", "radios"}
Verbs == {"none", "start", "set", "save", "password", "apply"}
Commands == [at : Places, verb : Verbs, key : Passphrases, cfg : Configs,
             radio : Nat, wrote : BOOLEAN]

SettingsType ==
    /\ file \in [is : {"whole", "torn", "missing"}, cfg : Configs]
    /\ mounted \in BOOLEAN /\ upgraded \in BOOLEAN
    /\ mem \in Configs
    /\ mu \in Goroutines \cup {Nobody}
    /\ cmd \in [Goroutines -> Commands]
    /\ {staged, committed, served} \subseteq [Radios -> Passphrases]

InFile(c) == cmd[c].at \in {"saving", "rewriting"}
InReload(c) == cmd[c].at \in {"reloading", "loaded"}
SetsOne(c) == cmd[c].verb \in {"set", "password"}
AtRadios(c) == cmd[c].at \in {"writing", "radios"}

(* Which command is where.                                                 *)
CommandsInPlace ==
    \A c \in Goroutines :
        /\ cmd[c].verb = "none" <=> At(c, "idle")
        /\ cmd[c].verb = "start" => c = Main
        /\ c = Main => cmd[c].verb \in {"start", "none"}
        /\ At(c, "starting") => cmd[c].verb = "start"
        /\ At(c, "locking") => SetsOne(c)
        /\ InFile(c) => cmd[c].verb # "apply"
        /\ InReload(c) => cmd[c].verb = "save"
        /\ cmd[c].verb = "password" => InFile(c) \/ AtRadios(c) \/ At(c, "locking")

(* The lock is held over the write of a setter and nowhere else; nothing   *)
(* is served before the start has read or written the file.                *)
LockHeld ==
    /\ \A c \in Goroutines : mu = c <=> InFile(c) /\ SetsOne(c)
    /\ ~Serving => \A c \in Shells : At(c, "idle")

(* What a setter or the start writes is what memory says.                  *)
WritesMemory ==
    \A c \in Goroutines : InFile(c) /\ cmd[c].verb # "save" => cmd[c].cfg = mem

(* The operator's own configuration, of this version.                      *)
Own(config) == config.mints = "own" /\ config.version = "this"

OwnIsKept ==
    upgraded \/ mounted
    \/ /\ file.is = "whole" /\ Own(file.cfg)
       /\ \A c \in Goroutines : InFile(c) \/ At(c, "loaded") => Own(cmd[c].cfg)
       /\ Own(mem) \/ At(Main, "starting")

(* A `config save` under way is alone; with nobody at the file it is what  *)
(* memory says.                                                            *)
FileFollows ==
    upset \cap {"save", "mishap", "edit"} = {} =>
        /\ \A c, d \in Goroutines : cmd[c].verb = "save" /\ d # c => At(d, "idle")
        /\ \A c \in Goroutines : InReload(c) => file.is = "whole"
        /\ \A c \in Goroutines : At(c, "loaded") => cmd[c].cfg = file.cfg
        /\ (\A c \in Goroutines : ~InFile(c) /\ ~InReload(c) /\ ~At(c, "starting")) =>
               file = Whole(mem)

(* Commands one at a time: UCI's three copies differ only between the      *)
(* first radio staged and the reload, and what a command stages is what    *)
(* the file declares or, for set-password, what it will.                   *)
OneAtATime == \A c, d \in Goroutines : ~At(c, "idle") /\ ~At(d, "idle") => c = d
InStep ==
    \/ \E c \in Goroutines : AtRadios(c) /\ (cmd[c].wrote \/ At(c, "radios"))
    \/ staged = committed /\ committed = served
StagedSoFar ==
    \A c \in Goroutines : At(c, "writing") =>
        \A r \in Radios : r < cmd[c].radio => staged[r] = cmd[c].key
StagedAll ==
    \A c \in Goroutines : At(c, "radios") =>
        committed = staged /\ \A r \in Radios : staged[r] = cmd[c].key
StagesFile ==
    \A c \in Goroutines :
        At(c, "converging") \/ (AtRadios(c) /\ cmd[c].verb # "password") =>
            cmd[c].key = file.cfg.key
ServedBefore ==
    \A c \in Goroutines : cmd[c].verb = "password" =>
        \A r \in Radios : /\ At(c, "locking") => served[r] = cmd[c].key
                          /\ InFile(c) => served[r] = cmd[c].cfg.key

RadiosFollow ==
    upset = {} =>
        /\ OneAtATime /\ InStep /\ StagedSoFar /\ StagedAll /\ StagesFile /\ ServedBefore
        /\ RadiosMatchFile

SettingsInv ==
    /\ SettingsType /\ CommandsInPlace /\ LockHeld /\ WritesMemory
    /\ OwnIsKept /\ FileFollows /\ RadiosFollow
=============================================================================
