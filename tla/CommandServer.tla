--------------------------- MODULE CommandServer ---------------------------
(***************************************************************************)
(* The CLI server (src/src/cli/server.go): a Unix socket, a goroutine for  *)
(* each connection, and a dispatch on the command's name.  It composes the *)
(* wallet's commands (Operator) with those on the configuration and the    *)
(* private network (Settings).                                             *)
(*                                                                         *)
(* The two meet in nothing but the process they run in: no command of one  *)
(* reads or writes what the other's do.  So a behaviour exercises one of   *)
(* them, and the other stays as it was: that is the bound `focus`.         *)
(***************************************************************************)
EXTENDS Operator, Settings

CONSTANT Work       \* bound: the commands to exercise, of "wallet" and "settings"

VARIABLE focus      \* bound: which of them this behaviour exercises

serverVars == <<focus, vars, settings>>

ServerInit ==
    /\ focus \in Work
    /\ Init
    /\ SettingsInit
    /\ focus = "settings" => backend = "gonuts"
    /\ focus = "wallet" => ~mounted /\ ~upgraded /\ file.cfg.key = Blank

(* The settings, or the wallet, are as they were.                           *)
WalletTurn == UNCHANGED <<focus, settings>>
SettingsTurn == UNCHANGED <<focus, vars>>

(* handleConnection and processCommand, with what else the process does.   *)
ServerNext ==
    \/ \E c \in Connections : focus = "wallet" /\ Command(c) /\ WalletTurn
    \/ \E m \in AcceptedMints : focus = "wallet" /\ Payout(m) /\ WalletTurn
    \/ focus = "wallet" /\ CreatePaymentToken /\ WalletTurn
    \/ \E c \in Callers : focus = "wallet" /\ Carry(c) /\ WalletTurn
    \/ focus = "wallet" /\ Late /\ WalletTurn
    \/ focus = "wallet" /\ Crash /\ WalletTurn
    \/ focus = "settings" /\ EnsureDefaultConfig /\ SettingsTurn
    \/ focus = "settings" /\ StartFails /\ SettingsTurn
    \/ \E c \in Shells : focus = "settings" /\ Commanded(c) /\ SettingsTurn
    \/ \E c \in Goroutines : focus = "settings" /\ Proceeds(c) /\ SettingsTurn
    \/ focus = "settings" /\ ConnectorCommits /\ SettingsTurn
    \/ focus = "settings" /\ ConnectorReloads /\ SettingsTurn
    \/ \E key \in Keys \cup {Blank, Short} :
          focus = "settings" /\ EditConfig(key) /\ SettingsTurn
    \/ focus = "settings" /\ Respawn /\ SettingsTurn
    \/ focus = "settings" /\ Reboot /\ SettingsTurn

ServerSpec == ServerInit /\ [][ServerNext]_serverVars
=============================================================================
