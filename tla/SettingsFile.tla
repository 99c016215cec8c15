----------------------------- MODULE SettingsFile -----------------------------
(***************************************************************************)
(* What ConfigManager promises of settings.json: one configuration in      *)
(* memory and one file that changes all at once.  The program puts the     *)
(* configuration it holds into the file, or the file is gone, and nothing  *)
(* it does half-way can be seen, a crash included; only a disk that fills  *)
(* up leaves a broken file.  Everybody else may do to the file what they   *)
(* like.                                                                   *)
(***************************************************************************)
EXTENDS Naturals

CONSTANTS
  Configs,      \* configurations
  Default,      \* Config { }
  NoFile,       \* there is no settings.json
  Broken,       \* it does not parse: cut short, empty or mistyped
  DiskCanFill   \* whether the disk may fill up

VARIABLES
  settings,     \* settings.json
  config,       \* m_Config
  alive,        \* the program has loaded its configuration and runs
  edits         \* number of times somebody else has changed the file

fileVars == <<settings, config, alive, edits>>

Contents == Configs \cup {NoFile, Broken}

(* What loading a file gives. *)
Parsed(content) == IF content \in Configs THEN content ELSE Default

FileInit ==
  /\ settings \in Contents
  /\ config = Default
  /\ alive = FALSE
  /\ edits = 0

Saved ==
  /\ settings' = config
  /\ UNCHANGED <<config, alive, edits>>

Lost ==
  /\ settings' = NoFile
  /\ UNCHANGED <<config, alive, edits>>

CutShort ==
  /\ DiskCanFill
  /\ settings' = Broken
  /\ UNCHANGED <<config, alive, edits>>

(* A menu, a reload or the worker changes the configuration in memory. *)
Held ==
  /\ alive
  /\ config' \in Configs
  /\ UNCHANGED <<settings, alive, edits>>

ByOthers ==
  /\ settings' \in Contents
  /\ edits' = edits + 1
  /\ UNCHANGED <<config, alive>>

Started ==
  /\ ~alive
  /\ alive' = TRUE
  /\ config' = Parsed(settings)
  /\ UNCHANGED <<settings, edits>>

Stopped ==
  /\ alive
  /\ alive' = FALSE
  /\ UNCHANGED <<settings, config, edits>>

FileNext ==
  Saved \/ Lost \/ CutShort \/ Held \/ ByOthers \/ Started \/ Stopped

FileSpec == FileInit /\ [][FileNext]_fileVars
=============================================================================
