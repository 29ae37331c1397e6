---------------------------- MODULE RuntimeConfig ----------------------------
(***************************************************************************)
(* runtime_config.json: the dashboard's ConfigManager                      *)
(* (kalshi_trader/ui/config_manager.py), which keeps the values in memory  *)
(* and writes them all when it changes one; scripts/update_config.py,      *)
(* which reads the file, changes one key and writes it; and the pipeline   *)
(* programs, each with a ConfigManager of its own.  Nothing locks the      *)
(* file, write_text empties it before it writes, and no program calls      *)
(* reload().                                                               *)
(*                                                                         *)
(* A value is a number; ValidRange is what validate_and_update accepts.    *)
(***************************************************************************)
EXTENDS Naturals

CONSTANTS
  CfgKeys,      \* the keys of DEFAULTS
  CfgValues, ValidRange,
  Default,      \* the default of every key
  Commands,     \* bound: runs of update_config.py
  Unset         \* no value: a key the file does not have

ASSUME ConfigAssumption ==
  /\ Default \in ValidRange
  /\ ValidRange \subseteq CfgValues
  /\ Unset \notin CfgValues

VARIABLES
  file,         \* [CfgKeys -> values]: what is in the file
  fileIs,       \* "absent", "whole" or "empty" (write_text has begun)
  memory,       \* [CfgKeys -> CfgValues]: the server's _values
  serverAt,     \* "down", "idle", "saving"
  cmdAt,        \* [Commands -> CmdStep]
  cmdRead,      \* [Commands -> [CfgKeys -> values]]: what it will write
  setByHand,    \* history: keys a command has set to something out of range
  foreign       \* history: something else has written since the server last
                \* loaded or saved, or a write of its own was cut short

configVars == <<file, fileIs, memory, serverAt, cmdAt, cmdRead, setByHand, foreign>>

CmdStep == {"idle", "read", "writing", "over"}

Contents == [CfgKeys -> CfgValues \cup {Unset}]
Defaults == [k \in CfgKeys |-> Default]
Nothing  == [k \in CfgKeys |-> Unset]

ConfigTypeOK ==
  /\ file \in Contents
  /\ fileIs \in {"absent", "whole", "empty"}
  /\ memory \in [CfgKeys -> CfgValues]
  /\ serverAt \in {"down", "idle", "saving"}
  /\ cmdAt \in [Commands -> CmdStep]
  /\ cmdRead \in [Commands -> Contents]
  /\ setByHand \subseteq CfgKeys
  /\ foreign \in BOOLEAN

ConfigInit ==
  /\ file = Nothing /\ fileIs = "absent"
  /\ memory = Defaults /\ serverAt = "down"
  /\ cmdAt = [c \in Commands |-> "idle"]
  /\ cmdRead = [c \in Commands |-> Nothing]
  /\ setByHand = {} /\ foreign = FALSE

---------------------------------------------------------------------------
(* ConfigManager.                                                          *)

\* Defaults overlaid with what the file has; an empty file is malformed.
Merged == [k \in CfgKeys |->
             IF fileIs = "whole" /\ file[k] # Unset THEN file[k] ELSE Default]

(* The server starts: _load, or _save of the defaults where there is no    *)
(* file.  A malformed file gives the defaults and stays as it is.          *)
ServerStart ==
  /\ serverAt = "down"
  /\ memory' = Merged
  /\ serverAt' = IF fileIs = "absent" THEN "saving" ELSE "idle"
  /\ fileIs' = IF fileIs = "absent" THEN "empty" ELSE fileIs
  /\ foreign' = (fileIs # "whole")
  /\ UNCHANGED <<file, cmdAt, cmdRead, setByHand>>

Acceptable(updates) == \A k \in CfgKeys : updates[k] = Unset \/ updates[k] \in ValidRange

\* Mutant: the ranges are not looked at.
BugPostConfig(updates) ==
  /\ serverAt = "idle"
  /\ updates # Nothing
  /\ memory' = [k \in CfgKeys |-> IF updates[k] = Unset THEN memory[k] ELSE updates[k]]
  /\ serverAt' = "saving"
  /\ fileIs' = "empty"
  /\ UNCHANGED <<file, cmdAt, cmdRead, setByHand, foreign>>

(* validate_and_update: one bad value refuses all of them, and nothing is  *)
(* read again before everything is written.                                *)
PostConfig(updates) ==
  /\ serverAt = "idle"
  /\ updates # Nothing
  /\ Acceptable(updates)
  /\ memory' = [k \in CfgKeys |-> IF updates[k] = Unset THEN memory[k] ELSE updates[k]]
  /\ serverAt' = "saving"
  /\ fileIs' = "empty"
  /\ UNCHANGED <<file, cmdAt, cmdRead, setByHand, foreign>>

\* Mutant: what is written is what the file had, with nothing of the update.
BugServerSaved ==
  /\ serverAt = "saving"
  /\ UNCHANGED file /\ fileIs' = "whole"
  /\ serverAt' = "idle"
  /\ foreign' = \E c \in Commands : cmdAt[c] = "writing"
  /\ UNCHANGED <<memory, cmdAt, cmdRead, setByHand>>

(* The rest of write_text.  A command in the middle of its own write will  *)
(* still write over it.                                                    *)
ServerSaved ==
  /\ serverAt = "saving"
  /\ file' = memory /\ fileIs' = "whole"
  /\ serverAt' = "idle"
  /\ foreign' = \E c \in Commands : cmdAt[c] = "writing"
  /\ UNCHANGED <<memory, cmdAt, cmdRead, setByHand>>

ServerDies ==
  /\ serverAt # "down"
  /\ serverAt' = "down"
  /\ foreign' = (foreign \/ serverAt = "saving")
  /\ UNCHANGED <<file, fileIs, memory, cmdAt, cmdRead, setByHand>>

(* A pipeline program imports cfg where there is no file: it writes the    *)
(* defaults.  With a file, it only reads.                                  *)
PipelineCreates ==
  /\ fileIs = "absent"
  /\ file' = Defaults /\ fileIs' = "whole"
  /\ foreign' = TRUE
  /\ UNCHANGED <<memory, serverAt, cmdAt, cmdRead, setByHand>>

---------------------------------------------------------------------------
(* scripts/update_config.py: no validation.  A file that is empty raises.  *)

CommandRead(c, key, value) ==
  /\ cmdAt[c] = "idle"
  /\ fileIs # "empty"
  /\ cmdAt' = [cmdAt EXCEPT ![c] = "read"]
  /\ cmdRead' = [cmdRead EXCEPT ![c] =
       [k \in CfgKeys |-> IF k = key THEN value
                          ELSE IF fileIs = "whole" THEN file[k] ELSE Unset]]
  /\ setByHand' = IF value \in ValidRange THEN setByHand ELSE setByHand \cup {key}
  /\ UNCHANGED <<file, fileIs, memory, serverAt, foreign>>

CommandTruncates(c) ==
  /\ cmdAt[c] = "read"
  /\ cmdAt' = [cmdAt EXCEPT ![c] = "writing"]
  /\ fileIs' = "empty"
  /\ foreign' = TRUE
  /\ UNCHANGED <<file, memory, serverAt, cmdRead, setByHand>>

CommandWrites(c) ==
  /\ cmdAt[c] = "writing"
  /\ cmdAt' = [cmdAt EXCEPT ![c] = "over"]
  /\ file' = cmdRead[c] /\ fileIs' = "whole"
  /\ foreign' = TRUE
  /\ UNCHANGED <<memory, serverAt, cmdRead, setByHand>>

CommandDies(c) ==
  /\ cmdAt[c] \in {"idle", "read", "writing"}
  /\ cmdAt' = [cmdAt EXCEPT ![c] = "over"]
  /\ UNCHANGED <<file, fileIs, memory, serverAt, cmdRead, setByHand, foreign>>

---------------------------------------------------------------------------

ConfigNext ==
  \/ ServerStart
  \/ \E updates \in Contents : PostConfig(updates)
  \/ ServerSaved
  \/ ServerDies
  \/ PipelineCreates
  \/ \E c \in Commands, k \in CfgKeys, v \in CfgValues : CommandRead(c, k, v)
  \/ \E c \in Commands : CommandTruncates(c)
  \/ \E c \in Commands : CommandWrites(c)
  \/ \E c \in Commands : CommandDies(c)

ConfigSpec == ConfigInit /\ [][ConfigNext]_configVars

---------------------------------------------------------------------------

(* A value outside the range validate_and_update enforces, in the file or  *)
(* in the server's memory, was put there by update_config.py under that    *)
(* key: the server loads it without a look and keeps it through every      *)
(* update of other keys, but never lets one in itself.                     *)
OutOfRangeIsByHand ==
  \A k \in CfgKeys :
    memory[k] \notin ValidRange \/ file[k] \notin ValidRange \cup {Unset} => k \in setByHand

(* What the server shows and what the file says are the same unless        *)
(* something else has written since the server loaded or saved, or a write *)
(* was cut short: there is no other way for the two to drift apart.        *)
MemoryMatchesFile ==
  serverAt = "idle" /\ ~foreign => fileIs = "whole" /\ Merged = memory

(* The settings of the desk: what is out of range was put there by hand,   *)
(* and the server's copy is the file's until someone else writes.          *)
SettingsAreSound == OutOfRangeIsByHand /\ MemoryMatchesFile
=============================================================================
