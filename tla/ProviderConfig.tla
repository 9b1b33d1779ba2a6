--------------------------- MODULE ProviderConfig ---------------------------
(***************************************************************************)
(* The configuration file of the Hermes plugin: it is saved by the         *)
(* plugin's save_config (hermes_plugin/provider.py) and switched between   *)
(* postures by the plugin enable-daily and disable-daily commands          *)
(* (cli.py).  Both replace the file as a whole under one lock file, which  *)
(* a process that dies gives up.                                           *)
(*                                                                         *)
(* A configuration maps the keys it has to their values.  The checks of    *)
(* owner, type and mode of the files are left out: a file that fails them  *)
(* stops every writer before it writes.                                    *)
(***************************************************************************)
CONSTANTS
  Savers, NoSaver,
  Keys,
  Saves,        \* what save_config is called with
  Postures      \* what the commands switch to

ASSUME NoSaverAssumption == NoSaver \notin Savers
ASSUME KeysAssumption == \A values \in Saves \cup Postures : DOMAIN values \subseteq Keys

VARIABLES
  config,       \* the file; without a file there are no keys
  lock,         \* who holds the lock file
  saver,        \* what each writer is doing
  settings      \* history: what was saved last for each key

configVars == <<config, lock, saver, settings>>

Idle == [phase |-> "idle"]

ConfigTypeOK ==
  /\ DOMAIN config \subseteq Keys /\ DOMAIN settings \subseteq Keys
  /\ lock \in Savers \cup {NoSaver}
  /\ \A c \in Savers : saver[c].phase \in {"idle", "read", "locked", "replaced"}

NoKeys == [k \in {} |-> {}]

ConfigInit ==
  /\ config = NoKeys
  /\ lock = NoSaver
  /\ saver = [c \in Savers |-> Idle]
  /\ settings = NoKeys

\* dict.update
Merge(old, new) ==
  [k \in DOMAIN old \cup DOMAIN new |-> IF k \in DOMAIN new THEN new[k] ELSE old[k]]

At(c, phase, kind, values) ==
  saver' = [saver EXCEPT ![c] = [phase |-> phase, kind |-> kind, values |-> values,
                                 next |-> Merge(config, values)]]

\* Mutant: a save is written without the lock.
SaveUnlocked(c, values) ==
  /\ saver[c] = Idle
  /\ At(c, "locked", "save", values)
  /\ UNCHANGED <<config, lock, settings>>

\* Mutant: a save reads what it adds to before it locks.
SaveReadsFirst(c, values) ==
  /\ saver[c] = Idle
  /\ At(c, "read", "save", values)
  /\ UNCHANGED <<config, lock, settings>>

\* save_config reads what it adds to under the lock.
SaveLocks(c, values) ==
  /\ saver[c] = Idle
  /\ lock = NoSaver
  /\ lock' = c
  /\ At(c, "locked", "save", values)
  /\ UNCHANGED <<config, settings>>

\* A switch of posture reads before it locks.
SwitchReads(c, values) ==
  /\ saver[c] = Idle
  /\ At(c, "read", "switch", values)
  /\ UNCHANGED <<config, lock, settings>>

SwitchLocks(c) ==
  /\ saver[c].phase = "read"
  /\ lock = NoSaver
  /\ lock' = c
  /\ saver' = [saver EXCEPT ![c].phase = "locked"]
  /\ UNCHANGED <<config, settings>>

ReplaceConfig(c) ==
  /\ saver[c].phase = "locked"
  /\ config' = saver[c].next
  /\ settings' = Merge(settings, saver[c].values)
  /\ saver' = [saver EXCEPT ![c].phase = "replaced"]
  /\ UNCHANGED lock

\* save_config reads the file back before it lets go of the lock, and a switch
\* only lets go; a writer that dies does so too.
Release(c) ==
  /\ saver[c] # Idle
  /\ saver' = [saver EXCEPT ![c] = Idle]
  /\ lock' = IF lock = c THEN NoSaver ELSE lock
  /\ UNCHANGED <<config, settings>>

----------------------------------------------------------------------------
(* Properties *)

\* Whoever has replaced the file finds in it what it wrote when it reads it
\* back: no other writer, of either kind, comes between its replacement and the
\* release of its lock (save_config, config_readback_mismatch).
ReadsBackItsWrite ==
  \A c \in Savers : saver[c].phase = "replaced" => config = saver[c].next

\* A save of the plugin loses no setting: if every key of the file has the value
\* saved for it last, so it does after the save, whatever the other writers are
\* in the middle of (save_config).  A switch, which reads before it locks, can
\* undo what was saved in between.
SavesKeepSettings ==
  [][ \A c \in Savers :
        /\ config = settings
        /\ saver[c].phase = "locked" /\ saver[c].kind = "save" /\ saver'[c].phase = "replaced"
        => config' = settings' ]_configVars
=============================================================================
