---------------------------------- MODULE Settings ----------------------------------
(***************************************************************************)
(* The settings of a process (src/particles/config.py): which file they    *)
(* are read from, how deprecated keys and environment overrides are laid   *)
(* over it, what is kept once they are loaded, and where paths relative to *)
(* them lead.                                                              *)
(*                                                                         *)
(* A file is a record of sections; a section is a table of keys, or Null   *)
(* when it is written with nothing under it.  A setting's value is a small *)
(* number or a table of them.  The disk, the environment and the working   *)
(* directory may change between any two calls.                             *)
(***************************************************************************)
EXTENDS Naturals, Sequences, FiniteSets, Functions, SequencesExt

CONSTANTS
    Files,      \* what a configuration file may say
    Moves,      \* the renamed keys, in the order they are migrated
    Override,   \* <<section, key>> an environment variable stands for
    Values,     \* what that variable may hold
    Places      \* working directories: what each and its ancestors hold, nearest first

\* A renamed key has a new one of its own, none is renamed twice or overridden by its old
\* name; and no key is the mark of a section with nothing under it.
ASSUME SettingsAssumption ==
    /\ Moves \in Seq([from : STRING \X STRING, to : STRING \X STRING, table : BOOLEAN])
    /\ \A i, j \in DOMAIN Moves :
          /\ Moves[i].from # Moves[j].to
          /\ i # j => Moves[i].from # Moves[j].from /\ Moves[i].to # Moves[j].to
    /\ Override \in STRING \X STRING /\ \A i \in DOMAIN Moves : Moves[i].from # Override
    /\ Override[2] # "null" /\ \A i \in DOMAIN Moves : Moves[i].to[2] # "null"
    /\ \A f \in Files : \A s \in DOMAIN f.raw :
          f.raw[s] # [null |-> TRUE] => "null" \notin DOMAIN f.raw[s]

VARIABLES
    pinned,     \* the file PARTICLES_CONFIG names, or Missing
    user,       \* the user file, or Missing
    pin,        \* PARTICLES_CONFIG: "unset", "absolute" or "relative"
    override,   \* the overriding variable's value, or Unset
    around,     \* the working directory and its ancestors
    config,     \* the settings in force, or NotLoaded
    warned      \* resolution warnings given

svars == <<pinned, user, pin, override, around, config, warned>>

Null == [null |-> TRUE]
Missing == [missing |-> TRUE]
Unset == 0
NotLoaded == [loaded |-> FALSE]

-----------------------------------------------------------------------------
\* Tables.
Has(raw, s) == s \in DOMAIN raw /\ raw[s] # Null
Holds(raw, path) == Has(raw, path[1]) /\ path[2] \in DOMAIN raw[path[1]]
ValueAt(raw, path) == raw[path[1]][path[2]]
WithKey(table, k, v) == [x \in DOMAIN table \cup {k} |-> IF x = k THEN v ELSE table[x]]
WithoutKey(table, k) == Restrict(table, DOMAIN table \ {k})
Filled(first, second) == \* the second wins, key by key
    [k \in DOMAIN first \cup DOMAIN second |-> IF k \in DOMAIN second THEN second[k] ELSE first[k]]

\* Mutant: of a table, the entries under the old key win.
MergedOld(legacy, current, table) == IF table THEN Filled(current, legacy) ELSE current

\* Both keys are set: the new one stands, a table is filled up from the old one.
Merged(legacy, current, table) == IF table THEN Filled(legacy, current) ELSE current

\* One migration: the old key is taken out and put under the new one.  A target section
\* that is not a table keeps what it is, and the old value is gone.
MigrateOne(raw, move) ==
    IF ~Holds(raw, move.from) THEN raw
    ELSE LET legacy == ValueAt(raw, move.from)
             rest == WithKey(raw, move.from[1], WithoutKey(raw[move.from[1]], move.from[2]))
             opened == IF move.to[1] \in DOMAIN rest THEN rest ELSE WithKey(rest, move.to[1], <<>>)
             value == IF Holds(opened, move.to)
                      THEN Merged(legacy, ValueAt(opened, move.to), move.table) ELSE legacy
         IN  IF Has(opened, move.to[1])
             THEN WithKey(opened, move.to[1], WithKey(opened[move.to[1]], move.to[2], value))
             ELSE opened

\* One after the other.
Migrate(raw) ==
    LET r[i \in 0..Len(Moves)] == IF i = 0 THEN raw ELSE MigrateOne(r[i - 1], Moves[i])
    IN  r[Len(Moves)]

\* Environment variables are laid over the file.  A section without a table breaks the load.
Overridden(raw) ==
    IF override = Unset THEN raw
    ELSE IF Override[1] \notin DOMAIN raw
    THEN WithKey(raw, Override[1], WithKey(<<>>, Override[2], override))
    ELSE IF raw[Override[1]] = Null THEN raw
    ELSE WithKey(raw, Override[1], WithKey(raw[Override[1]], Override[2], override))

\* reconciliation_mode_for: an explicit entry, then multi for a write store.
ModeFor(file, store) ==
    IF store \in DOMAIN file.perStore THEN file.perStore[store]
    ELSE IF store \in file.enabled THEN "multi" ELSE file.mode

\* model_validate: every section a table, and every write store in multi.
Validated(file, raw) ==
    /\ \A s \in DOMAIN raw : raw[s] # Null
    /\ \A store \in file.enabled : ModeFor(file, store) # "single"

-----------------------------------------------------------------------------
\* _find_config_file: a pin is absolute authority.
Found == IF pin # "unset" THEN pinned ELSE user
FoundName == IF Found = Missing THEN "defaults" ELSE IF pin # "unset" THEN "pinned" ELSE "user"
Compiled == [raw |-> <<>>, perStore |-> <<>>, enabled |-> {}, mode |-> "single", store |-> "relative"]

Contents == IF Found = Missing THEN Compiled ELSE Found

\* nearby_unused_config: the nearest config.yaml, unless it is the one that was read or
\* another tool's; a .git entry ends the walk after its directory.
Nearby ==
    LET stops == {i \in DOMAIN around : around[i].file # "none" \/ around[i].git}  \* file: none, ours, other
        i == CHOOSE x \in stops : \A y \in stops : x <= y
    IN  stops # {} /\ around[i].file = "ours"

\* _report_resolution, each warning once in the life of the process.
Warnings ==
    IF pin = "unset" THEN IF Nearby THEN {"ignored"} ELSE {}
    ELSE IF pinned = Missing THEN {"missing"}
    ELSE IF pin = "relative" THEN {"relative"} ELSE {}

Load == LET raw == Overridden(Migrate(Contents.raw))
        IN  [loaded |-> TRUE, valid |-> Validated(Contents, raw), raw |-> raw, path |-> FoundName,
             store |-> Contents.store, file |-> Contents, env |-> override]

\* get_config: loads once, and records the file with the settings.  A load that fails
\* leaves nothing.
GetConfig ==
    /\ ~config.loaded
    /\ LET new == Load
       IN  IF new.valid THEN config' = new /\ warned' = warned \cup Warnings
           ELSE UNCHANGED <<config, warned>>
    /\ UNCHANGED <<pinned, user, pin, override, around>>

\* reset_config, with the hooks registered on it.
ResetConfig ==
    /\ config.loaded /\ config' = NotLoaded
    /\ UNCHANGED <<pinned, user, pin, override, around, warned>>

\* External: the operator edits a file, the environment or moves elsewhere.
Change ==
    /\ \/ pinned' \in Files \cup {Missing} /\ UNCHANGED <<user, pin, override, around>>
       \/ user' \in Files \cup {Missing} /\ UNCHANGED <<pinned, pin, override, around>>
       \/ pin' \in {"unset", "absolute", "relative"} /\ UNCHANGED <<pinned, user, override, around>>
       \/ override' \in Values \cup {Unset} /\ UNCHANGED <<pinned, user, pin, around>>
    /\ UNCHANGED <<config, warned>>

SInit ==
    /\ pinned \in Files \cup {Missing} /\ user \in Files \cup {Missing}
    /\ pin = "unset" /\ override = Unset
    /\ around \in Places
    /\ config = NotLoaded /\ warned = {}

SNext == Change \/ GetConfig \/ ResetConfig

SSpec == SInit /\ [][SNext]_svars

-----------------------------------------------------------------------------
\* Mutant: the search is made again when a path is asked for.
ConfigFilePathNow == FoundName

\* config_file_path: the file the settings in force came from.
ConfigFilePath == config.path

\* resolve_store_adjacent_path for a relative value: beside an absolute store file, else
\* in the loaded file's directory, else in the working directory.
Beside ==
    IF config.store = "absolute" THEN "store"
    ELSE IF ConfigFilePath # "defaults" THEN ConfigFilePath
    ELSE "cwd"

\* What an operator who reads the list of renamed keys expects of one of them.
Meant(raw, move) ==
    IF move.table /\ Holds(raw, move.from) /\ Holds(raw, move.to)
    THEN Filled(ValueAt(raw, move.from), ValueAt(raw, move.to))
    ELSE IF Holds(raw, move.to) THEN ValueAt(raw, move.to) ELSE ValueAt(raw, move.from)

\* However the renamed keys share and create sections, a loaded setting is what its
\* variable says, else its new key, else its old one; a table is filled up from the old
\* key, entry by entry; and no old key is left to be read by anything else.
OldKeysStillCount ==
    config.loaded => \A i \in DOMAIN Moves :
        LET m == Moves[i]
            raw == config.file.raw
        IN  /\ ~Holds(config.raw, m.from)
            /\ config.env # Unset /\ m.to = Override => ValueAt(config.raw, m.to) = config.env
            /\ config.env = Unset \/ m.to # Override =>
                 IF Holds(raw, m.from) \/ Holds(raw, m.to)
                 THEN Holds(config.raw, m.to) /\ ValueAt(config.raw, m.to) = Meant(raw, m)
                 ELSE ~Holds(config.raw, m.to)

\* Whatever becomes of the files and the environment, and wherever the process goes, a
\* relative path of the settings leads where it led until the settings are reset.
PathStays == config.loaded /\ config'.loaded => Beside' = Beside

\* A renamed key still counts and no old one is left, and a relative path leads where it led
\* until the settings are reset.
SettingsKeepTheirMeaning == []OldKeysStillCount /\ [][PathStays]_svars
=====================================================================================
