--------------------------- MODULE ModelRegistry ----------------------------
(***************************************************************************)
(* ModelRegistry: a directory of artefacts with a metadata file beside     *)
(* each, aliases.json, which names the version each alias stands for, and  *)
(* the history of what the aliases stood for.                              *)
(*                                                                         *)
(* _write_atomic writes a temporary file of one fixed name and renames it. *)
(* Two writers of aliases.json share that name: the second to open it      *)
(* empties what the first has written, and once the first renames it the   *)
(* second goes on writing into aliases.json itself.                        *)
(***************************************************************************)
EXTENDS Naturals, FiniteSets

CONSTANTS
    Segments,       \* the segments that have a dataset
    MaxTrials,      \* bound: trials, and so versions, there can be
    NoVersion       \* nothing is assigned

Families == {"direction", "tail"}

(* CHAMPION_ALIAS and TAIL_ALIAS of the segments.                          *)
Aliases == Segments \X Families

(* A version is named for its content; its number here is that of the      *)
(* evaluation it came from, and 0 is a version of an earlier day.          *)
Versions == 0 .. MaxTrials

ASSUME NoVersionAssumption == NoVersion \notin Versions

(* The fit a supervisor waits for, and one that outlived its supervisor.   *)
Trainers == {"supervised", "orphan"}

VARIABLES
    artifacts,      \* the versions whose .bin is there
    metadata,       \* version -> what its .json says, for those that have one
    aliasFile,      \* aliases.json
    partial,        \* aliases.json.partial
    writing,        \* what each writer has open: nothing, the partial, or aliases.json
    history         \* the last row of alias-history.ndjson for each alias

registryVars == <<artifacts, metadata, aliasFile, partial, writing, history>>

(* What a version is filed with: its trial, and the score that compares it,*)
(* 0 when its metrics carry none; own when it was fitted on its segment's  *)
(* venues.                                                                 *)
Metadata == [trial : Nat, score : Nat, own : BOOLEAN]

Table == UNION {[a -> Versions] : a \in SUBSET Aliases}
NoTable == [a \in {} |-> NoVersion]

(* A file of aliases, "empty" once it was opened and not written yet.      *)
File == [is : {"absent", "empty", "garbled", "table"}, table : Table]
FileThatIs(is) == [is |-> is, table |-> NoTable]
Holding(table) == [is |-> "table", table |-> table]

RegistryTypeOK ==
    /\ artifacts \subseteq Versions
    /\ DOMAIN metadata \subseteq Versions /\ \A v \in DOMAIN metadata : metadata[v] \in Metadata
    /\ aliasFile \in File /\ partial \in File
    /\ writing \in [Trainers -> {"nothing", "partial", "aliases"}]
    /\ history \in [Aliases -> Versions \union {NoVersion}]

-----------------------------------------------------------------------------
(* _read_aliases raises on a file that is not JSON.                        *)
AliasesReadable == aliasFile.is \in {"absent", "table"}

Champion(a) == IF a \in DOMAIN aliasFile.table THEN aliasFile.table[a] ELSE NoVersion

(* load: the bytes are there and hash to their name.                       *)
Loads(v) == v \in DOMAIN metadata /\ v \in artifacts

(* The table t with alias a at version v.                                  *)
Repointed(t, a, v) == [x \in DOMAIN t \union {a} |-> IF x = a THEN v ELSE t[x]]

(* Mutants of SaveArtifact and SaveMetadata: the metadata is written first.*)
SaveArtifactSecond(v, m) ==
    /\ metadata' = [x \in DOMAIN metadata \union {v} |-> IF x = v THEN m ELSE metadata[x]]
    /\ UNCHANGED <<artifacts, aliasFile, partial, writing, history>>

(* register: the artefact, and then the metadata.                          *)
SaveArtifact(v, m) ==
    /\ artifacts' = artifacts \union {v}
    /\ UNCHANGED <<metadata, aliasFile, partial, writing, history>>

SaveMetadata(v, m) ==
    /\ metadata' = [x \in DOMAIN metadata \union {v} |-> IF x = v THEN m ELSE metadata[x]]
    /\ UNCHANGED <<artifacts, aliasFile, partial, writing, history>>

(* assign_alias, once the table has been read: open, write, rename.        *)
OpenPartial(w) ==
    /\ partial' = FileThatIs("empty")
    /\ writing' = [writing EXCEPT ![w] = "partial"]
    /\ UNCHANGED <<artifacts, metadata, aliasFile, history>>

(* A file that holds old after new is written over it from its start: a    *)
(* longer text shows behind a shorter one.                                 *)
Overwritten(old, table) ==
    IF old.is = "garbled" \/ ~(DOMAIN old.table \subseteq DOMAIN table) THEN FileThatIs("garbled")
    ELSE Holding(table)

WritePartial(w, table) ==
    /\ partial' = IF writing[w] = "partial" THEN Overwritten(partial, table) ELSE partial
    /\ aliasFile' = IF writing[w] = "aliases" THEN Overwritten(aliasFile, table) ELSE aliasFile
    /\ UNCHANGED <<artifacts, metadata, writing, history>>

(* The rename; the partial may hold what another writer made of it.        *)
RenamePartial(w) ==
    /\ partial.is # "absent"
    /\ aliasFile' = partial
    /\ partial' = FileThatIs("absent")
    /\ writing' = [x \in Trainers |->
                      IF x = w THEN "nothing"
                      ELSE IF writing[x] = "partial" THEN "aliases" ELSE "nothing"]
    /\ UNCHANGED <<artifacts, metadata, history>>

AppendHistory(a, v) ==
    /\ history' = [history EXCEPT ![a] = v]
    /\ UNCHANGED <<artifacts, metadata, aliasFile, partial, writing>>

(* Writer w is gone.                                                       *)
LetGo(w) ==
    /\ writing' = [writing EXCEPT ![w] = "nothing"]
    /\ UNCHANGED <<artifacts, metadata, aliasFile, partial, history>>
=============================================================================
