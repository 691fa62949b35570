------------------------------- MODULE Presets -------------------------------
(***************************************************************************)
(* One preset of PresetRepository with editors that open it and save it.   *)
(* A save names the revision it was made from; the content of a preset is  *)
(* the set of the changes it has.  The FOR UPDATE lock lasts to the end of *)
(* the transaction.                                                        *)
(*                                                                         *)
(* Definitions with a word after "_" are wrong on purpose, as in RunStore. *)
(***************************************************************************)
EXTENDS Integers, Sequences

CONSTANTS
    Editors,
    MaxChanges  \* bound: saves

ASSUME PresetsAssumption == MaxChanges \in Nat

VARIABLES
    preset,   \* the row of portfolio_presets
    versions, \* portfolio_preset_versions: the content of each revision
    editor    \* what each editor has open, and where its call stands

presetVars == <<preset, versions, editor>>

Closed == [at |-> "closed", revision |-> 0, content |-> {}]

PresetsTypeOK ==
    /\ preset \in [revision : Nat, content : SUBSET (1..MaxChanges), deleted : BOOLEAN]
    /\ versions \in Seq(SUBSET (1..MaxChanges))
    /\ editor \in [Editors -> [at : {"closed", "open", "save", "delete"}, revision : Nat,
                               content : SUBSET (1..MaxChanges)]]

(* create *)
PresetsInit ==
    /\ preset = [revision |-> 1, content |-> {}, deleted |-> FALSE]
    /\ versions = <<{}>>
    /\ editor = [e \in Editors |-> Closed]

Unlocked == \A e \in Editors : editor[e].at \notin {"save", "delete"}

(* get *)
OpenPreset(e) ==
    /\ editor[e].at \in {"closed", "open"} /\ ~preset.deleted
    /\ editor' = [editor EXCEPT ![e] = [at |-> "open", revision |-> preset.revision,
                                        content |-> preset.content]]
    /\ UNCHANGED <<preset, versions>>

LockForUpdate_AnyRevision(e) ==
    /\ editor[e].at = "open" /\ Unlocked
    /\ ~preset.deleted
    /\ \E call \in {"save", "delete"} : editor' = [editor EXCEPT ![e].at = call]
    /\ UNCHANGED <<preset, versions>>

(* update and softDelete up to the UPDATE: the row must still have the      *)
(* revision the editor knows, otherwise it is told of the conflict.         *)
LockForUpdate(e) ==
    /\ editor[e].at = "open" /\ Unlocked
    /\ IF ~preset.deleted /\ preset.revision = editor[e].revision
       THEN \E call \in {"save", "delete"} : editor' = [editor EXCEPT ![e].at = call]
       ELSE editor' = [editor EXCEPT ![e] = Closed]
    /\ UNCHANGED <<preset, versions>>

(* softDelete without expectedRevision *)
LockToDelete(e) ==
    /\ editor[e].at = "open" /\ Unlocked /\ ~preset.deleted
    /\ editor' = [editor EXCEPT ![e].at = "delete", ![e].revision = preset.revision]
    /\ UNCHANGED <<preset, versions>>

SaveCommitted(e) ==
    LET content == editor[e].content \cup {preset.revision}
    IN /\ editor[e].at = "save"
       /\ preset.revision <= MaxChanges
       /\ preset' = [preset EXCEPT !.revision = @ + 1, !.content = content]
       /\ versions' = Append(versions, content)
       /\ editor' = [editor EXCEPT ![e] = Closed]

DeleteCommitted(e) ==
    /\ editor[e].at = "delete"
    /\ preset' = [preset EXCEPT !.revision = @ + 1, !.deleted = TRUE]
    /\ versions' = Append(versions, preset.content)
    /\ editor' = [editor EXCEPT ![e] = Closed]

PresetAborts(e) ==
    /\ editor[e].at \in {"save", "delete"}
    /\ editor' = [editor EXCEPT ![e] = Closed]
    /\ UNCHANGED <<preset, versions>>

PresetsNext ==
    \E e \in Editors :
        \/ OpenPreset(e) \/ LockForUpdate(e) \/ LockToDelete(e)
        \/ SaveCommitted(e) \/ DeleteCommitted(e) \/ PresetAborts(e)

PresetsSpec == PresetsInit /\ [][PresetsNext]_presetVars

-----------------------------------------------------------------------------
(* No save undoes the save of another editor: every version has the changes *)
(* of the one before it, each revision has its version, and the row is the  *)
(* last of them.                                                            *)
NoSaveIsLost ==
    /\ preset.revision = Len(versions)
    /\ preset.content = versions[Len(versions)]
    /\ \A i \in 1..Len(versions) - 1 : versions[i] \subseteq versions[i + 1]
=============================================================================
