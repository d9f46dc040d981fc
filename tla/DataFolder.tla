------------------------------ MODULE DataFolder ------------------------------
(***************************************************************************)
(* What a process finds in the data folder beside the schema, and keeps a  *)
(* copy of in memory: the key file of config/encryptionKey.ts with the     *)
(* provider credentials encrypted under it, and the settings blob of       *)
(* domain/settings/settingsService.ts.                                     *)
(***************************************************************************)
EXTENDS Integers, FiniteSets

CONSTANTS
  None,     \* no file, no key, no blob, no choice
  Fields,   \* the settings
  Limits,   \* the values of a setting
  Defaults, \* DEFAULT_SETTINGS
  OldBlob   \* what a release with fewer settings stored

ASSUME FolderAssumption ==
  /\ Limits \subseteq Nat \ {0}
  /\ "maxLogEntries" \in Fields
  /\ Defaults \in [Fields -> Limits]
  /\ OldBlob \in UNION {[S -> Limits] : S \in SUBSET Fields}
  /\ None \notin Nat \cup [Fields -> Limits]

VARIABLES
  keyFile, \* None, or what encryption.key holds: 0 (nothing) or a key
  opened,  \* writeFileSync has created or emptied the file
  key,     \* the cached key, encryptionKey of the repository
  sealed,  \* the keys that stored credentials are encrypted under
  blob,    \* the row "settings" of app_metadata
  values,  \* the settings in force
  chosen   \* the settings that the last update answered with (history)

folderVars == <<keyFile, opened, key, sealed, blob, values, chosen>>
keyVars == <<keyFile, opened, key, sealed>>
settingsVars == <<blob, values, chosen>>

FreshFolder ==
  /\ keyFile = None /\ sealed = {}
  /\ blob = None

UsedFolder ==
  /\ keyFile = 1 /\ sealed = {1}
  /\ blob \in {None, OldBlob, [f \in Fields |-> Defaults[f]]}

FolderInit ==
  /\ opened = FALSE /\ key = None
  /\ values = Defaults /\ chosen = None

-------------------------------------------------------------------------------
(* getEncryptionKey, in the constructor of the credential repository.      *)

(* Slip: only a file of this process counts.                               *)
KeyOfThisProcess == keyFile \notin {None, 0} /\ key = keyFile

KeyStored == keyFile \notin {None, 0}

LoadKey ==
  /\ key = None /\ ~opened /\ KeyStored
  /\ key' = keyFile
  /\ UNCHANGED <<keyFile, opened, sealed>>

OpenKeyFile ==
  /\ key = None /\ ~opened /\ ~KeyStored
  /\ opened' = TRUE /\ keyFile' = 0
  /\ UNCHANGED <<key, sealed>>

(* Random bytes: a key that was never used.  The file keeps what was       *)
(* written when the write fails half way.                                  *)
NewKey == IF sealed = {} THEN 1 ELSE 1 + CHOOSE k \in sealed : \A l \in sealed : l <= k

WriteKey ==
  /\ opened
  /\ keyFile' = NewKey /\ key' = NewKey /\ opened' = FALSE
  /\ UNCHANGED sealed

WriteKeyFails ==
  /\ opened
  /\ keyFile' \in {0, NewKey}
  /\ UNCHANGED sealed

(* POST credentials; the probe and every routed request decrypt all rows.  *)
StoreCredential ==
  /\ sealed' = sealed \cup {key}
  /\ UNCHANGED <<keyFile, opened, key>>

-------------------------------------------------------------------------------
(* SettingsService                                                         *)

Complete(b) == b # None /\ DOMAIN b = Fields

(* init: a blob that lacks a field does not parse, and none of it counts.  *)
InitSettings ==
  /\ values' = IF Complete(blob) THEN blob ELSE Defaults
  /\ UNCHANGED <<blob, chosen>>

Patches == UNION {[S -> Limits] : S \in SUBSET Fields}

Merged(patch) ==
  [f \in Fields |-> IF f \in DOMAIN patch THEN patch[f] ELSE values[f]]

(* Slip: only what was changed is stored.                                  *)
PersistedPatch(patch) == patch

Persisted(patch) == Merged(patch)

UpdateSettings(patch) ==
  /\ blob' = Persisted(patch)
  /\ values' = Merged(patch)
  /\ chosen' = Merged(patch)

-------------------------------------------------------------------------------
(* What is lost with the process.                                          *)
ForgetFolder ==
  /\ key' = None /\ opened' = FALSE /\ values' = Defaults
  /\ UNCHANGED <<sealed, blob, chosen>>

-------------------------------------------------------------------------------
(* A credential that was stored can be decrypted by every later process,   *)
(* however often a start is cut off or the key file cannot be written: all *)
(* rows are under the one key in the file, and a process that has a key    *)
(* has that one.  (One row that cannot be decrypted fails every request.)  *)
StoredKeysStayReadable ==
  /\ sealed \subseteq {keyFile}
  /\ key # None => key = keyFile
===============================================================================
