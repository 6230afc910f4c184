-------------------------------- MODULE Keys --------------------------------
(***************************************************************************)
(* The encryption key of the account store, pkg/connector/database.go:     *)
(* getDBKey runs once per process, behind a sync.Once, and derives the key *)
(* from a passphrase (environment, or a file that it writes at first use)  *)
(* and from a salt (a file that it writes at first use).  Only the files   *)
(* outlive the process, which may stop at any point of a write.            *)
(*                                                                         *)
(* The content of a file is a number, 0 for a file that is absent, empty   *)
(* or, for the salt, not 32 bytes long; a key is the pair it derives from. *)
(***************************************************************************)
EXTENDS Integers

CONSTANT MaxContents  \* bound on the contents written

ASSUME ContentsAssumption == MaxContents \in Nat

VARIABLES
  env,       \* MATRISMS_PASSPHRASE, 0 when not set
  passFile, saltFile,   \* data/passphrase and data/matrisms.salt
  made,      \* contents written so far
  keyOnce,   \* where keyOnce.Do is
  phrase,    \* its local passphrase
  dbKey,     \* the derived key, NoKey until then and when keyErr is set
  gone       \* history: contents whose file was there and could not be read

files == <<env, passFile, saltFile, made>>
keyVars == <<files, keyOnce, phrase, dbKey, gone>>

NoKey == <<0, 0>>
EnvPass == MaxContents + 1
Contents == 0 .. MaxContents
Environments == {0, EnvPass}

KeyTypeOK ==
  /\ env \in Environments
  /\ passFile \in Contents /\ saltFile \in Contents /\ made \in Contents
  /\ keyOnce \in {"new", "writePass", "salt", "writeSalt", "done"}
  /\ phrase \in 0 .. EnvPass
  /\ dbKey \in (1 .. EnvPass) \X (1 .. MaxContents) \cup {NoKey}
  /\ gone \subseteq Contents

KeyInit ==
  /\ env \in Environments /\ passFile = 0 /\ saltFile = 0 /\ made = 0
  /\ keyOnce = "new" /\ phrase = 0 /\ dbKey = NoKey /\ gone = {}

\* The key that a process started now derives when it can read its files.
Passphrase == IF env = 0 THEN passFile ELSE env
KeyOnDisk == <<Passphrase, saltFile>>

-----------------------------------------------------------------------------
(* getDBKey.  An error of os.ReadFile counts as an absent file.            *)

\* The file had a content and the read failed; it is going to be replaced.
Misread(content) == content # 0 /\ gone' = gone \cup {content}
Absent(content) == content = 0 /\ UNCHANGED gone

ReadPassphrase ==
  /\ keyOnce = "new"
  /\ \/ /\ Passphrase # 0
        /\ phrase' = Passphrase /\ keyOnce' = "salt" /\ UNCHANGED gone
     \/ /\ env = 0 /\ (Misread(passFile) \/ Absent(passFile))
        /\ keyOnce' = "writePass" /\ UNCHANGED phrase
  /\ UNCHANGED <<files, dbKey>>

WritePassphrase ==
  /\ keyOnce = "writePass" /\ made < MaxContents
  /\ passFile' = made + 1 /\ made' = made + 1
  /\ phrase' = made + 1 /\ keyOnce' = "salt"
  /\ UNCHANGED <<env, saltFile, dbKey, gone>>

\* What a write that stopped half-way leaves of data/passphrase: the old
\* content, nothing, or the first characters of the new one.
PassphraseTorn ==
  \/ passFile' \in {passFile, 0} /\ UNCHANGED made
  \/ made < MaxContents /\ made' = made + 1 /\ passFile' = made + 1

PassphraseFails ==
  /\ keyOnce = "writePass" /\ PassphraseTorn
  /\ keyOnce' = "done"
  /\ UNCHANGED <<env, saltFile, phrase, dbKey, gone>>

Derive(salt) == dbKey' = <<phrase, salt>> /\ keyOnce' = "done"

ReadSalt ==
  /\ keyOnce = "salt"
  /\ \/ saltFile # 0 /\ Derive(saltFile) /\ UNCHANGED gone
     \/ (Misread(saltFile) \/ Absent(saltFile))
        /\ keyOnce' = "writeSalt" /\ UNCHANGED dbKey
  /\ UNCHANGED <<files, phrase>>

WriteSalt ==
  /\ keyOnce = "writeSalt" /\ made < MaxContents
  /\ saltFile' = made + 1 /\ made' = made + 1 /\ Derive(made + 1)
  /\ UNCHANGED <<env, passFile, phrase, gone>>

\* Mutant: the key is used although the salt was not saved.
SaltNotSaved ==
  /\ keyOnce = "writeSalt" /\ made < MaxContents /\ made' = made + 1
  /\ saltFile' \in {saltFile, 0} /\ Derive(made + 1)
  /\ UNCHANGED <<env, passFile, phrase, gone>>

\* Part of a salt has the wrong length and is as good as none.
SaltFails ==
  /\ keyOnce = "writeSalt" /\ saltFile' \in {saltFile, 0}
  /\ keyOnce' = "done"
  /\ UNCHANGED <<env, passFile, made, phrase, dbKey, gone>>

GetDBKey ==
  \/ ReadPassphrase \/ WritePassphrase \/ PassphraseFails
  \/ ReadSalt \/ WriteSalt \/ SaltFails

\* The process stops, perhaps in the middle of a write.
KeyLost ==
  /\ IF keyOnce = "writePass" THEN PassphraseTorn ELSE UNCHANGED <<passFile, made>>
  /\ saltFile' \in {saltFile} \cup (IF keyOnce = "writeSalt" THEN {0} ELSE {})
  /\ keyOnce' = "new" /\ phrase' = 0 /\ dbKey' = NoKey
  /\ UNCHANGED <<env, gone>>
=============================================================================
