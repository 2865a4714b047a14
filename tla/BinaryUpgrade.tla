---------------------------- MODULE BinaryUpgrade ----------------------------
(***************************************************************************)
(* The replacement of the roamie executable (upgrade.go).  Two programs    *)
(* may do it, the daemon's auto-upgrade and `roamie upgrade`, and both use *)
(* the same path and the same .backup beside it.  Every system call that   *)
(* changes one of the two files is a step; any of them may fail, and the   *)
(* program may be killed between any two.                                  *)
(*                                                                         *)
(* A file is the version it holds, Missing, or Broken: truncated, half     *)
(* written, or not yet executable.                                         *)
(***************************************************************************)
EXTENDS Integers

CONSTANTS
    Upgraders,   \* programs that may replace the executable
    MaxVersion,  \* bound: releases 1 .. MaxVersion
    Missing, Broken

ASSUME VersionsAssumption ==
    /\ MaxVersion \in Nat \ {0}
    /\ Missing \notin Nat /\ Broken \notin Nat /\ Missing # Broken

Versions == 1 .. MaxVersion
Content == Versions \cup {Missing, Broken}

VARIABLES
    exec,    \* the executable
    backup,  \* the executable's name with .backup
    latest,  \* the release GitHub answers with
    inst,    \* per upgrader: its next step
    got,     \* per upgrader: the release it has been told of
    sound    \* history: never two upgrades at once, never a backup of a broken file

files == <<exec, backup>>
binary == <<exec, backup, latest, inst, got, sound>>

Steps == {"idle", "checked", "download", "backing", "backed", "removed",
          "copying", "installed", "restore", "restoring", "done", "failed"}

BinaryTypeOK ==
    /\ exec \in Content
    /\ backup \in Content
    /\ latest \in Versions
    /\ inst \in [Upgraders -> Steps]
    /\ got \in [Upgraders -> Versions]
    /\ sound \in BOOLEAN

BinaryInit ==
    /\ exec = 1
    /\ backup = Missing
    /\ latest = 1
    /\ inst = [u \in Upgraders |-> "idle"]
    /\ got = [u \in Upgraders |-> 1]
    /\ sound = TRUE

To(u, s) == inst' = [inst EXCEPT ![u] = s]

\* The call is over, or its program is dead.
Forget(u) ==
    /\ To(u, "idle")
    /\ got' = [got EXCEPT ![u] = 1]
    /\ UNCHANGED <<files, latest, sound>>

\* The project publishes a release.
Release ==
    /\ latest < MaxVersion
    /\ latest' = latest + 1
    /\ UNCHANGED <<files, inst, got, sound>>

\* CheckForUpdates: from here to its end an upgrade should be alone.
CheckForUpdates(u) ==
    /\ inst[u] = "idle"
    /\ To(u, "checked")
    /\ got' = [got EXCEPT ![u] = latest]
    /\ sound' = (sound /\ \A w \in Upgraders \ {u} : inst[w] = "idle")
    /\ UNCHANGED <<files, latest>>

\* What is removed, or fails, before anything is written: the path is not there
\* any more, it cannot be written to, a download fails, a checksum differs.
GiveUp(u) ==
    /\ inst[u] \in {"download", "backing"}
    /\ To(u, "failed")
    /\ UNCHANGED <<files, latest, got, sound>>

\* copyFile(execPath, backupPath) opens the one and creates the other.
BeginBackup(u) ==
    /\ inst[u] = "download" /\ exec # Missing
    /\ backup' = Broken
    /\ To(u, "backing")
    /\ sound' = (sound /\ exec # Broken)
    /\ UNCHANGED <<exec, latest, got>>

EndBackup(u) ==
    /\ inst[u] = "backing"
    /\ backup' = exec
    /\ To(u, "backed")
    /\ UNCHANGED <<exec, latest, got, sound>>

\* replaceBinary: Stat and Remove, ...
RemoveOld(u) ==
    /\ inst[u] = "backed" /\ exec # Missing
    /\ exec' = Missing
    /\ To(u, "removed")
    /\ UNCHANGED <<backup, latest, got, sound>>

\* ... copyFile from the download, which is not executable, ...
BeginCopy(u) ==
    /\ inst[u] = "removed"
    /\ exec' = Broken
    /\ To(u, "copying")
    /\ UNCHANGED <<backup, latest, got, sound>>

\* ... and the mode of the old file.
EndCopy(u) ==
    /\ inst[u] = "copying"
    /\ exec' = got[u]
    /\ To(u, "installed")
    /\ UNCHANGED <<backup, latest, got, sound>>

ReplaceFails(u) ==
    /\ inst[u] \in {"backed", "removed", "copying"}
    /\ To(u, "restore")
    /\ UNCHANGED <<files, latest, got, sound>>

\* copyFile(backupPath, execPath), whose error nobody looks at.
BeginRestore(u) ==
    /\ inst[u] = "restore" /\ backup # Missing
    /\ exec' = Broken
    /\ To(u, "restoring")
    /\ UNCHANGED <<backup, latest, got, sound>>

EndRestore(u) ==
    /\ inst[u] = "restoring"
    /\ exec' = backup
    /\ To(u, "failed")
    /\ UNCHANGED <<backup, latest, got, sound>>

\* (mutant of RestoreFails: the backup is tidied up whatever has become of it)
RestoreFailsTidily(u) ==
    /\ inst[u] \in {"restore", "restoring"}
    /\ backup' = Missing
    /\ To(u, "failed")
    /\ UNCHANGED <<exec, latest, got, sound>>

RestoreFails(u) ==
    /\ inst[u] \in {"restore", "restoring"}
    /\ To(u, "failed")
    /\ UNCHANGED <<files, latest, got, sound>>

\* The backup is removed when the new executable is in place; that may fail.
RemoveBackup(u) ==
    /\ inst[u] = "installed"
    /\ backup' \in {Missing, backup}
    /\ To(u, "done")
    /\ UNCHANGED <<exec, latest, got, sound>>

\* Upgrade, after its checks.
Upgrade(u) ==
    \/ BeginBackup(u) \/ EndBackup(u) \/ GiveUp(u)
    \/ RemoveOld(u) \/ BeginCopy(u) \/ EndCopy(u) \/ ReplaceFails(u)
    \/ BeginRestore(u) \/ EndRestore(u) \/ RestoreFails(u)
    \/ RemoveBackup(u)

\* However upgrades fail, and wherever one is killed, the machine keeps a whole
\* executable, under its name or as the backup: nothing removes the old one
\* before a copy of it is complete, nor the copy before the new one is.  Two
\* things take that away, and `sound` records them: two upgrades at once, and
\* one that starts when a killed one has left a broken executable, which it
\* copies over the good backup (only a daemon that is still running can).
Recoverable == sound => exec \in Versions \/ backup \in Versions
=============================================================================
