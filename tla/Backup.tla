--------------------------------- MODULE Backup ---------------------------------
(***************************************************************************)
(* Encrypted backups (backup/*.go, desktop/backup.go): an export copies a  *)
(* consistent snapshot of the database, the settings without their secrets *)
(* and, if asked, every blob into one archive of sealed frames; a restore  *)
(* checks all of an archive and then writes its files one at a time into a *)
(* directory of the owner's choice.  Exports and restores run concurrently,*)
(* while the application goes on writing its database and its blobs; each  *)
(* may fail or be cancelled at every step, and the process may die.        *)
(*                                                                         *)
(* The content of a file is a version number, its checksum is the same     *)
(* number.  A frame holds one entry of the payload.                        *)
(***************************************************************************)
EXTENDS Naturals, Sequences, FiniteSets, SequencesExt, Functions

CONSTANTS
  Dests,       \* paths an archive may be exported to
  Targets,     \* directories to restore into
  Blobs,       \* names in the blob directory
  Passes,      \* passphrases
  Fields,      \* fields of the settings
  Sensitive,   \* those that carry a secret
  Slots,       \* calls that may run at the same time
  None,
  MaxCalls, MaxWrites, MaxFaults

ASSUME BackupAssumption ==
  /\ Sensitive \subseteq Fields /\ None \notin Dests \cup Targets \cup Blobs \cup Passes \cup Slots
  /\ {"db", "config"} \cap Blobs = {}                       \* blobs have a prefix of their own
  /\ None \notin [version : Nat, by : Slots \cup {None}]    \* no file is not a file
  /\ MaxCalls \in Nat /\ MaxWrites \in Nat /\ MaxFaults \in Nat

VARIABLES
  db,       \* the version of the live database
  blob,     \* the version of every blob, 0 when there is none
  archive,  \* the file at every export path
  target,   \* the files of every restore directory
  call,     \* what every slot is doing
  calls, writes, faults

world == <<db, blob, writes>>
vars == <<db, blob, archive, target, call, calls, writes, faults>>

Paths == {"db", "config"} \cup Blobs
Idle == [kind |-> "idle", pc |-> "idle"]

-----------------------------------------------------------------------------
(* Archives.                                                               *)

\* An entry of the payload: its path and its checksum, or its content.
Entry(path, version) == [path |-> path, version |-> version]

\* Every frame is sealed under its index and whether it is the last.
Seal(entries) == [i \in DOMAIN entries |-> [index |-> i, last |-> i = Len(entries), entry |-> entries[i]]]

openChunkStream(frames) ==
  frames # << >> /\ \A i \in DOMAIN frames : frames[i].index = i /\ frames[i].last = (i = Len(frames))

Opened(a) == [i \in DOMAIN a.frames |-> a.frames[i].entry]

\* The entries are those of the manifest, each with the checksum given there.
parsePayload(entries, manifest) ==
  /\ Len(entries) = Cardinality(manifest) /\ ToSet(entries) = manifest
  /\ \E e \in manifest : e.path = "db"

\* The settings are written without secrets, and read only when there are none.
sanitizeJSON(fields) == fields \ Sensitive
rejectSensitiveJSON(fields) == fields \cap Sensitive # {}

decodeArchive(a, pass) ==
  /\ a # None /\ a.pass = pass
  /\ openChunkStream(a.frames)
  /\ parsePayload(Opened(a), a.manifest)
  /\ ~rejectSensitiveJSON(a.config)

-----------------------------------------------------------------------------
(* Calls.                                                                  *)

Begin(s, c) == call[s] = Idle /\ calls < MaxCalls /\ calls' = calls + 1 /\ call' = [call EXCEPT ![s] = c]
Goes(s, c) == call' = [call EXCEPT ![s] = c] /\ UNCHANGED calls
At(s, kind, pc) == call[s].kind = kind /\ call[s].pc = pc
Fault == faults < MaxFaults /\ faults' = faults + 1

-----------------------------------------------------------------------------
(* Export.                                                                 *)

StartExport(s) ==
  /\ \E d \in Dests, p \in Passes, with \in BOOLEAN :
       Begin(s, [kind |-> "export", pc |-> "snapshot", dest |-> d, pass |-> p, with |-> with,
                 snapshot |-> 0, listed |-> {}, manifest |-> {}, entries |-> << >>])
  /\ UNCHANGED <<world, archive, target, faults>>

\* VACUUM INTO sees the database at one moment.
vacuumInto(s) ==
  /\ At(s, "export", "snapshot")
  /\ Goes(s, [call[s] EXCEPT !.pc = "hash", !.snapshot = db,
                             !.listed = IF @ = {} /\ call[s].with THEN {b \in Blobs : blob[b] # 0} ELSE {},
                             !.manifest = {Entry("db", db), Entry("config", 1)}])
  /\ UNCHANGED <<world, archive, target, faults>>

\* One blob after the other is checksummed; one that has gone ends the export.
collectBlobs(s) ==
  /\ At(s, "export", "hash")
  /\ \/ \E b \in call[s].listed :
          /\ blob[b] # 0
          /\ Goes(s, [call[s] EXCEPT !.listed = @ \ {b}, !.manifest = @ \cup {Entry(b, blob[b])}])
     \/ (\E b \in call[s].listed : blob[b] = 0) /\ Goes(s, Idle)
     \/ /\ call[s].listed = {} /\ archive[call[s].dest] = None
        /\ Goes(s, [call[s] EXCEPT !.pc = "write"])
     \/ call[s].listed = {} /\ archive[call[s].dest] # None /\ Goes(s, Idle)
  /\ UNCHANGED <<world, archive, target, faults>>

Source(s, path) == CASE path = "db" -> call[s].snapshot [] path = "config" -> 1 [] OTHER -> blob[path]
Left(s) == {e \in call[s].manifest : e.path \notin {f.path : f \in ToSet(call[s].entries)}}

\* An entry is read again when it is sealed: if it changed, the export ends.
writePayload(s) ==
  /\ At(s, "export", "write")
  /\ \/ \E e \in Left(s) :
          /\ \A f \in Left(s) : e.path \in Blobs => f.path \in Blobs
          /\ IF Source(s, e.path) = e.version
             THEN Goes(s, [call[s] EXCEPT !.entries = Append(@, e)])
             ELSE Goes(s, Idle)
     \/ Left(s) = {} /\ Goes(s, [call[s] EXCEPT !.pc = "install"])
  /\ UNCHANGED <<world, archive, target, faults>>

\* The finished file appears under its name only if nothing has that name.
atomicWriteStream(s) ==
  /\ At(s, "export", "install")
  /\ archive' = IF archive[call[s].dest] # None THEN archive
                ELSE [archive EXCEPT ![call[s].dest] =
                        [pass |-> call[s].pass, frames |-> Seal(call[s].entries), manifest |-> call[s].manifest,
                         config |-> sanitizeJSON(Fields), damaged |-> FALSE]]
  /\ Goes(s, Idle)
  /\ UNCHANGED <<world, target, faults>>

ExportFails(s) ==
  /\ call[s].kind = "export" /\ Fault /\ Goes(s, Idle)
  /\ UNCHANGED <<world, archive, target>>

-----------------------------------------------------------------------------
(* Inspection and restore.                                                 *)

Absent == [p \in Paths |-> None]

ValidateBackup(s) ==
  /\ \E d \in Dests : archive[d] # None
  /\ Begin(s, Idle)
  /\ UNCHANGED <<world, archive, target, faults>>

Restore(s) ==
  /\ \E d \in Dests, p \in Passes, t \in Targets :
       /\ archive[d] # None
       /\ IF decodeArchive(archive[d], p)
          THEN Begin(s, [kind |-> "restore", pc |-> "resolve", dir |-> t, files |-> archive[d].manifest,
                         written |-> {}])
          ELSE Begin(s, Idle)
  /\ UNCHANGED <<world, archive, target, faults>>

\* None of the files the archive has may be there.
resolveRestoreTarget(s) ==
  /\ At(s, "restore", "resolve")
  /\ IF \A e \in call[s].files : target[call[s].dir][e.path] = None
     THEN Goes(s, [call[s] EXCEPT !.pc = "files"])
     ELSE Goes(s, Idle)
  /\ UNCHANGED <<world, archive, target, faults>>

Missing(s) == {e \in call[s].files : e.path \notin call[s].written}
Turn(s) == IF \E e \in Missing(s) : e.path = "db" THEN {"db"}
           ELSE IF \E e \in Missing(s) : e.path = "config" THEN {"config"} ELSE Blobs

Cleans(s) == Goes(s, [call[s] EXCEPT !.pc = "cleanup"])

\* Mutant: the file that could not be written is cleaned up with the others.
CleansTheRefused(s) ==
  /\ At(s, "restore", "files")
  /\ \E e \in Missing(s) :
       LET there == target[call[s].dir][e.path] IN
         /\ e.path \in Turn(s)
         /\ IF there = None
            THEN /\ target' = [target EXCEPT ![call[s].dir][e.path] = [version |-> e.version, by |-> s]]
                 /\ Goes(s, [call[s] EXCEPT !.written = @ \cup {e.path}])
            ELSE /\ UNCHANGED target
                 /\ Goes(s, [call[s] EXCEPT !.pc = "cleanup", !.written = @ \cup {e.path}])
  /\ UNCHANGED <<world, archive, faults>>

\* A file appears whole, and never in the place of another.
writeNewFileStream(s) ==
  /\ At(s, "restore", "files")
  /\ \E e \in Missing(s) :
       LET there == target[call[s].dir][e.path] IN
         /\ e.path \in Turn(s)
         /\ IF there = None
            THEN /\ target' = [target EXCEPT ![call[s].dir][e.path] = [version |-> e.version, by |-> s]]
                 /\ Goes(s, [call[s] EXCEPT !.written = @ \cup {e.path}])
            ELSE UNCHANGED target /\ Cleans(s)
  /\ UNCHANGED <<world, archive, faults>>

RestoreFails(s) ==
  /\ call[s].kind = "restore" /\ call[s].pc # "cleanup" /\ Fault
  /\ Cleans(s)
  /\ UNCHANGED <<world, archive, target>>

\* What a failed restore wrote is removed file by file, whatever is there by now.
cleanup(s) ==
  /\ At(s, "restore", "cleanup")
  /\ IF call[s].written = {} THEN UNCHANGED target /\ Goes(s, Idle)
     ELSE \E p \in call[s].written :
            /\ target' = [target EXCEPT ![call[s].dir][p] = None]
            /\ Goes(s, [call[s] EXCEPT !.written = @ \ {p}])
  /\ UNCHANGED <<world, archive, faults>>

\* The caller is told that everything was restored.
FinishRestore(s) ==
  /\ At(s, "restore", "files") /\ Missing(s) = {}
  /\ target' = [target EXCEPT ![call[s].dir] = [p \in Paths |->
                  IF @[p] # None /\ @[p].by = s THEN [@[p] EXCEPT !.by = None] ELSE @[p]]]
  /\ Goes(s, Idle)
  /\ UNCHANGED <<world, archive, faults>>

-----------------------------------------------------------------------------
(* The rest of the world.                                                  *)

\* The application writes its database and its blobs.
Write ==
  /\ writes < MaxWrites /\ writes' = writes + 1
  /\ \/ db' = db + 1 /\ UNCHANGED blob
     \/ \E b \in Blobs : UNCHANGED db /\ blob' = [blob EXCEPT ![b] = IF @ = 0 THEN 2 ELSE 0]
     \/ \E b \in Blobs : blob[b] # 0 /\ UNCHANGED db /\ blob' = [blob EXCEPT ![b] = @ + 1]
  /\ UNCHANGED <<archive, target, call, calls, faults>>

\* An archive is cut off, or loses a frame, where it is kept.
Damage(d) ==
  /\ Fault /\ archive[d] # None
  /\ \E i \in DOMAIN archive[d].frames :
       archive' = [archive EXCEPT ![d].frames = RemoveAt(@, i), ![d].damaged = TRUE]
  /\ UNCHANGED <<world, target, call, calls>>

\* What an interrupted restore has written stays; temporary files are no one's.
Crash ==
  /\ Fault
  /\ call' = [s \in Slots |-> Idle]
  /\ target' = [t \in Targets |-> [p \in Paths |->
                  IF target[t][p] = None THEN None ELSE [target[t][p] EXCEPT !.by = None]]]
  /\ UNCHANGED <<world, archive, calls>>

Init ==
  /\ db = 1 /\ blob = [b \in Blobs |-> 1] /\ writes = 0
  /\ archive = [d \in Dests |-> None] /\ target = [t \in Targets |-> Absent]
  /\ call = [s \in Slots |-> Idle] /\ calls = 0 /\ faults = 0

Next ==
  \/ \E s \in Slots :
       \/ StartExport(s) \/ vacuumInto(s) \/ collectBlobs(s) \/ writePayload(s) \/ atomicWriteStream(s)
       \/ ExportFails(s) \/ ValidateBackup(s) \/ Restore(s) \/ resolveRestoreTarget(s)
       \/ writeNewFileStream(s) \/ RestoreFails(s) \/ cleanup(s) \/ FinishRestore(s)
  \/ \E d \in Dests : Damage(d)
  \/ Write \/ Crash

Spec == Init /\ [][Next]_vars

-----------------------------------------------------------------------------
(* What the owner may rely on.                                             *)

\* An archive that was exported can be restored with its passphrase, although the
\* blobs went on changing while they were read; and one that lost a frame where
\* it was kept is refused (writeZipFile, openChunkStream).
ArchiveIsTrue ==
  \A d \in Dests : archive[d] # None =>
    (decodeArchive(archive[d], archive[d].pass) <=> ~archive[d].damaged)

\* What a restore has written is there as the archive has it and is what it will
\* remove should it fail, nothing more: so one that succeeds has left every file,
\* and one that fails none and nobody else's, although others write and clean up
\* in the same directory (installNoReplace, cleanup).
RestoreOwnsItsFiles ==
  \A s \in Slots : call[s].kind = "restore" =>
    LET dir == target[call[s].dir] IN
      /\ call[s].written = {p \in Paths : dir[p] # None /\ dir[p].by = s}
      /\ \A e \in call[s].files : e.path \in call[s].written => dir[e.path].version = e.version

\* An archive can be restored, and a restore owns what it writes.
BackupsAreTrue == ArchiveIsTrue /\ RestoreOwnsItsFiles
=============================================================================
