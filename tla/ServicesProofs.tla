----------------------------- MODULE ServicesProofs -----------------------------
(***************************************************************************)
(* Proofs about the components of the desktop that share nothing: what the *)
(* search for a cron expression's next occurrence answers, for every       *)
(* calendar, expression and zone in which midnights come first; what       *)
(* exports and restores leave behind; how requests to a provider end; how  *)
(* the owner's settings, agents and conversations stay in order; and which *)
(* notices reach the owner.                                                *)
(***************************************************************************)
EXTENDS Services, FiniteSetTheorems, WellFoundedInduction, TLAPS

-----------------------------------------------------------------------------
(* Cron.                                                                   *)

\* The minutes that were passed had no match; every instant is a number.
Passed ==
  /\ zone \in Zones /\ after \in Starts /\ candidate \in Int /\ candidate > after
  /\ phase \in {"searching", "found", "expired", "refused"}
  /\ FirstMatch

\* A day that does not match has no due minute, and no minute of a month that
\* was not selected is due (scheduler/cron.go:282-298).
LEMMA DueNeedsItsDay ==
  ASSUME NEW t, NEW u,
         DayOf(zone, u) = DayOf(zone, t),
         ~DayMatches(t)
  PROVE  ~Due(u)
BY DEF Due, DayMatches

\* Nor is a minute of a month that was not selected.
LEMMA DueNeedsItsMonth ==
  ASSUME NEW t, NEW u,
         Month(DayOf(zone, u)) = Month(DayOf(zone, t)),
         Month(DayOf(zone, t)) \notin spec.month.values
  PROVE  ~Due(u)
BY DEF Due, DayMatches

\* A search begins with nothing passed.
LEMMA PassedInit ==
  ASSUME Starts \subseteq Int, CronInit
  PROVE  Passed
<1>1. /\ zone \in Zones /\ after \in Starts /\ candidate = after + 1
      /\ phase \in {"searching", "refused"}
  BY DEF CronInit
<1>2. candidate \in Int /\ after \in Int /\ candidate > after
  BY <1>1
<1>3. after + 1 .. candidate - 1 = {}
  BY <1>1, <1>2
<1> QED
  BY <1>1, <1>2, <1>3 DEF Passed, FirstMatch

\* The minutes up to a later candidate are those up to the candidate and the rest.
LEMMA MinutesSplit ==
  ASSUME NEW a \in Int, NEW b \in Int, NEW c \in Int, a < b, b < c
  PROVE  a + 1 .. c - 1 = (a + 1 .. b - 1) \cup (b .. c - 1)
OBVIOUS

\* Moving the candidate over minutes that are not due keeps what was passed.
LEMMA PassedMoves ==
  ASSUME Starts \subseteq Int, Passed, phase = "searching",
         UNCHANGED <<asked, phase>>,
         candidate' \in Int, candidate' > candidate,
         \A u \in candidate .. candidate' - 1 : ~Due(u)
  PROVE  Passed'
<1>1. zone' = zone /\ spec' = spec /\ after' = after /\ phase' = phase
  BY DEF asked
<1>2. after \in Int /\ candidate \in Int /\ candidate > after
  BY DEF Passed
<1>3. \A u \in after + 1 .. candidate - 1 : ~Due(u)
  BY DEF Passed, FirstMatch
<1>4. after + 1 .. candidate' - 1 = (after + 1 .. candidate - 1) \cup (candidate .. candidate' - 1)
  BY <1>2, MinutesSplit
<1>5. \A u \in after + 1 .. candidate' - 1 : ~Due(u)
  BY <1>3, <1>4
<1>6. \A u : Due(u)' <=> Due(u)
  BY <1>1 DEF Due, DayMatches, TimeMatches
<1>7. FirstMatch'
  BY <1>1, <1>5, <1>6 DEF FirstMatch
<1> QED
  BY <1>1, <1>2, <1>7 DEF Passed

\* A jump to an exact target passes only minutes that are not due.
LEMMA PassedJumps ==
  ASSUME Starts \subseteq Int, Passed, phase = "searching",
         NEW to \in Int, Jump(to), ~Due(candidate),
         \A u \in candidate .. to - 1 : ~Due(u)
  PROVE  Passed'
<1>1. candidate \in Int
  BY DEF Passed
<1>2. UNCHANGED <<asked, phase>>
  BY DEF Jump
<1>3. CASE to > candidate
  <2>1. candidate' = to /\ candidate' > candidate
    BY <1>3 DEF Jump
  <2> QED
    BY <2>1, <1>2, PassedMoves
<1>4. CASE ~(to > candidate)
  <2>1. candidate' = candidate + 1
    BY <1>4 DEF Jump
  <2>2. candidate' \in Int /\ candidate' > candidate /\ candidate .. candidate' - 1 = {candidate}
    BY <2>1, <1>1
  <2>3. \A u \in candidate .. candidate' - 1 : ~Due(u)
    BY <2>2
  <2> QED
    BY <2>2, <2>3, <1>2, PassedMoves
<1> QED
  BY <1>3, <1>4

\* Every step of the loop keeps what was passed.
LEMMA PassedStep ==
  ASSUME Starts \subseteq Int, SearchWindow \in Int, MidnightsComeFirst,
         Passed, [CronNext]_cronVars
  PROVE  Passed'
<1>1. after \in Int /\ candidate \in Int /\ zone \in Zones
  BY DEF Passed
<1>2. ASSUME Looking
      PROVE  phase = "searching" /\ candidate \in Searched
  <2>1. candidate \in after + 1 .. after + SearchWindow
    BY <1>1, <1>2 DEF Looking, limit, Passed
  <2> QED
    BY <2>1, <1>2 DEF Looking, Searched, Passed
<1>3. CASE SkipMonth
  <2>1. Looking /\ Month(DayOf(zone, candidate)) \notin spec.month.values
    BY <1>3 DEF SkipMonth
  <2>2. /\ startOfNextLocalMonth(zone, candidate) \in Int
        /\ \A u \in candidate .. startOfNextLocalMonth(zone, candidate) - 1 :
             Month(DayOf(zone, u)) = Month(DayOf(zone, candidate))
    BY <2>1, <1>1, <1>2 DEF MidnightsComeFirst
  <2>3. \A u \in candidate .. startOfNextLocalMonth(zone, candidate) - 1 : ~Due(u)
    BY <2>1, <2>2, DueNeedsItsMonth
  <2>4. ~Due(candidate)
    BY <2>1, DueNeedsItsMonth
  <2>5. Jump(startOfNextLocalMonth(zone, candidate))
    BY <1>3 DEF SkipMonth
  <2> QED
    BY <2>1, <2>2, <2>3, <2>4, <2>5, <1>2, PassedJumps
<1>4. CASE SkipDay
  <2>1. Looking /\ ~DayMatches(candidate)
    BY <1>4 DEF SkipDay, DayMatches
  <2>2. /\ startOfNextLocalDay(zone, candidate) \in Int
        /\ \A u \in candidate .. startOfNextLocalDay(zone, candidate) - 1 :
             DayOf(zone, u) = DayOf(zone, candidate)
    BY <2>1, <1>1, <1>2 DEF MidnightsComeFirst
  <2>3. \A u \in candidate .. startOfNextLocalDay(zone, candidate) - 1 : ~Due(u)
    BY <2>1, <2>2, DueNeedsItsDay
  <2>4. ~Due(candidate)
    BY <2>1, DueNeedsItsDay
  <2>5. Jump(startOfNextLocalDay(zone, candidate))
    BY <1>4 DEF SkipDay
  <2> QED
    BY <2>1, <2>2, <2>3, <2>4, <2>5, <1>2, PassedJumps
<1>5. CASE Answer
  <2>1. /\ phase = "searching" /\ phase' = "found" /\ Due(candidate)
        /\ zone' = zone /\ spec' = spec /\ after' = after /\ candidate' = candidate
    BY <1>5 DEF Answer, Looking, Due, asked
  <2>2. \A u : Due(u)' <=> Due(u)
    BY <2>1 DEF Due, DayMatches, TimeMatches
  <2>3. FirstMatch'
    BY <2>1, <2>2 DEF Passed, FirstMatch
  <2> QED
    BY <2>1, <2>3 DEF Passed
<1>6. CASE NextMinute
  <2>1. /\ Looking /\ ~Due(candidate) /\ candidate' = candidate + 1
        /\ UNCHANGED <<asked, phase>>
    BY <1>6 DEF NextMinute, Due
  <2>2. candidate' \in Int /\ candidate' > candidate /\ candidate .. candidate' - 1 = {candidate}
    BY <2>1, <1>1
  <2>3. \A u \in candidate .. candidate' - 1 : ~Due(u)
    BY <2>1, <2>2
  <2> QED
    BY <2>1, <2>2, <2>3, <1>2, PassedMoves
<1>7. CASE Expire
  <2>1. /\ phase = "searching" /\ phase' = "expired" /\ candidate >= limit
        /\ zone' = zone /\ spec' = spec /\ after' = after /\ candidate' = candidate
    BY <1>7 DEF Expire, asked
  <2>2. \A u : Due(u)' <=> Due(u)
    BY <2>1 DEF Due, DayMatches, TimeMatches
  <2>3. limit' = limit
    BY <2>1 DEF limit
  <2>4. FirstMatch'
    BY <2>1, <2>2, <2>3 DEF Passed, FirstMatch
  <2> QED
    BY <2>1, <2>4 DEF Passed
<1>8. CASE UNCHANGED cronVars
  <2>1. zone' = zone /\ spec' = spec /\ after' = after /\ candidate' = candidate /\ phase' = phase
    BY <1>8 DEF cronVars, asked
  <2>2. \A u : Due(u)' <=> Due(u)
    BY <2>1 DEF Due, DayMatches, TimeMatches
  <2>3. limit' = limit
    BY <2>1 DEF limit
  <2>4. FirstMatch'
    BY <2>1, <2>2, <2>3 DEF Passed, FirstMatch
  <2> QED
    BY <2>1, <2>4 DEF Passed
<1> QED
  BY <1>3, <1>4, <1>5, <1>6, <1>7, <1>8 DEF CronNext

\* A search answers with the first minute that matches, whatever the expression
\* and the zone are, as long as midnights come first there: the jumps over days
\* and months are as good as looking at every minute (scheduler/cron.go:250-306).
THEOREM AnswerIsFirst ==
  ASSUME Starts \subseteq Int, SearchWindow \in Int, MidnightsComeFirst
  PROVE  CronSpec => []FirstMatch
<1>1. CronInit => Passed
  BY PassedInit
<1>2. Passed /\ [CronNext]_cronVars => Passed'
  BY PassedStep
<1>3. Passed => FirstMatch
  BY DEF Passed
<1> QED
  BY <1>1, <1>2, <1>3, PTL DEF CronSpec

\* A search never looks at the same minute twice: every step moves forward or
\* ends it (scheduler/cron.go:283-289).
THEOREM SearchAdvances ==
  ASSUME Starts \subseteq Int, SearchWindow \in Int, MidnightsComeFirst
  PROVE  CronSpec => AlwaysAdvances
<1>1. CronInit => Passed
  BY PassedInit
<1>2. Passed /\ [CronNext]_cronVars => Passed'
  BY PassedStep
<1>3. Passed /\ [CronNext]_cronVars => [candidate' > candidate \/ phase' # phase]_cronVars
  <2> SUFFICES ASSUME Passed, CronNext
               PROVE  candidate' > candidate \/ phase' # phase
    BY DEF Passed
  <2>1. candidate \in Int
    BY DEF Passed
  <2>2. \A to : Jump(to) => candidate' > candidate
    BY <2>1 DEF Jump
  <2>3. CASE SkipMonth \/ SkipDay
    BY <2>2, <2>3 DEF SkipMonth, SkipDay
  <2>4. CASE Answer \/ Expire
    BY <2>4 DEF Answer, Expire, Looking
  <2>5. CASE NextMinute
    BY <2>1, <2>5 DEF NextMinute
  <2> QED
    BY <2>3, <2>4, <2>5 DEF CronNext
<1> QED
  BY <1>1, <1>2, <1>3, PTL DEF CronSpec, AlwaysAdvances

-----------------------------------------------------------------------------
(* Backups: what is in the archives and in the restore directories.        *)

Entries == [path : Paths, version : Nat]
Files == [version : Nat, by : Slots \cup {None}]
Frames == [index : Nat, last : BOOLEAN, entry : Entries]
Exports ==
  [kind : {"export"}, pc : {"snapshot", "hash", "write", "install"}, dest : Dests, pass : Passes,
   with : BOOLEAN, snapshot : Nat, listed : SUBSET Blobs, manifest : SUBSET Entries,
   entries : Seq(Entries)]
Restores ==
  [kind : {"restore"}, pc : {"resolve", "files", "cleanup"}, dir : Targets,
   files : SUBSET Entries, written : SUBSET Paths]
Archives ==
  [pass : Passes, frames : Seq(Frames), manifest : SUBSET Entries, config : SUBSET Fields,
   damaged : BOOLEAN]

OncePerPath(entries) == \A e, f \in entries : e.path = f.path => e = f

\* An export has a manifest that names every path once, what it still has to read is
\* not on it, and what it has sealed is.
ExportGoesWell(c) ==
  /\ c \in Exports
  /\ OncePerPath(c.manifest)
  /\ \A b \in c.listed, e \in c.manifest : e.path # b
  /\ c.pc = "snapshot" => c.listed = {}
  /\ c.pc # "snapshot" => \E e \in c.manifest : e.path = "db"
  /\ c.pc \in {"snapshot", "hash"} => c.entries = << >>
  /\ ToSet(c.entries) \subseteq c.manifest /\ IsFiniteSet(ToSet(c.entries))
  /\ Cardinality(ToSet(c.entries)) = Len(c.entries)
  /\ c.pc = "install" => ToSet(c.entries) = c.manifest

RestoreGoesWell(c) ==
  c \in Restores /\ OncePerPath(c.files) /\ (c.pc = "resolve" => c.written = {})

GoesWell(c) == c = Idle \/ ExportGoesWell(c) \/ RestoreGoesWell(c)

\* What is left of a stream that lost a frame is too short for its last one.
Torn(frames) ==
  \E n \in Nat : Len(frames) < n /\ \A i \in DOMAIN frames : frames[i].last = (frames[i].index = n)

ArchiveInOrder(a) ==
  /\ a \in Archives /\ OncePerPath(a.manifest) /\ a.config \cap Sensitive = {}
  /\ ~a.damaged => openChunkStream(a.frames) /\ parsePayload(Opened(a), a.manifest)
  /\ a.damaged => Torn(a.frames)

StoreShaped ==
  /\ db \in Nat /\ blob \in [Blobs -> Nat]
  /\ DOMAIN call = Slots /\ \A s \in Slots : GoesWell(call[s])
  /\ DOMAIN archive = Dests /\ \A d \in Dests : archive[d] # None => ArchiveInOrder(archive[d])
  /\ target \in [Targets -> [Paths -> {None} \cup Files]]

\* A file that is still a restore's own is in the directory it restores into.
FilesOwned ==
  \A s \in Slots, t \in Targets, p \in Paths :
    target[t][p] # None /\ target[t][p].by = s => call[s].kind = "restore" /\ call[s].dir = t

StoreInv == StoreShaped /\ FilesOwned /\ RestoreOwnsItsFiles

-----------------------------------------------------------------------------
LEMMA IdleIsIdle == Idle.kind = "idle" /\ Idle.pc = "idle" /\ GoesWell(Idle)
  BY DEF Idle, GoesWell

LEMMA StoreInit == Init => StoreInv
<1> SUFFICES ASSUME Init PROVE StoreInv
  OBVIOUS
<1>1. StoreShaped
  BY IdleIsIdle DEF Init, StoreShaped, Absent
<1>2. \A t \in Targets, p \in Paths : target[t][p] = None
  BY DEF Init, Absent
<1>3. \A s \in Slots : call[s].kind = "idle"
  BY IdleIsIdle DEF Init
<1> QED
  BY <1>1, <1>2, <1>3 DEF StoreInv, FilesOwned, RestoreOwnsItsFiles

\* What an export does is no restore's business.
LEMMA OutsideRestore ==
  ASSUME StoreInv, NEW s \in Slots, NEW c,
         call[s].kind # "restore",
         GoesWell(c), c.kind = "restore" => c.written = {},
         call' = [call EXCEPT ![s] = c],
         UNCHANGED <<db, blob, archive, target>>
  PROVE  StoreInv'
<1>0. DOMAIN call = Slots /\ call'[s] = c /\ DOMAIN call' = Slots
      /\ \A q \in Slots \ {s} : call'[q] = call[q]
  BY DEF StoreInv, StoreShaped
<1>1. StoreShaped'
  BY <1>0 DEF StoreInv, StoreShaped
<1>2. \A t \in Targets, p \in Paths : target[t][p] # None => target[t][p].by # s
  BY DEF StoreInv, FilesOwned
<1>3. FilesOwned'
  BY <1>0, <1>2 DEF StoreInv, FilesOwned
<1>4. ASSUME NEW q \in Slots, call'[q].kind = "restore"
      PROVE  LET dir == target[call'[q].dir] IN
               /\ call'[q].written = {p \in Paths : dir[p] # None /\ dir[p].by = q}
               /\ \A e \in call'[q].files : e.path \in call'[q].written => dir[e.path].version = e.version
  <2>1. CASE q # s
    BY <2>1, <1>0, <1>4 DEF StoreInv, RestoreOwnsItsFiles
  <2>2. CASE q = s
    <3>1. c.kind = "restore" /\ c.written = {}
      BY <2>2, <1>0, <1>4
    <3>2. c.dir \in Targets
      BY <3>1, IdleIsIdle DEF GoesWell, ExportGoesWell, RestoreGoesWell, Exports, Restores
    <3> QED
      BY <3>1, <3>2, <2>2, <1>0, <1>2
  <2> QED
    BY <2>1, <2>2
<1>5. RestoreOwnsItsFiles'
  BY <1>4 DEF RestoreOwnsItsFiles
<1> QED
  BY <1>1, <1>3, <1>5 DEF StoreInv

\* A restore that writes nothing in a step keeps what it has, or has nothing.
LEMMA RestoreRests ==
  ASSUME StoreInv, NEW s \in Slots, NEW c,
         call[s].kind = "restore",
         \/ c = Idle /\ call[s].written = {}
         \/ /\ RestoreGoesWell(c) /\ c.dir = call[s].dir
            /\ c.files = call[s].files /\ c.written = call[s].written,
         call' = [call EXCEPT ![s] = c],
         UNCHANGED <<db, blob, archive, target>>
  PROVE  StoreInv'
<1>0. DOMAIN call = Slots /\ call'[s] = c /\ DOMAIN call' = Slots
      /\ \A q \in Slots \ {s} : call'[q] = call[q]
  BY DEF StoreInv, StoreShaped
<1>00. call[s].dir \in Targets
  BY IdleIsIdle DEF StoreInv, StoreShaped, GoesWell, ExportGoesWell, RestoreGoesWell, Exports, Restores
<1>1. StoreShaped'
  BY <1>0, IdleIsIdle DEF StoreInv, StoreShaped, GoesWell
<1>2. FilesOwned'
  <2> SUFFICES ASSUME NEW q \in Slots, NEW t \in Targets, NEW p \in Paths,
                      target[t][p] # None, target[t][p].by = q
               PROVE  call'[q].kind = "restore" /\ call'[q].dir = t
    BY DEF FilesOwned
  <2>1. call[q].kind = "restore" /\ call[q].dir = t
    BY DEF StoreInv, FilesOwned
  <2>2. CASE q # s
    BY <2>1, <2>2, <1>0
  <2>3. CASE q = s
    <3>1. p \in call[s].written
      BY <2>1, <2>3 DEF StoreInv, RestoreOwnsItsFiles
    <3> QED
      BY <3>1, <2>1, <2>3, <1>0 DEF RestoreGoesWell, Restores
  <2> QED
    BY <2>2, <2>3
<1>3. RestoreOwnsItsFiles'
  <2> SUFFICES ASSUME NEW q \in Slots, call'[q].kind = "restore"
               PROVE  LET dir == target[call'[q].dir] IN
                        /\ call'[q].written = {p \in Paths : dir[p] # None /\ dir[p].by = q}
                        /\ \A e \in call'[q].files :
                             e.path \in call'[q].written => dir[e.path].version = e.version
    BY DEF RestoreOwnsItsFiles
  <2>1. CASE q # s
    BY <2>1, <1>0 DEF StoreInv, RestoreOwnsItsFiles
  <2>2. CASE q = s
    <3>1. c.dir = call[s].dir /\ c.files = call[s].files /\ c.written = call[s].written
      BY <2>2, <1>0, IdleIsIdle
    <3> QED
      BY <3>1, <2>2, <1>0 DEF StoreInv, RestoreOwnsItsFiles
  <2> QED
    BY <2>1, <2>2
<1> QED
  BY <1>1, <1>2, <1>3 DEF StoreInv

-----------------------------------------------------------------------------
(* The steps of an export.                                                 *)

LEMMA StartExportKeeps ==
  ASSUME BackupAssumption, StoreInv, NEW s \in Slots, StartExport(s)
  PROVE  StoreInv'
<1>1. PICK d \in Dests, p \in Passes, with \in BOOLEAN :
        Begin(s, [kind |-> "export", pc |-> "snapshot", dest |-> d, pass |-> p, with |-> with,
                  snapshot |-> 0, listed |-> {}, manifest |-> {}, entries |-> << >>])
  BY DEF StartExport
<1> DEFINE c == [kind |-> "export", pc |-> "snapshot", dest |-> d, pass |-> p, with |-> with,
                 snapshot |-> 0, listed |-> {}, manifest |-> {}, entries |-> << >>]
<1>2. c \in Exports
  BY DEF Exports
<1>3. ToSet(<< >>) = {} /\ IsFiniteSet({}) /\ Cardinality({}) = 0
  BY FS_EmptySet DEF ToSet
<1>4. ExportGoesWell(c)
  BY <1>2, <1>3 DEF ExportGoesWell, OncePerPath
<1>5. call[s] = Idle /\ call' = [call EXCEPT ![s] = c]
  BY <1>1 DEF Begin
<1>6. c.kind = "export"
  OBVIOUS
<1>7. UNCHANGED <<db, blob, archive, target>>
  BY DEF StartExport, world
<1> HIDE DEF c
<1> QED
  BY <1>4, <1>5, <1>6, <1>7, IdleIsIdle, OutsideRestore DEF GoesWell

LEMMA vacuumIntoKeeps ==
  ASSUME BackupAssumption, StoreInv, NEW s \in Slots, vacuumInto(s)
  PROVE  StoreInv'
<1> DEFINE r == call[s]
           listed == IF r.listed = {} /\ r.with THEN {b \in Blobs : blob[b] # 0} ELSE {}
           m == {Entry("db", db), Entry("config", 1)}
           c == [r EXCEPT !.pc = "hash", !.snapshot = db, !.listed = listed, !.manifest = m]
<1>1. r.kind = "export" /\ r.pc = "snapshot"
  BY DEF vacuumInto, At
<1>2. ExportGoesWell(r)
  BY <1>1, IdleIsIdle DEF StoreInv, StoreShaped, GoesWell, RestoreGoesWell, Restores
<1>3. call' = [call EXCEPT ![s] = c]
  BY DEF vacuumInto, Goes
<1>4. m \in SUBSET Entries /\ listed \in SUBSET Blobs
  BY DEF Entries, Entry, StoreInv, StoreShaped, Paths
<1>5. OncePerPath(m) /\ (\E e \in m : e.path = "db") /\ \A b \in listed, e \in m : e.path # b
  <2>1. Entry("db", db).path = "db" /\ Entry("config", 1).path = "config"
    BY DEF Entry
  <2> QED
    BY <2>1, <1>4 DEF OncePerPath, BackupAssumption
<1>6. r \in Exports /\ r.entries = << >> /\ db \in Nat
  BY <1>1, <1>2 DEF ExportGoesWell, StoreInv, StoreShaped
<1> HIDE DEF r, listed, m
<1>7. /\ c \in Exports /\ c.kind = "export" /\ c.pc = "hash"
      /\ c.listed = listed /\ c.manifest = m /\ c.entries = << >>
  BY <1>4, <1>6 DEF Exports
<1> HIDE DEF c
<1>8. ToSet(<< >>) = {} /\ IsFiniteSet({}) /\ Cardinality({}) = 0
  BY FS_EmptySet DEF ToSet
<1>9. ExportGoesWell(c)
  BY <1>5, <1>7, <1>8 DEF ExportGoesWell
<1>10. UNCHANGED <<db, blob, archive, target>>
  BY DEF vacuumInto, world
<1>11. call[s].kind # "restore"
  BY <1>1 DEF r
<1> QED
  BY <1>3, <1>7, <1>9, <1>10, <1>11, OutsideRestore DEF GoesWell

LEMMA EntryAppended ==
  ASSUME NEW S, NEW q \in Seq(S), NEW e \in S, e \notin ToSet(q),
         IsFiniteSet(ToSet(q)), Cardinality(ToSet(q)) = Len(q)
  PROVE  /\ Append(q, e) \in Seq(S)
         /\ ToSet(Append(q, e)) = ToSet(q) \cup {e}
         /\ IsFiniteSet(ToSet(Append(q, e)))
         /\ Cardinality(ToSet(Append(q, e))) = Len(Append(q, e))
<1>1. /\ Append(q, e) \in Seq(S) /\ Len(Append(q, e)) = Len(q) + 1
      /\ DOMAIN Append(q, e) = 1 .. Len(q) + 1 /\ DOMAIN q = 1 .. Len(q)
      /\ \A i \in 1 .. Len(q) + 1 : Append(q, e)[i] = IF i <= Len(q) THEN q[i] ELSE e
      /\ Len(q) \in Nat
  OBVIOUS
<1>2. ToSet(Append(q, e)) = ToSet(q) \cup {e}
  <2> DEFINE r == Append(q, e)
  <2>1. /\ DOMAIN r = 1 .. Len(q) + 1 /\ DOMAIN q = 1 .. Len(q) /\ Len(q) \in Nat
        /\ \A i \in 1 .. Len(q) + 1 : r[i] = IF i <= Len(q) THEN q[i] ELSE e
    BY <1>1
  <2> HIDE DEF r
  <2>2. ASSUME NEW i \in DOMAIN r PROVE r[i] \in ToSet(q) \cup {e}
    <3>1. (i \in DOMAIN q /\ r[i] = q[i]) \/ r[i] = e
      BY <2>1
    <3> QED
      BY <3>1 DEF ToSet
  <2>3. ASSUME NEW i \in DOMAIN q PROVE i \in DOMAIN r /\ r[i] = q[i]
    BY <2>1
  <2>4. Len(q) + 1 \in DOMAIN r /\ r[Len(q) + 1] = e
    BY <2>1
  <2>5. ToSet(r) = ToSet(q) \cup {e}
    BY <2>2, <2>3, <2>4 DEF ToSet
  <2> QED
    BY <2>5 DEF r
<1> QED
  BY <1>1, <1>2, FS_AddElement

\* An export that reads or seals goes well, and an end of one is no loss.
LEMMA ExportGoesOn ==
  ASSUME StoreInv, NEW s \in Slots, NEW c, call[s].kind = "export",
         c = Idle \/ ExportGoesWell(c),
         call' = [call EXCEPT ![s] = c],
         UNCHANGED <<db, blob, archive, target>>
  PROVE  StoreInv'
<1>1. GoesWell(c) /\ c.kind # "restore"
  BY IdleIsIdle DEF GoesWell, ExportGoesWell, Exports
<1> QED
  BY <1>1, OutsideRestore

LEMMA collectBlobsKeeps ==
  ASSUME BackupAssumption, StoreInv, NEW s \in Slots, collectBlobs(s)
  PROVE  StoreInv'
<1> DEFINE r == call[s]
<1>1. r.kind = "export" /\ r.pc = "hash"
  BY DEF collectBlobs, At
<1>2. ExportGoesWell(r) /\ r \in Exports
  BY <1>1, IdleIsIdle DEF StoreInv, StoreShaped, GoesWell, RestoreGoesWell, Restores, ExportGoesWell
<1>3. UNCHANGED <<db, blob, archive, target>>
  BY DEF collectBlobs, world
<1>4. ASSUME NEW b \in r.listed, Goes(s, [r EXCEPT !.listed = @ \ {b}, !.manifest = @ \cup {Entry(b, blob[b])}])
      PROVE  StoreInv'
  <2> DEFINE m == r.manifest \cup {Entry(b, blob[b])}
             l == r.listed \ {b}
             c == [r EXCEPT !.listed = l, !.manifest = m]
  <2>1. call' = [call EXCEPT ![s] = c]
    BY <1>4 DEF Goes
  <2>2. b \in Blobs /\ Entry(b, blob[b]) \in Entries /\ Entry(b, blob[b]).path = b
    BY <1>2 DEF Exports, Entries, Entry, Paths, StoreInv, StoreShaped
  <2>3. m \in SUBSET Entries /\ l \in SUBSET Blobs /\ r.manifest \subseteq m
    BY <1>2, <2>2 DEF Exports
  <2>4. OncePerPath(m) /\ \A x \in l, e \in m : e.path # x
    BY <1>2, <2>2 DEF ExportGoesWell, OncePerPath
  <2>5. \E e \in m : e.path = "db"
    BY <1>1, <1>2, <2>3 DEF ExportGoesWell
  <2>6. r.entries = << >>
    BY <1>1, <1>2 DEF ExportGoesWell
  <2>7. ToSet(<< >>) = {} /\ IsFiniteSet({}) /\ Cardinality({}) = 0
    BY FS_EmptySet DEF ToSet
  <2> HIDE DEF m, l, r
  <2>8. /\ c \in Exports /\ c.pc = "hash" /\ c.listed = l /\ c.manifest = m /\ c.entries = << >>
    BY <1>1, <1>2, <2>3, <2>6 DEF Exports
  <2> HIDE DEF c
  <2>9. ExportGoesWell(c)
    BY <2>4, <2>5, <2>7, <2>8 DEF ExportGoesWell
  <2> QED
    BY <1>1, <1>3, <2>1, <2>9, ExportGoesOn DEF r
<1>5. ASSUME Goes(s, Idle) PROVE StoreInv'
  BY <1>1, <1>3, <1>5, ExportGoesOn DEF Goes
<1>6. ASSUME Goes(s, [r EXCEPT !.pc = "write"]) PROVE StoreInv'
  <2> DEFINE c == [r EXCEPT !.pc = "write"]
  <2>1. call' = [call EXCEPT ![s] = c]
    BY <1>6 DEF Goes
  <2> HIDE DEF r
  <2>2. /\ c \in Exports /\ c.pc = "write" /\ c.listed = r.listed /\ c.manifest = r.manifest
        /\ c.entries = r.entries
    BY <1>2 DEF Exports
  <2> HIDE DEF c
  <2>3. ExportGoesWell(c)
    BY <1>1, <1>2, <2>2 DEF ExportGoesWell
  <2> QED
    BY <1>1, <1>3, <2>1, <2>3, ExportGoesOn DEF r
<1> QED
  BY <1>4, <1>5, <1>6 DEF collectBlobs

LEMMA writePayloadKeeps ==
  ASSUME BackupAssumption, StoreInv, NEW s \in Slots, writePayload(s)
  PROVE  StoreInv'
<1> DEFINE r == call[s]
<1>1. r.kind = "export" /\ r.pc = "write"
  BY DEF writePayload, At
<1>2. ExportGoesWell(r) /\ r \in Exports
  BY <1>1, IdleIsIdle DEF StoreInv, StoreShaped, GoesWell, RestoreGoesWell, Restores, ExportGoesWell
<1>3. UNCHANGED <<db, blob, archive, target>>
  BY DEF writePayload, world
<1>4. ASSUME NEW e \in Left(s), Goes(s, [r EXCEPT !.entries = Append(@, e)])
      PROVE  StoreInv'
  <2> DEFINE q == Append(r.entries, e)
             c == [r EXCEPT !.entries = q]
  <2>1. call' = [call EXCEPT ![s] = c]
    BY <1>4 DEF Goes
  <2>2. e \in r.manifest /\ e \notin ToSet(r.entries)
    BY DEF Left
  <2>3. r.entries \in Seq(Entries) /\ r.manifest \subseteq Entries
    BY <1>2 DEF Exports
  <2>4. /\ q \in Seq(Entries) /\ ToSet(q) = ToSet(r.entries) \cup {e}
        /\ IsFiniteSet(ToSet(q)) /\ Cardinality(ToSet(q)) = Len(q)
    BY <1>2, <2>2, <2>3, EntryAppended DEF ExportGoesWell
  <2> HIDE DEF q, r
  <2>5. /\ c \in Exports /\ c.pc = "write" /\ c.listed = r.listed /\ c.manifest = r.manifest
        /\ c.entries = q
    BY <1>1, <1>2, <2>4 DEF Exports
  <2> HIDE DEF c
  <2>6. ExportGoesWell(c)
    BY <1>1, <1>2, <2>2, <2>4, <2>5 DEF ExportGoesWell
  <2> QED
    BY <1>1, <1>3, <2>1, <2>6, ExportGoesOn DEF r
<1>5. ASSUME Goes(s, Idle) PROVE StoreInv'
  BY <1>1, <1>3, <1>5, ExportGoesOn DEF Goes
<1>6. ASSUME Left(s) = {}, Goes(s, [r EXCEPT !.pc = "install"]) PROVE StoreInv'
  <2> DEFINE c == [r EXCEPT !.pc = "install"]
  <2>1. call' = [call EXCEPT ![s] = c]
    BY <1>6 DEF Goes
  <2>2. ToSet(r.entries) = r.manifest
    <3>1. ASSUME NEW e \in r.manifest PROVE e \in ToSet(r.entries)
      <4>1. PICK f \in ToSet(r.entries) : f.path = e.path
        BY <1>6 DEF Left
      <4> QED
        BY <1>2, <4>1 DEF ExportGoesWell, OncePerPath
    <3> QED
      BY <1>2, <3>1 DEF ExportGoesWell
  <2> HIDE DEF r
  <2>3. /\ c \in Exports /\ c.pc = "install" /\ c.listed = r.listed /\ c.manifest = r.manifest
        /\ c.entries = r.entries
    BY <1>2 DEF Exports
  <2> HIDE DEF c
  <2>4. ExportGoesWell(c)
    BY <1>1, <1>2, <2>2, <2>3 DEF ExportGoesWell
  <2> QED
    BY <1>1, <1>3, <2>1, <2>4, ExportGoesOn DEF r
<1> QED
  BY <1>4, <1>5, <1>6 DEF writePayload

\* Frames sealed in order are a stream that opens to what was sealed.
LEMMA SealedOpens ==
  ASSUME NEW q \in Seq(Entries), q # << >>
  PROVE  /\ Seal(q) \in Seq(Frames) /\ openChunkStream(Seal(q))
         /\ [i \in DOMAIN Seal(q) |-> Seal(q)[i].entry] = q
<1>1. Len(q) \in Nat /\ DOMAIN q = 1 .. Len(q) /\ \A i \in DOMAIN q : q[i] \in Entries
  OBVIOUS
<1>2. /\ DOMAIN Seal(q) = 1 .. Len(q)
      /\ \A i \in 1 .. Len(q) : Seal(q)[i] = [index |-> i, last |-> i = Len(q), entry |-> q[i]]
  BY <1>1 DEF Seal
<1>3. \A i \in 1 .. Len(q) : /\ Seal(q)[i] \in Frames /\ Seal(q)[i].index = i
                             /\ Seal(q)[i].last = (i = Len(q)) /\ Seal(q)[i].entry = q[i]
  <2> SUFFICES ASSUME NEW i \in 1 .. Len(q)
               PROVE  /\ Seal(q)[i] \in Frames /\ Seal(q)[i].index = i
                      /\ Seal(q)[i].last = (i = Len(q)) /\ Seal(q)[i].entry = q[i]
    OBVIOUS
  <2>1. Seal(q)[i] = [index |-> i, last |-> i = Len(q), entry |-> q[i]]
    BY <1>2
  <2>2. i \in Nat /\ q[i] \in Entries /\ (i = Len(q)) \in BOOLEAN
    BY <1>1
  <2> DEFINE final == i = Len(q)
  <2>3. Seal(q)[i] = [index |-> i, last |-> final, entry |-> q[i]] /\ final \in BOOLEAN
    BY <2>1, <2>2
  <2> HIDE DEF final
  <2>4. Seal(q)[i] \in Frames
    BY <2>2, <2>3 DEF Frames
  <2>5. Seal(q)[i].index = i /\ Seal(q)[i].last = final /\ Seal(q)[i].entry = q[i]
    BY <2>3, SMTT(40)
  <2> QED
    BY <2>4, <2>5 DEF final
<1>4. Seal(q) \in [1 .. Len(q) -> Frames]
  BY <1>2, <1>3 DEF Seal
<1>5. Seal(q) \in Seq(Frames) /\ Len(Seal(q)) = Len(q)
  BY <1>1, <1>4
<1>6. Len(q) # 0
  BY SMTT(40)
<1>7. Seal(q) # << >>
  BY <1>1, <1>2, <1>5, <1>6, ZenonT(60)
<1>8. openChunkStream(Seal(q))
  BY <1>2, <1>3, <1>5, <1>7 DEF openChunkStream
<1>9. [i \in DOMAIN Seal(q) |-> Seal(q)[i].entry] = q
  <2>1. q = [i \in 1 .. Len(q) |-> q[i]]
    OBVIOUS
  <2>2. [i \in DOMAIN Seal(q) |-> Seal(q)[i].entry] = [i \in 1 .. Len(q) |-> q[i]]
    BY <1>2, <1>3, Zenon
  <2> QED
    BY <2>1, <2>2
<1> QED
  BY <1>5, <1>8, <1>9

LEMMA atomicWriteStreamKeeps ==
  ASSUME BackupAssumption, StoreInv, NEW s \in Slots, atomicWriteStream(s)
  PROVE  StoreInv'
<1> DEFINE r == call[s]
           a == [pass |-> r.pass, frames |-> Seal(r.entries), manifest |-> r.manifest,
                 config |-> sanitizeJSON(Fields), damaged |-> FALSE]
<1>1. r.kind = "export" /\ r.pc = "install"
  BY DEF atomicWriteStream, At
<1>2. ExportGoesWell(r) /\ r \in Exports
  BY <1>1, IdleIsIdle DEF StoreInv, StoreShaped, GoesWell, RestoreGoesWell, Restores, ExportGoesWell
<1>3. r.entries \in Seq(Entries) /\ r.dest \in Dests /\ r.pass \in Passes /\ r.manifest \in SUBSET Entries
  BY <1>2 DEF Exports
<1>4. ToSet(r.entries) = r.manifest /\ Len(r.entries) = Cardinality(r.manifest)
      /\ (\E e \in r.manifest : e.path = "db") /\ OncePerPath(r.manifest)
  BY <1>1, <1>2 DEF ExportGoesWell
<1>5. r.entries # << >>
  BY <1>4 DEF ToSet
<1>6. /\ Seal(r.entries) \in Seq(Frames) /\ openChunkStream(Seal(r.entries))
      /\ [i \in DOMAIN Seal(r.entries) |-> Seal(r.entries)[i].entry] = r.entries
  BY <1>3, <1>5, SealedOpens
<1>7. sanitizeJSON(Fields) \in SUBSET Fields /\ sanitizeJSON(Fields) \cap Sensitive = {}
  BY DEF sanitizeJSON
<1>8. /\ archive' = IF archive[r.dest] # None THEN archive ELSE [archive EXCEPT ![r.dest] = a]
      /\ call' = [call EXCEPT ![s] = Idle]
      /\ UNCHANGED <<db, blob, target>>
  BY DEF atomicWriteStream, Goes, world
<1> HIDE DEF r
<1>9. ArchiveInOrder(a)
  <2>1. a \in Archives
    BY <1>3, <1>6, <1>7 DEF Archives
  <2>2. parsePayload(Opened(a), a.manifest)
    BY <1>4, <1>6 DEF parsePayload, Opened
  <2> QED
    BY <1>4, <1>6, <1>7, <2>1, <2>2 DEF ArchiveInOrder
<1> HIDE DEF a
<1>10. DOMAIN archive' = Dests /\ \A d \in Dests : archive'[d] # None => ArchiveInOrder(archive'[d])
  BY <1>3, <1>8, <1>9 DEF StoreInv, StoreShaped
<1>11. /\ DOMAIN call = Slots /\ DOMAIN call' = Slots /\ call'[s] = Idle
       /\ \A q \in Slots \ {s} : call'[q] = call[q]
  BY <1>8 DEF StoreInv, StoreShaped
<1>12. StoreShaped'
  BY <1>8, <1>10, <1>11, IdleIsIdle DEF StoreInv, StoreShaped
<1>13. \A t \in Targets, p \in Paths : target[t][p] # None => target[t][p].by # s
  BY <1>1 DEF StoreInv, FilesOwned, r
<1>14. FilesOwned'
  BY <1>8, <1>11, <1>13 DEF StoreInv, FilesOwned
<1>15. RestoreOwnsItsFiles'
  BY <1>8, <1>11, IdleIsIdle DEF StoreInv, RestoreOwnsItsFiles
<1> QED
  BY <1>12, <1>14, <1>15 DEF StoreInv

LEMMA ExportFailsKeeps ==
  ASSUME StoreInv, NEW s \in Slots, ExportFails(s)
  PROVE  StoreInv'
  BY ExportGoesOn DEF ExportFails, Goes, world

-----------------------------------------------------------------------------
(* The steps of a restore.                                                 *)

LEMMA BeginsIdle ==
  ASSUME StoreInv, NEW s \in Slots, NEW c, GoesWell(c), c.kind = "restore" => c.written = {},
         Begin(s, c), UNCHANGED <<db, blob, archive, target>>
  PROVE  StoreInv'
<1>1. call[s].kind # "restore" /\ call' = [call EXCEPT ![s] = c]
  BY IdleIsIdle DEF Begin
<1> QED
  BY <1>1, OutsideRestore

LEMMA ValidateBackupKeeps ==
  ASSUME StoreInv, NEW s \in Slots, ValidateBackup(s)
  PROVE  StoreInv'
  BY BeginsIdle, IdleIsIdle DEF ValidateBackup, world

LEMMA RestoreKeeps ==
  ASSUME StoreInv, NEW s \in Slots, Restore(s)
  PROVE  StoreInv'
<1>1. UNCHANGED <<db, blob, archive, target>>
  BY DEF Restore, world
<1>2. ASSUME NEW d \in Dests, NEW t \in Targets, archive[d] # None,
             Begin(s, [kind |-> "restore", pc |-> "resolve", dir |-> t, files |-> archive[d].manifest,
                       written |-> {}])
      PROVE  StoreInv'
  <2> DEFINE c == [kind |-> "restore", pc |-> "resolve", dir |-> t, files |-> archive[d].manifest,
                   written |-> {}]
  <2>1. archive[d].manifest \in SUBSET Entries /\ OncePerPath(archive[d].manifest)
    BY <1>2 DEF StoreInv, StoreShaped, ArchiveInOrder, Archives
  <2>2. c \in Restores /\ OncePerPath(c.files) /\ c.written = {}
    BY <2>1 DEF Restores
  <2>3. Begin(s, c)
    BY <1>2
  <2> HIDE DEF c
  <2>4. GoesWell(c)
    BY <2>2 DEF GoesWell, RestoreGoesWell
  <2> QED
    BY <1>1, <2>2, <2>3, <2>4, BeginsIdle
<1>3. ASSUME Begin(s, Idle) PROVE StoreInv'
  BY <1>1, <1>3, BeginsIdle, IdleIsIdle
<1> QED
  BY <1>2, <1>3 DEF Restore

\* What is known of a slot that restores.
LEMMA Restoring ==
  ASSUME StoreInv, NEW s \in Slots, call[s].kind = "restore"
  PROVE  /\ RestoreGoesWell(call[s]) /\ call[s] \in Restores /\ call[s].dir \in Targets
         /\ call[s].files \in SUBSET Entries /\ call[s].written \in SUBSET Paths
<1>1. RestoreGoesWell(call[s])
  BY IdleIsIdle DEF StoreInv, StoreShaped, GoesWell, ExportGoesWell, Exports
<1> QED
  BY <1>1 DEF RestoreGoesWell, Restores

\* The next step of a restore that goes on, or cleans up.
LEMMA RestoreAt ==
  ASSUME NEW r, RestoreGoesWell(r), NEW pc \in {"files", "cleanup"}
  PROVE  /\ RestoreGoesWell([r EXCEPT !.pc = pc])
         /\ [r EXCEPT !.pc = pc].dir = r.dir
         /\ [r EXCEPT !.pc = pc].files = r.files
         /\ [r EXCEPT !.pc = pc].written = r.written
         /\ [r EXCEPT !.pc = pc].kind = "restore"
<1> DEFINE c == [r EXCEPT !.pc = pc]
<1>1. /\ c \in Restores /\ c.pc = pc /\ c.dir = r.dir /\ c.files = r.files /\ c.written = r.written
      /\ c.kind = "restore"
  BY DEF RestoreGoesWell, Restores
<1> HIDE DEF c
<1>2. RestoreGoesWell(c)
  BY <1>1 DEF RestoreGoesWell
<1> QED
  BY <1>1, <1>2 DEF c

LEMMA resolveRestoreTargetKeeps ==
  ASSUME StoreInv, NEW s \in Slots, resolveRestoreTarget(s)
  PROVE  StoreInv'
<1>1. call[s].kind = "restore" /\ call[s].pc = "resolve" /\ UNCHANGED <<db, blob, archive, target>>
  BY DEF resolveRestoreTarget, At, world
<1>2. RestoreGoesWell(call[s]) /\ call[s].written = {}
  BY <1>1, Restoring DEF RestoreGoesWell
<1>3. \/ call' = [call EXCEPT ![s] = [call[s] EXCEPT !.pc = "files"]]
      \/ call' = [call EXCEPT ![s] = Idle]
  BY DEF resolveRestoreTarget, Goes
<1> QED
  BY <1>1, <1>2, <1>3, RestoreAt, RestoreRests

LEMMA CleansKeeps ==
  ASSUME StoreInv, NEW s \in Slots, call[s].kind = "restore", Cleans(s),
         UNCHANGED <<db, blob, archive, target>>
  PROVE  StoreInv'
<1>1. call' = [call EXCEPT ![s] = [call[s] EXCEPT !.pc = "cleanup"]]
  BY DEF Cleans, Goes
<1> QED
  BY <1>1, Restoring, RestoreAt, RestoreRests

LEMMA RestoreFailsKeeps ==
  ASSUME StoreInv, NEW s \in Slots, RestoreFails(s)
  PROVE  StoreInv'
  BY CleansKeeps DEF RestoreFails, world

\* A restore that changes a file of its own directory, and what it has written
\* with it, takes nothing of anybody else's.
LEMMA RestoreTouches ==
  ASSUME StoreInv, NEW s \in Slots, NEW c, NEW p \in Paths, NEW f \in {None} \cup Files,
         call[s].kind = "restore", RestoreGoesWell(c),
         c.dir = call[s].dir, c.files = call[s].files,
         target[c.dir][p] = None \/ target[c.dir][p].by = s,
         f # None => f.by = s /\ c.written = call[s].written \cup {p}
                     /\ \A e \in c.files : e.path = p => e.version = f.version,
         f = None => c.written = call[s].written \ {p},
         call' = [call EXCEPT ![s] = c],
         target' = [target EXCEPT ![c.dir][p] = f],
         UNCHANGED <<db, blob, archive>>
  PROVE  StoreInv'
<1> DEFINE dir == target[c.dir]
<1>0. /\ DOMAIN call = Slots /\ call'[s] = c /\ DOMAIN call' = Slots
      /\ \A q \in Slots \ {s} : call'[q] = call[q]
  BY DEF StoreInv, StoreShaped
<1>1. c.dir \in Targets /\ target \in [Targets -> [Paths -> {None} \cup Files]] /\ c.kind = "restore"
  BY DEF RestoreGoesWell, Restores, StoreInv, StoreShaped
<1>2. /\ target' \in [Targets -> [Paths -> {None} \cup Files]]
      /\ target'[c.dir][p] = f
      /\ \A q \in Paths \ {p} : target'[c.dir][q] = target[c.dir][q]
      /\ \A t \in Targets \ {c.dir} : target'[t] = target[t]
  BY <1>1
<1>3. StoreShaped'
  BY <1>0, <1>2 DEF StoreInv, StoreShaped, GoesWell
<1>4. FilesOwned'
  <2> SUFFICES ASSUME NEW q \in Slots, NEW t \in Targets, NEW x \in Paths,
                      target'[t][x] # None, target'[t][x].by = q
               PROVE  call'[q].kind = "restore" /\ call'[q].dir = t
    BY DEF FilesOwned
  <2>1. CASE t = c.dir /\ x = p
    BY <2>1, <1>0, <1>1, <1>2
  <2>2. CASE ~(t = c.dir /\ x = p)
    <3>1. target'[t][x] = target[t][x]
      BY <2>2, <1>2
    <3>2. call[q].kind = "restore" /\ call[q].dir = t
      BY <3>1, SMTT(40) DEF StoreInv, FilesOwned
    <3> QED
      BY <3>2, <1>0, <1>1
  <2> QED
    BY <2>1, <2>2
<1>5. RestoreOwnsItsFiles'
  <2> SUFFICES ASSUME NEW q \in Slots, call'[q].kind = "restore"
               PROVE  /\ call'[q].written = {x \in Paths : target'[call'[q].dir][x] # None
                                                           /\ target'[call'[q].dir][x].by = q}
                      /\ \A e \in call'[q].files :
                           e.path \in call'[q].written => target'[call'[q].dir][e.path].version = e.version
    BY SMTT(40) DEF RestoreOwnsItsFiles
  <2>1. CASE q # s
    <3>1. /\ call'[q] = call[q] /\ call[q].dir \in Targets /\ call[q].written \in SUBSET Paths
          /\ call[q].files \in SUBSET Entries /\ call[q].kind = "restore"
      BY <2>1, <1>0, Restoring
    <3>2. /\ call[q].written = {x \in Paths : target[call[q].dir][x] # None
                                              /\ target[call[q].dir][x].by = q}
          /\ \A e \in call[q].files :
               e.path \in call[q].written => target[call[q].dir][e.path].version = e.version
      BY <3>1 DEF StoreInv, RestoreOwnsItsFiles
    <3>3. ASSUME NEW x \in Paths
          PROVE  /\ \/ target'[call[q].dir][x] = target[call[q].dir][x]
                    \/ ~(target[call[q].dir][x] # None /\ target[call[q].dir][x].by = q)
                 /\ (target'[call[q].dir][x] # None /\ target'[call[q].dir][x].by = q)
                      <=> (target[call[q].dir][x] # None /\ target[call[q].dir][x].by = q)
      BY <2>1, <3>1, <1>1, <1>2
    <3>4. \A e \in call[q].files : e.path \in Paths
      BY <3>1 DEF Entries
    <3> QED
      BY <3>1, <3>2, <3>3, <3>4
  <2>2. CASE q = s
    <3>1. /\ call'[q] = c /\ call[s].written \in SUBSET Paths /\ c.files \in SUBSET Entries
      BY <2>2, <1>0, Restoring
    <3>2. /\ call[s].written = {x \in Paths : target[c.dir][x] # None /\ target[c.dir][x].by = s}
          /\ \A e \in c.files : e.path \in call[s].written => target[c.dir][e.path].version = e.version
      BY DEF StoreInv, RestoreOwnsItsFiles
    <3>3. \A x \in Paths : x \in c.written <=> target'[c.dir][x] # None /\ target'[c.dir][x].by = s
      <4> SUFFICES ASSUME NEW x \in Paths
                   PROVE  x \in c.written <=> target'[c.dir][x] # None /\ target'[c.dir][x].by = s
        OBVIOUS
      <4>1. CASE x = p
        BY <4>1, <1>2
      <4>2. CASE x # p
        BY <4>2, <1>2, <3>2
      <4> QED
        BY <4>1, <4>2
    <3>4. ASSUME NEW e \in c.files, e.path \in c.written
          PROVE  target'[c.dir][e.path].version = e.version
      <4>1. e.path \in Paths
        BY <3>1 DEF Entries
      <4>2. CASE e.path = p
        BY <4>2, <3>4, <1>2
      <4>3. CASE e.path # p
        BY <4>1, <4>3, <3>4, <3>2, <1>2
      <4> QED
        BY <4>2, <4>3
    <3>5. c.written \in SUBSET Paths
      BY DEF RestoreGoesWell, Restores
    <3> QED
      BY <3>1, <3>3, <3>4, <3>5, <2>2
  <2> QED
    BY <2>1, <2>2
<1> QED
  BY <1>3, <1>4, <1>5 DEF StoreInv

LEMMA writeNewFileStreamKeeps ==
  ASSUME BackupAssumption, StoreInv, NEW s \in Slots, writeNewFileStream(s)
  PROVE  StoreInv'
<1> DEFINE r == call[s]
<1>1. r.kind = "restore" /\ r.pc = "files" /\ UNCHANGED <<db, blob, archive>>
  BY DEF writeNewFileStream, At, world
<1>2. PICK e \in Missing(s) :
        IF target[r.dir][e.path] = None
        THEN /\ target' = [target EXCEPT ![r.dir][e.path] = [version |-> e.version, by |-> s]]
             /\ Goes(s, [r EXCEPT !.written = @ \cup {e.path}])
        ELSE UNCHANGED target /\ Cleans(s)
  BY DEF writeNewFileStream
<1>3. /\ RestoreGoesWell(r) /\ r \in Restores /\ r.written \in SUBSET Paths
      /\ e \in r.files /\ e \in Entries /\ OncePerPath(r.files)
  BY <1>1, Restoring DEF Missing, RestoreGoesWell
<1>4. CASE target[r.dir][e.path] = None
  <2> DEFINE f == [version |-> e.version, by |-> s]
             w == r.written \cup {e.path}
             c == [r EXCEPT !.written = w]
  <2>1. target' = [target EXCEPT ![r.dir][e.path] = f] /\ call' = [call EXCEPT ![s] = c]
    BY <1>2, <1>4 DEF Goes
  <2>2. e.path \in Paths /\ e.version \in Nat
    BY <1>3 DEF Entries
  <2>3. f \in Files /\ f.by = s /\ f.version = e.version
    BY <2>2 DEF Files
  <2>4. f # None
    BY <2>3 DEF BackupAssumption, Files
  <2>5. w \in SUBSET Paths
    BY <1>3, <2>2
  <2> HIDE DEF f, r
  <2>51. w = r.written \cup {e.path}
    OBVIOUS
  <2> HIDE DEF w
  <2>6. /\ c \in Restores /\ c.pc = "files" /\ c.dir = r.dir /\ c.files = r.files /\ c.written = w
    BY <1>1, <1>3, <2>5 DEF Restores
  <2> HIDE DEF c
  <2>7. RestoreGoesWell(c)
    BY <1>3, <2>6 DEF RestoreGoesWell
  <2>8. \A g \in c.files : g.path = e.path => g.version = f.version
    BY <1>3, <2>3, <2>6 DEF OncePerPath
  <2>9. /\ c.written = call[s].written \cup {e.path} /\ c.dir = call[s].dir /\ c.files = call[s].files
        /\ call[s].kind = "restore" /\ target' = [target EXCEPT ![c.dir][e.path] = f]
        /\ target[c.dir][e.path] = None
    BY <1>1, <1>4, <2>1, <2>51, <2>6 DEF r
  <2> QED
    BY <1>1, <2>1, <2>2, <2>3, <2>4, <2>7, <2>8, <2>9, RestoreTouches
<1>5. CASE target[r.dir][e.path] # None
  BY <1>1, <1>2, <1>5, CleansKeeps
<1> QED
  BY <1>4, <1>5

LEMMA cleanupKeeps ==
  ASSUME BackupAssumption, StoreInv, NEW s \in Slots, cleanup(s)
  PROVE  StoreInv'
<1> DEFINE r == call[s]
<1>1. r.kind = "restore" /\ r.pc = "cleanup" /\ UNCHANGED <<db, blob, archive>>
  BY DEF cleanup, At, world
<1>2. RestoreGoesWell(r) /\ r \in Restores /\ r.written \in SUBSET Paths
  BY <1>1, Restoring
<1>3. CASE r.written = {}
  <2>1. UNCHANGED target /\ call' = [call EXCEPT ![s] = Idle]
    BY <1>3 DEF cleanup, Goes
  <2> QED
    BY <1>1, <1>3, <2>1, RestoreRests
<1>4. CASE r.written # {}
  <2>1. PICK p \in r.written :
          /\ target' = [target EXCEPT ![r.dir][p] = None]
          /\ Goes(s, [r EXCEPT !.written = @ \ {p}])
    BY <1>4 DEF cleanup
  <2> DEFINE w == r.written \ {p}
             c == [r EXCEPT !.written = w]
  <2>2. call' = [call EXCEPT ![s] = c]
    BY <2>1 DEF Goes
  <2>3. p \in Paths /\ w \in SUBSET Paths /\ w = r.written \ {p}
    BY <1>2
  <2>4. target[r.dir][p].by = s
    BY <1>1, <2>1 DEF StoreInv, RestoreOwnsItsFiles
  <2> HIDE DEF w, r
  <2>5. /\ c \in Restores /\ c.pc = "cleanup" /\ c.dir = r.dir /\ c.files = r.files /\ c.written = w
    BY <1>1, <1>2, <2>3 DEF Restores
  <2> HIDE DEF c
  <2>6. RestoreGoesWell(c)
    BY <1>2, <2>5 DEF RestoreGoesWell
  <2>7. /\ c.written = call[s].written \ {p} /\ c.dir = call[s].dir /\ c.files = call[s].files
        /\ call[s].kind = "restore" /\ target' = [target EXCEPT ![c.dir][p] = None]
        /\ target[c.dir][p].by = s
    BY <1>1, <2>1, <2>3, <2>4, <2>5 DEF r
  <2>8. \A f : f = None => f \in {None} \cup Files /\ ~(f # None)
    OBVIOUS
  <2> QED
    BY <1>1, <2>2, <2>3, <2>6, <2>7, <2>8, RestoreTouches
<1> QED
  BY <1>3, <1>4

\* A file that no restore has a hand on any more.
Settled(f) == IF f = None THEN None ELSE [f EXCEPT !.by = None]

LEMMA SettledFile ==
  ASSUME BackupAssumption, NEW f \in {None} \cup Files
  PROVE  /\ Settled(f) \in {None} \cup Files /\ (Settled(f) = None <=> f = None)
         /\ f # None => Settled(f).by = None /\ Settled(f).version = f.version
<1>1. CASE f = None
  BY <1>1 DEF Settled
<1>2. CASE f # None
  <2>1. f \in Files /\ Settled(f) = [f EXCEPT !.by = None]
    BY <1>2 DEF Settled
  <2>2. Settled(f) \in Files /\ Settled(f).by = None /\ Settled(f).version = f.version
    BY <2>1 DEF Files
  <2>3. Settled(f) # None
    BY <2>2 DEF BackupAssumption, Files
  <2> QED
    BY <1>2, <2>2, <2>3
<1> QED
  BY <1>1, <1>2

LEMMA FinishRestoreKeeps ==
  ASSUME BackupAssumption, StoreInv, NEW s \in Slots, FinishRestore(s)
  PROVE  StoreInv'
<1> DEFINE dir == call[s].dir
           left(p) == IF target[dir][p] # None /\ target[dir][p].by = s
                      THEN Settled(target[dir][p]) ELSE target[dir][p]
<1>1. call[s].kind = "restore" /\ UNCHANGED <<db, blob, archive>> /\ call' = [call EXCEPT ![s] = Idle]
  BY DEF FinishRestore, At, Goes, world
<1>2. dir \in Targets /\ target \in [Targets -> [Paths -> {None} \cup Files]]
  BY <1>1, Restoring DEF StoreInv, StoreShaped
<1>3. target' = [target EXCEPT ![dir] = [p \in Paths |-> left(p)]]
  BY <1>2 DEF FinishRestore, Settled
<1>4. \A p \in Paths : left(p) \in {None} \cup Files
  BY <1>2, SettledFile
<1>5. \A p \in Paths : left(p) # None =>
               (left(p).by # s /\ left(p) = target[dir][p]) \/ left(p).by = None
  BY <1>2, SettledFile
<1>6. /\ target' \in [Targets -> [Paths -> {None} \cup Files]]
      /\ \A t \in Targets \ {dir} : target'[t] = target[t]
      /\ \A p \in Paths : target'[dir][p] = left(p)
  BY <1>2, <1>3, <1>4
<1>60. \A p \in Paths : target[dir][p] # None /\ target[dir][p].by # s => left(p) = target[dir][p]
  OBVIOUS
<1> HIDE DEF left
<1>7. /\ DOMAIN call = Slots /\ call'[s] = Idle /\ DOMAIN call' = Slots
      /\ \A q \in Slots \ {s} : call'[q] = call[q]
  BY <1>1 DEF StoreInv, StoreShaped
<1>8. StoreShaped'
  BY <1>1, <1>6, <1>7, IdleIsIdle DEF StoreInv, StoreShaped
<1>9. None \notin Slots
  BY DEF BackupAssumption
<1>10. ASSUME NEW t \in Targets, NEW p \in Paths, target'[t][p] # None, target'[t][p].by \in Slots
       PROVE  target'[t][p] = target[t][p] /\ target'[t][p].by # s
  <2>1. CASE t = dir
    BY <2>1, <1>5, <1>6, <1>9, <1>10
  <2>2. CASE t # dir
    BY <2>2, <1>6, <1>10 DEF StoreInv, FilesOwned
  <2> QED
    BY <2>1, <2>2
<1>11. FilesOwned'
  BY <1>7, <1>10 DEF StoreInv, FilesOwned
<1>12. RestoreOwnsItsFiles'
  <2> SUFFICES ASSUME NEW q \in Slots, call'[q].kind = "restore"
               PROVE  /\ call'[q].written = {x \in Paths : target'[call'[q].dir][x] # None
                                                           /\ target'[call'[q].dir][x].by = q}
                      /\ \A e \in call'[q].files :
                           e.path \in call'[q].written => target'[call'[q].dir][e.path].version = e.version
    BY DEF RestoreOwnsItsFiles
  <2>1. q # s
    BY <1>7, IdleIsIdle
  <2>2. /\ call'[q] = call[q] /\ call[q].dir \in Targets /\ call[q].written \in SUBSET Paths
        /\ call[q].files \in SUBSET Entries /\ call[q].kind = "restore"
    BY <2>1, <1>7, Restoring
  <2>3. /\ call[q].written = {x \in Paths : target[call[q].dir][x] # None
                                            /\ target[call[q].dir][x].by = q}
        /\ \A e \in call[q].files :
             e.path \in call[q].written => target[call[q].dir][e.path].version = e.version
    BY <2>2 DEF StoreInv, RestoreOwnsItsFiles
  <2>4. ASSUME NEW x \in Paths, target[call[q].dir][x] # None, target[call[q].dir][x].by = q
        PROVE  target'[call[q].dir][x] = target[call[q].dir][x]
    BY <2>1, <2>2, <2>4, <1>6, <1>60
  <2>5. ASSUME NEW x \in Paths, target'[call[q].dir][x] # None, target'[call[q].dir][x].by = q
        PROVE  target'[call[q].dir][x] = target[call[q].dir][x]
    BY <2>2, <2>5, <1>10
  <2>6. \A e \in call[q].files : e.path \in Paths
    BY <2>2 DEF Entries
  <2> QED
    BY <2>2, <2>3, <2>4, <2>5, <2>6
<1> QED
  BY <1>8, <1>11, <1>12 DEF StoreInv

-----------------------------------------------------------------------------
(* The rest of the world.                                                  *)

LEMMA WriteKeeps ==
  ASSUME StoreInv, Write
  PROVE  StoreInv'
<1>1. db' \in Nat /\ blob' \in [Blobs -> Nat]
  BY DEF Write, StoreInv, StoreShaped
<1>2. UNCHANGED <<archive, target, call>>
  BY DEF Write
<1> QED
  BY <1>1, <1>2 DEF StoreInv, StoreShaped, FilesOwned, RestoreOwnsItsFiles

\* What is left when a frame is lost.
LEMMA FrameLost ==
  ASSUME NEW q \in Seq(Frames), NEW i \in DOMAIN q
  PROVE  /\ RemoveAt(q, i) \in Seq(Frames) /\ Len(RemoveAt(q, i)) = Len(q) - 1
         /\ \A j \in DOMAIN RemoveAt(q, i) : \E k \in DOMAIN q : RemoveAt(q, i)[j] = q[k]
<1>1. Len(q) \in Nat /\ DOMAIN q = 1 .. Len(q) /\ i \in 1 .. Len(q)
  OBVIOUS
<1> DEFINE a == SubSeq(q, 1, i - 1)
           b == SubSeq(q, i + 1, Len(q))
<1>2. a \in Seq(Frames) /\ Len(a) = i - 1 /\ \A j \in 1 .. i - 1 : a[j] = q[j]
  BY <1>1
<1>3. b \in Seq(Frames) /\ Len(b) = Len(q) - i /\ \A j \in 1 .. Len(q) - i : b[j] = q[i + j]
  BY <1>1
<1>4. RemoveAt(q, i) = a \o b
  BY DEF RemoveAt
<1> HIDE DEF a, b
<1>5. /\ a \o b \in Seq(Frames) /\ Len(a \o b) = Len(a) + Len(b)
      /\ \A j \in 1 .. Len(a) + Len(b) : (a \o b)[j] = IF j <= Len(a) THEN a[j] ELSE b[j - Len(a)]
  BY <1>2, <1>3, SMTT(40)
<1>6. i \in Int /\ Len(q) \in Int /\ Len(a) = i - 1 /\ Len(b) = Len(q) - i
  BY <1>1, <1>2, <1>3
<1>7. Len(a \o b) = Len(q) - 1 /\ DOMAIN (a \o b) = 1 .. Len(q) - 1 /\ Len(a) + Len(b) = Len(q) - 1
  BY <1>5, <1>6, SMTT(40)
<1>8. ASSUME NEW j \in 1 .. Len(q) - 1 PROVE \E k \in DOMAIN q : (a \o b)[j] = q[k]
  <2>1. CASE j <= i - 1
    <3>1. j \in 1 .. i - 1 /\ j \in 1 .. Len(q)
      BY <2>1, <1>6, SMTT(40)
    <3>2. j \in DOMAIN q /\ j \in 1 .. Len(a) + Len(b) /\ j <= Len(a)
      BY <2>1, <1>1, <1>6, <1>7, <3>1
    <3>3. (a \o b)[j] = a[j]
      BY <3>2, <1>5
    <3> QED
      BY <3>1, <3>2, <3>3, <1>2
  <2>2. CASE ~(j <= i - 1)
    <3>0. j - (i - 1) \in 1 .. Len(q) - i /\ i + (j - (i - 1)) = j + 1 /\ j + 1 \in 1 .. Len(q)
      BY <2>2, <1>6, SMTT(40)
    <3>1. /\ j + 1 \in DOMAIN q /\ j - Len(a) = j - (i - 1)
          /\ j \in 1 .. Len(a) + Len(b) /\ ~(j <= Len(a))
      BY <2>2, <1>1, <1>6, <1>7, <3>0
    <3>2. (a \o b)[j] = b[j - (i - 1)]
      BY <3>1, <1>5
    <3>3. b[j - (i - 1)] = q[i + (j - (i - 1))]
      BY <3>0, <1>3
    <3> QED
      BY <3>0, <3>1, <3>2, <3>3
  <2> QED
    BY <2>1, <2>2
<1> QED
  BY <1>4, <1>5, <1>7, <1>8

LEMMA DamageKeeps ==
  ASSUME StoreInv, NEW d \in Dests, Damage(d)
  PROVE  StoreInv'
<1>1. UNCHANGED <<db, blob, target, call>>
  BY DEF Damage, world
<1>2. PICK i \in DOMAIN archive[d].frames :
        archive' = [archive EXCEPT ![d].frames = RemoveAt(@, i), ![d].damaged = TRUE]
  BY DEF Damage
<1> DEFINE a == archive[d]
           frames == RemoveAt(a.frames, i)
           b == [a EXCEPT !.frames = frames, !.damaged = TRUE]
<1>3. archive' = [archive EXCEPT ![d] = b]
  BY <1>2 DEF StoreInv, StoreShaped
<1>4. ArchiveInOrder(a)
  BY DEF Damage, StoreInv, StoreShaped
<1>5. a.frames \in Seq(Frames) /\ a \in Archives
  BY <1>4 DEF ArchiveInOrder, Archives
<1>6. /\ frames \in Seq(Frames) /\ Len(frames) = Len(a.frames) - 1
      /\ \A j \in DOMAIN frames : \E k \in DOMAIN a.frames : frames[j] = a.frames[k]
  BY <1>5, FrameLost
<1>7. \E n \in Nat : Len(a.frames) <= n /\ \A k \in DOMAIN a.frames : a.frames[k].last = (a.frames[k].index = n)
  <2>0. Len(a.frames) \in Nat
    BY <1>5
  <2>1. CASE a.damaged
    BY <2>0, <2>1, <1>4 DEF ArchiveInOrder, Torn
  <2>2. CASE ~a.damaged
    BY <2>0, <2>2, <1>4, SMTT(40) DEF ArchiveInOrder, openChunkStream
  <2> QED
    BY <2>1, <2>2
<1>8. Torn(frames)
  <2>1. PICK n \in Nat : /\ Len(a.frames) <= n
                         /\ \A k \in DOMAIN a.frames : a.frames[k].last = (a.frames[k].index = n)
    BY <1>7
  <2>2. Len(a.frames) \in Nat
    BY <1>5
  <2>3. Len(frames) < n
    BY <1>6, <2>1, <2>2
  <2> QED
    BY <1>6, <2>1, <2>3 DEF Torn
<1> HIDE DEF a, frames
<1>9. /\ b \in Archives /\ b.frames = frames /\ b.manifest = a.manifest /\ b.config = a.config
      /\ b.damaged = TRUE
  BY <1>5, <1>6 DEF Archives
<1> HIDE DEF b
<1>10. ArchiveInOrder(b)
  BY <1>4, <1>8, <1>9 DEF ArchiveInOrder
<1>11. DOMAIN archive' = Dests /\ \A x \in Dests : archive'[x] # None => ArchiveInOrder(archive'[x])
  BY <1>3, <1>10 DEF StoreInv, StoreShaped
<1>12. StoreShaped'
  BY <1>1, <1>11 DEF StoreInv, StoreShaped
<1> QED
  BY <1>1, <1>12 DEF StoreInv, FilesOwned, RestoreOwnsItsFiles

LEMMA CrashKeeps ==
  ASSUME BackupAssumption, StoreInv, Crash
  PROVE  StoreInv'
<1>1. /\ UNCHANGED <<db, blob, archive>> /\ call' = [s \in Slots |-> Idle]
      /\ target' = [t \in Targets |-> [p \in Paths |-> Settled(target[t][p])]]
  BY DEF Crash, world, Settled
<1>2. \A t \in Targets, p \in Paths :
        /\ Settled(target[t][p]) \in {None} \cup Files
        /\ Settled(target[t][p]) # None => Settled(target[t][p]).by = None
  BY SettledFile DEF StoreInv, StoreShaped
<1>3. StoreShaped'
  BY <1>1, <1>2, IdleIsIdle DEF StoreInv, StoreShaped
<1>4. FilesOwned'
  BY <1>1, <1>2 DEF FilesOwned, BackupAssumption
<1>5. RestoreOwnsItsFiles'
  BY <1>1, IdleIsIdle DEF RestoreOwnsItsFiles
<1> QED
  BY <1>3, <1>4, <1>5 DEF StoreInv

\* Every step keeps the store in order.
LEMMA StoreStep ==
  ASSUME BackupAssumption, StoreInv, [Next]_vars
  PROVE  StoreInv'
<1>1. CASE UNCHANGED vars
  BY <1>1 DEF vars, StoreInv, StoreShaped, FilesOwned, RestoreOwnsItsFiles
<1>2. ASSUME NEW s \in Slots,
             \/ StartExport(s) \/ vacuumInto(s) \/ collectBlobs(s) \/ writePayload(s)
             \/ atomicWriteStream(s) \/ ExportFails(s) \/ ValidateBackup(s) \/ Restore(s)
             \/ resolveRestoreTarget(s) \/ writeNewFileStream(s) \/ RestoreFails(s) \/ cleanup(s)
             \/ FinishRestore(s)
      PROVE  StoreInv'
  BY <1>2, StartExportKeeps, vacuumIntoKeeps, collectBlobsKeeps, writePayloadKeeps,
     atomicWriteStreamKeeps, ExportFailsKeeps, ValidateBackupKeeps, RestoreKeeps,
     resolveRestoreTargetKeeps, writeNewFileStreamKeeps, RestoreFailsKeeps, cleanupKeeps,
     FinishRestoreKeeps
<1> QED
  BY <1>1, <1>2, WriteKeeps, DamageKeeps, CrashKeeps DEF Next

\* A stream that is short of its last frame does not open.
LEMMA TornIsRefused ==
  ASSUME NEW q \in Seq(Frames), Torn(q)
  PROVE  ~openChunkStream(q)
<1> SUFFICES ASSUME openChunkStream(q) PROVE FALSE
  OBVIOUS
<1>1. PICK n \in Nat : Len(q) < n /\ \A i \in DOMAIN q : q[i].last = (q[i].index = n)
  BY DEF Torn
<1>2. Len(q) \in Nat /\ Len(q) # 0 /\ DOMAIN q = 1 .. Len(q)
  BY DEF openChunkStream
<1>3. Len(q) \in DOMAIN q
  BY <1>2
<1>4. q[Len(q)].index = Len(q) /\ q[Len(q)].last = (Len(q) = Len(q))
  BY <1>3 DEF openChunkStream
<1>5. q[Len(q)].last = (q[Len(q)].index = n)
  BY <1>1, <1>3
<1>6. q[Len(q)].index = n
  BY <1>4, <1>5
<1> QED
  BY <1>1, <1>2, <1>4, <1>6

\* What the invariant says of the archives.
LEMMA ArchivesAreTrue == StoreInv => ArchiveIsTrue
<1> SUFFICES ASSUME StoreInv, NEW d \in Dests, archive[d] # None
             PROVE  decodeArchive(archive[d], archive[d].pass) <=> ~archive[d].damaged
  BY DEF ArchiveIsTrue
<1> DEFINE a == archive[d]
<1>1. ArchiveInOrder(a)
  BY DEF StoreInv, StoreShaped
<1>2. a.frames \in Seq(Frames)
  BY <1>1 DEF ArchiveInOrder, Archives
<1>3. CASE a.damaged
  <2>1. ~openChunkStream(a.frames)
    BY <1>1, <1>2, <1>3, TornIsRefused DEF ArchiveInOrder
  <2> QED
    BY <1>3, <2>1 DEF decodeArchive
<1>4. CASE ~a.damaged
  <2>1. openChunkStream(a.frames) /\ parsePayload(Opened(a), a.manifest) /\ a.config \cap Sensitive = {}
    BY <1>1, <1>4 DEF ArchiveInOrder
  <2> QED
    BY <1>4, <2>1 DEF decodeArchive, rejectSensitiveJSON
<1> QED
  BY <1>3, <1>4

\* However exports, restores, the application's writes, failures and crashes follow
\* each other: an archive opens with its passphrase exactly when it has lost no
\* frame, and what a restore has in its directory is what it will remove should it
\* fail, with the content the archive has (backup/export.go, backup/fsio.go).
THEOREM BackupsHold == Spec => []BackupsAreTrue
<1>1. Init => StoreInv
  BY StoreInit
<1>2. StoreInv /\ [Next]_vars => StoreInv'
  BY StoreStep, BackupAssumption
<1>3. StoreInv => BackupsAreTrue
  BY ArchivesAreTrue DEF StoreInv, BackupsAreTrue
<1> QED
  BY <1>1, <1>2, <1>3, PTL DEF Spec

-----------------------------------------------------------------------------
(* Requests to a provider.                                                 *)

\* The budget the watchdog goes by: for the first byte, or between two reads.
Allowed(w) == IF w.saw THEN IdleBudget ELSE FirstByte

WatchdogFields ==
  [due : Nat \cup {None}, armedAt : Nat, budget : Nat, stopped : BOOLEAN, fired : BOOLEAN,
   idle : BOOLEAN, saw : BOOLEAN, quiet : Nat]

\* A timer that is armed runs out no sooner than the budget after the last read.
WatchdogPatient ==
  /\ watchdog \in WatchdogFields /\ now \in Nat /\ lastRead \in Nat
  /\ DOMAIN request = {"phase", "attempt", "wake"}
  /\ lastRead <= now /\ watchdog.armedAt <= now
  /\ request.attempt \in Nat /\ (request.phase = "idle" => request.attempt = 0)
  /\ request.attempt = 0 => ~watchdog.saw /\ ~watchdog.fired
  /\ request.attempt = 0 => request.phase \in {"idle", "over"} /\ watchdog.due = None /\ ~expiring
  /\ request.attempt > 0 /\ ~watchdog.stopped =>
       watchdog.armedAt + watchdog.budget >= lastRead + Allowed(watchdog)
  /\ watchdog.fired => watchdog.stopped

StreamInv == WatchdogPatient /\ Stream!TimeoutIsReal /\ Stream!NothingLeaks

LEMMA StreamInit ==
  ASSUME Stream!StreamAssumption, Stream!Init
  PROVE  StreamInv
<1> DEFINE w == [due |-> None, armedAt |-> 0, budget |-> 0, stopped |-> FALSE, fired |-> FALSE,
                 idle |-> FALSE, saw |-> FALSE, quiet |-> 0]
<1>1. watchdog = w /\ request = [phase |-> "idle", attempt |-> 0, wake |-> 0] /\ expiring = FALSE
      /\ now = 0 /\ lastRead = 0
  BY DEF Stream!Init
<1>2. w \in WatchdogFields /\ w.due = None /\ w.armedAt = 0 /\ w.fired = FALSE /\ w.saw = FALSE
  BY DEF WatchdogFields
<1> HIDE DEF w
<1>3. request.phase = "idle" /\ request.attempt = 0
  BY <1>1
<1> QED
  BY <1>1, <1>2, <1>3 DEF StreamInv, WatchdogPatient, Stream!TimeoutIsReal, Stream!NothingLeaks

\* What arming, activity and a stop make of the watchdog.
LEMMA ArmedWatchdog ==
  ASSUME NEW w \in WatchdogFields, NEW b \in Nat, now \in Nat
  PROVE  LET a == Stream!Armed(w, b) IN
           /\ a \in WatchdogFields /\ a.armedAt = now /\ a.budget = b
           /\ a.stopped = w.stopped /\ a.fired = w.fired /\ a.saw = w.saw /\ a.idle = w.idle
           /\ a.quiet = w.quiet
<1> DEFINE due == now + b
           a == [w EXCEPT !.due = due, !.armedAt = now, !.budget = b]
<1>1. due \in Nat /\ Stream!Armed(w, b) = a
  BY DEF Stream!Armed
<1> HIDE DEF due
<1>2. a \in WatchdogFields
  BY <1>1 DEF WatchdogFields
<1>3. /\ a.armedAt = now /\ a.budget = b
      /\ a.stopped = w.stopped /\ a.fired = w.fired /\ a.saw = w.saw /\ a.idle = w.idle
      /\ a.quiet = w.quiet
  BY DEF WatchdogFields
<1> QED
  BY <1>1, <1>2, <1>3

LEMMA StoppedWatchdog ==
  ASSUME NEW w \in WatchdogFields
  PROVE  LET a == Stream!stop(w) IN
           /\ a \in WatchdogFields /\ a.stopped = TRUE /\ a.due = None /\ a.armedAt = w.armedAt
           /\ a.fired = w.fired /\ a.idle = w.idle /\ a.quiet = w.quiet
  BY DEF Stream!stop, WatchdogFields

LEMMA ActiveWatchdog ==
  ASSUME NEW w \in WatchdogFields, now \in Nat, IdleBudget \in Nat
  PROVE  LET a == Stream!activity(w) IN
           \/ (w.stopped \/ w.fired) /\ a = w
           \/ /\ ~w.stopped /\ ~w.fired
              /\ a \in WatchdogFields /\ a.armedAt = now /\ a.budget = IdleBudget /\ a.saw = TRUE
              /\ a.stopped = w.stopped /\ a.fired = w.fired /\ a.idle = w.idle /\ a.quiet = w.quiet
<1>1. CASE w.stopped \/ w.fired
  BY <1>1 DEF Stream!activity
<1>2. CASE ~(w.stopped \/ w.fired)
  <2> DEFINE v == [w EXCEPT !.saw = TRUE]
  <2>1. /\ v \in WatchdogFields /\ v.saw = TRUE /\ v.stopped = w.stopped /\ v.fired = w.fired
        /\ v.idle = w.idle /\ v.quiet = w.quiet
    BY DEF WatchdogFields
  <2>2. Stream!activity(w) = Stream!Armed(v, IdleBudget)
    BY <1>2 DEF Stream!activity
  <2> HIDE DEF v
  <2> QED
    BY <1>2, <2>1, <2>2, ArmedWatchdog
<1> QED
  BY <1>1, <1>2

\* Whoever ends a request stops its watchdog and cuts its connection.
LEMMA WatchdogStops ==
  ASSUME StreamInv, request.phase \notin {"idle", "over"}, request'.phase # "idle",
         DOMAIN request' = DOMAIN request, request'.attempt = request.attempt,
         watchdog' = Stream!stop(watchdog), cut' = TRUE,
         lastRead' \in {lastRead, now}, UNCHANGED <<expiring, now>>
  PROVE  StreamInv'
<1>1. /\ watchdog' \in WatchdogFields /\ watchdog'.stopped = TRUE /\ watchdog'.due = None
      /\ watchdog'.armedAt = watchdog.armedAt /\ watchdog'.fired = watchdog.fired
      /\ watchdog'.idle = watchdog.idle /\ watchdog'.quiet = watchdog.quiet
  BY StoppedWatchdog DEF StreamInv, WatchdogPatient
<1>2. WatchdogPatient'
  BY <1>1 DEF StreamInv, WatchdogPatient
<1>3. Stream!TimeoutIsReal'
  BY <1>1 DEF StreamInv, Stream!TimeoutIsReal
<1>4. Stream!NothingLeaks'
  BY <1>1 DEF Stream!NothingLeaks
<1> QED
  BY <1>2, <1>3, <1>4 DEF StreamInv

\* Bytes that arrive give the watchdog the budget between two reads.
LEMMA BytesArrive ==
  ASSUME Stream!StreamAssumption, StreamInv, request.phase = "open",
         watchdog' = Stream!activity(watchdog), lastRead' = now,
         UNCHANGED <<request, cut, expiring, now>>
  PROVE  StreamInv'
<1>0. watchdog \in WatchdogFields /\ now \in Nat /\ IdleBudget \in Nat
  BY DEF StreamInv, WatchdogPatient, Stream!StreamAssumption
<1>1. CASE (watchdog.stopped \/ watchdog.fired) /\ watchdog' = watchdog
  BY <1>1 DEF StreamInv, WatchdogPatient, Stream!TimeoutIsReal, Stream!NothingLeaks
<1>2. CASE /\ ~watchdog.stopped /\ ~watchdog.fired
           /\ watchdog' \in WatchdogFields /\ watchdog'.armedAt = now
           /\ watchdog'.budget = IdleBudget /\ watchdog'.saw = TRUE
           /\ watchdog'.stopped = watchdog.stopped /\ watchdog'.fired = watchdog.fired
  <2>1. Allowed(watchdog') = IdleBudget
    BY <1>2 DEF Allowed
  <2>2. WatchdogPatient'
    BY <1>0, <1>2, <2>1 DEF StreamInv, WatchdogPatient, Allowed
  <2>3. Stream!TimeoutIsReal' /\ Stream!NothingLeaks'
    BY <1>2 DEF Stream!TimeoutIsReal, Stream!NothingLeaks
  <2> QED
    BY <2>2, <2>3 DEF StreamInv
<1> QED
  BY <1>0, <1>1, <1>2, ActiveWatchdog

\* A step that leaves the watchdog alone and does not end the request.
LEMMA WatchdogRests ==
  ASSUME StreamInv, now' \in Nat, now <= now', cut => cut',
         \/ request' = request
         \/ /\ request.phase \notin {"idle", "over"} /\ request'.phase \notin {"idle", "over"}
            /\ DOMAIN request' = DOMAIN request /\ request'.attempt \in Nat \ {0},
         UNCHANGED <<watchdog, expiring, lastRead>>
  PROVE  StreamInv'
<1>0. /\ watchdog' = watchdog /\ lastRead' = lastRead /\ expiring' = expiring
      /\ watchdog \in WatchdogFields /\ lastRead \in Nat /\ now \in Nat
      /\ lastRead <= now /\ watchdog.armedAt <= now /\ watchdog.armedAt \in Nat
  BY DEF StreamInv, WatchdogPatient, WatchdogFields
<1>00. lastRead' <= now' /\ watchdog'.armedAt <= now'
  BY <1>0
<1>01. /\ request'.attempt \in Nat /\ DOMAIN request' = {"phase", "attempt", "wake"}
       /\ request'.phase = "idle" => request'.attempt = 0
       /\ request'.attempt = 0 => request' = request
       /\ request'.attempt > 0 => request.attempt > 0
  <2>1. CASE request' = request
    BY <2>1 DEF StreamInv, WatchdogPatient
  <2>2. CASE request' # request
    <3>1. /\ request.attempt \in Nat /\ request.attempt # 0
          /\ request'.attempt \in Nat /\ request'.attempt # 0 /\ request'.phase # "idle"
          /\ DOMAIN request' = {"phase", "attempt", "wake"}
      BY <2>2 DEF StreamInv, WatchdogPatient
    <3>2. request.attempt > 0 /\ request'.attempt > 0
      BY <3>1
    <3> QED
      BY <3>1, <3>2
  <2> QED
    BY <2>1, <2>2
<1>1. WatchdogPatient'
  <2>1. request'.attempt > 0 /\ ~watchdog'.stopped =>
          watchdog'.armedAt + watchdog'.budget >= lastRead' + Allowed(watchdog')
    BY <1>0, <1>01 DEF StreamInv, WatchdogPatient
  <2>2. /\ request'.attempt = 0 => ~watchdog'.saw /\ ~watchdog'.fired
        /\ request'.attempt = 0 => request'.phase \in {"idle", "over"} /\ watchdog'.due = None /\ ~expiring'
        /\ watchdog'.fired => watchdog'.stopped
    BY <1>0, <1>01 DEF StreamInv, WatchdogPatient
  <2> QED
    BY <1>0, <1>00, <1>01, <2>1, <2>2 DEF WatchdogPatient
<1>2. Stream!TimeoutIsReal'
  BY DEF StreamInv, Stream!TimeoutIsReal
<1>3. Stream!NothingLeaks'
  BY DEF StreamInv, Stream!NothingLeaks
<1> QED
  BY <1>1, <1>2, <1>3 DEF StreamInv

LEMMA StartWaits ==
  ASSUME Stream!StreamAssumption, StreamInv, Stream!Start
  PROVE  StreamInv'
<1>0. /\ request.phase = "idle" /\ UNCHANGED <<expiring, now>> /\ now \in Nat
      /\ watchdog \in WatchdogFields /\ FirstByte \in Nat
  BY DEF Stream!Start, StreamInv, WatchdogPatient, Stream!StreamAssumption
<1>1. CASE owner
  <2>1. UNCHANGED <<watchdog, cut, lastRead>> /\ request' = [request EXCEPT !.phase = "over"]
    BY <1>1 DEF Stream!Start
  <2>2. request'.phase = "over" /\ request'.attempt = 0 /\ DOMAIN request' = DOMAIN request
    BY <1>0, <2>1 DEF StreamInv, WatchdogPatient
  <2> QED
    BY <1>0, <2>1, <2>2 DEF StreamInv, WatchdogPatient, Stream!TimeoutIsReal, Stream!NothingLeaks
<1>2. CASE ~owner
  <2>1. /\ request' = [phase |-> "sending", attempt |-> 1, wake |-> 0] /\ lastRead' = now
        /\ watchdog' = Stream!Armed(watchdog, FirstByte) /\ UNCHANGED cut
    BY <1>2 DEF Stream!Start
  <2>2. /\ watchdog' \in WatchdogFields /\ watchdog'.armedAt = now /\ watchdog'.budget = FirstByte
        /\ watchdog'.stopped = watchdog.stopped /\ watchdog'.fired = watchdog.fired
        /\ watchdog'.saw = watchdog.saw /\ watchdog'.idle = watchdog.idle
        /\ watchdog'.quiet = watchdog.quiet
    BY <1>0, <2>1, ArmedWatchdog
  <2>3. request'.phase = "sending" /\ request'.attempt = 1 /\ DOMAIN request' = {"phase", "attempt", "wake"}
    BY <2>1
  <2>4. watchdog'.saw = FALSE
    BY <2>2, <1>0 DEF StreamInv, WatchdogPatient
  <2>5. WatchdogPatient'
    BY <1>0, <2>1, <2>2, <2>3, <2>4 DEF StreamInv, WatchdogPatient, Allowed
  <2> QED
    BY <2>2, <2>3, <2>5 DEF StreamInv, Stream!TimeoutIsReal, Stream!NothingLeaks
<1> QED
  BY <1>1, <1>2

\* A callback of the timer needs an armed one, so a request.
LEMMA TimerFiresWaits ==
  ASSUME StreamInv, Stream!TimerFires
  PROVE  StreamInv'
<1> DEFINE w == [watchdog EXCEPT !.due = None]
<1>1. /\ watchdog' = w /\ expiring' /\ watchdog.due # None
      /\ UNCHANGED <<request, cut, now, lastRead>>
  BY DEF Stream!TimerFires
<1>2. watchdog \in WatchdogFields /\ request.attempt > 0
  BY <1>1 DEF StreamInv, WatchdogPatient
<1>3. /\ w \in WatchdogFields /\ w.due = None /\ w.armedAt = watchdog.armedAt
      /\ w.budget = watchdog.budget /\ w.stopped = watchdog.stopped /\ w.fired = watchdog.fired
      /\ w.idle = watchdog.idle /\ w.saw = watchdog.saw /\ w.quiet = watchdog.quiet
  BY <1>2 DEF WatchdogFields
<1> HIDE DEF w
<1>4. Allowed(w) = Allowed(watchdog)
  BY <1>3 DEF Allowed
<1>5. WatchdogPatient'
  BY <1>1, <1>2, <1>3, <1>4 DEF StreamInv, WatchdogPatient
<1>6. Stream!TimeoutIsReal' /\ Stream!NothingLeaks'
  BY <1>1, <1>3 DEF StreamInv, Stream!TimeoutIsReal, Stream!NothingLeaks
<1> QED
  BY <1>5, <1>6 DEF StreamInv

\* A callback that comes too early waits for what is left of the budget; one
\* that does not has seen all of it pass without a byte.
LEMMA expireWaits ==
  ASSUME Stream!StreamAssumption, StreamInv, Stream!expire
  PROVE  StreamInv'
<1>1. /\ expiring /\ expiring' = FALSE /\ UNCHANGED <<request, now, lastRead>>
      /\ watchdog \in WatchdogFields /\ now \in Nat /\ lastRead \in Nat /\ request.attempt > 0
      /\ lastRead <= now /\ watchdog.armedAt <= now
      /\ watchdog.armedAt \in Nat /\ watchdog.budget \in Nat
  BY DEF Stream!expire, StreamInv, WatchdogPatient, WatchdogFields
<1>2. CASE watchdog.stopped \/ watchdog.fired
  <2>1. UNCHANGED <<watchdog, cut>>
    BY <1>2 DEF Stream!expire
  <2> QED
    BY <1>1, <2>1 DEF StreamInv, WatchdogPatient, Stream!TimeoutIsReal, Stream!NothingLeaks
<1>3. CASE ~(watchdog.stopped \/ watchdog.fired)
  <2>1. watchdog.armedAt + watchdog.budget >= lastRead + Allowed(watchdog)
    BY <1>1, <1>3 DEF StreamInv, WatchdogPatient
  <2>2. Allowed(watchdog) \in Nat
    BY DEF Allowed, Stream!StreamAssumption
  <2>3. CASE now - watchdog.armedAt < watchdog.budget
    <3> DEFINE b == watchdog.budget - (now - watchdog.armedAt)
    <3>1. b \in Nat /\ now + b = watchdog.armedAt + watchdog.budget
      BY <1>1, <2>3
    <3>2. watchdog' = Stream!Armed(watchdog, b) /\ UNCHANGED cut
      BY <1>3, <2>3 DEF Stream!expire
    <3> HIDE DEF b
    <3>3. /\ watchdog' \in WatchdogFields /\ watchdog'.armedAt = now /\ watchdog'.budget = b
          /\ watchdog'.stopped = watchdog.stopped /\ watchdog'.fired = watchdog.fired
          /\ watchdog'.saw = watchdog.saw /\ watchdog'.idle = watchdog.idle
          /\ watchdog'.quiet = watchdog.quiet
      BY <1>1, <3>1, <3>2, ArmedWatchdog
    <3>4. Allowed(watchdog') = Allowed(watchdog)
      BY <3>3 DEF Allowed
    <3>5. watchdog'.armedAt + watchdog'.budget >= lastRead' + Allowed(watchdog')
      BY <1>1, <2>1, <3>1, <3>3, <3>4
    <3>6. WatchdogPatient'
      BY <1>1, <1>3, <3>3, <3>5 DEF StreamInv, WatchdogPatient
    <3>7. ~watchdog'.fired /\ request.phase # "over"
      BY <1>1, <1>3, <3>3 DEF StreamInv, Stream!NothingLeaks
    <3> QED
      BY <1>1, <3>6, <3>7 DEF StreamInv, Stream!TimeoutIsReal, Stream!NothingLeaks
  <2>4. CASE ~(now - watchdog.armedAt < watchdog.budget)
    <3> DEFINE x == Stream!stop(watchdog)
               calm == now - lastRead
               w == [x EXCEPT !.fired = TRUE, !.idle = watchdog.saw, !.quiet = calm]
    <3>1. watchdog' = w /\ cut' = TRUE
      BY <1>3, <2>4 DEF Stream!expire
    <3>2. calm \in Nat /\ calm >= Allowed(watchdog)
      BY <1>1, <2>1, <2>2, <2>4
    <3>3. /\ x \in WatchdogFields /\ x.stopped = TRUE /\ x.due = None /\ x.armedAt = watchdog.armedAt
          /\ watchdog.saw \in BOOLEAN
      BY <1>1, StoppedWatchdog DEF WatchdogFields
    <3> HIDE DEF x, calm
    <3>4. w \in WatchdogFields
      BY <3>2, <3>3 DEF WatchdogFields
    <3>5. /\ w.stopped = TRUE /\ w.due = None /\ w.armedAt = watchdog.armedAt
          /\ w.fired = TRUE /\ w.idle = watchdog.saw /\ w.quiet = calm
      BY <3>3 DEF WatchdogFields
    <3> HIDE DEF w
    <3>6. WatchdogPatient'
      BY <1>1, <3>1, <3>4, <3>5 DEF StreamInv, WatchdogPatient
    <3>7. Stream!TimeoutIsReal'
      BY <3>1, <3>2, <3>5 DEF Stream!TimeoutIsReal, Allowed
    <3>8. Stream!NothingLeaks'
      BY <3>1, <3>5 DEF Stream!NothingLeaks
    <3> QED
      BY <3>6, <3>7, <3>8 DEF StreamInv
  <2> QED
    BY <2>3, <2>4
<1> QED
  BY <1>2, <1>3

\* An attempt, or the wait for the next one.
LEMMA AttemptWaits ==
  ASSUME StreamInv, Stream!Attempt \/ Stream!Retry
  PROVE  StreamInv'
<1>1. /\ request.phase \in {"sending", "backoff"} /\ UNCHANGED <<expiring, now, lastRead>>
      /\ now \in Nat /\ request.attempt \in Nat /\ DOMAIN request = {"phase", "attempt", "wake"}
      /\ request.attempt # 0
  BY DEF Stream!Attempt, Stream!Retry, StreamInv, WatchdogPatient
<1>2. ASSUME NEW kind, Stream!GivesUp(kind) PROVE StreamInv'
  <2>1. request' = [request EXCEPT !.phase = "over"] /\ watchdog' = Stream!stop(watchdog) /\ cut' = TRUE
    BY <1>2 DEF Stream!GivesUp
  <2>2. request'.phase = "over" /\ request'.attempt = request.attempt /\ DOMAIN request' = DOMAIN request
    BY <1>1, <2>1
  <2> QED
    BY <1>1, <2>1, <2>2, WatchdogStops
<1>3. ASSUME NEW p \in {"open", "backoff"}, NEW wake,
             request' = [request EXCEPT !.phase = p, !.wake = wake],
             UNCHANGED <<watchdog, cut>>
      PROVE  StreamInv'
  <2>1. request'.phase = p /\ request'.attempt = request.attempt /\ DOMAIN request' = DOMAIN request
    BY <1>1, <1>3
  <2> QED
    BY <1>1, <1>3, <2>1, WatchdogRests
<1>4. ASSUME request' = [request EXCEPT !.phase = "open"], UNCHANGED <<watchdog, cut>> PROVE StreamInv'
  <2>1. request'.phase = "open" /\ request'.attempt = request.attempt /\ DOMAIN request' = DOMAIN request
    BY <1>1, <1>4
  <2> QED
    BY <1>1, <1>4, <2>1, WatchdogRests
<1>5. ASSUME request' = [request EXCEPT !.phase = "sending", !.attempt = @ + 1], UNCHANGED <<watchdog, cut>>
      PROVE  StreamInv'
  <2> DEFINE next == request.attempt + 1
  <2>0. next \in Nat \ {0} /\ request' = [request EXCEPT !.phase = "sending", !.attempt = next]
    BY <1>1, <1>5
  <2> HIDE DEF next
  <2>1. request'.phase = "sending" /\ request'.attempt = next /\ DOMAIN request' = DOMAIN request
    BY <1>1, <2>0
  <2> QED
    BY <1>1, <1>5, <2>0, <2>1, WatchdogRests
<1>6. CASE Stream!Attempt
  BY <1>2, <1>3, <1>4, <1>6 DEF Stream!Attempt, Stream!waitBackoff
<1>7. CASE Stream!Retry
  BY <1>2, <1>5, <1>7 DEF Stream!Retry
<1> QED
  BY <1>6, <1>7

\* The end of the body, of the answer or of the consumer.
LEMMA CloseWaits ==
  ASSUME StreamInv, Stream!recvJSON \/ Stream!ReadsEnd \/ Stream!Close
  PROVE  StreamInv'
<1>1. /\ request.phase = "open" /\ UNCHANGED <<expiring, now>> /\ lastRead' \in {lastRead, now}
      /\ watchdog' = Stream!stop(watchdog) /\ cut' = TRUE
      /\ request' = request \/ request' = [request EXCEPT !.phase = "over"]
  BY DEF Stream!recvJSON, Stream!ReadsEnd, Stream!Close, Stream!Open
<1>2. DOMAIN request = {"phase", "attempt", "wake"}
  BY DEF StreamInv, WatchdogPatient
<1>3. request'.phase # "idle" /\ request'.attempt = request.attempt /\ DOMAIN request' = DOMAIN request
  BY <1>1, <1>2
<1> QED
  BY <1>1, <1>3, WatchdogStops

\* Every step keeps the watchdog patient and the connection accounted for.
LEMMA StreamStep ==
  ASSUME Stream!StreamAssumption, StreamInv, [Stream!Next]_(Stream!vars)
  PROVE  StreamInv'
<1>0. now \in Nat /\ now <= now /\ now + 1 \in Nat /\ now <= now + 1
  BY DEF StreamInv, WatchdogPatient
<1>1. ASSUME UNCHANGED Stream!vars PROVE StreamInv'
  BY <1>0, <1>1, WatchdogRests DEF Stream!vars
<1>2. ASSUME UNCHANGED <<watchdog, expiring, lastRead, request>>, now' \in {now, now + 1}, cut => cut'
      PROVE  StreamInv'
  BY <1>0, <1>2, WatchdogRests
<1>4. ASSUME Stream!Recv \/ Stream!consumeStream \/ Stream!ReadFails PROVE StreamInv'
  BY <1>2, <1>4 DEF Stream!Recv, Stream!consumeStream, Stream!ReadFails
<1>5. ASSUME Stream!Sends \/ Stream!HangsUp PROVE StreamInv'
  BY <1>2, <1>5 DEF Stream!Sends, Stream!HangsUp
<1>6. ASSUME Stream!OwnerStops PROVE StreamInv'
  BY <1>2, <1>6 DEF Stream!OwnerStops
<1>7. ASSUME Stream!Tick PROVE StreamInv'
  BY <1>2, <1>7 DEF Stream!Tick
<1>3. ASSUME Stream!nextFrame \/ Stream!Comment PROVE StreamInv'
  BY <1>3, BytesArrive DEF Stream!nextFrame, Stream!Comment, Stream!Open, Stream!provider
<1> QED
  BY <1>1, <1>3, <1>4, <1>5, <1>6, <1>7, StartWaits, AttemptWaits, CloseWaits, TimerFiresWaits, expireWaits
     DEF Stream!Next

\* However the provider answers, stalls or hangs up, however late the timer's
\* callback runs, and whoever ends the request: it times out only after its
\* whole budget without a byte, and a request that is over has its context
\* cancelled and no timer left (providers/openai/timeout.go:98-136).
THEOREM StreamsHold ==
  ASSUME Stream!StreamAssumption
  PROVE  Stream!Spec => [](Stream!TimeoutIsReal /\ Stream!NothingLeaks)
<1>1. Stream!Init => StreamInv
  BY StreamInit
<1>2. StreamInv /\ [Stream!Next]_(Stream!vars) => StreamInv'
  BY StreamStep
<1>3. StreamInv => Stream!TimeoutIsReal /\ Stream!NothingLeaks
  BY DEF StreamInv
<1> QED
  BY <1>1, <1>2, <1>3, PTL DEF Stream!Spec

-----------------------------------------------------------------------------
(* The owner's settings, agents and conversations.                         *)

Configs ==
  [profile : Agents \cup {Desk!Nobody}, configured : BOOLEAN, tested : BOOLEAN, completed : BOOLEAN,
   evolve : BOOLEAN, notices : BOOLEAN, dirs : SUBSET Dirs, providers : SUBSET Providers,
   enabled : Providers \cup {None}, liked : SUBSET Providers, dev : BOOLEAN, web : BOOLEAN]
ConvRows ==
  [agent : Agents \cup {Desk!Nobody}, source : {"none", "default", "generated", "user"},
   archived : BOOLEAN, talked : BOOLEAN]
RouteRows == [primary : Providers \cup {None}, fallback : Providers \cup {None}, budget : BOOLEAN]

Routing == {"insert", "primary", "fallback"}
OfAgents ==
  Routing \cup {"activate", "activate new", "list", "forget", "budget", "ensure", "run", "talk"}
OfConvs ==
  {"ensure", "run", "talk", "touch", "touch untitled", "save row", "save row untitled"}
WithRow == {"ensure", "save row", "save row untitled"}

CallTyped(c) ==
  /\ DOMAIN c = {"op", "agent", "conv", "provider", "seen"}
  /\ c.agent \in Agents \cup {Desk!Nobody} /\ c.provider \in Providers \cup {None}
  /\ c.op \in OfAgents => c.agent \in Agents
  /\ c.op \in OfConvs => c.conv \in Convs
  /\ c.op \in WithRow => c.seen \in ConvRows
  /\ c.op = "forget" => c.seen \in SUBSET Agents
  /\ c.op = "save" => c.provider \in Keyed
  /\ c.op = "audit" => c.seen \in Configs

RowsTyped ==
  /\ profile \in [Agents -> {"absent", "live", "deleted"}] /\ route \in [Agents -> RouteRows]
  /\ conv \in [Convs -> ConvRows] /\ runs \subseteq Agents \X Convs /\ titling \subseteq Convs

FilesTyped ==
  config \in Configs /\ disk = config /\ Desk!Valid(config) /\ keys \subseteq Keyed

CallsTyped == DOMAIN wcall = Slots /\ \A s \in Slots : CallTyped(wcall[s])

\* A route that a call is about to write is one the configuration has.
RoutesFit ==
  restored \/ \A s \in Slots :
                wcall[s].op \in Routing => wcall[s].provider \in config.providers \cup {None}

\* A configuration that an audit may bring back had keys for its providers, too.
AuditsFit ==
  \A s \in Slots : wcall[s].op = "audit" => wcall[s].seen.providers \cap Keyed \subseteq keys

\* One form is saved at a time; the key it may take back is nobody's.
SavesFit ==
  \A s \in Slots : wcall[s].op = "save" =>
    /\ mu = s /\ wcall[s].provider \in keys
    /\ ~wcall[s].seen.old =>
         /\ wcall[s].provider \notin config.providers
         /\ \A q \in Slots : wcall[q].op = "audit" => wcall[s].provider \notin wcall[q].seen.providers

DownFits == ~up => \A s \in Slots : wcall[s] = Desk!Idle

DeskInv ==
  /\ RowsTyped /\ FilesTyped /\ CallsTyped /\ RoutesFit /\ AuditsFit /\ SavesFit /\ DownFits
  /\ Desk!RoutesHold /\ Desk!ProvidersHaveKeys

-----------------------------------------------------------------------------
\* A set of numbers has a least one.
LEMMA LeastNatural ==
  ASSUME NEW S \in SUBSET Nat, S # {}
  PROVE  \E x \in S : \A y \in S : x <= y
<1>1. PICK x \in S : \A y \in S : ~ (<<y, x>> \in OpToRel(<, Nat))
  BY NatLessThanWellFounded, WFMin, Zenon
<1>2. OpToRel(<, Nat) = {ss \in Nat \X Nat : ss[1] < ss[2]}
  BY DEF OpToRel
<1>3. \A y \in S : (<<y, x>> \in {ss \in Nat \X Nat : ss[1] < ss[2]}) <=> y < x
  OBVIOUS
<1>4. \A y \in S : ~(y < x)
  BY <1>1, <1>2, <1>3, Zenon
<1> QED
  BY <1>4

\* The eldest of some agents is one of them (desktop/startup.go).
LEMMA EldestIsOne ==
  ASSUME Desk!WorkspaceAssumption, NEW S \in SUBSET Agents, S # {}
  PROVE  Desk!Eldest(S) \in S
<1>1. \E x \in S : \A y \in S : x <= y
  BY LeastNatural DEF Desk!WorkspaceAssumption
<1> QED
  BY <1>1 DEF Desk!Eldest

LEMMA IdleCall == CallTyped(Desk!Idle) /\ Desk!Idle.op = "idle"
  BY DEF CallTyped, Desk!Idle, OfAgents, OfConvs, WithRow, Routing

LEMMA AskedCall ==
  ASSUME NEW op, NEW a \in Agents \cup {Desk!Nobody}, NEW c, NEW p \in Providers \cup {None}, NEW seen,
         op \in OfAgents => a \in Agents, op \in OfConvs => c \in Convs,
         op \in WithRow => seen \in ConvRows, op # "forget", op = "save" => p \in Keyed,
         op = "audit" => seen \in Configs
  PROVE  LET x == Desk!Asks(op, a, c, p, seen) IN
           CallTyped(x) /\ x.op = op /\ x.agent = a /\ x.conv = c /\ x.provider = p /\ x.seen = seen
  BY DEF Desk!Asks, CallTyped

LEMMA FreshConfig == Desk!Fresh \in Configs /\ Desk!Valid(Desk!Fresh)
                     /\ Desk!Fresh.providers = {}
  BY DEF Desk!Fresh, Configs, Desk!Valid

\* The settings that mark a setup as complete.
LEMMA CompleteConfig ==
  ASSUME NEW c \in Configs
  PROVE  /\ Desk!Complete(c) \in Configs /\ Desk!Complete(c).providers = c.providers
         /\ Desk!Complete(c).profile = c.profile /\ Desk!Complete(c).configured = c.configured
<1> DEFINE b == c.configured /\ c.tested
<1>1. b \in BOOLEAN
  OBVIOUS
<1>2. Desk!Complete(c) = [c EXCEPT !.completed = b]
  BY DEF Desk!Complete
<1> HIDE DEF b
<1> QED
  BY <1>1, <1>2 DEF Configs

\* A configuration that a credential form has filled in is one, and has the provider.
LEMMA UpsertConfig ==
  ASSUME NEW c \in Configs, NEW p \in Providers, NEW f
  PROVE  /\ Desk!upsertProvider(c, p, f) \in Configs
         /\ Desk!upsertProvider(c, p, f).providers = c.providers \cup {p}
<1> DEFINE e == CASE f.kind = "credential" -> c.enabled
                  [] f.kind = "disable" -> IF c.enabled = p THEN None ELSE c.enabled
                  [] OTHER -> p
           l == IF p = Codex \/ (f.kind = "credential" /\ p \in Forgetful) THEN c.liked \ {p} ELSE c.liked
           ps == c.providers \cup {p}
<1>1. e \in Providers \cup {None} /\ l \in SUBSET Providers /\ ps \in SUBSET Providers
  BY DEF Configs
<1>2. Desk!upsertProvider(c, p, f) = [c EXCEPT !.providers = ps, !.enabled = e, !.liked = l]
  BY DEF Desk!upsertProvider
<1> HIDE DEF e, l
<1>3. ps = c.providers \cup {p}
  OBVIOUS
<1> HIDE DEF ps
<1> QED
  BY <1>1, <1>2, <1>3 DEF Configs

\* A fresh installation is in order.
LEMMA DeskInit ==
  ASSUME Desk!WorkspaceAssumption, Desk!Init
  PROVE  DeskInv
<1>1. PICK used \in BOOLEAN, p \in Providers :
        /\ profile = [a \in Agents |-> IF used /\ a = Desk!Eldest(Agents) THEN "live" ELSE "absent"]
        /\ config = IF used THEN [Desk!Fresh EXCEPT !.profile = Desk!Eldest(Agents), !.configured = TRUE,
                                                 !.tested = TRUE, !.completed = TRUE,
                                                 !.providers = {p}, !.enabled = p]
                    ELSE Desk!Fresh
        /\ keys = IF used THEN {p} \cap Keyed ELSE {}
  BY DEF Desk!Init
<1>2. Desk!Eldest(Agents) \in Agents /\ Desk!Eldest(Agents) # Desk!Nobody
  BY EldestIsOne DEF Desk!WorkspaceAssumption, Desk!Nobody
<1>3. config \in Configs /\ Desk!Valid(config) /\ config.providers \cap Keyed \subseteq keys
  <2>1. CASE used
    <3> DEFINE old == Desk!Fresh
               chief == Desk!Eldest(Agents)
               c == [old EXCEPT !.profile = chief, !.configured = TRUE,
                                !.tested = TRUE, !.completed = TRUE, !.providers = {p}, !.enabled = p]
    <3>1. config = c /\ keys = {p} \cap Keyed
      BY <1>1, <2>1
    <3>2. old \in Configs /\ chief \in Agents /\ chief # Desk!Nobody
      BY <1>2, FreshConfig
    <3> HIDE DEF old, chief
    <3>3. c \in Configs
      BY <3>2 DEF Configs
    <3>4. c.providers = {p} /\ c.profile = chief /\ c.completed = TRUE /\ c.tested = TRUE
          /\ c.configured = TRUE
      BY <3>2 DEF Configs
    <3> HIDE DEF c
    <3> QED
      BY <3>1, <3>2, <3>3, <3>4 DEF Desk!Valid
  <2>2. CASE ~used
    BY <1>1, <2>2, FreshConfig
  <2> QED
    BY <2>1, <2>2
<1>4. FilesTyped
  BY <1>1, <1>3 DEF FilesTyped, Desk!Init
<1>5. RowsTyped
  <2>1. [primary |-> None, fallback |-> None, budget |-> FALSE] \in RouteRows
    BY DEF RouteRows
  <2>2. Desk!NewRow \in ConvRows
    BY DEF Desk!NewRow, ConvRows
  <2> QED
    BY <1>1, <2>1, <2>2 DEF RowsTyped, Desk!Init
<1>6. wcall = [s \in Slots |-> Desk!Idle] /\ \A s \in Slots : wcall[s].op = "idle"
  BY IdleCall DEF Desk!Init
<1>7. CallsTyped /\ RoutesFit /\ AuditsFit /\ SavesFit /\ DownFits
  BY <1>6, IdleCall DEF CallsTyped, RoutesFit, AuditsFit, SavesFit, DownFits, Routing
<1>8. Desk!RoutesHold
  BY DEF Desk!RoutesHold, Desk!Init
<1>9. Desk!ProvidersHaveKeys
  BY <1>3 DEF Desk!ProvidersHaveKeys
<1> QED
  BY <1>4, <1>5, <1>7, <1>8, <1>9 DEF DeskInv

\* A call that moves on and perhaps writes a configuration with no provider less.
LEMMA DeskMoves ==
  ASSUME Desk!WorkspaceAssumption, DeskInv, NEW s \in Slots, NEW c,
         up, up', wcall' = [wcall EXCEPT ![s] = c], CallTyped(c), c.op # "save",
         RowsTyped', config' \in Configs, disk' = config', Desk!Valid(config'),
         UNCHANGED <<keys, mu, restored>>,
         config' = config \/ mu = None,
         config.providers \subseteq config'.providers, config'.providers \cap Keyed \subseteq keys,
         c.op = "audit" => mu = None /\ c.seen.providers \cap Keyed \subseteq keys,
         restored \/ (c.op \in Routing => c.provider \in config.providers \cup {None}),
         \/ restored
         \/ \A a \in Agents : {route'[a].primary, route'[a].fallback} \ {None} \subseteq config'.providers
  PROVE  DeskInv'
<1>0. /\ DOMAIN wcall = Slots /\ wcall'[s] = c /\ DOMAIN wcall' = Slots
      /\ \A q \in Slots \ {s} : wcall'[q] = wcall[q]
  BY DEF DeskInv, CallsTyped
<1>1. FilesTyped' /\ CallsTyped'
  BY <1>0 DEF DeskInv, FilesTyped, CallsTyped
<1>2. RoutesFit'
  BY <1>0 DEF DeskInv, RoutesFit
<1>3. AuditsFit'
  BY <1>0 DEF DeskInv, AuditsFit
<1>4. SavesFit'
  <2> SUFFICES ASSUME NEW q \in Slots, wcall'[q].op = "save"
               PROVE  /\ mu' = q /\ wcall'[q].provider \in keys'
                      /\ ~wcall'[q].seen.old =>
                           /\ wcall'[q].provider \notin config'.providers
                           /\ \A r \in Slots : wcall'[r].op = "audit" =>
                                wcall'[q].provider \notin wcall'[r].seen.providers
    BY DEF SavesFit
  <2>1. q # s /\ wcall'[q] = wcall[q]
    BY <1>0
  <2>2. mu = q /\ mu # None
    BY <2>1 DEF DeskInv, SavesFit, Desk!WorkspaceAssumption
  <2>3. config' = config /\ c.op # "audit"
    BY <2>2
  <2> QED
    BY <2>1, <2>2, <2>3, <1>0 DEF DeskInv, SavesFit
<1>5. DownFits'
  BY DEF DownFits
<1>6. Desk!RoutesHold'
  BY DEF Desk!RoutesHold
<1>7. Desk!ProvidersHaveKeys'
  BY DEF Desk!ProvidersHaveKeys
<1> QED
  BY <1>1, <1>2, <1>3, <1>4, <1>5, <1>6, <1>7 DEF DeskInv

\* The same of a call that writes no row.
LEMMA FileStep ==
  ASSUME Desk!WorkspaceAssumption, DeskInv, NEW s \in Slots, NEW c, NEW new,
         up, up', wcall' = [wcall EXCEPT ![s] = c], CallTyped(c), c.op # "save",
         new \in Configs, config.providers \subseteq new.providers,
         new.providers \cap Keyed \subseteq keys,
         Desk!Stores(new) \/ Desk!Refuses,
         UNCHANGED <<profile, route, conv, runs, titling, restored>>,
         c.op = "audit" => c.seen.providers \cap Keyed \subseteq keys,
         c.op \notin Routing
  PROVE  DeskInv'
<1>1. /\ config' \in Configs /\ disk' = config' /\ Desk!Valid(config') /\ UNCHANGED <<keys, mu>>
      /\ mu = None /\ config.providers \subseteq config'.providers
      /\ config'.providers \cap Keyed \subseteq keys
  <2>1. CASE Desk!Stores(new)
    BY <2>1 DEF Desk!Stores
  <2>2. CASE Desk!Refuses
    BY <2>2 DEF Desk!Refuses, Desk!files, DeskInv, FilesTyped, Desk!ProvidersHaveKeys
  <2> QED
    BY <2>1, <2>2
<1>2. RowsTyped'
  BY DEF DeskInv, RowsTyped
<1>3. restored \/ \A a \in Agents :
                    {route'[a].primary, route'[a].fallback} \ {None} \subseteq config'.providers
  BY <1>1 DEF DeskInv, Desk!RoutesHold
<1> QED
  BY <1>1, <1>2, <1>3, DeskMoves

\* The same of a call that leaves the files alone.
LEMMA RowStep ==
  ASSUME Desk!WorkspaceAssumption, DeskInv, NEW s \in Slots, NEW c,
         up, up', wcall' = [wcall EXCEPT ![s] = c], CallTyped(c), c.op \notin {"save", "audit"},
         RowsTyped', UNCHANGED <<config, disk, keys, mu, restored>>,
         restored \/ (c.op \in Routing => c.provider \in config.providers \cup {None}),
         route' = route \/ restored
         \/ \A a \in Agents : {route'[a].primary, route'[a].fallback} \ {None} \subseteq config.providers
  PROVE  DeskInv'
<1>1. config' \in Configs /\ Desk!Valid(config') /\ disk' = config'
      /\ config'.providers \cap Keyed \subseteq keys
  BY DEF DeskInv, FilesTyped, Desk!ProvidersHaveKeys
<1>2. restored \/ \A a \in Agents :
                    {route'[a].primary, route'[a].fallback} \ {None} \subseteq config'.providers
  BY DEF DeskInv, Desk!RoutesHold
<1> QED
  BY <1>1, <1>2, DeskMoves

-----------------------------------------------------------------------------
(* The roster.                                                             *)

\* The row of a call that begins: it was idle.
LEMMA BeginStep ==
  ASSUME Desk!WorkspaceAssumption, DeskInv, NEW s \in Slots, NEW c, Desk!Begin(s, c), CallTyped(c),
         c.op \notin {"save", "audit"},
         RowsTyped', UNCHANGED <<config, disk, keys, mu, restored>>,
         restored \/ (c.op \in Routing => c.provider \in config.providers \cup {None}),
         route' = route
  PROVE  DeskInv'
BY RowStep DEF Desk!Begin

\* A call that goes on to its next step.
LEMMA GoesStep ==
  ASSUME Desk!WorkspaceAssumption, DeskInv, NEW s \in Slots, NEW c, up, Desk!Goes(s, c), CallTyped(c),
         c.op \notin {"save", "audit"} \cup Routing,
         RowsTyped', UNCHANGED <<config, disk, keys, mu, restored>>,
         route' = route \/ restored
         \/ \A a \in Agents : {route'[a].primary, route'[a].fallback} \ {None} \subseteq config.providers
  PROVE  DeskInv'
BY RowStep DEF Desk!Goes

LEMMA EndsStep ==
  ASSUME Desk!WorkspaceAssumption, DeskInv, NEW s \in Slots, up, Desk!Ends(s),
         RowsTyped', UNCHANGED <<config, disk, keys, mu, restored>>,
         route' = route \/ restored
         \/ \A a \in Agents : {route'[a].primary, route'[a].fallback} \ {None} \subseteq config.providers
  PROVE  DeskInv'
BY GoesStep, IdleCall DEF Desk!Ends, Routing

\* A call that keeps its arguments.
LEMMA Renamed ==
  ASSUME DeskInv, NEW s \in Slots, NEW op,
         op \notin {"save", "audit", "forget"} \cup WithRow,
         op \in OfAgents => wcall[s].op \in OfAgents, op \in OfConvs => wcall[s].op \in OfConvs
  PROVE  LET c == [wcall[s] EXCEPT !.op = op] IN
           CallTyped(c) /\ c.op = op /\ c.agent = wcall[s].agent /\ c.conv = wcall[s].conv
           /\ c.provider = wcall[s].provider /\ c.seen = wcall[s].seen
<1> DEFINE x == wcall[s]
           c == [x EXCEPT !.op = op]
<1>1. CallTyped(x) /\ "op" \in DOMAIN x
  BY DEF DeskInv, CallsTyped, CallTyped
<1> HIDE DEF x
<1> QED
  BY <1>1 DEF CallTyped, x

\* The rows of an installation stay when only calls move.
LEMMA RowsStay ==
  ASSUME DeskInv, UNCHANGED Desk!rows, UNCHANGED titling
  PROVE  RowsTyped'
BY DEF DeskInv, RowsTyped, Desk!rows

\* The handlers of the roster, one lemma each.
LEMMA StartCreateKeeps ==
  ASSUME Desk!WorkspaceAssumption, DeskInv, NEW s \in Slots, Desk!StartCreate(s)
  PROVE  DeskInv'
<1>1. PICK a \in Agents, p \in Desk!Routable : Desk!Begin(s, Desk!Asks("insert", a, None, p, None))
  BY DEF Desk!StartCreate
<1> DEFINE c == Desk!Asks("insert", a, None, p, None)
<1>2. p \in Providers \cup {None} /\ p \in config.providers \cup {None}
  BY DEF Desk!Routable, DeskInv, FilesTyped, Configs
<1>3. CallTyped(c) /\ c.op = "insert" /\ c.provider = p
  BY <1>2 DEF Desk!Asks, CallTyped, OfConvs, WithRow, OfAgents, Routing
<1> HIDE DEF c
<1> QED
  BY <1>1, <1>2, <1>3, BeginStep, RowsStay DEF Desk!StartCreate, Desk!rows, Desk!files, c

LEMMA CreateAgentKeeps ==
  ASSUME Desk!WorkspaceAssumption, DeskInv, NEW s \in Slots, Desk!CreateAgent(s)
  PROVE  DeskInv'
<1> DEFINE a == wcall[s].agent
           p == wcall[s].provider
<1>1. CallTyped(wcall[s]) /\ wcall[s].op = "insert" /\ up
  BY DEF Desk!CreateAgent, Desk!In, DeskInv, CallsTyped
<1>2. a \in Agents /\ p \in Providers \cup {None} /\ (restored \/ p \in config.providers \cup {None})
  BY <1>1 DEF CallTyped, OfAgents, Routing, DeskInv, RoutesFit
<1>3. UNCHANGED <<config, disk, keys, mu, restored, conv, runs, titling>>
  BY DEF Desk!CreateAgent, Desk!files
<1> HIDE DEF a, p
<1>4. CASE UNCHANGED <<profile, route>> /\ Desk!Ends(s)
  BY <1>1, <1>3, <1>4, EndsStep DEF DeskInv, RowsTyped
<1>5. CASE /\ profile' = [profile EXCEPT ![a] = "live"]
           /\ route' = [route EXCEPT ![a].primary = p]
           /\ Desk!GoesOn(s, "activate new")
  <2>1. \A b \in Agents : route[b] \in RouteRows
    BY DEF DeskInv, RowsTyped
  <2>2. \A r \in RouteRows : [r EXCEPT !.primary = p] \in RouteRows
    BY <1>2 DEF RouteRows
  <2>3. \A r \in RouteRows : [r EXCEPT !.primary = p].primary = p
                             /\ [r EXCEPT !.primary = p].fallback = r.fallback
    BY DEF RouteRows
  <2>4. route' = [route EXCEPT ![a] = [route[a] EXCEPT !.primary = p]]
        /\ route \in [Agents -> RouteRows]
    BY <1>5 DEF DeskInv, RowsTyped
  <2>5. route' \in [Agents -> RouteRows]
    BY <2>1, <2>2, <2>4, <1>2
  <2>6. RowsTyped'
    BY <2>5, <1>5, <1>3, <1>2 DEF DeskInv, RowsTyped
  <2>7. restored \/ \A b \in Agents :
                       {route'[b].primary, route'[b].fallback} \ {None} \subseteq config.providers
    <3> SUFFICES ASSUME ~restored, NEW b \in Agents
                 PROVE  {route'[b].primary, route'[b].fallback} \ {None} \subseteq config.providers
      OBVIOUS
    <3>1. {route[b].primary, route[b].fallback} \ {None} \subseteq config.providers
      BY DEF DeskInv, Desk!RoutesHold
    <3>2. CASE b = a
      <4>1. route'[b].primary = p /\ route'[b].fallback = route[b].fallback
        BY <2>1, <2>3, <2>4, <3>2
      <4> QED
        BY <4>1, <3>1, <1>2
    <3>3. CASE b # a
      BY <2>4, <3>1, <3>3
    <3> QED
      BY <3>2, <3>3
  <2> DEFINE c == [wcall[s] EXCEPT !.op = "activate new"]
  <2>8. CallTyped(c) /\ c.op = "activate new"
    BY <1>1, Renamed DEF OfAgents, OfConvs, WithRow, Routing
  <2>9. Desk!Goes(s, c)
    BY <1>5 DEF Desk!GoesOn
  <2> HIDE DEF c
  <2> QED
    BY <1>1, <1>3, <2>6, <2>7, <2>8, <2>9, GoesStep DEF Routing
<1> QED
  BY <1>4, <1>5 DEF Desk!CreateAgent, a, p

LEMMA SetActiveAgentKeeps ==
  ASSUME Desk!WorkspaceAssumption, DeskInv, NEW s \in Slots, Desk!SetActiveAgent(s)
  PROVE  DeskInv'
<1>1. PICK a \in Agents : Desk!Begin(s, Desk!Asks("activate", a, None, None, None))
  BY DEF Desk!SetActiveAgent, Desk!Live
<1> DEFINE c == Desk!Asks("activate", a, None, None, None)
<1>2. CallTyped(c) /\ c.op = "activate"
  BY DEF Desk!Asks, CallTyped, OfConvs, WithRow, OfAgents, Routing
<1> HIDE DEF c
<1> QED
  BY <1>1, <1>2, BeginStep, RowsStay DEF Desk!SetActiveAgent, Desk!rows, Desk!files, Routing, c

\* A call of the roster that ends with a write of the configuration.
LEMMA FileEnds ==
  ASSUME Desk!WorkspaceAssumption, DeskInv, NEW s \in Slots, NEW new, up, Desk!Ends(s),
         new \in Configs, config.providers \subseteq new.providers,
         new.providers \cap Keyed \subseteq keys,
         Desk!Stores(new) \/ Desk!Refuses,
         UNCHANGED <<profile, route, conv, runs, titling, restored>>
  PROVE  DeskInv'
BY FileStep, IdleCall DEF Desk!Ends, Desk!Goes, Routing

LEMMA SameProviders ==
  ASSUME DeskInv, NEW new, new.providers = config.providers
  PROVE  config.providers \subseteq new.providers /\ new.providers \cap Keyed \subseteq keys
BY DEF DeskInv, Desk!ProvidersHaveKeys

LEMMA activateAgentKeeps ==
  ASSUME Desk!WorkspaceAssumption, DeskInv, NEW s \in Slots, Desk!activateAgent(s)
  PROVE  DeskInv'
<1> DEFINE a == wcall[s].agent
           b == config.configured \/ wcall[s].op = "activate new"
           c == [config EXCEPT !.profile = a, !.configured = b]
           new == Desk!Complete(c)
<1>1. up /\ CallTyped(wcall[s]) /\ wcall[s].op \in OfAgents
  BY DEF Desk!activateAgent, Desk!In, DeskInv, CallsTyped, OfAgents
<1>2. config \in Configs /\ a \in Agents /\ b \in BOOLEAN
  BY <1>1 DEF DeskInv, FilesTyped, CallTyped
<1>3. Desk!Stores(new) \/ Desk!Refuses
  BY DEF Desk!activateAgent
<1> HIDE DEF a, b
<1>4. c \in Configs
  BY <1>2 DEF Configs
<1>5. c.providers = config.providers
  BY <1>2 DEF Configs
<1> HIDE DEF c
<1>6. new \in Configs /\ new.providers = config.providers
  BY <1>4, <1>5, CompleteConfig
<1> HIDE DEF new
<1> QED
  BY <1>1, <1>3, <1>6, SameProviders, FileEnds DEF Desk!activateAgent, Desk!rows

LEMMA SoftDeleteKeeps ==
  ASSUME Desk!WorkspaceAssumption, DeskInv, NEW s \in Slots, Desk!SoftDelete(s)
  PROVE  DeskInv'
<1>1. PICK a \in Agents : /\ profile' = [profile EXCEPT ![a] = "deleted"]
                          /\ Desk!Begin(s, Desk!Asks("list", a, None, None, None))
  BY DEF Desk!SoftDelete, Desk!Live
<1> DEFINE c == Desk!Asks("list", a, None, None, None)
<1>2. CallTyped(c) /\ c.op = "list"
  BY DEF Desk!Asks, CallTyped, OfConvs, WithRow, OfAgents, Routing
<1>3. RowsTyped'
  BY <1>1 DEF DeskInv, RowsTyped, Desk!SoftDelete
<1> HIDE DEF c
<1> QED
  BY <1>1, <1>2, <1>3, BeginStep DEF Desk!SoftDelete, Desk!files, Routing, c

LEMMA ListLeftKeeps ==
  ASSUME Desk!WorkspaceAssumption, DeskInv, NEW s \in Slots, Desk!ListLeft(s)
  PROVE  DeskInv'
<1> DEFINE x == wcall[s]
           l == Desk!Live
           c == [x EXCEPT !.op = "forget", !.seen = l]
<1>1. up /\ CallTyped(x) /\ x.op = "list"
  BY DEF Desk!ListLeft, Desk!In, DeskInv, CallsTyped
<1>2. l \in SUBSET Agents
  BY DEF Desk!Live
<1>3. Desk!Goes(s, c)
  BY DEF Desk!ListLeft
<1> HIDE DEF x, l
<1>4. DOMAIN c = DOMAIN x /\ (DOMAIN x = {"op", "agent", "conv", "provider", "seen"} =>
        c.op = "forget" /\ c.seen = l /\ c.agent = x.agent /\ c.provider = x.provider)
  OBVIOUS
<1>5. CallTyped(c) /\ c.op = "forget"
  <2> HIDE DEF c
  <2> QED
  BY <1>1, <1>2, <1>4 DEF CallTyped, OfAgents, OfConvs, WithRow, Routing
<1> HIDE DEF c
<1> QED
  BY <1>1, <1>3, <1>5, GoesStep, RowsStay DEF Desk!ListLeft, Desk!rows, Desk!files, Routing

LEMMA DeleteAgentKeeps ==
  ASSUME Desk!WorkspaceAssumption, DeskInv, NEW s \in Slots, Desk!DeleteAgent(s)
  PROVE  DeskInv'
<1> DEFINE left == wcall[s].seen
           p == IF config.profile # wcall[s].agent THEN config.profile
                ELSE IF left = {} THEN Desk!Nobody ELSE Desk!Eldest(left)
           b == left # {}
           c == [config EXCEPT !.profile = p, !.configured = b]
           new == Desk!Complete(c)
<1>1. up /\ CallTyped(wcall[s]) /\ wcall[s].op = "forget"
  BY DEF Desk!DeleteAgent, Desk!In, DeskInv, CallsTyped
<1>2. left \in SUBSET Agents
  BY <1>1 DEF CallTyped
<1>3. left # {} => Desk!Eldest(left) \in Agents
  BY <1>2, EldestIsOne
<1>4. config \in Configs /\ p \in Agents \cup {Desk!Nobody} /\ b \in BOOLEAN
  BY <1>3 DEF DeskInv, FilesTyped, Configs
<1>5. Desk!Stores(new) \/ Desk!Refuses
  BY DEF Desk!DeleteAgent
<1> HIDE DEF p, b
<1>6. c \in Configs
  BY <1>4 DEF Configs
<1>7. c.providers = config.providers
  BY <1>4 DEF Configs
<1> HIDE DEF c
<1>8. new \in Configs /\ new.providers = config.providers
  BY <1>6, <1>7, CompleteConfig
<1> HIDE DEF new
<1> QED
  BY <1>1, <1>5, <1>8, SameProviders, FileEnds DEF Desk!DeleteAgent, Desk!rows

LEMMA StartRouteKeeps ==
  ASSUME Desk!WorkspaceAssumption, DeskInv, NEW s \in Slots, Desk!StartRoute(s)
  PROVE  DeskInv'
<1>1. PICK p \in Desk!Routable, op \in {"primary", "fallback", "budget"} :
        Desk!Begin(s, Desk!Asks(op, config.profile, None, p, None))
  BY DEF Desk!StartRoute
<1> DEFINE c == Desk!Asks(op, config.profile, None, p, None)
<1>2. p \in Providers \cup {None} /\ p \in config.providers \cup {None} /\ config.profile \in Agents
  BY DEF Desk!Routable, DeskInv, FilesTyped, Configs, Desk!StartRoute, Desk!Live
<1>3. CallTyped(c) /\ c.op = op /\ c.provider = p
  BY <1>2 DEF Desk!Asks, CallTyped, OfConvs, WithRow, OfAgents, Routing
<1> HIDE DEF c
<1> QED
  BY <1>1, <1>2, <1>3, BeginStep, RowsStay DEF Desk!StartRoute, Desk!rows, Desk!files, c

LEMMA UpdateRouteKeeps ==
  ASSUME Desk!WorkspaceAssumption, DeskInv, NEW s \in Slots, Desk!UpdateRoute(s)
  PROVE  DeskInv'
<1> DEFINE a == wcall[s].agent
           p == wcall[s].provider
<1>0. up /\ CallTyped(wcall[s]) /\ wcall[s].op \in {"primary", "fallback", "budget"}
  BY DEF Desk!UpdateRoute, Desk!In, DeskInv, CallsTyped
<1>2. a \in Agents /\ p \in Providers \cup {None}
      /\ (wcall[s].op # "budget" => restored \/ p \in config.providers \cup {None})
  BY <1>0 DEF CallTyped, OfAgents, Routing, DeskInv, RoutesFit
<1>3. UNCHANGED <<config, disk, keys, mu, restored, profile, conv, runs, titling>> /\ Desk!Ends(s)
  BY DEF Desk!UpdateRoute, Desk!files
<1>4. \E r \in RouteRows :
         /\ route' = [route EXCEPT ![a] = r]
         /\ r.primary \in {route[a].primary, p} /\ r.fallback \in {route[a].fallback, p}
         /\ (r.primary = route[a].primary /\ r.fallback = route[a].fallback) \/ wcall[s].op # "budget"
  <2>1. route[a] \in RouteRows
    BY <1>2 DEF DeskInv, RowsTyped
  <2> DEFINE x == route[a]
             r1 == [x EXCEPT !.primary = p]
             r2 == [x EXCEPT !.fallback = p]
             r3 == [x EXCEPT !.budget = ~@]
  <2>2. \/ wcall[s].op = "primary" /\ route' = [route EXCEPT ![a] = r1]
        \/ wcall[s].op = "fallback" /\ route' = [route EXCEPT ![a] = r2]
        \/ wcall[s].op = "budget" /\ route' = [route EXCEPT ![a] = r3]
    BY DEF Desk!UpdateRoute, Desk!In
  <2> HIDE DEF a, p, x
  <2>3. r1 \in RouteRows /\ r2 \in RouteRows
    BY <2>1, <1>2 DEF RouteRows, x
  <2>4. r3 \in RouteRows
    <3>1. x \in RouteRows
      BY <2>1 DEF x
    <3> QED
      BY <3>1 DEF RouteRows
  <2>5. x \in RouteRows
    BY <2>1 DEF x
  <2>6. r1.primary = p /\ r1.fallback = x.fallback /\ r2.fallback = p /\ r2.primary = x.primary
        /\ r3.primary = x.primary /\ r3.fallback = x.fallback
    BY <2>5 DEF RouteRows
  <2> HIDE DEF r1, r2, r3
  <2> QED
    BY <2>2, <2>3, <2>4, <2>6 DEF x
<1>5. PICK r \in RouteRows :
         /\ route' = [route EXCEPT ![a] = r]
         /\ r.primary \in {route[a].primary, p} /\ r.fallback \in {route[a].fallback, p}
         /\ (r.primary = route[a].primary /\ r.fallback = route[a].fallback) \/ wcall[s].op # "budget"
  BY <1>4
<1> HIDE DEF a, p
<1>6. RowsTyped'
  BY <1>2, <1>3, <1>5 DEF DeskInv, RowsTyped
<1>7. restored \/ \A b \in Agents :
                     {route'[b].primary, route'[b].fallback} \ {None} \subseteq config.providers
  <2> SUFFICES ASSUME ~restored, NEW b \in Agents
               PROVE  {route'[b].primary, route'[b].fallback} \ {None} \subseteq config.providers
    OBVIOUS
  <2>1. {route[b].primary, route[b].fallback} \ {None} \subseteq config.providers
    BY DEF DeskInv, Desk!RoutesHold
  <2>2. route'[b] = IF b = a THEN r ELSE route[b]
    BY <1>5 DEF DeskInv, RowsTyped
  <2> QED
    BY <2>1, <2>2, <1>2, <1>5
<1> QED
  BY <1>0, <1>3, <1>6, <1>7, EndsStep

LEMMA RosterKeeps ==
  ASSUME Desk!WorkspaceAssumption, DeskInv, NEW s \in Slots, Desk!RosterStep(s)
  PROVE  DeskInv'
BY StartCreateKeeps, CreateAgentKeeps, SetActiveAgentKeeps, activateAgentKeeps, SoftDeleteKeeps,
   ListLeftKeeps, DeleteAgentKeeps, StartRouteKeeps, UpdateRouteKeeps
   DEF Desk!RosterStep

-----------------------------------------------------------------------------
(* Providers and their keys.                                               *)

\* A call that begins and perhaps writes the configuration.
LEMMA FileBegins ==
  ASSUME Desk!WorkspaceAssumption, DeskInv, NEW s \in Slots, NEW c, NEW new, Desk!Begin(s, c), CallTyped(c),
         c.op \notin {"save"} \cup Routing,
         new \in Configs, config.providers \subseteq new.providers,
         new.providers \cap Keyed \subseteq keys,
         Desk!Stores(new) \/ Desk!Refuses,
         UNCHANGED <<profile, route, conv, runs, titling, restored>>,
         c.op = "audit" => c.seen.providers \cap Keyed \subseteq keys
  PROVE  DeskInv'
BY FileStep DEF Desk!Begin

\* A call of one step that changes settings but no provider.
LEMMA WritesStep ==
  ASSUME Desk!WorkspaceAssumption, DeskInv, NEW s \in Slots, NEW new, Desk!Writes(s, new),
         new \in Configs, new.providers = config.providers
  PROVE  DeskInv'
BY FileBegins, IdleCall, SameProviders DEF Desk!Writes, Desk!rows, Routing

\* The provider forms: the lock is held from the key to the end of the form.
LEMMA SaveProviderKeeps ==
  ASSUME Desk!WorkspaceAssumption, DeskInv, NEW s \in Slots, Desk!SaveProvider(s)
  PROVE  DeskInv'
<1>1. PICK p \in Keyed, kind \in Desk!FormKinds, key \in BOOLEAN :
        /\ key \/ p \in keys
        /\ Desk!Begin(s, Desk!Asks("save", Desk!Nobody, None, p, Desk!Form(p, kind, key)))
        /\ keys' = IF key THEN keys \cup {p} ELSE keys
  BY DEF Desk!SaveProvider
<1> DEFINE f == Desk!Form(p, kind, key)
           c == Desk!Asks("save", Desk!Nobody, None, p, f)
<1>2. f.old = (p \in keys)
  BY DEF Desk!Form
<1> HIDE DEF f
<1>3. CallTyped(c) /\ c.op = "save" /\ c.provider = p /\ c.seen = f
  BY DEF Desk!Asks, CallTyped, OfAgents, OfConvs, WithRow, Routing, Desk!WorkspaceAssumption
<1>4. wcall' = [wcall EXCEPT ![s] = c] /\ up /\ up'
  BY <1>1 DEF Desk!Begin, c, f
<1> HIDE DEF c
<1>5. /\ DOMAIN wcall = Slots /\ wcall'[s] = c /\ DOMAIN wcall' = Slots
      /\ \A q \in Slots \ {s} : wcall'[q] = wcall[q]
  BY <1>4 DEF DeskInv, CallsTyped
<1>6. /\ mu = None /\ mu' = s /\ keys \subseteq keys' /\ p \in keys' /\ keys' \subseteq Keyed
      /\ UNCHANGED <<profile, route, conv, runs, titling, config, disk, restored>>
  BY <1>1 DEF Desk!SaveProvider, Desk!rows, DeskInv, FilesTyped
<1>7. RowsTyped' /\ FilesTyped' /\ CallsTyped' /\ DownFits'
  BY <1>3, <1>4, <1>5, <1>6 DEF DeskInv, RowsTyped, FilesTyped, CallsTyped, DownFits
<1>8. RoutesFit' /\ AuditsFit'
  BY <1>3, <1>5, <1>6 DEF DeskInv, RoutesFit, AuditsFit, Routing
<1>9. SavesFit'
  <2> SUFFICES ASSUME NEW q \in Slots, wcall'[q].op = "save"
               PROVE  /\ mu' = q /\ wcall'[q].provider \in keys'
                      /\ ~wcall'[q].seen.old =>
                           /\ wcall'[q].provider \notin config'.providers
                           /\ \A r \in Slots : wcall'[r].op = "audit" =>
                                wcall'[q].provider \notin wcall'[r].seen.providers
    BY DEF SavesFit
  <2>1. q = s
    BY <1>5, <1>6 DEF DeskInv, SavesFit, Desk!WorkspaceAssumption
  <2>2. p \notin keys => p \notin config.providers
    BY DEF DeskInv, Desk!ProvidersHaveKeys
  <2>3. ASSUME NEW r \in Slots, wcall'[r].op = "audit", p \notin keys
        PROVE  p \notin wcall'[r].seen.providers
    BY <1>3, <1>5, <2>3 DEF DeskInv, AuditsFit
  <2> QED
    BY <1>2, <1>3, <1>5, <1>6, <2>1, <2>2, <2>3
<1>10. Desk!RoutesHold' /\ Desk!ProvidersHaveKeys'
  BY <1>6 DEF DeskInv, Desk!RoutesHold, Desk!ProvidersHaveKeys
<1> QED
  BY <1>7, <1>8, <1>9, <1>10 DEF DeskInv

LEMMA FinishSaveKeeps ==
  ASSUME Desk!WorkspaceAssumption, DeskInv, NEW s \in Slots, Desk!FinishSave(s)
  PROVE  DeskInv'
<1> DEFINE p == wcall[s].provider
           f == wcall[s].seen
           new == Desk!upsertProvider(config, p, f)
<1>1. /\ up /\ CallTyped(wcall[s]) /\ wcall[s].op = "save" /\ mu = s /\ mu' = None
      /\ UNCHANGED <<profile, route, conv, runs, titling, restored>>
  BY DEF Desk!FinishSave, Desk!In, Desk!rows, DeskInv, CallsTyped
<1>2. /\ p \in Keyed /\ p \in keys /\ p \in Providers
      /\ ~f.old => /\ p \notin config.providers
                   /\ \A q \in Slots : wcall[q].op = "audit" => p \notin wcall[q].seen.providers
  BY <1>1 DEF CallTyped, DeskInv, SavesFit, Desk!WorkspaceAssumption
<1>3. \A q \in Slots \ {s} : wcall[q].op # "save"
  BY <1>1 DEF DeskInv, SavesFit
<1>4. new \in Configs /\ new.providers = config.providers \cup {p}
  <2>1. config \in Configs /\ p \in Providers
    BY <1>2 DEF DeskInv, FilesTyped
  <2> HIDE DEF p, f
  <2> QED
    BY <2>1, UpsertConfig
<1>5. PICK c : /\ up' /\ wcall' = [wcall EXCEPT ![s] = c] /\ CallTyped(c)
               /\ c.op \notin {"save", "audit"} \cup Routing
  <2> DEFINE x == [wcall[s] EXCEPT !.op = "probe"]
  <2>1. CallTyped(x) /\ x.op = "probe"
    BY <1>1, Renamed DEF OfAgents, OfConvs, WithRow, Routing
  <2>2. (up' /\ wcall' = [wcall EXCEPT ![s] = x]) \/ (up' /\ wcall' = [wcall EXCEPT ![s] = Desk!Idle])
    BY <1>1 DEF Desk!FinishSave, Desk!GoesOn, Desk!Ends, Desk!Goes
  <2> HIDE DEF x
  <2> QED
    BY <2>1, <2>2, IdleCall DEF Routing
<1>6. /\ DOMAIN wcall = Slots /\ wcall'[s] = c /\ DOMAIN wcall' = Slots
      /\ \A q \in Slots \ {s} : wcall'[q] = wcall[q]
  BY <1>5 DEF DeskInv, CallsTyped
<1>7. \/ config' = new /\ disk' = new /\ Desk!Valid(new) /\ keys' = keys
      \/ UNCHANGED <<config, disk>> /\ keys' = Desk!TakesBack(p, f)
  BY DEF Desk!FinishSave
<1> HIDE DEF p, f, new
<1>8. /\ config' \in Configs /\ disk' = config' /\ Desk!Valid(config')
      /\ config.providers \subseteq config'.providers
      /\ keys' \subseteq Keyed /\ config'.providers \cap Keyed \subseteq keys'
      /\ \A q \in Slots : wcall[q].op = "audit" => wcall[q].seen.providers \cap Keyed \subseteq keys'
  <2>0. /\ config \in Configs /\ disk = config /\ Desk!Valid(config) /\ keys \subseteq Keyed
        /\ config.providers \cap Keyed \subseteq keys
        /\ \A q \in Slots : wcall[q].op = "audit" => wcall[q].seen.providers \cap Keyed \subseteq keys
    BY DEF DeskInv, FilesTyped, Desk!ProvidersHaveKeys, AuditsFit
  <2>1. CASE config' = new /\ disk' = new /\ Desk!Valid(new) /\ keys' = keys
    <3>1. config'.providers = config.providers \cup {p}
      BY <2>1, <1>4
    <3>2. config'.providers \cap Keyed \subseteq keys /\ config.providers \subseteq config'.providers
      BY <3>1, <2>0, <1>2
    <3> QED
      BY <2>0, <2>1, <3>2, <1>4
  <2>2. CASE UNCHANGED <<config, disk>> /\ keys' = Desk!TakesBack(p, f)
    <3>1. keys' = keys \/ (keys' = keys \ {p} /\ ~f.old)
      BY <2>2 DEF Desk!TakesBack
    <3>2. CASE keys' = keys
      BY <2>0, <2>2, <3>2
    <3>3. CASE keys' = keys \ {p} /\ ~f.old
      <4>1. p \notin config.providers /\ \A q \in Slots : wcall[q].op = "audit" => p \notin wcall[q].seen.providers
        BY <1>2, <3>3
      <4>2. config'.providers \cap Keyed \subseteq keys' /\ keys' \subseteq Keyed
        BY <2>0, <2>2, <3>3, <4>1
      <4>3. ASSUME NEW q \in Slots, wcall[q].op = "audit"
            PROVE  wcall[q].seen.providers \cap Keyed \subseteq keys'
        BY <2>0, <3>3, <4>1, <4>3
      <4> QED
        BY <2>0, <2>2, <4>2, <4>3
    <3> QED
      BY <3>1, <3>2, <3>3
  <2> QED
    BY <1>7, <2>1, <2>2
<1>9. RowsTyped' /\ FilesTyped' /\ CallsTyped' /\ DownFits'
  BY <1>1, <1>5, <1>6, <1>8 DEF DeskInv, RowsTyped, FilesTyped, CallsTyped, DownFits
<1>10. RoutesFit' /\ AuditsFit' /\ SavesFit'
  BY <1>1, <1>3, <1>5, <1>6, <1>8 DEF DeskInv, RoutesFit, AuditsFit, SavesFit
<1>11. Desk!RoutesHold' /\ Desk!ProvidersHaveKeys'
  BY <1>1, <1>8 DEF DeskInv, Desk!RoutesHold, Desk!ProvidersHaveKeys
<1> QED
  BY <1>9, <1>10, <1>11 DEF DeskInv

LEMMA CodexHasNoKey ==
  ASSUME Desk!WorkspaceAssumption, DeskInv, NEW f
  PROVE  LET new == Desk!upsertProvider(config, Codex, f) IN
           /\ new \in Configs /\ config.providers \subseteq new.providers
           /\ new.providers \cap Keyed \subseteq keys
<1>1. Codex \in Providers /\ Codex \notin Keyed /\ config \in Configs
  BY DEF Desk!WorkspaceAssumption, DeskInv, FilesTyped
<1>2. Desk!upsertProvider(config, Codex, f) \in Configs
      /\ Desk!upsertProvider(config, Codex, f).providers = config.providers \cup {Codex}
  BY <1>1, UpsertConfig
<1> QED
  BY <1>1, <1>2 DEF DeskInv, Desk!ProvidersHaveKeys

LEMMA ProbeCall ==
  ASSUME NEW p \in Providers \cup {None}
  PROVE  CallTyped(Desk!Asks("probe", Desk!Nobody, None, p, None))
         /\ Desk!Asks("probe", Desk!Nobody, None, p, None).op = "probe"
BY DEF Desk!Asks, CallTyped, OfAgents, OfConvs, WithRow, Routing

LEMMA SaveCodexProviderKeeps ==
  ASSUME Desk!WorkspaceAssumption, DeskInv, NEW s \in Slots, Desk!SaveCodexProvider(s)
  PROVE  DeskInv'
<1>0. UNCHANGED <<profile, route, conv, runs, titling, restored>> /\ Codex \in Providers
  BY DEF Desk!SaveCodexProvider, Desk!rows, Desk!WorkspaceAssumption
<1>1. PICK kind : \/ /\ Desk!Stores(Desk!upsertProvider(config, Codex, Desk!Form(Codex, kind, FALSE)))
                     /\ Desk!Begin(s, IF kind = "onboarding"
                                   THEN Desk!Asks("probe", Desk!Nobody, None, Codex, None) ELSE Desk!Idle)
                  \/ Desk!Refuses /\ Desk!Begin(s, Desk!Idle)
  BY DEF Desk!SaveCodexProvider
<1> DEFINE new == Desk!upsertProvider(config, Codex, Desk!Form(Codex, kind, FALSE))
<1>2. new \in Configs /\ config.providers \subseteq new.providers /\ new.providers \cap Keyed \subseteq keys
  BY CodexHasNoKey
<1>3. (Desk!Stores(new) \/ Desk!Refuses)
      /\ \/ Desk!Begin(s, Desk!Asks("probe", Desk!Nobody, None, Codex, None))
         \/ Desk!Begin(s, Desk!Idle)
  BY <1>1
<1>4. CallTyped(Desk!Asks("probe", Desk!Nobody, None, Codex, None))
      /\ Desk!Asks("probe", Desk!Nobody, None, Codex, None).op = "probe"
  BY <1>0, ProbeCall
<1> HIDE DEF new
<1> QED
  BY <1>0, <1>2, <1>3, <1>4, IdleCall, FileBegins DEF Routing

LEMMA StartProbeKeeps ==
  ASSUME Desk!WorkspaceAssumption, DeskInv, NEW s \in Slots, Desk!StartProbe(s)
  PROVE  DeskInv'
<1> DEFINE c == Desk!Asks("probe", Desk!Nobody, None, config.enabled, None)
<1>1. CallTyped(c) /\ c.op = "probe"
  BY ProbeCall DEF DeskInv, FilesTyped, Configs
<1>2. Desk!Begin(s, c) /\ UNCHANGED <<Desk!rows, titling, Desk!files, restored>>
  BY DEF Desk!StartProbe
<1> HIDE DEF c
<1> QED
  BY <1>1, <1>2, BeginStep, RowsStay DEF Desk!rows, Desk!files, Routing

LEMMA completeOnboardingKeeps ==
  ASSUME Desk!WorkspaceAssumption, DeskInv, NEW s \in Slots, Desk!completeOnboarding(s)
  PROVE  DeskInv'
<1> DEFINE c == [config EXCEPT !.tested = TRUE]
           new == Desk!Complete(c)
<1>1. up /\ Desk!Ends(s) /\ UNCHANGED Desk!rows /\ UNCHANGED <<titling, restored>>
      /\ (Desk!Stores(new) \/ Desk!Refuses)
  BY DEF Desk!completeOnboarding, Desk!In
<1>2. config \in Configs
  BY DEF DeskInv, FilesTyped
<1>3. c \in Configs
  BY <1>2 DEF Configs
<1>4. c.providers = config.providers
  BY <1>2 DEF Configs
<1> HIDE DEF c
<1>5. new \in Configs /\ new.providers = config.providers
  BY <1>3, <1>4, CompleteConfig
<1> HIDE DEF new
<1> QED
  BY <1>1, <1>5, SameProviders, FileEnds DEF Desk!rows

LEMMA ensureCodexKeeps ==
  ASSUME Desk!WorkspaceAssumption, DeskInv, NEW s \in Slots, Desk!ensureCodexProviderConfigured(s)
  PROVE  DeskInv'
<1> DEFINE up1 == Desk!upsertProvider(config, Codex, Desk!Form(Codex, "enable", FALSE))
           new == IF config.enabled = Codex THEN config ELSE up1
<1>1. up1 \in Configs /\ config.providers \subseteq up1.providers /\ up1.providers \cap Keyed \subseteq keys
  BY CodexHasNoKey
<1>2. Desk!Writes(s, new)
  BY DEF Desk!ensureCodexProviderConfigured
<1> HIDE DEF up1
<1>3. new \in Configs /\ config.providers \subseteq new.providers /\ new.providers \cap Keyed \subseteq keys
  BY <1>1 DEF DeskInv, FilesTyped, Desk!ProvidersHaveKeys
<1> HIDE DEF new
<1> QED
  BY <1>2, <1>3, IdleCall, FileBegins DEF Desk!Writes, Desk!rows, Routing

LEMMA CodexLogoutKeeps ==
  ASSUME Desk!WorkspaceAssumption, DeskInv, NEW s \in Slots, Desk!CodexLogout(s)
  PROVE  DeskInv'
<1> DEFINE c == [config EXCEPT !.tested = FALSE, !.completed = FALSE]
<1>1. config \in Configs
  BY DEF DeskInv, FilesTyped
<1>2. c \in Configs
  BY <1>1 DEF Configs
<1>3. c.providers = config.providers
  BY <1>1 DEF Configs
<1>4. Desk!Writes(s, c)
  BY DEF Desk!CodexLogout
<1> HIDE DEF c
<1> QED
  BY <1>2, <1>3, <1>4, WritesStep

LEMMA FavoriteKeeps ==
  ASSUME Desk!WorkspaceAssumption, DeskInv, NEW s \in Slots, Desk!SetProviderModelFavorite(s)
  PROVE  DeskInv'
<1>1. PICK l \in {config.liked \cup {p} : p \in config.providers}
                 \cup {config.liked \ {p} : p \in config.providers} :
        Desk!Writes(s, [config EXCEPT !.liked = l])
  BY DEF Desk!SetProviderModelFavorite
<1> DEFINE c == [config EXCEPT !.liked = l]
<1>2. config \in Configs /\ l \subseteq Providers
  BY DEF DeskInv, FilesTyped, Configs
<1>3. c \in Configs
  BY <1>2 DEF Configs
<1>4. c.providers = config.providers
  BY <1>2 DEF Configs
<1>5. Desk!Writes(s, c)
  BY <1>1
<1> HIDE DEF c
<1> QED
  BY <1>3, <1>4, <1>5, WritesStep

LEMMA ProvidersKeep ==
  ASSUME Desk!WorkspaceAssumption, DeskInv, NEW s \in Slots, Desk!ProviderStep(s)
  PROVE  DeskInv'
BY SaveProviderKeeps, FinishSaveKeeps, SaveCodexProviderKeeps, StartProbeKeeps,
   completeOnboardingKeeps, ensureCodexKeeps, CodexLogoutKeeps, FavoriteKeeps DEF Desk!ProviderStep

-----------------------------------------------------------------------------
(* The other settings.                                                     *)

\* The settings forms, the audited one last: what a failed audit brings back still has its keys.
LEMMA SwitchesKeep ==
  ASSUME Desk!WorkspaceAssumption, DeskInv, NEW s \in Slots,
         \/ Desk!SaveAllowedDirectories(s) \/ Desk!addAllowedDirectory(s) \/ Desk!SetPluginDevMode(s)
         \/ Desk!SaveWebSearchSettings(s)
  PROVE  DeskInv'
<1>1. config \in Configs
  BY DEF DeskInv, FilesTyped
<1>2. ASSUME NEW ds \in SUBSET Dirs, Desk!Writes(s, [config EXCEPT !.dirs = ds])
      PROVE  DeskInv'
  <2> DEFINE c == [config EXCEPT !.dirs = ds]
  <2>1. c \in Configs
    BY <1>1 DEF Configs
  <2>2. c.providers = config.providers
    BY <1>1 DEF Configs
  <2>3. Desk!Writes(s, c)
    BY <1>2
  <2> HIDE DEF c
  <2> QED
    BY <2>1, <2>2, <2>3, WritesStep
<1>3. ASSUME Desk!SetPluginDevMode(s)
      PROVE  DeskInv'
  <2> DEFINE b == ~config.dev
             c == [config EXCEPT !.dev = b]
  <2>1. b \in BOOLEAN /\ Desk!Writes(s, c)
    BY <1>3 DEF Desk!SetPluginDevMode
  <2> HIDE DEF b
  <2>2. c \in Configs
    BY <1>1, <2>1 DEF Configs
  <2>3. c.providers = config.providers
    BY <1>1 DEF Configs
  <2> HIDE DEF c
  <2> QED
    BY <2>1, <2>2, <2>3, WritesStep
<1>4. ASSUME Desk!SaveWebSearchSettings(s)
      PROVE  DeskInv'
  <2> DEFINE b == ~config.web
             c == [config EXCEPT !.web = b]
  <2>1. b \in BOOLEAN /\ Desk!Writes(s, c)
    BY <1>4 DEF Desk!SaveWebSearchSettings
  <2> HIDE DEF b
  <2>2. c \in Configs
    BY <1>1, <2>1 DEF Configs
  <2>3. c.providers = config.providers
    BY <1>1 DEF Configs
  <2> HIDE DEF c
  <2> QED
    BY <2>1, <2>2, <2>3, WritesStep
<1>5. ASSUME Desk!SaveAllowedDirectories(s)
      PROVE  DeskInv'
  BY <1>2, <1>5 DEF Desk!SaveAllowedDirectories
<1>6. ASSUME Desk!addAllowedDirectory(s)
      PROVE  DeskInv'
  <2>1. PICK d \in Dirs : Desk!Writes(s, [config EXCEPT !.dirs = config.dirs \cup {d}])
    BY <1>6 DEF Desk!addAllowedDirectory
  <2>2. config.dirs \cup {d} \in SUBSET Dirs
    BY <1>1 DEF Configs
  <2> QED
    BY <1>2, <2>1, <2>2
<1> QED
  BY <1>3, <1>4, <1>5, <1>6

LEMMA SaveProactivityKeeps ==
  ASSUME Desk!WorkspaceAssumption, DeskInv, NEW s \in Slots, Desk!SaveProactivity(s)
  PROVE  DeskInv'
<1>1. PICK on \in BOOLEAN :
        \/ /\ Desk!Stores([config EXCEPT !.notices = on])
           /\ Desk!Begin(s, Desk!Asks("serve", Desk!Nobody, None, None, on))
        \/ Desk!Refuses /\ Desk!Begin(s, Desk!Idle)
  BY DEF Desk!SaveProactivity
<1> DEFINE new == [config EXCEPT !.notices = on]
           c == Desk!Asks("serve", Desk!Nobody, None, None, on)
<1>2. CallTyped(c) /\ c.op = "serve"
  BY DEF Desk!Asks, CallTyped, OfAgents, OfConvs, WithRow, Routing
<1>3. config \in Configs
  BY DEF DeskInv, FilesTyped
<1>4. new \in Configs
  BY <1>3 DEF Configs
<1>5. new.providers = config.providers
  BY <1>3 DEF Configs
<1>6. (Desk!Stores(new) \/ Desk!Refuses) /\ (Desk!Begin(s, c) \/ Desk!Begin(s, Desk!Idle))
  BY <1>1
<1>7. UNCHANGED <<profile, route, conv, runs, titling, restored>>
  BY DEF Desk!SaveProactivity, Desk!rows
<1> HIDE DEF new, c
<1> QED
  BY <1>2, <1>4, <1>5, <1>6, <1>7, IdleCall, SameProviders, FileBegins DEF Routing

LEMMA ServeProactivityKeeps ==
  ASSUME Desk!WorkspaceAssumption, DeskInv, NEW s \in Slots, Desk!ServeProactivity(s)
  PROVE  DeskInv'
BY EndsStep, RowsStay DEF Desk!ServeProactivity, Desk!In, Desk!rows, Desk!files

LEMMA SetPersonaAutoEvolutionKeeps ==
  ASSUME Desk!WorkspaceAssumption, DeskInv, NEW s \in Slots, Desk!SetPersonaAutoEvolution(s)
  PROVE  DeskInv'
<1>1. PICK on \in BOOLEAN :
        \/ /\ Desk!Stores([config EXCEPT !.evolve = on])
           /\ Desk!Begin(s, Desk!Asks("audit", Desk!Nobody, None, None, config))
        \/ Desk!Refuses /\ Desk!Begin(s, Desk!Idle)
  BY DEF Desk!SetPersonaAutoEvolution
<1> DEFINE new == [config EXCEPT !.evolve = on]
           c == Desk!Asks("audit", Desk!Nobody, None, None, config)
<1>2. config \in Configs
  BY DEF DeskInv, FilesTyped
<1>3. CallTyped(c) /\ c.op = "audit" /\ c.seen = config
  BY <1>2 DEF Desk!Asks, CallTyped, OfAgents, OfConvs, WithRow, Routing
<1>4. new \in Configs
  BY <1>2 DEF Configs
<1>5. new.providers = config.providers
  BY <1>2 DEF Configs
<1>6. (Desk!Stores(new) \/ Desk!Refuses) /\ (Desk!Begin(s, c) \/ Desk!Begin(s, Desk!Idle))
  BY <1>1
<1>7. UNCHANGED <<profile, route, conv, runs, titling, restored>>
  BY DEF Desk!SetPersonaAutoEvolution, Desk!rows
<1>8. config.providers \cap Keyed \subseteq keys
  BY DEF DeskInv, Desk!ProvidersHaveKeys
<1> HIDE DEF new, c
<1> QED
  BY <1>3, <1>4, <1>5, <1>6, <1>7, <1>8, IdleCall, SameProviders, FileBegins DEF Routing

LEMMA AuditKeeps ==
  ASSUME Desk!WorkspaceAssumption, DeskInv, NEW s \in Slots, Desk!AuditAutoEvolution(s)
  PROVE  DeskInv'
<1>1. /\ up /\ CallTyped(wcall[s]) /\ wcall[s].op = "audit" /\ Desk!Ends(s)
      /\ UNCHANGED <<profile, route, conv, runs, titling>>
  BY DEF Desk!AuditAutoEvolution, Desk!In, Desk!rows, DeskInv, CallsTyped
<1>2. RowsTyped'
  BY <1>1 DEF DeskInv, RowsTyped
<1>3. CASE UNCHANGED <<Desk!files, restored>>
  BY <1>1, <1>2, <1>3, EndsStep DEF Desk!files
<1>4. CASE Desk!Refuses /\ UNCHANGED restored
  BY <1>1, <1>2, <1>4, EndsStep DEF Desk!Refuses, Desk!files
<1>5. CASE Desk!Stores(wcall[s].seen) /\ restored' = TRUE
  <2> DEFINE new == wcall[s].seen
  <2>1. /\ new \in Configs /\ Desk!Valid(new) /\ config' = new /\ disk' = new
        /\ mu = None /\ UNCHANGED <<keys, mu>> /\ new.providers \cap Keyed \subseteq keys
    BY <1>1, <1>5 DEF Desk!Stores, CallTyped, DeskInv, AuditsFit
  <2> HIDE DEF new
  <2>2. \A q \in Slots : wcall[q].op # "save"
    BY <2>1 DEF DeskInv, SavesFit, Desk!WorkspaceAssumption
  <2>3. wcall' = [wcall EXCEPT ![s] = Desk!Idle] /\ up'
    BY <1>1 DEF Desk!Ends, Desk!Goes
  <2>4. /\ DOMAIN wcall = Slots /\ wcall'[s] = Desk!Idle /\ DOMAIN wcall' = Slots
        /\ \A q \in Slots \ {s} : wcall'[q] = wcall[q]
    BY <2>3 DEF DeskInv, CallsTyped
  <2>5. FilesTyped' /\ CallsTyped' /\ DownFits'
    BY <2>1, <2>3, <2>4, IdleCall DEF DeskInv, FilesTyped, CallsTyped, DownFits
  <2>6. RoutesFit' /\ AuditsFit' /\ SavesFit'
    BY <1>5, <2>1, <2>2, <2>4, IdleCall DEF DeskInv, RoutesFit, AuditsFit, SavesFit
  <2>7. Desk!RoutesHold' /\ Desk!ProvidersHaveKeys'
    BY <1>5, <2>1 DEF Desk!RoutesHold, Desk!ProvidersHaveKeys
  <2> QED
    BY <1>2, <2>5, <2>6, <2>7 DEF DeskInv
<1> QED
  BY <1>3, <1>4, <1>5 DEF Desk!AuditAutoEvolution

LEMMA SettingsKeep ==
  ASSUME Desk!WorkspaceAssumption, DeskInv, NEW s \in Slots, Desk!SettingsStep(s)
  PROVE  DeskInv'
BY SwitchesKeep, SaveProactivityKeeps, ServeProactivityKeeps, SetPersonaAutoEvolutionKeeps, AuditKeeps
   DEF Desk!SettingsStep

-----------------------------------------------------------------------------
(* Conversations, titles and runs.                                         *)

LEMMA NewRowTyped ==
  ASSUME NEW a \in Agents \cup {Desk!Nobody}, NEW source \in {"none", "default", "generated", "user"}
  PROVE  [Desk!NewRow EXCEPT !.agent = a, !.source = source] \in ConvRows
BY DEF Desk!NewRow, ConvRows

LEMMA RowChanges ==
  ASSUME NEW r \in ConvRows, NEW source \in {"none", "default", "generated", "user"}, NEW b \in BOOLEAN
  PROVE  /\ [r EXCEPT !.source = source] \in ConvRows /\ [r EXCEPT !.archived = b] \in ConvRows
         /\ [r EXCEPT !.talked = b] \in ConvRows
BY DEF ConvRows

\* A row of one conversation is written.
LEMMA ConvWritten ==
  ASSUME DeskInv, NEW c \in Convs, NEW r \in ConvRows, conv' = [conv EXCEPT ![c] = r],
         UNCHANGED <<profile, route>>, runs' \subseteq Agents \X Convs, titling' \subseteq Convs
  PROVE  RowsTyped'
BY DEF DeskInv, RowsTyped

LEMMA ClickStep ==
  ASSUME Desk!WorkspaceAssumption, DeskInv, NEW s \in Slots, Desk!Begin(s, Desk!Idle), RowsTyped',
         UNCHANGED <<route, Desk!files, restored>>
  PROVE  DeskInv'
BY BeginStep, IdleCall DEF Desk!files, Routing

\* The handlers of conversations and of the runs that write to them.
LEMMA NewConversationKeeps ==
  ASSUME Desk!WorkspaceAssumption, DeskInv, NEW s \in Slots, Desk!NewConversation(s)
  PROVE  DeskInv'
<1>1. PICK c \in Convs, source \in {"default", "user"} :
        conv' = [conv EXCEPT ![c] = [Desk!NewRow EXCEPT !.agent = config.profile, !.source = source]]
  BY DEF Desk!NewConversation
<1> DEFINE r == [Desk!NewRow EXCEPT !.agent = config.profile, !.source = source]
<1>2. r \in ConvRows
  BY NewRowTyped DEF DeskInv, FilesTyped, Configs
<1>3. UNCHANGED <<profile, route, runs, titling, Desk!files, restored>> /\ Desk!Begin(s, Desk!Idle)
  BY DEF Desk!NewConversation
<1>4. conv' = [conv EXCEPT ![c] = r]
  BY <1>1
<1> HIDE DEF r
<1>5. runs' \subseteq Agents \X Convs /\ titling' \subseteq Convs
  BY <1>3 DEF DeskInv, RowsTyped
<1> QED
  BY <1>2, <1>3, <1>4, <1>5, ConvWritten, ClickStep

LEMMA RenameKeeps ==
  ASSUME Desk!WorkspaceAssumption, DeskInv, NEW s \in Slots, Desk!Rename(s)
  PROVE  DeskInv'
<1>1. PICK c \in Convs : conv' = [conv EXCEPT ![c].source = "user"]
  BY DEF Desk!Rename
<1> DEFINE r == [conv[c] EXCEPT !.source = "user"]
<1>2. r \in ConvRows
  BY RowChanges DEF DeskInv, RowsTyped
<1>3. UNCHANGED <<profile, route, runs, titling, Desk!files, restored>> /\ Desk!Begin(s, Desk!Idle)
  BY DEF Desk!Rename
<1>4. conv' = [conv EXCEPT ![c] = r]
  BY <1>1 DEF DeskInv, RowsTyped
<1> HIDE DEF r
<1>5. runs' \subseteq Agents \X Convs /\ titling' \subseteq Convs
  BY <1>3 DEF DeskInv, RowsTyped
<1> QED
  BY <1>2, <1>3, <1>4, <1>5, ConvWritten, ClickStep

LEMMA DeleteConversationKeeps ==
  ASSUME Desk!WorkspaceAssumption, DeskInv, NEW s \in Slots, Desk!DeleteConversation(s)
  PROVE  DeskInv'
<1>1. PICK c \in Convs : conv' = [conv EXCEPT ![c].archived = TRUE]
  BY DEF Desk!DeleteConversation
<1> DEFINE r == [conv[c] EXCEPT !.archived = TRUE]
<1>2. r \in ConvRows
  BY RowChanges DEF DeskInv, RowsTyped
<1>3. UNCHANGED <<profile, route, runs, titling, Desk!files, restored>> /\ Desk!Begin(s, Desk!Idle)
  BY DEF Desk!DeleteConversation
<1>4. conv' = [conv EXCEPT ![c] = r]
  BY <1>1 DEF DeskInv, RowsTyped
<1> HIDE DEF r
<1>5. runs' \subseteq Agents \X Convs /\ titling' \subseteq Convs
  BY <1>3 DEF DeskInv, RowsTyped
<1> QED
  BY <1>2, <1>3, <1>4, <1>5, ConvWritten, ClickStep

LEMMA StartChatKeeps ==
  ASSUME Desk!WorkspaceAssumption, DeskInv, NEW s \in Slots, Desk!StartChat(s)
  PROVE  DeskInv'
<1>1. PICK c \in Convs : Desk!Begin(s, Desk!Asks("ensure", config.profile, c, None, conv[c]))
  BY DEF Desk!StartChat
<1> DEFINE x == Desk!Asks("ensure", config.profile, c, None, conv[c])
<1>2. config.profile \in Agents /\ conv[c] \in ConvRows
  BY DEF Desk!StartChat, Desk!Live, DeskInv, RowsTyped
<1>3. CallTyped(x) /\ x.op = "ensure"
  BY <1>2 DEF Desk!Asks, CallTyped, OfConvs, WithRow, OfAgents, Routing
<1>4. Desk!Begin(s, x) /\ UNCHANGED <<Desk!rows, titling, Desk!files, restored>>
  BY <1>1 DEF Desk!StartChat
<1> HIDE DEF x
<1> QED
  BY <1>3, <1>4, BeginStep, RowsStay DEF Desk!rows, Desk!files, Routing

\* A call with a row writes one of the kind.
LEMMA SavesTyped ==
  ASSUME DeskInv, NEW s \in Slots, wcall[s].op \in WithRow, Desk!SavesRow(s),
         UNCHANGED <<profile, route, runs>>, titling' \subseteq Convs
  PROVE  RowsTyped'
<1> DEFINE c == wcall[s].conv
           old == wcall[s].seen
           b == conv[c].talked
           r == [old EXCEPT !.talked = b]
<1>1. CallTyped(wcall[s])
  BY DEF DeskInv, CallsTyped
<1>2. old \in ConvRows /\ c \in Convs
  BY <1>1 DEF CallTyped, WithRow, OfConvs
<1>3. b \in BOOLEAN
  BY <1>2 DEF DeskInv, RowsTyped, ConvRows
<1>4. conv' = [conv EXCEPT ![c] = r]
  BY DEF Desk!SavesRow
<1> HIDE DEF old, b, c
<1>5. r \in ConvRows
  BY <1>2, <1>3, RowChanges
<1>6. runs' \subseteq Agents \X Convs
  BY DEF DeskInv, RowsTyped
<1> HIDE DEF r
<1> QED
  BY <1>2, <1>4, <1>5, <1>6, ConvWritten

\* A chat call that goes on to a step of its own, or ends.
LEMMA ChatStep ==
  ASSUME Desk!WorkspaceAssumption, DeskInv, NEW s \in Slots, NEW c, up, Desk!Goes(s, c) \/ Desk!Ends(s),
         CallTyped(c), c.op \in {"run", "talk", "touch", "touch untitled"} \cup WithRow,
         RowsTyped', UNCHANGED <<route, Desk!files, restored>>
  PROVE  DeskInv'
BY GoesStep, EndsStep DEF Desk!files, WithRow, Routing

LEMMA ensureConversationKeeps ==
  ASSUME Desk!WorkspaceAssumption, DeskInv, NEW s \in Slots, Desk!ensureConversation(s)
  PROVE  DeskInv'
<1> DEFINE c == wcall[s].conv
           a == wcall[s].agent
           x == [wcall[s] EXCEPT !.op = "run"]
<1>1. /\ up /\ CallTyped(wcall[s]) /\ wcall[s].op = "ensure"
      /\ UNCHANGED <<profile, route, runs, titling, Desk!files, restored>>
  BY DEF Desk!ensureConversation, Desk!In, DeskInv, CallsTyped
<1>2. c \in Convs /\ a \in Agents /\ runs' \subseteq Agents \X Convs /\ titling' \subseteq Convs
  BY <1>1 DEF CallTyped, OfConvs, OfAgents, DeskInv, RowsTyped
<1>3. CallTyped(x) /\ x.op = "run"
  BY <1>1, Renamed DEF OfAgents, OfConvs, WithRow, Routing
<1>4. Desk!Goes(s, x) \/ Desk!Ends(s)
  BY DEF Desk!ensureConversation, Desk!GoesOn
<1>5. RowsTyped'
  <2>1. CASE Desk!SavesRow(s)
    BY <1>1, <1>2, <2>1, SavesTyped DEF WithRow
  <2>2. CASE conv' = [conv EXCEPT ![c] = [Desk!NewRow EXCEPT !.agent = a, !.source = "default"]]
    <3> DEFINE r == [Desk!NewRow EXCEPT !.agent = a, !.source = "default"]
    <3>1. r \in ConvRows
      BY <1>2, NewRowTyped
    <3>2. conv' = [conv EXCEPT ![c] = r]
      BY <2>2
    <3> HIDE DEF r, c
    <3> QED
      BY <3>1, <3>2, <1>1, <1>2, ConvWritten
  <2>3. CASE UNCHANGED conv
    BY <1>1, <2>3 DEF DeskInv, RowsTyped
  <2> QED
    BY <2>1, <2>2, <2>3 DEF Desk!ensureConversation
<1> HIDE DEF x
<1> QED
  BY <1>1, <1>3, <1>4, <1>5, ChatStep

\* A call with another step and another thing to remember.
LEMMA Remembers ==
  ASSUME DeskInv, NEW s \in Slots, NEW op, NEW seen,
         op \in OfConvs, wcall[s].op \in OfConvs,
         op \in OfAgents => wcall[s].op \in OfAgents, op \in WithRow => seen \in ConvRows
  PROVE  LET c == [wcall[s] EXCEPT !.op = op, !.seen = seen] IN CallTyped(c) /\ c.op = op
<1> DEFINE x == wcall[s]
           c == [x EXCEPT !.op = op, !.seen = seen]
<1>1. CallTyped(x)
  BY DEF DeskInv, CallsTyped
<1>2. x.op \in OfConvs /\ (op \in OfAgents => x.op \in OfAgents)
  OBVIOUS
<1> HIDE DEF x
<1>3. DOMAIN x = {"op", "agent", "conv", "provider", "seen"}
  BY <1>1 DEF CallTyped
<1>4. /\ DOMAIN c = DOMAIN x /\ c.op = op /\ c.seen = seen /\ c.agent = x.agent
      /\ c.provider = x.provider /\ c.conv = x.conv
  BY <1>3
<1> HIDE DEF c
<1>5. CallTyped(c)
  BY <1>1, <1>2, <1>3, <1>4 DEF CallTyped, OfConvs
<1> QED
  BY <1>4, <1>5 DEF x, c

LEMMA CreateRunKeeps ==
  ASSUME Desk!WorkspaceAssumption, DeskInv, NEW s \in Slots, Desk!CreateRun(s)
  PROVE  DeskInv'
<1> DEFINE c == wcall[s].conv
           a == wcall[s].agent
           seen == Desk!conversationTitleEligible(conv[c])
           x == [wcall[s] EXCEPT !.op = "talk", !.seen = seen]
<1>1. /\ up /\ CallTyped(wcall[s]) /\ wcall[s].op = "run"
      /\ UNCHANGED <<profile, route, titling, Desk!files, restored>>
  BY DEF Desk!CreateRun, Desk!In, DeskInv, CallsTyped
<1>2. c \in Convs /\ a \in Agents /\ titling' \subseteq Convs
  BY <1>1 DEF CallTyped, OfConvs, OfAgents, DeskInv, RowsTyped
<1>3. CASE UNCHANGED <<runs, conv>> /\ Desk!Ends(s)
  <2>1. RowsTyped'
    BY <1>1, <1>3 DEF DeskInv, RowsTyped
  <2> QED
    BY <1>1, <1>3, <2>1, EndsStep DEF Desk!files
<1>4. CASE /\ runs' = runs \cup {<<a, c>>}
           /\ conv' = [conv EXCEPT ![c].talked = TRUE]
           /\ Desk!Goes(s, x)
  <2> DEFINE r == [conv[c] EXCEPT !.talked = TRUE]
  <2>1. r \in ConvRows
    BY <1>2, RowChanges DEF DeskInv, RowsTyped
  <2>2. conv' = [conv EXCEPT ![c] = r]
    BY <1>4 DEF DeskInv, RowsTyped
  <2>3. runs' \subseteq Agents \X Convs
    BY <1>2, <1>4 DEF DeskInv, RowsTyped
  <2>4. Desk!Goes(s, x)
    BY <1>4
  <2> HIDE DEF seen
  <2>5. CallTyped(x) /\ x.op = "talk"
    <3>1. /\ "talk" \in OfConvs /\ wcall[s].op \in OfConvs /\ wcall[s].op \in OfAgents
          /\ "talk" \notin WithRow
      BY <1>1 DEF OfAgents, OfConvs, WithRow
    <3> QED
      BY <3>1, Remembers, Zenon
  <2> HIDE DEF r, c, x
  <2>6. RowsTyped'
    BY <1>1, <1>2, <2>1, <2>2, <2>3, ConvWritten
  <2> QED
    BY <1>1, <2>4, <2>5, <2>6, ChatStep
<1> QED
  BY <1>3, <1>4 DEF Desk!CreateRun

LEMMA FinishRunKeeps ==
  ASSUME Desk!WorkspaceAssumption, DeskInv, NEW s \in Slots, Desk!FinishRun(s)
  PROVE  DeskInv'
<1>1. /\ up /\ CallTyped(wcall[s]) /\ wcall[s].op = "talk"
      /\ UNCHANGED <<profile, route, conv, titling, Desk!files, restored>> /\ runs' \subseteq runs
  BY DEF Desk!FinishRun, Desk!In, DeskInv, CallsTyped
<1>2. RowsTyped'
  BY <1>1 DEF DeskInv, RowsTyped
<1>3. Desk!GoesOn(s, "touch untitled") \/ Desk!GoesOn(s, "touch") \/ Desk!Ends(s)
  BY DEF Desk!FinishRun
<1>4. ASSUME NEW op \in {"touch", "touch untitled"}
      PROVE  LET c == [wcall[s] EXCEPT !.op = op] IN CallTyped(c) /\ c.op = op
  BY <1>1, Renamed DEF OfAgents, OfConvs, WithRow, Routing
<1>5. ASSUME NEW op \in {"touch", "touch untitled"}, Desk!GoesOn(s, op)
      PROVE  DeskInv'
  <2> DEFINE x == [wcall[s] EXCEPT !.op = op]
  <2>1. CallTyped(x) /\ x.op = op
    BY <1>4
  <2>2. Desk!Goes(s, x)
    BY <1>5 DEF Desk!GoesOn
  <2> HIDE DEF x
  <2> QED
    BY <1>1, <1>2, <2>1, <2>2, ChatStep
<1>6. CASE Desk!Ends(s)
  BY <1>1, <1>2, <1>6, EndsStep DEF Desk!files
<1> QED
  BY <1>3, <1>5, <1>6

LEMMA ReadForTouchKeeps ==
  ASSUME Desk!WorkspaceAssumption, DeskInv, NEW s \in Slots, Desk!ReadForTouch(s)
  PROVE  DeskInv'
<1>1. /\ up /\ CallTyped(wcall[s]) /\ wcall[s].op \in {"touch", "touch untitled"}
      /\ UNCHANGED <<Desk!rows, titling, Desk!files, restored>>
  BY DEF Desk!ReadForTouch, Desk!In, DeskInv, CallsTyped
<1>2. RowsTyped'
  BY <1>1, RowsStay
<1>3. conv[wcall[s].conv] \in ConvRows
  BY <1>1 DEF CallTyped, OfConvs, DeskInv, RowsTyped
<1>4. PICK op \in {"save row", "save row untitled"} :
        Desk!Goes(s, [wcall[s] EXCEPT !.op = op, !.seen = conv[wcall[s].conv]])
  BY DEF Desk!ReadForTouch
<1> DEFINE seen == conv[wcall[s].conv]
           x == [wcall[s] EXCEPT !.op = op, !.seen = seen]
<1>5. seen \in ConvRows /\ Desk!Goes(s, x)
  BY <1>3, <1>4
<1> HIDE DEF seen
<1>6. CallTyped(x) /\ x.op = op
  <2>1. op \in OfConvs /\ wcall[s].op \in OfConvs /\ op \notin OfAgents
    BY <1>1 DEF OfAgents, OfConvs, Routing
  <2> QED
    BY <1>5, <2>1, Remembers, Zenon
<1> HIDE DEF x
<1> QED
  BY <1>1, <1>2, <1>5, <1>6, ChatStep DEF Desk!rows, WithRow

LEMMA touchConversationKeeps ==
  ASSUME Desk!WorkspaceAssumption, DeskInv, NEW s \in Slots, Desk!touchConversation(s)
  PROVE  DeskInv'
<1>1. /\ up /\ CallTyped(wcall[s]) /\ wcall[s].op \in {"save row", "save row untitled"}
      /\ UNCHANGED <<profile, route, runs, Desk!files, restored>> /\ Desk!SavesRow(s) /\ Desk!Ends(s)
      /\ titling' \subseteq titling \cup {wcall[s].conv}
  BY DEF Desk!touchConversation, Desk!In, DeskInv, CallsTyped
<1>2. titling' \subseteq Convs
  BY <1>1 DEF CallTyped, OfConvs, DeskInv, RowsTyped
<1>3. RowsTyped'
  BY <1>1, <1>2, SavesTyped DEF WithRow
<1> QED
  BY <1>1, <1>3, EndsStep DEF Desk!files

LEMMA ConversationsKeep ==
  ASSUME Desk!WorkspaceAssumption, DeskInv, NEW s \in Slots, Desk!ConversationStep(s)
  PROVE  DeskInv'
BY NewConversationKeeps, RenameKeeps, DeleteConversationKeeps, StartChatKeeps, ensureConversationKeeps,
   CreateRunKeeps, FinishRunKeeps, ReadForTouchKeeps, touchConversationKeeps DEF Desk!ConversationStep

\* Nothing but the rows of conversations and the workers changes.
LEMMA TitleKeeps ==
  ASSUME DeskInv, NEW c \in Convs, Desk!UpdateTitleIfDefault(c)
  PROVE  DeskInv'
<1>1. UNCHANGED <<profile, route, runs, config, disk, keys, mu, wcall, up, restored>> /\ titling' \subseteq Convs
  BY DEF Desk!UpdateTitleIfDefault, Desk!files, DeskInv, RowsTyped
<1>2. RowsTyped'
  <2>1. CASE UNCHANGED conv
    BY <1>1, <2>1 DEF DeskInv, RowsTyped
  <2>2. CASE conv' = [conv EXCEPT ![c].source = "generated"]
    <3> DEFINE r == [conv[c] EXCEPT !.source = "generated"]
    <3>1. r \in ConvRows
      BY RowChanges DEF DeskInv, RowsTyped
    <3>2. conv' = [conv EXCEPT ![c] = r]
      BY <2>2 DEF DeskInv, RowsTyped
    <3>3. runs' \subseteq Agents \X Convs
      BY <1>1 DEF DeskInv, RowsTyped
    <3> HIDE DEF r
    <3> QED
      BY <3>1, <3>2, <3>3, <1>1, ConvWritten
  <2> QED
    BY <2>1, <2>2 DEF Desk!UpdateTitleIfDefault
<1> QED
  BY <1>1, <1>2 DEF DeskInv, FilesTyped, CallsTyped, RoutesFit, AuditsFit, SavesFit, DownFits,
                    Desk!RoutesHold, Desk!ProvidersHaveKeys

-----------------------------------------------------------------------------
(* Quitting and starting again.                                            *)

\* Quitting drops every call; only a start runs while the application is down.
LEMMA QuitKeeps ==
  ASSUME DeskInv, Desk!Quit
  PROVE  DeskInv'
<1>1. /\ UNCHANGED <<profile, route, conv, runs, config, disk, keys, restored>> /\ titling' = {}
      /\ wcall' = [s \in Slots |-> Desk!Idle]
  BY DEF Desk!Quit, Desk!rows
<1>2. DOMAIN wcall' = Slots /\ \A s \in Slots : wcall'[s] = Desk!Idle
  BY <1>1
<1>3. RowsTyped' /\ FilesTyped' /\ CallsTyped' /\ DownFits'
  BY <1>1, <1>2, IdleCall DEF DeskInv, RowsTyped, FilesTyped, CallsTyped, DownFits
<1>4. RoutesFit' /\ AuditsFit' /\ SavesFit'
  BY <1>2, IdleCall DEF RoutesFit, AuditsFit, SavesFit, Routing
<1>5. Desk!RoutesHold' /\ Desk!ProvidersHaveKeys'
  BY <1>1 DEF DeskInv, Desk!RoutesHold, Desk!ProvidersHaveKeys
<1> QED
  BY <1>3, <1>4, <1>5 DEF DeskInv

\* What a start makes of the file: it counts an agent exactly when one is live.
LEMMA RosterReconciled ==
  ASSUME Desk!WorkspaceAssumption, DeskInv
  PROVE  LET c == Desk!reconcileAgentRoster(disk) IN
           /\ c \in Configs /\ c.providers = config.providers
           /\ c.configured = (Desk!Live # {}) /\ (Desk!Live # {} => c.profile \in Desk!Live)
<1> DEFINE old == disk
           chief == IF disk.profile \in Desk!Live THEN disk.profile ELSE Desk!Eldest(Desk!Live)
           x == [old EXCEPT !.profile = chief, !.configured = TRUE]
           y == [old EXCEPT !.profile = Desk!Nobody, !.configured = FALSE, !.completed = FALSE]
<1>1. Desk!Live \subseteq Agents /\ (Desk!Live # {} => chief \in Desk!Live)
  BY EldestIsOne DEF Desk!Live
<1>2. old \in Configs /\ old.providers = config.providers
  BY DEF DeskInv, FilesTyped
<1>3. Desk!reconcileAgentRoster(disk) = IF Desk!Live = {} THEN y ELSE Desk!Complete(x)
  BY DEF Desk!reconcileAgentRoster
<1> HIDE DEF old, chief
<1>4. y \in Configs
  BY <1>2 DEF Configs
<1>5. y.providers = config.providers /\ y.configured = FALSE
  BY <1>2 DEF Configs
<1>6. ASSUME Desk!Live # {}
      PROVE  /\ Desk!Complete(x) \in Configs /\ Desk!Complete(x).providers = config.providers
             /\ Desk!Complete(x).configured = TRUE /\ Desk!Complete(x).profile = chief
  <2>1. chief \in Agents
    BY <1>1, <1>6
  <2>2. x \in Configs
    BY <1>2, <2>1 DEF Configs
  <2>3. x.providers = config.providers /\ x.configured = TRUE /\ x.profile = chief
    BY <1>2 DEF Configs
  <2> HIDE DEF x
  <2> QED
    BY <2>2, <2>3, CompleteConfig
<1> HIDE DEF x, y
<1>7. CASE Desk!Live = {}
  BY <1>3, <1>4, <1>5, <1>7
<1>8. CASE Desk!Live # {}
  BY <1>1, <1>3, <1>6, <1>8
<1> QED
  BY <1>7, <1>8

LEMMA NewBridgeKeeps ==
  ASSUME Desk!WorkspaceAssumption, DeskInv, Desk!NewBridge
  PROVE  /\ DeskInv' /\ config'.configured = (Desk!Live # {})
         /\ Desk!Live # {} => config'.profile \in Desk!Live
<1> DEFINE c == Desk!reconcileAgentRoster(disk)
<1>1. /\ c \in Configs /\ c.providers = config.providers
      /\ c.configured = (Desk!Live # {}) /\ (Desk!Live # {} => c.profile \in Desk!Live)
  BY RosterReconciled
<1>2. /\ ~up /\ Desk!Valid(c) /\ config' = c /\ disk' = c /\ up'
      /\ UNCHANGED <<profile, route, conv, runs, titling, keys, mu, wcall, restored>>
  BY DEF Desk!NewBridge, Desk!rows
<1> HIDE DEF c
<1>3. DOMAIN wcall = Slots /\ \A s \in Slots : wcall[s] = Desk!Idle
  BY <1>2 DEF DeskInv, DownFits, CallsTyped
<1>4. RowsTyped' /\ FilesTyped' /\ CallsTyped' /\ DownFits'
  BY <1>1, <1>2 DEF DeskInv, RowsTyped, FilesTyped, CallsTyped, DownFits
<1>5. RoutesFit' /\ AuditsFit' /\ SavesFit'
  BY <1>2, <1>3, IdleCall DEF RoutesFit, AuditsFit, SavesFit, Routing
<1>6. Desk!RoutesHold' /\ Desk!ProvidersHaveKeys'
  BY <1>1, <1>2 DEF DeskInv, Desk!RoutesHold, Desk!ProvidersHaveKeys
<1> QED
  BY <1>1, <1>2, <1>4, <1>5, <1>6 DEF DeskInv

-----------------------------------------------------------------------------
LEMMA DeskStep ==
  ASSUME Desk!WorkspaceAssumption, DeskInv, [Desk!Next]_(Desk!vars)
  PROVE  DeskInv'
<1>1. ASSUME NEW s \in Slots,
             Desk!RosterStep(s) \/ Desk!ProviderStep(s) \/ Desk!SettingsStep(s) \/ Desk!ConversationStep(s)
      PROVE  DeskInv'
  BY <1>1, RosterKeeps, ProvidersKeep, SettingsKeep, ConversationsKeep
<1>2. ASSUME NEW c \in Convs, Desk!UpdateTitleIfDefault(c)
      PROVE  DeskInv'
  BY <1>2, TitleKeeps
<1>3. CASE Desk!Quit
  BY <1>3, QuitKeeps
<1>4. CASE Desk!NewBridge
  BY <1>4, NewBridgeKeeps
<1>5. CASE UNCHANGED Desk!vars
  BY <1>5 DEF Desk!vars, DeskInv, RowsTyped, FilesTyped, CallsTyped, RoutesFit, AuditsFit, SavesFit,
              DownFits, Desk!RoutesHold, Desk!ProvidersHaveKeys
<1> QED
  BY <1>1, <1>2, <1>3, <1>4, <1>5 DEF Desk!Next

LEMMA OnlyStartsWhenDown ==
  ASSUME Desk!Next, ~up
  PROVE  Desk!NewBridge
<1>1. ASSUME NEW s \in Slots, Desk!RosterStep(s)
      PROVE  FALSE
  BY <1>1 DEF Desk!RosterStep, Desk!StartCreate, Desk!CreateAgent, Desk!SetActiveAgent, Desk!activateAgent, Desk!SoftDelete,
     Desk!ListLeft, Desk!DeleteAgent, Desk!StartRoute, Desk!UpdateRoute, Desk!Begin, Desk!In
<1>2. ASSUME NEW s \in Slots, Desk!ProviderStep(s)
      PROVE  FALSE
  BY <1>2 DEF Desk!ProviderStep, Desk!SaveProvider, Desk!FinishSave, Desk!SaveCodexProvider, Desk!StartProbe,
     Desk!completeOnboarding, Desk!ensureCodexProviderConfigured, Desk!CodexLogout, Desk!SetProviderModelFavorite,
     Desk!Writes, Desk!Begin, Desk!In
<1>3. ASSUME NEW s \in Slots, Desk!SettingsStep(s)
      PROVE  FALSE
  BY <1>3 DEF Desk!SettingsStep, Desk!SaveAllowedDirectories, Desk!addAllowedDirectory, Desk!SetPluginDevMode,
     Desk!SaveWebSearchSettings, Desk!SaveProactivity, Desk!ServeProactivity, Desk!SetPersonaAutoEvolution,
     Desk!AuditAutoEvolution, Desk!Writes, Desk!Begin, Desk!In
<1>4. ASSUME NEW s \in Slots, Desk!ConversationStep(s)
      PROVE  FALSE
  BY <1>4 DEF Desk!ConversationStep, Desk!NewConversation, Desk!Rename, Desk!DeleteConversation, Desk!StartChat,
     Desk!ensureConversation, Desk!CreateRun, Desk!FinishRun, Desk!ReadForTouch, Desk!touchConversation, Desk!Begin, Desk!In
<1> QED
  BY <1>1, <1>2, <1>3, <1>4 DEF Desk!Next, Desk!UpdateTitleIfDefault, Desk!Quit

\* Whatever forms, clicks, runs, failures, quits and restarts interleave: the file
\* never says what its validation refuses, no agent's route names a provider the
\* configuration lacks unless a failed audit has put an old one back, every
\* configured provider that signs in with a key has one, and a start leaves an
\* active agent that is live and a setup that counts one exactly when there is one
\* (desktop/agents.go:369-680, desktop/providers.go:89-297, config/config.go).
THEOREM WorkspaceKept ==
  ASSUME Desk!WorkspaceAssumption
  PROVE  Desk!Spec => WorkspaceHolds
<1>1. Desk!Init => DeskInv
  BY DeskInit
<1>2. DeskInv /\ [Desk!Next]_(Desk!vars) => DeskInv'
  BY DeskStep
<1>3. DeskInv => Desk!WorkspaceTypeOK /\ Desk!RoutesHold /\ Desk!ProvidersHaveKeys
  BY DEF DeskInv, RowsTyped, FilesTyped, CallsTyped, CallTyped, RouteRows, ConvRows, Configs,
         Desk!WorkspaceTypeOK
<1>4. DeskInv /\ [Desk!Next]_(Desk!vars)
      => [~up /\ up' => /\ config'.configured = (Desk!Live # {})
                        /\ Desk!Live # {} => config'.profile \in Desk!Live]_(Desk!vars)
  <2> SUFFICES ASSUME DeskInv, Desk!Next, ~up, up'
               PROVE  /\ config'.configured = (Desk!Live # {})
                      /\ Desk!Live # {} => config'.profile \in Desk!Live
    OBVIOUS
  <2>1. Desk!NewBridge
    BY OnlyStartsWhenDown
  <2> QED
    BY <2>1, NewBridgeKeeps
<1> QED
  BY <1>1, <1>2, <1>3, <1>4, PTL DEF Desk!Spec, WorkspaceHolds, Desk!RestartHeals

-----------------------------------------------------------------------------
(* Notices.                                                                *)

Carries(k, j) == k.notice = j.notice /\ k.at = j.to /\ k.kind = "deferred"

JobShaped(j) ==
  /\ DOMAIN j = {"notice", "kind", "at", "tries", "pc", "to"}
  /\ j.notice \in Notices /\ j.tries \in 0 .. Tries
  /\ j.pc \in {"due", "notify", "commit", "audit", "enqueue", "enqueued", "done", "failed"}
  /\ j.pc = "due" => j.tries < Tries
  /\ j.pc \in {"due", "notify", "commit", "audit"} => j.to = Notify!Never

Carried(j, js) ==
  j.pc = "enqueued" \/ (j.pc = "done" /\ j.to # Notify!Never) => \E k \in js : Carries(k, j)

SameJob(j, k) == j.notice = k.notice /\ j.kind = k.kind /\ j.at = k.at

\* The jobs: one for a notice, a kind and a time, and one that has put its notice
\* off has a successor.
JobsFit ==
  /\ \A j \in jobs : JobShaped(j) /\ Carried(j, jobs)
  /\ \A j, k \in jobs : SameJob(j, k) => j = k

Active == {"notify", "commit"}

\* A notice is reserved while a job has it in hand, and by one job only.
ReservesFit ==
  /\ DOMAIN pending \subseteq Notices /\ DOMAIN pending \cap delivered = {} /\ delivered \subseteq Notices
  /\ \A j \in jobs : /\ j.pc \in Active => j.notice \in DOMAIN pending
                     /\ j.pc = "audit" => j.notice \in delivered
                     /\ j.pc = "commit" => j.notice \in unaudited
                     /\ ~pup => j.pc \in {"due", "done", "failed"}
  /\ \A j, k \in jobs : j.pc \in Active /\ k.pc \in Active /\ j.notice = k.notice => j = k
  /\ ~pup => crashed

TimesFit ==
  /\ psettings \in Offers /\ pnow \in 0 .. Horizon /\ lastByType \in [Types -> -1 .. pnow]
  /\ \A n \in DOMAIN pending :
       /\ pending[n].at \in 0 .. pnow /\ pending[n].before \in -1 .. pnow
       /\ ~rezoned => pending[n].date = Notify!LocalDate(pending[n].at)
  /\ shown \in [Notices -> Seq(Nat)]
  /\ \A n \in Notices : \A i \in DOMAIN shown[n] : shown[n][i] <= pnow
  /\ \A d \in DOMAIN dailyCounts : dailyCounts[d] \in Nat \ {0}

\* What the journal knows is delivered, and was written after the notice was shown.
AuditFits ==
  \A a \in audit : /\ a.notice \in delivered /\ a.at \in 0 .. pnow
                   /\ \A i \in DOMAIN shown[a.notice] : shown[a.notice][i] <= a.at

Audited == {a.notice : a \in audit}

\* What was shown is remembered, by the policy, the journal or a job.
ShowsFit ==
  \A n \in Notices : shown[n] # << >> =>
    /\ n \in unaudited \cup Audited
    /\ n \in delivered \/ (n \in unaudited /\ crashed) \/ \E j \in jobs : j.pc = "commit" /\ j.notice = n

Lost == unaudited \ (DOMAIN pending \cup delivered)
Counted == (Notify!ShownOn(Notify!LocalDate(pnow)) \cup Notify!Reserved(Notify!LocalDate(pnow))) \ Lost

\* Today's count has everything shown or reserved today, but what was lost.
CountFits == pup /\ ~rezoned => Cardinality(Counted) <= Notify!CountOf(Notify!LocalDate(pnow))

Told == {n \in Notices : shown[n] # << >>}
FewSoFar == IsFiniteSet(Told) /\ IsFiniteSet(DOMAIN pending) /\ IsFiniteSet(audit)

NoticeInv ==
  JobsFit /\ ReservesFit /\ TimesFit /\ AuditFits /\ ShowsFit /\ CountFits /\ FewSoFar

-----------------------------------------------------------------------------
LEMMA SameCount ==
  ASSUME NEW S
  PROVE  Notify!Cardinality(S) = Cardinality(S)
BY DEF Notify!Cardinality, Cardinality

\* The latest of some moments.
LEMMA LatestIsOne ==
  ASSUME NEW h \in Nat, NEW S \in SUBSET (-1 .. h), S # {}
  PROVE  Notify!Max(S) \in S
<1> DEFINE D == {h - x : x \in S}
<1>0. \A x \in -1 .. h : h - x \in Nat
  OBVIOUS
<1>1. D \in SUBSET Nat /\ D # {}
  <2>1. \A x \in S : h - x \in Nat
    BY <1>0
  <2> QED
    BY <2>1
<1>2. PICK d \in D : \A e \in D : d <= e
  BY <1>1, LeastNatural
<1>3. PICK x \in S : d = h - x
  BY <1>2
<1>4. \A y \in S : h - x <= h - y
  BY <1>2, <1>3
<1>5. \A y \in S : x >= y
  BY <1>4
<1> QED
  BY <1>5 DEF Notify!Max

\* Moments have local dates, today's count is a number, and what it counts is finite.
LEMMA Dates ==
  ASSUME Notify!ProactivityAssumption, psettings \in Offers
  PROVE  /\ \A t \in Int : Notify!LocalDate(t) \in Int
         /\ \A t, u \in Int : t <= u => Notify!LocalDate(t) <= Notify!LocalDate(u)
<1>1. Day \in Nat \ {0} /\ psettings.zone \in Nat
  BY DEF Notify!ProactivityAssumption
<1> DEFINE z == psettings.zone
<1>2. z \in Nat
  BY <1>1
<1>3. \A t : Notify!LocalDate(t) = (t + z) \div Day
  BY DEF Notify!LocalDate
<1> HIDE DEF z
<1>4. \A t \in Int : (t + z) \div Day \in Int
  BY <1>1, <1>2
<1>5. \A t, u \in Int : t <= u => (t + z) \div Day <= (u + z) \div Day
  <2> SUFFICES ASSUME NEW t \in Int, NEW u \in Int, t <= u
               PROVE  (t + z) \div Day <= (u + z) \div Day
    OBVIOUS
  <2> DEFINE a == t + z
             b == u + z
  <2>1. a \in Int /\ b \in Int /\ a <= b
    BY <1>2
  <2> HIDE DEF a, b
  <2>2. a \div Day <= b \div Day
    BY <1>1, <2>1
  <2> QED
    BY <2>2 DEF a, b
<1> QED
  BY <1>3, <1>4, <1>5

LEMMA Counts ==
  ASSUME NoticeInv
  PROVE  \A d : Notify!CountOf(d) \in Nat
BY DEF NoticeInv, TimesFit, Notify!CountOf

LEMMA CountedIsFinite ==
  ASSUME NoticeInv
  PROVE  IsFiniteSet(Counted)
<1>1. Counted \subseteq Told \cup DOMAIN pending
  BY DEF Counted, Told, Notify!ShownOn, Notify!Reserved, NoticeInv, TimesFit
<1>2. IsFiniteSet(Told \cup DOMAIN pending)
  BY FS_Union DEF NoticeInv, FewSoFar
<1> QED
  BY <1>1, <1>2, FS_Subset

\* A set that loses and gains no more than the count says.
LEMMA FewerCounted ==
  ASSUME NEW S, NEW T, IsFiniteSet(S), T \subseteq S
  PROVE  IsFiniteSet(T) /\ Cardinality(T) <= Cardinality(S)
         /\ Cardinality(S) \in Nat /\ Cardinality(T) \in Nat
BY FS_Subset, FS_CardinalityType

\* Counting one notice more, and one less.
LEMMA OneMore ==
  ASSUME NEW S, NEW n, IsFiniteSet(S)
  PROVE  Cardinality(S \cup {n}) <= Cardinality(S) + 1
<1> DEFINE c == Cardinality(S)
<1>0. c \in Nat
  BY FS_CardinalityType
<1>1. CASE n \in S
  <2>1. S \cup {n} = S
    BY <1>1
  <2>2. Cardinality(S \cup {n}) = c
    BY <2>1
  <2> HIDE DEF c
  <2>3. Cardinality(S \cup {n}) <= c + 1
    BY <2>2, <1>0
  <2> QED
    BY <2>3 DEF c
<1>2. CASE n \notin S
  <2>1. Cardinality(S \cup {n}) = c + 1
    BY <1>2, FS_AddElement
  <2> HIDE DEF c
  <2>2. Cardinality(S \cup {n}) <= c + 1
    BY <2>1, <1>0
  <2> QED
    BY <2>2 DEF c
<1> QED
  BY <1>1, <1>2

LEMMA OneLess ==
  ASSUME NEW S, NEW n \in S, IsFiniteSet(S)
  PROVE  Cardinality(S \ {n}) = Cardinality(S) - 1 /\ Cardinality(S) \in Nat \ {0}
BY FS_RemoveElement, FS_CardinalityType, FS_EmptySet

\* Before the first notice there is nothing to count.
LEMMA NoticesInit ==
  ASSUME Notify!ProactivityAssumption, Notify!Init
  PROVE  NoticeInv
<1> DEFINE first(n) == Notify!Job(n, "task", 0)
<1>1. jobs = {first(n) : n \in Notices}
  BY DEF Notify!Init
<1>2. ASSUME NEW n \in Notices
      PROVE  /\ JobShaped(first(n)) /\ first(n).pc = "due" /\ first(n).to = Notify!Never
             /\ first(n).notice = n
  BY DEF Notify!Job, JobShaped, Notify!ProactivityAssumption
<1> HIDE DEF first
<1>3. \A j \in jobs : \E n \in Notices : j = first(n)
  BY <1>1
<1>4. JobsFit
  BY <1>2, <1>3 DEF JobsFit, Carried, SameJob
<1>5. /\ psettings \in Offers
      /\ DOMAIN pending = {} /\ DOMAIN dailyCounts = {} /\ delivered = {} /\ audit = {} /\ pup = TRUE
      /\ pnow = 0 /\ lastByType = [k \in Types |-> Notify!Never]
      /\ shown = [n \in Notices |-> << >>]
  BY DEF Notify!Init
<1>6. ReservesFit
  BY <1>2, <1>3, <1>5 DEF ReservesFit, Active
<1>7. TimesFit
  BY <1>5 DEF TimesFit, Notify!Never, Notify!ProactivityAssumption
<1>8. AuditFits /\ ShowsFit
  BY <1>5 DEF AuditFits, ShowsFit
<1>9. Told = {} /\ Counted = {}
  BY <1>5 DEF Told, Counted, Notify!ShownOn, Notify!Reserved
<1>10. FewSoFar
  BY <1>5, <1>9, FS_EmptySet DEF FewSoFar
<1>11. CountFits
  BY <1>5, <1>9, FS_EmptySet DEF CountFits, Notify!CountOf
<1> QED
  BY <1>4, <1>6, <1>7, <1>8, <1>10, <1>11 DEF NoticeInv

-----------------------------------------------------------------------------
(* A job moves on; the policy and the journal rest.                        *)

\* A job that turns to another step still carries its notice.
LEMMA JobTurns ==
  ASSUME JobsFit, NEW j \in jobs, NEW m, NEW X, SameJob(m, j), JobShaped(m),
         jobs' = ((jobs \ {j}) \cup {m}) \cup X, Carried(m, jobs'),
         \A x \in X : JobShaped(x) /\ x.pc = "due" /\ (\A k \in jobs : ~SameJob(x, k)) /\ \A y \in X : x = y
  PROVE  JobsFit'
<1>1. \A k \in jobs' : JobShaped(k)
  BY DEF JobsFit
<1>2. ASSUME NEW k \in jobs'
      PROVE  Carried(k, jobs')
  <2>1. CASE k \in jobs \ {j}
    <3> SUFFICES ASSUME NEW l \in jobs, Carries(l, k)
                 PROVE  \E i \in jobs' : Carries(i, k)
      BY <2>1 DEF JobsFit, Carried
    <3>1. CASE l = j
      BY <3>1 DEF Carries, SameJob
    <3>2. CASE l # j
      BY <3>2
    <3> QED
      BY <3>1, <3>2
  <2>2. CASE k \in X
    BY <2>2 DEF Carried, JobShaped
  <2> QED
    BY <2>1, <2>2
<1>3. ASSUME NEW k \in jobs', NEW l \in jobs', SameJob(k, l)
      PROVE  k = l
  BY <1>3 DEF JobsFit, SameJob
<1> QED
  BY <1>1, <1>2, <1>3 DEF JobsFit

\* Steps that touch neither a reservation nor the count.
LEMMA QuietStep ==
  ASSUME NoticeInv, NEW j \in jobs, NEW m, NEW X, SameJob(m, j), JobShaped(m),
         jobs' = ((jobs \ {j}) \cup {m}) \cup X, Carried(m, jobs'),
         \A x \in X : JobShaped(x) /\ x.pc = "due" /\ (\A k \in jobs : ~SameJob(x, k)) /\ \A y \in X : x = y,
         m.pc \notin Active \cup {"audit"}, j.pc # "commit", pup,
         UNCHANGED <<psettings, dailyCounts, lastByType, delivered, pending, audit, pnow, pup, crashed,
                     shown, unaudited, rezoned>>
  PROVE  NoticeInv'
<1>1. JobsFit'
  BY JobTurns DEF NoticeInv
<1>2. ReservesFit'
  BY DEF NoticeInv, ReservesFit, Active
<1>3. TimesFit' /\ AuditFits'
  BY DEF NoticeInv, TimesFit, AuditFits, Notify!LocalDate
<1>4. ShowsFit'
  BY DEF NoticeInv, ShowsFit, Audited
<1>5. Counted' = Counted /\ Told' = Told /\ Notify!CountOf(Notify!LocalDate(pnow))' = Notify!CountOf(Notify!LocalDate(pnow))
  BY DEF Counted, Told, Lost, Notify!ShownOn, Notify!Reserved, Notify!LocalDate, Notify!CountOf
<1>6. CountFits' /\ FewSoFar'
  BY <1>5 DEF NoticeInv, CountFits, FewSoFar
<1> QED
  BY <1>1, <1>2, <1>3, <1>4, <1>6 DEF NoticeInv

LEMMA QuietMove ==
  ASSUME NoticeInv, NEW j \in jobs, NEW m, SameJob(m, j), JobShaped(m),
         jobs' = (jobs \ {j}) \cup {m}, Carried(m, jobs'),
         m.pc \notin Active \cup {"audit"}, j.pc # "commit", pup,
         UNCHANGED <<psettings, dailyCounts, lastByType, delivered, pending, audit, pnow, pup, crashed,
                     shown, unaudited, rezoned>>
  PROVE  NoticeInv'
<1> DEFINE X == {}
<1>1. jobs' = ((jobs \ {j}) \cup {m}) \cup X /\ \A x : x \notin X
  OBVIOUS
<1> HIDE DEF X
<1> QED
  BY <1>1, QuietStep

\* What becomes of the record of a job.
Claimed(j, p) == [[j EXCEPT !.tries = @ + 1] EXCEPT !.pc = p]
ClaimedTo(j, p, u) == [[j EXCEPT !.tries = @ + 1] EXCEPT !.pc = p, !.to = u]
Moved(j, p) == [j EXCEPT !.pc = p, !.tries = IF p \in {"done", "failed"} THEN 0 ELSE @]

\* The records that the actions make.
LEMMA ClaimedFields ==
  ASSUME Notify!ProactivityAssumption, NEW j, JobShaped(j), j.pc = "due", NEW p, NEW u
  PROVE  LET m == Claimed(j, p)
             e == ClaimedTo(j, p, u)
         IN /\ DOMAIN m = DOMAIN j /\ DOMAIN e = DOMAIN j /\ SameJob(m, j) /\ SameJob(e, j)
            /\ m.tries \in 0 .. Tries /\ e.tries \in 0 .. Tries /\ m.pc = p /\ e.pc = p
            /\ m.to = Notify!Never /\ e.to = u
<1> DEFINE t == j.tries + 1
           c == [j EXCEPT !.tries = t]
<1>1. DOMAIN j = {"notice", "kind", "at", "tries", "pc", "to"} /\ j.to = Notify!Never
      /\ j.tries \in 0 .. Tries /\ j.tries < Tries
  BY DEF JobShaped
<1>2. t \in 0 .. Tries
  BY <1>1 DEF Notify!ProactivityAssumption
<1>3. c = [j EXCEPT !.tries = @ + 1]
  BY <1>1
<1> HIDE DEF t
<1>4. /\ DOMAIN c = DOMAIN j /\ c.tries = t /\ c.to = j.to
      /\ c.notice = j.notice /\ c.kind = j.kind /\ c.at = j.at
  BY <1>1
<1> HIDE DEF c
<1> DEFINE m == [c EXCEPT !.pc = p]
           e == [c EXCEPT !.pc = p, !.to = u]
<1>5. /\ DOMAIN m = DOMAIN c /\ m.tries = c.tries /\ m.pc = p /\ m.to = c.to
      /\ m.notice = c.notice /\ m.kind = c.kind /\ m.at = c.at
  BY <1>1, <1>4
<1>6. /\ DOMAIN e = DOMAIN c /\ e.tries = c.tries /\ e.pc = p /\ e.to = u
      /\ e.notice = c.notice /\ e.kind = c.kind /\ e.at = c.at
  BY <1>1, <1>4
<1> HIDE DEF m, e
<1>7. /\ DOMAIN m = DOMAIN j /\ DOMAIN e = DOMAIN j /\ SameJob(m, j) /\ SameJob(e, j)
      /\ m.tries \in 0 .. Tries /\ e.tries \in 0 .. Tries /\ m.pc = p /\ e.pc = p
      /\ m.to = Notify!Never /\ e.to = u
  BY <1>1, <1>2, <1>4, <1>5, <1>6 DEF SameJob
<1> QED
  BY <1>7, <1>3 DEF m, e, Claimed, ClaimedTo

\* A job that is done, failed or goes on.
LEMMA MovedFields ==
  ASSUME Notify!ProactivityAssumption, NEW j, JobShaped(j), NEW p
  PROVE  LET m == Moved(j, p)
             n == [j EXCEPT !.pc = p]
         IN /\ DOMAIN m = DOMAIN j /\ SameJob(m, j) /\ m.tries \in 0 .. Tries /\ m.pc = p /\ m.to = j.to
            /\ DOMAIN n = DOMAIN j /\ SameJob(n, j) /\ n.tries \in 0 .. Tries /\ n.pc = p /\ n.to = j.to
<1> DEFINE t == IF p \in {"done", "failed"} THEN 0 ELSE j.tries
           m == [j EXCEPT !.pc = p, !.tries = t]
           n == [j EXCEPT !.pc = p]
<1>1. DOMAIN j = {"notice", "kind", "at", "tries", "pc", "to"} /\ j.tries \in 0 .. Tries /\ t \in 0 .. Tries
  BY DEF JobShaped, Notify!ProactivityAssumption
<1>2. m = Moved(j, p)
  BY <1>1 DEF Moved
<1> HIDE DEF t
<1>3. /\ DOMAIN m = DOMAIN j /\ m.tries = t /\ m.pc = p /\ m.to = j.to
      /\ m.notice = j.notice /\ m.kind = j.kind /\ m.at = j.at
  BY <1>1
<1>4. /\ DOMAIN n = DOMAIN j /\ n.tries = j.tries /\ n.pc = p /\ n.to = j.to
      /\ n.notice = j.notice /\ n.kind = j.kind /\ n.at = j.at
  BY <1>1
<1> HIDE DEF m, n
<1>5. /\ DOMAIN m = DOMAIN j /\ SameJob(m, j) /\ m.tries \in 0 .. Tries /\ m.pc = p /\ m.to = j.to
      /\ DOMAIN n = DOMAIN j /\ SameJob(n, j) /\ n.tries \in 0 .. Tries /\ n.pc = p /\ n.to = j.to
  BY <1>1, <1>3, <1>4 DEF SameJob
<1> QED
  BY <1>5, <1>2 DEF n, Moved

LEMMA RetriedFields ==
  ASSUME NEW j, JobShaped(j)
  PROVE  LET m == Notify!Retried(j) IN
           /\ JobShaped(m) /\ SameJob(m, j) /\ m.pc \in {"due", "failed"} /\ m.to = Notify!Never
<1> DEFINE p == IF j.tries < Tries THEN "due" ELSE "failed"
           u == Notify!Never
           m == [j EXCEPT !.pc = p, !.to = u]
<1>1. /\ DOMAIN j = {"notice", "kind", "at", "tries", "pc", "to"} /\ j.tries \in 0 .. Tries
      /\ p \in {"due", "failed"} /\ (p = "due" => j.tries < Tries) /\ j.notice \in Notices
  BY DEF JobShaped
<1>2. m = Notify!Retried(j)
  BY DEF Notify!Retried
<1> HIDE DEF p, u
<1>3. /\ DOMAIN m = DOMAIN j /\ m.tries = j.tries /\ m.pc = p /\ m.to = u
      /\ m.notice = j.notice /\ m.kind = j.kind /\ m.at = j.at
  BY <1>1
<1> HIDE DEF m
<1>4. JobShaped(m) /\ SameJob(m, j) /\ m.pc \in {"due", "failed"} /\ m.to = Notify!Never
  BY <1>1, <1>3 DEF JobShaped, SameJob, u
<1> QED
  BY <1>2, <1>4

LEMMA ErrsTurns ==
  ASSUME Notify!ProactivityAssumption, NEW j \in jobs, JobShaped(j), Notify!Errs(j)
  PROVE  \E m : /\ SameJob(m, j) /\ JobShaped(m) /\ m.pc \in {"due", "failed"}
                /\ jobs' = (jobs \ {j}) \cup {m}
<1>1. CASE j.kind = "task"
  <2> DEFINE m == Moved(j, "failed")
  <2>1. /\ DOMAIN m = DOMAIN j /\ SameJob(m, j) /\ m.tries \in 0 .. Tries /\ m.pc = "failed"
    BY MovedFields
  <2>2. jobs' = (jobs \ {j}) \cup {m}
    BY <1>1 DEF Notify!Errs, Notify!Moves, Moved
  <2> HIDE DEF m
  <2>3. JobShaped(m)
    BY <2>1 DEF JobShaped, SameJob
  <2> QED
    BY <2>1, <2>2, <2>3
<1>2. CASE j.kind # "task"
  BY <1>2, RetriedFields DEF Notify!Errs
<1> QED
  BY <1>1, <1>2

-----------------------------------------------------------------------------
\* What decideLocked suppresses or defers, and jobs that end: the count stays.
LEMMA SuppressKeeps ==
  ASSUME Notify!ProactivityAssumption, NoticeInv, NEW j \in jobs, j.pc = "due", pup, NEW p, NEW u,
         \/ /\ p = "done"
            /\ jobs' = (jobs \ {j}) \cup {Claimed(j, p)}
         \/ /\ p = "enqueue"
            /\ jobs' = (jobs \ {j}) \cup {ClaimedTo(j, p, u)},
         UNCHANGED <<psettings, dailyCounts, lastByType, delivered, pending, audit, pnow, pup, crashed,
                     shown, unaudited, rezoned>>
  PROVE  NoticeInv'
<1>1. JobShaped(j)
  BY DEF NoticeInv, JobsFit
<1> DEFINE m == Claimed(j, p)
           e == ClaimedTo(j, p, u)
<1>2. /\ DOMAIN m = DOMAIN j /\ DOMAIN e = DOMAIN j /\ SameJob(m, j) /\ SameJob(e, j)
      /\ m.tries \in 0 .. Tries /\ e.tries \in 0 .. Tries /\ m.pc = p /\ e.pc = p
      /\ m.to = Notify!Never /\ e.to = u
  BY <1>1, ClaimedFields
<1>3. (p = "done" /\ jobs' = (jobs \ {j}) \cup {m}) \/ (p = "enqueue" /\ jobs' = (jobs \ {j}) \cup {e})
  OBVIOUS
<1> HIDE DEF m, e
<1>4. p \in {"done", "enqueue"} => JobShaped(m) /\ (p = "enqueue" => JobShaped(e))
  BY <1>1, <1>2 DEF JobShaped, SameJob
<1>5. CASE p = "done" /\ jobs' = (jobs \ {j}) \cup {m}
  <2>1. Carried(m, jobs')
    BY <1>2 DEF Carried
  <2> QED
    BY <1>2, <1>4, <1>5, <2>1, QuietMove DEF Active
<1>6. CASE p = "enqueue" /\ jobs' = (jobs \ {j}) \cup {e}
  <2>1. Carried(e, jobs')
    BY <1>2, <1>6 DEF Carried
  <2> QED
    BY <1>2, <1>4, <1>6, <2>1, QuietMove DEF Active
<1> QED
  BY <1>3, <1>5, <1>6

LEMMA EnqueueKeeps ==
  ASSUME Notify!ProactivityAssumption, NoticeInv, NEW j \in jobs, Notify!enqueueDeferredNotification(j)
  PROVE  NoticeInv'
<1>1. JobShaped(j) /\ j.pc = "enqueue" /\ pup
      /\ UNCHANGED <<psettings, dailyCounts, lastByType, delivered, pending, audit, pnow, pup, crashed,
                     shown, unaudited, rezoned>>
  BY DEF NoticeInv, JobsFit, Notify!enqueueDeferredNotification, Notify!policy
<1>2. CASE Notify!Errs(j)
  <2>1. PICK m : /\ SameJob(m, j) /\ JobShaped(m) /\ m.pc \in {"due", "failed"}
                 /\ jobs' = (jobs \ {j}) \cup {m}
    BY <1>1, <1>2, ErrsTurns
  <2>2. Carried(m, jobs')
    BY <2>1 DEF Carried
  <2> QED
    BY <1>1, <2>1, <2>2, QuietMove DEF Active
<1>3. CASE jobs' = ((jobs \ {j}) \cup {[j EXCEPT !.pc = "enqueued"]}) \cup
                   (IF \E k \in jobs : k.notice = j.notice /\ k.kind = "deferred" /\ k.at = j.to THEN {}
                    ELSE {Notify!Job(j.notice, "deferred", j.to)})
  <2> DEFINE m == [j EXCEPT !.pc = "enqueued"]
             new == Notify!Job(j.notice, "deferred", j.to)
             X == IF \E k \in jobs : k.notice = j.notice /\ k.kind = "deferred" /\ k.at = j.to THEN {}
                  ELSE {new}
  <2>1. /\ DOMAIN m = DOMAIN j /\ SameJob(m, j) /\ m.tries \in 0 .. Tries /\ m.pc = "enqueued" /\ m.to = j.to
    BY <1>1, MovedFields
  <2>2. /\ new.notice = j.notice /\ new.kind = "deferred" /\ new.at = j.to /\ new.pc = "due"
        /\ JobShaped(new)
    BY <1>1 DEF Notify!Job, JobShaped, Notify!ProactivityAssumption
  <2>3. jobs' = ((jobs \ {j}) \cup {m}) \cup X
    BY <1>3
  <2> HIDE DEF m, new
  <2>4. JobShaped(m)
    BY <1>1, <2>1 DEF JobShaped, SameJob
  <2>5. \A x \in X : x = new /\ \A k \in jobs : ~SameJob(x, k)
    BY <2>2 DEF SameJob
  <2>6. Carried(m, jobs')
    <3>1. CASE \E k \in jobs : k.notice = j.notice /\ k.kind = "deferred" /\ k.at = j.to
      <4>1. PICK k \in jobs : k.notice = j.notice /\ k.kind = "deferred" /\ k.at = j.to
        BY <3>1
      <4>2. CASE k = j
        BY <4>1, <4>2, <2>1, <2>3 DEF Carried, Carries, SameJob
      <4>3. CASE k # j
        BY <4>1, <4>3, <2>1, <2>3 DEF Carried, Carries, SameJob
      <4> QED
        BY <4>2, <4>3
    <3>2. CASE ~\E k \in jobs : k.notice = j.notice /\ k.kind = "deferred" /\ k.at = j.to
      BY <3>2, <2>1, <2>2, <2>3 DEF Carried, Carries, SameJob
    <3> QED
      BY <3>1, <3>2
  <2> HIDE DEF X
  <2> QED
    BY <1>1, <2>1, <2>2, <2>3, <2>4, <2>5, <2>6, QuietStep DEF Active
<1> QED
  BY <1>2, <1>3 DEF Notify!enqueueDeferredNotification

LEMMA ExecutedKeeps ==
  ASSUME Notify!ProactivityAssumption, NoticeInv, NEW j \in jobs, Notify!executeNotificationJob(j)
  PROVE  NoticeInv'
<1>1. JobShaped(j) /\ j.pc = "enqueued" /\ pup /\ (\E k \in jobs : Carries(k, j))
      /\ UNCHANGED <<psettings, dailyCounts, lastByType, delivered, pending, audit, pnow, pup, crashed,
                     shown, unaudited, rezoned>>
  BY DEF NoticeInv, JobsFit, Carried, Notify!executeNotificationJob, Notify!policy, Notify!bounds
<1> DEFINE m == Moved(j, "done")
<1>2. DOMAIN m = DOMAIN j /\ SameJob(m, j) /\ m.tries \in 0 .. Tries /\ m.pc = "done" /\ m.to = j.to
  BY <1>1, MovedFields
<1>3. jobs' = (jobs \ {j}) \cup {m}
  BY DEF Notify!executeNotificationJob, Notify!Moves, Moved
<1> HIDE DEF m
<1>4. JobShaped(m)
  BY <1>1, <1>2 DEF JobShaped, SameJob
<1>5. Carried(m, jobs')
  <2>1. PICK k \in jobs : Carries(k, j)
    BY <1>1
  <2>2. Carries(k, m)
    BY <2>1, <1>2 DEF Carries, SameJob
  <2>3. CASE k = j
    BY <2>1, <2>2, <2>3, <1>2, <1>3 DEF Carried, Carries, SameJob
  <2>4. CASE k # j
    BY <2>2, <2>4, <1>3 DEF Carried
  <2> QED
    BY <2>3, <2>4
<1> QED
  BY <1>1, <1>2, <1>3, <1>4, <1>5, QuietMove DEF Active

-----------------------------------------------------------------------------
(* A job delivers its notice.                                              *)

LEMMA TurnedOnce ==
  ASSUME JobsFit, NEW j \in jobs, NEW m, SameJob(m, j), JobShaped(m),
         jobs' = (jobs \ {j}) \cup {m}, Carried(m, jobs')
  PROVE  JobsFit'
<1> DEFINE X == {}
<1>1. jobs' = ((jobs \ {j}) \cup {m}) \cup X /\ \A x : x \notin X
  OBVIOUS
<1> HIDE DEF X
<1> QED
  BY <1>1, JobTurns

\* A delivery reserves its notice and is counted with it.
LEMMA ReserveKeeps ==
  ASSUME Notify!ProactivityAssumption, NoticeInv, NEW j \in jobs, j.pc = "due", pup,
         Notify!decideLocked(j.notice) = "deliver", Notify!reserveLocked(j.notice),
         jobs' = (jobs \ {j}) \cup {Claimed(j, "notify")},
         UNCHANGED <<audit, pnow, pup, crashed, shown, unaudited, rezoned>>
  PROVE  NoticeInv'
<1> DEFINE n == j.notice
           m == Claimed(j, "notify")
           d == Notify!LocalDate(pnow)
           k == TypeOf[n]
           r == [date |-> d, at |-> pnow, before |-> lastByType[k]]
           dom == DOMAIN pending \cup {n}
<1>1. JobShaped(j) /\ n \in Notices
  BY DEF NoticeInv, JobsFit, JobShaped
<1>2. JobShaped(m) /\ SameJob(m, j) /\ m.pc = "notify" /\ m.to = Notify!Never
  <2>1. /\ DOMAIN m = DOMAIN j /\ SameJob(m, j) /\ m.tries \in 0 .. Tries /\ m.pc = "notify"
        /\ m.to = Notify!Never
    BY <1>1, ClaimedFields
  <2> HIDE DEF m
  <2> QED
    BY <1>1, <2>1 DEF JobShaped, SameJob
<1>3. jobs' = (jobs \ {j}) \cup {m}
  OBVIOUS
<1>4. n \notin delivered /\ n \notin DOMAIN pending
  BY DEF Notify!decideLocked
<1>5. /\ DOMAIN pending' = dom
      /\ \A o \in dom : pending'[o] = IF o = n THEN r ELSE pending[o]
      /\ lastByType' = [lastByType EXCEPT ![k] = pnow]
      /\ UNCHANGED <<psettings, delivered>>
  BY DEF Notify!reserveLocked
<1>6. /\ DOMAIN dailyCounts' = DOMAIN dailyCounts \cup {d}
      /\ \A e \in DOMAIN dailyCounts' : dailyCounts'[e] = IF e = d THEN Notify!CountOf(d) + 1 ELSE dailyCounts[e]
  BY DEF Notify!reserveLocked
<1>7. r.at = pnow /\ r.date = d /\ r.before = lastByType[k]
  OBVIOUS
<1>8. k \in Types /\ pnow \in 0 .. Horizon /\ lastByType \in [Types -> -1 .. pnow]
  BY <1>1 DEF Notify!ProactivityAssumption, NoticeInv, TimesFit
<1> HIDE DEF m, r, k, dom, n
<1>9. JobsFit'
  BY <1>2, <1>3, TurnedOnce DEF NoticeInv, Carried
<1>10. ReservesFit'
  <2>1. m.notice = n
    BY <1>2 DEF SameJob, n
  <2>2. \A i \in jobs : i.pc \in Active => i.notice # n
    BY <1>4 DEF NoticeInv, ReservesFit
  <2>3. \A i \in jobs' : i.pc \in Active => i.notice \in DOMAIN pending'
    BY <1>3, <1>5, <2>1 DEF dom, NoticeInv, ReservesFit
  <2>4. \A i \in jobs' : (i.pc = "audit" => i.notice \in delivered') /\ (i.pc = "commit" => i.notice \in unaudited')
    BY <1>2, <1>3, <1>5 DEF NoticeInv, ReservesFit
  <2>5. ASSUME NEW i \in jobs', NEW l \in jobs', i.pc \in Active, l.pc \in Active, i.notice = l.notice
        PROVE  i = l
    BY <1>3, <2>1, <2>2, <2>5 DEF NoticeInv, ReservesFit
  <2>6. /\ DOMAIN pending' \subseteq Notices /\ DOMAIN pending' \cap delivered' = {} /\ delivered' \subseteq Notices
    BY <1>1, <1>4, <1>5 DEF dom, NoticeInv, ReservesFit, n
  <2> QED
    BY <2>3, <2>4, <2>5, <2>6 DEF ReservesFit
<1>11. TimesFit'
  <2>1. lastByType' \in [Types -> -1 .. pnow]
    BY <1>5, <1>8
  <2>2. ASSUME NEW o \in DOMAIN pending'
        PROVE  /\ pending'[o].at \in 0 .. pnow /\ pending'[o].before \in -1 .. pnow
               /\ ~rezoned => pending'[o].date = Notify!LocalDate(pending'[o].at)
    <3>1. CASE o = n
      BY <1>5, <1>7, <1>8, <2>2, <3>1
    <3>2. CASE o # n
      <4>1. o \in DOMAIN pending /\ pending'[o] = pending[o]
        BY <1>5, <2>2, <3>2 DEF dom
      <4> QED
        BY <4>1 DEF NoticeInv, TimesFit
    <3> QED
      BY <3>1, <3>2
  <2>3. \A t : Notify!LocalDate(t)' = Notify!LocalDate(t)
    BY <1>5 DEF Notify!LocalDate
  <2>4. \A e \in DOMAIN dailyCounts' : dailyCounts'[e] \in Nat \ {0}
    <3>1. Notify!CountOf(d) \in Nat
      BY Counts
    <3> DEFINE c == Notify!CountOf(d) + 1
    <3>2. c \in Nat \ {0}
      BY <3>1
    <3> HIDE DEF c
    <3>3. \A e \in DOMAIN dailyCounts : dailyCounts[e] \in Nat \ {0}
      BY DEF NoticeInv, TimesFit
    <3>4. \A e \in DOMAIN dailyCounts' : dailyCounts'[e] = IF e = d THEN c ELSE dailyCounts[e]
      BY <1>6 DEF c
    <3> HIDE DEF d
    <3> QED
      BY <1>6, <3>2, <3>3, <3>4
  <2>5. ASSUME NEW o \in DOMAIN pending'
        PROVE  /\ (pending[o].at)' \in 0 .. pnow' /\ (pending[o].before)' \in -1 .. pnow'
               /\ ~rezoned' => (pending[o].date)' = Notify!LocalDate(pending[o].at)'
    BY <2>2, <1>5 DEF Notify!LocalDate
  <2> QED
    BY <1>5, <2>1, <2>4, <2>5 DEF TimesFit, NoticeInv
<1>12. AuditFits'
  BY <1>5 DEF NoticeInv, AuditFits
<1>13. ShowsFit'
  <2>1. j.pc # "commit"
    OBVIOUS
  <2> QED
    BY <1>3, <1>5, <2>1 DEF NoticeInv, ShowsFit, Audited
<1>14. FewSoFar'
  <2>1. IsFiniteSet(DOMAIN pending')
    BY <1>5, FS_AddElement DEF NoticeInv, FewSoFar, dom
  <2> QED
    BY <2>1 DEF NoticeInv, FewSoFar, Told
<1>15. CountFits'
  <2> SUFFICES ASSUME pup', ~rezoned'
               PROVE  Cardinality(Counted') <= Notify!CountOf(d)'
    BY DEF CountFits
  <2>1. Notify!CountOf(d)' = Notify!CountOf(d) + 1
    <3>1. \A t : Notify!LocalDate(t)' = Notify!LocalDate(t)
      BY <1>5 DEF Notify!LocalDate
    <3>2. d' = d
      BY <1>5 DEF Notify!LocalDate
    <3> HIDE DEF d
    <3> QED
      BY <1>6, <3>2 DEF Notify!CountOf
  <2>2. Counted' \subseteq Counted \cup {n}
    <3>1. \A e : Notify!ShownOn(e)' = Notify!ShownOn(e)
      BY <1>5 DEF Notify!ShownOn, Notify!LocalDate
    <3>2. d' = d
      BY <1>5 DEF Notify!LocalDate
    <3>3. Notify!Reserved(d)' \subseteq Notify!Reserved(d) \cup {n}
      BY <1>5, <3>2 DEF Notify!Reserved, dom
    <3>4. Lost' \cup {n} = Lost \cup {n}
      BY <1>5 DEF Lost, dom
    <3>5. Notify!ShownOn(d)' = Notify!ShownOn(d)
      BY <1>5 DEF Notify!ShownOn, Notify!LocalDate
    <3> HIDE DEF d
    <3>6. Counted' = (Notify!ShownOn(d)' \cup Notify!Reserved(d)') \ Lost' /\ Counted = (Notify!ShownOn(d) \cup Notify!Reserved(d)) \ Lost
      BY DEF Counted, d
    <3> QED
      BY <3>3, <3>4, <3>5, <3>6
  <2>3. IsFiniteSet(Counted) /\ Cardinality(Counted) \in Nat /\ Notify!CountOf(d) \in Nat
    BY CountedIsFinite, FS_CardinalityType, Counts
  <2>4. Cardinality(Counted) <= Notify!CountOf(d)
    BY DEF NoticeInv, CountFits
  <2>5. Cardinality(Counted \cup {n}) <= Cardinality(Counted) + 1 /\ IsFiniteSet(Counted \cup {n})
    BY <2>3, OneMore, FS_AddElement
  <2>6. Cardinality(Counted') <= Cardinality(Counted \cup {n})
        /\ Cardinality(Counted') \in Nat /\ Cardinality(Counted \cup {n}) \in Nat
    BY <2>2, <2>5, FewerCounted
  <2> QED
    BY <2>1, <2>3, <2>4, <2>5, <2>6
<1> QED
  BY <1>9, <1>10, <1>11, <1>12, <1>13, <1>14, <1>15 DEF NoticeInv

LEMMA DeliverKeeps ==
  ASSUME Notify!ProactivityAssumption, NoticeInv, NEW j \in jobs, Notify!Deliver(j)
  PROVE  NoticeInv'
<1>1. j.pc = "due" /\ pup /\ UNCHANGED <<audit, pnow, pup, crashed, shown, unaudited, rezoned>>
  BY DEF Notify!Deliver, Notify!bounds
<1>2. \/ /\ UNCHANGED Notify!policy
         /\ \/ jobs' = (jobs \ {j}) \cup {Claimed(j, "done")}
            \/ jobs' = (jobs \ {j}) \cup {ClaimedTo(j, "enqueue", Notify!Max(Notify!Held(j.notice)))}
      \/ /\ Notify!decideLocked(j.notice) = "deliver" /\ Notify!reserveLocked(j.notice)
         /\ jobs' = (jobs \ {j}) \cup {Claimed(j, "notify")}
  BY DEF Notify!Deliver, Claimed, ClaimedTo
<1>3. CASE UNCHANGED Notify!policy
  BY <1>1, <1>2, <1>3, SuppressKeeps, ReserveKeeps DEF Notify!policy
<1> QED
  BY <1>1, <1>2, <1>3, ReserveKeeps

-----------------------------------------------------------------------------
(* A notice is shown, or taken back; it is committed, then audited.        *)

LEMMA MovedOn ==
  ASSUME Notify!ProactivityAssumption, NoticeInv, NEW j \in jobs, j.pc \in {"notify", "commit", "audit"},
         NEW p \in {"commit", "audit", "done"}, Notify!Moves(j, p)
  PROVE  /\ JobsFit' /\ jobs' = (jobs \ {j}) \cup {Moved(j, p)}
         /\ Moved(j, p).pc = p /\ Moved(j, p).notice = j.notice /\ JobShaped(Moved(j, p))
<1> DEFINE m == Moved(j, p)
<1>1. JobShaped(j) /\ j.to = Notify!Never
  BY DEF NoticeInv, JobsFit, JobShaped
<1>2. DOMAIN m = DOMAIN j /\ SameJob(m, j) /\ m.tries \in 0 .. Tries /\ m.pc = p /\ m.to = j.to
  BY <1>1, MovedFields
<1>3. jobs' = (jobs \ {j}) \cup {m}
  BY DEF Notify!Moves, Moved
<1> HIDE DEF m
<1>4. JobShaped(m)
  BY <1>1, <1>2 DEF JobShaped, SameJob
<1>5. Carried(m, jobs')
  BY <1>1, <1>2 DEF Carried
<1>6. JobsFit'
  BY <1>2, <1>3, <1>4, <1>5, TurnedOnce DEF NoticeInv
<1> QED
  BY <1>2, <1>3, <1>4, <1>6 DEF SameJob, m

\* Showing a reserved notice keeps the count: it was counted when it was reserved.
LEMMA ShowKeeps ==
  ASSUME Notify!ProactivityAssumption, NoticeInv, NEW j \in jobs, j.pc = "notify", pup,
         shown' = [shown EXCEPT ![j.notice] = Append(@, pending[j.notice].at)],
         unaudited' = unaudited \cup {j.notice}, Notify!Moves(j, "commit"),
         UNCHANGED <<psettings, dailyCounts, lastByType, delivered, pending, audit, pnow, pup, crashed,
                     rezoned>>
  PROVE  NoticeInv'
<1> DEFINE n == j.notice
           m == Moved(j, "commit")
           t == pending[n].at
           d == Notify!LocalDate(pnow)
<1>1. /\ JobsFit' /\ jobs' = (jobs \ {j}) \cup {m}
      /\ m.pc = "commit" /\ m.notice = n
  BY MovedOn
<1>2. n \in Notices /\ n \in DOMAIN pending /\ n \notin delivered
  BY DEF NoticeInv, JobsFit, JobShaped, ReservesFit, Active
<1>3. t \in Nat /\ t <= pnow /\ pnow \in Nat /\ (~rezoned => pending[n].date = Notify!LocalDate(t))
  BY <1>2 DEF NoticeInv, TimesFit, Notify!ProactivityAssumption
<1>4. shown[n] \in Seq(Nat) /\ shown \in [Notices -> Seq(Nat)]
  BY <1>2 DEF NoticeInv, TimesFit
<1>5. shown' = [shown EXCEPT ![n] = Append(shown[n], t)] /\ unaudited' = unaudited \cup {n}
  OBVIOUS
<1>6. \A e : Notify!LocalDate(e)' = Notify!LocalDate(e) /\ Notify!Reserved(e)' = Notify!Reserved(e)
  BY DEF Notify!LocalDate, Notify!Reserved
<1> HIDE DEF m, t, n
<1>7. ReservesFit'
  BY <1>1, <1>2, <1>5 DEF NoticeInv, ReservesFit, Active, n
<1>8. /\ Append(shown[n], t) \in Seq(Nat)
      /\ \A i \in DOMAIN Append(shown[n], t) :
           \/ i \in DOMAIN shown[n] /\ Append(shown[n], t)[i] = shown[n][i]
           \/ Append(shown[n], t)[i] = t
      /\ Append(shown[n], t) # << >>
  BY <1>3, <1>4, SMTT(40)
<1> DEFINE s == Append(shown[n], t)
<1>9. /\ s \in Seq(Nat) /\ s # << >>
      /\ \A i \in DOMAIN s : (i \in DOMAIN shown[n] /\ s[i] = shown[n][i]) \/ s[i] = t
      /\ shown' = [shown EXCEPT ![n] = s]
  BY <1>5, <1>8
<1> HIDE DEF s
<1>10. TimesFit'
  <2>1. shown' \in [Notices -> Seq(Nat)]
    BY <1>4, <1>9
  <2>2. ASSUME NEW o \in Notices, NEW i \in DOMAIN shown'[o]
        PROVE  shown'[o][i] <= pnow
    <3>1. CASE o = n
      BY <1>3, <1>4, <1>9, <2>2, <3>1 DEF NoticeInv, TimesFit
    <3>2. CASE o # n
      <4>1. shown'[o] = shown[o]
        BY <1>4, <1>9, <3>2
      <4>2. i \in DOMAIN shown[o]
        BY <4>1, <2>2
      <4> QED
        BY <4>1, <4>2 DEF NoticeInv, TimesFit
    <3> QED
      BY <3>1, <3>2
  <2> QED
    BY <2>1, <2>2 DEF NoticeInv, TimesFit, Notify!LocalDate
<1>11. AuditFits'
  BY <1>2, <1>4, <1>9 DEF NoticeInv, AuditFits, ReservesFit
<1>12. ShowsFit'
  <2> SUFFICES ASSUME NEW o \in Notices, shown'[o] # << >>
               PROVE  /\ o \in unaudited' \cup Audited'
                      /\ o \in delivered' \/ (o \in unaudited' /\ crashed')
                         \/ \E k \in jobs' : k.pc = "commit" /\ k.notice = o
    BY DEF ShowsFit
  <2>1. CASE o = n
    BY <1>1, <1>5, <2>1
  <2>2. CASE o # n
    <3>1. shown[o] # << >>
      BY <1>4, <1>9, <2>2
    <3>2. j.pc # "commit"
      OBVIOUS
    <3> QED
      BY <1>1, <1>5, <3>1, <3>2 DEF NoticeInv, ShowsFit, Audited
  <2> QED
    BY <2>1, <2>2
<1>13. FewSoFar'
  <2>1. Told' \subseteq Told \cup {n}
    BY <1>4, <1>9 DEF Told
  <2>2. IsFiniteSet(Told \cup {n})
    BY FS_AddElement DEF NoticeInv, FewSoFar
  <2> QED
    BY <2>1, <2>2, FS_Subset DEF NoticeInv, FewSoFar
<1>14. CountFits'
  <2> SUFFICES ASSUME pup', ~rezoned'
               PROVE  Cardinality(Counted') <= Notify!CountOf(d)'
    BY DEF CountFits
  <2>1. d' = d /\ Notify!CountOf(d)' = Notify!CountOf(d)
    BY DEF Notify!LocalDate, Notify!CountOf
  <2>2. n \in Notify!Reserved(Notify!LocalDate(t))
    BY <1>2, <1>3 DEF Notify!Reserved
  <2>3. Notify!ShownOn(d)' \subseteq Notify!ShownOn(d) \cup Notify!Reserved(d)
    <3>1. Notify!ShownOn(d)' = {o \in Notices : \E i \in DOMAIN shown'[o] : Notify!LocalDate(shown'[o][i]) = d}
      BY <1>6, <2>1 DEF Notify!ShownOn, Notify!LocalDate
    <3>2. Notify!ShownOn(d) = {o \in Notices : \E i \in DOMAIN shown[o] : Notify!LocalDate(shown[o][i]) = d}
      BY DEF Notify!ShownOn
    <3> HIDE DEF d
    <3> SUFFICES ASSUME NEW o \in Notices, NEW i \in DOMAIN shown'[o], Notify!LocalDate(shown'[o][i]) = d
                 PROVE  o \in Notify!ShownOn(d) \cup Notify!Reserved(d)
      BY <3>1
    <3>3. CASE o # n
      <4>1. shown'[o] = shown[o]
        BY <1>4, <1>9, <3>3
      <4> QED
        BY <4>1, <3>2
    <3>4. CASE o = n
      <4>1. shown'[o] = s
        BY <1>4, <1>9, <3>4
      <4>2. CASE i \in DOMAIN shown[n] /\ s[i] = shown[n][i]
        BY <4>1, <4>2, <3>2, <3>4
      <4>3. CASE s[i] = t
        BY <4>1, <4>3, <2>2, <3>4
      <4> QED
        BY <1>9, <4>1, <4>2, <4>3
    <3> QED
      BY <3>3, <3>4
  <2>4. Lost' = Lost
    BY <1>2, <1>5 DEF Lost
  <2>5. Counted' \subseteq Counted
    <3>1. Notify!Reserved(d)' = Notify!Reserved(d)
      BY <2>1 DEF Notify!Reserved
    <3>2. Counted' = (Notify!ShownOn(d)' \cup Notify!Reserved(d)') \ Lost' /\ Counted = (Notify!ShownOn(d) \cup Notify!Reserved(d)) \ Lost
      BY DEF Counted
    <3> HIDE DEF d
    <3> QED
      BY <3>1, <3>2, <2>3, <2>4
  <2>6. IsFiniteSet(Counted) /\ Notify!CountOf(d) \in Nat
    BY CountedIsFinite, Counts
  <2>7. Cardinality(Counted) <= Notify!CountOf(d)
    BY DEF NoticeInv, CountFits
  <2>8. Cardinality(Counted') <= Cardinality(Counted) /\ Cardinality(Counted) \in Nat /\ Cardinality(Counted') \in Nat
    BY <2>5, <2>6, FewerCounted
  <2> QED
    BY <2>1, <2>6, <2>7, <2>8
<1> QED
  BY <1>1, <1>7, <1>10, <1>11, <1>12, <1>13, <1>14 DEF NoticeInv

\* Taking a reservation back takes it off the count, too.
LEMMA RollbackKeeps ==
  ASSUME Notify!ProactivityAssumption, NoticeInv, NEW j \in jobs, j.pc = "notify", pup,
         Notify!rollbackLocked(j.notice), Notify!Errs(j),
         UNCHANGED <<audit, pnow, pup, crashed, shown, unaudited, rezoned>>
  PROVE  NoticeInv'
<1> DEFINE n == j.notice
           r == pending[n]
           rest == Notify!Restrict(pending, DOMAIN pending \ {n})
           same == {o \in DOMAIN rest : TypeOf[o] = TypeOf[n]}
           moments == {r.before} \cup {rest[o].at : o \in same}
           d == Notify!LocalDate(pnow)
<1>1. JobShaped(j) /\ n \in Notices /\ n \in DOMAIN pending /\ n \notin delivered
  BY DEF NoticeInv, JobsFit, JobShaped, ReservesFit, Active
<1>2. PICK m : /\ SameJob(m, j) /\ JobShaped(m) /\ m.pc \in {"due", "failed"}
               /\ jobs' = (jobs \ {j}) \cup {m}
  BY <1>1, ErrsTurns
<1>3. JobsFit'
  BY <1>2, TurnedOnce DEF NoticeInv, Carried
<1>4. /\ DOMAIN rest = DOMAIN pending \ {n} /\ \A o \in DOMAIN rest : rest[o] = pending[o]
      /\ pending' = rest /\ UNCHANGED <<psettings, delivered>>
  BY DEF Notify!rollbackLocked, Notify!Restrict
<1>5. lastByType' = IF lastByType[TypeOf[n]] # r.at THEN lastByType
                    ELSE [lastByType EXCEPT ![TypeOf[n]] = Notify!Max(moments)]
  BY DEF Notify!rollbackLocked
<1>6. /\ Notify!CountOf(r.date) > 1 => dailyCounts' = [dailyCounts EXCEPT ![r.date] = @ - 1]
      /\ ~(Notify!CountOf(r.date) > 1) => dailyCounts' = Notify!Restrict(dailyCounts, DOMAIN dailyCounts \ {r.date})
  BY DEF Notify!rollbackLocked
<1>7. pnow \in Nat /\ moments \subseteq -1 .. pnow
  <2>1. \A o \in DOMAIN pending : pending[o].at \in 0 .. pnow /\ pending[o].before \in -1 .. pnow
    BY DEF NoticeInv, TimesFit
  <2>2. pnow \in Nat
    BY DEF NoticeInv, TimesFit, Notify!ProactivityAssumption
  <2>3. \A x \in 0 .. pnow : x \in -1 .. pnow
    BY <2>2
  <2> QED
    BY <1>1, <1>4, <2>1, <2>2, <2>3
<1>8. Notify!Max(moments) \in -1 .. pnow
  BY <1>7, LatestIsOne
<1>9. lastByType' \in [Types -> -1 .. pnow]
  BY <1>5, <1>8 DEF NoticeInv, TimesFit
<1> DEFINE c == Notify!CountOf(r.date)
<1>10. c \in Nat
  BY Counts
<1>11. \A e : Notify!CountOf(e)' = IF e = r.date THEN (IF c > 1 THEN c - 1 ELSE 0) ELSE Notify!CountOf(e)
  <2> DEFINE D == r.date
  <2>1. CASE c > 1
    <3>1. D \in DOMAIN dailyCounts /\ c = dailyCounts[D]
      BY <2>1 DEF Notify!CountOf
    <3>2. dailyCounts' = [dailyCounts EXCEPT ![D] = dailyCounts[D] - 1]
      BY <1>6, <2>1, <3>1
    <3> HIDE DEF D, c, r
    <3>3. DOMAIN dailyCounts' = DOMAIN dailyCounts
          /\ \A e \in DOMAIN dailyCounts : dailyCounts'[e] = IF e = D THEN c - 1 ELSE dailyCounts[e]
      BY <3>1, <3>2
    <3>4. \A e : Notify!CountOf(e)' = IF e = D THEN c - 1 ELSE Notify!CountOf(e)
      BY <3>1, <3>3 DEF Notify!CountOf
    <3> QED
      BY <2>1, <3>4 DEF D
  <2>2. CASE ~(c > 1)
    <3>1. dailyCounts' = Notify!Restrict(dailyCounts, DOMAIN dailyCounts \ {D})
      BY <1>6, <2>2
    <3> HIDE DEF D, c, r
    <3>2. DOMAIN dailyCounts' = DOMAIN dailyCounts \ {D}
          /\ \A e \in DOMAIN dailyCounts \ {D} : dailyCounts'[e] = dailyCounts[e]
      BY <3>1 DEF Notify!Restrict
    <3>3. \A e : Notify!CountOf(e)' = IF e = D THEN 0 ELSE Notify!CountOf(e)
      BY <3>2 DEF Notify!CountOf
    <3> QED
      BY <2>2, <3>3 DEF D
  <2> QED
    BY <2>1, <2>2
<1>12. \A e \in DOMAIN dailyCounts' : dailyCounts'[e] \in Nat \ {0}
  <2> DEFINE D == r.date
  <2>0. \A e \in DOMAIN dailyCounts : dailyCounts[e] \in Nat \ {0}
    BY DEF NoticeInv, TimesFit
  <2>1. CASE c > 1
    <3>1. D \in DOMAIN dailyCounts /\ c = dailyCounts[D]
      BY <2>1 DEF Notify!CountOf
    <3>2. dailyCounts' = [dailyCounts EXCEPT ![D] = dailyCounts[D] - 1]
      BY <1>6, <2>1, <3>1
    <3> HIDE DEF D, c, r
    <3>3. c - 1 \in Nat \ {0}
      BY <2>1, <1>10
    <3>4. \A e \in DOMAIN dailyCounts' : dailyCounts'[e] = IF e = D THEN c - 1 ELSE dailyCounts[e]
      BY <3>1, <3>2
    <3> QED
      BY <2>0, <3>2, <3>3, <3>4
  <2>2. CASE ~(c > 1)
    <3>1. dailyCounts' = Notify!Restrict(dailyCounts, DOMAIN dailyCounts \ {D})
      BY <1>6, <2>2
    <3> HIDE DEF D, c, r
    <3> QED
      BY <3>1, <2>0 DEF Notify!Restrict
  <2> QED
    BY <2>1, <2>2
<1> HIDE DEF rest, same, moments, c
<1>13. ReservesFit'
  <2>1. m.notice = n /\ m.pc \notin Active \cup {"audit"}
    BY <1>2 DEF SameJob, Active
  <2>2. \A i \in jobs \ {j} : i.pc \in Active => i.notice # n
    BY DEF NoticeInv, ReservesFit, Active
  <2> HIDE DEF n
  <2>3. ASSUME NEW i \in jobs'
        PROVE  /\ i.pc \in Active => i.notice \in DOMAIN pending'
               /\ i.pc = "audit" => i.notice \in delivered'
               /\ i.pc = "commit" => i.notice \in unaudited'
    BY <1>2, <1>4, <2>1, <2>2 DEF NoticeInv, ReservesFit, Active
  <2>4. ASSUME NEW i \in jobs', NEW l \in jobs', i.pc \in Active, l.pc \in Active, i.notice = l.notice
        PROVE  i = l
    BY <1>2, <2>1, <2>4 DEF NoticeInv, ReservesFit
  <2> QED
    BY <1>4, <2>3, <2>4 DEF NoticeInv, ReservesFit
<1>14. TimesFit'
  <2>1. ASSUME NEW o \in DOMAIN pending'
        PROVE  /\ (pending[o].at)' \in 0 .. pnow' /\ (pending[o].before)' \in -1 .. pnow'
               /\ ~rezoned' => (pending[o].date)' = Notify!LocalDate(pending[o].at)'
    <3>1. o \in DOMAIN pending /\ pending'[o] = pending[o]
      BY <1>4, <2>1
    <3> QED
      BY <3>1, <1>4 DEF NoticeInv, TimesFit, Notify!LocalDate
  <2> QED
    BY <1>4, <1>9, <1>12, <2>1 DEF NoticeInv, TimesFit
<1>15. AuditFits'
  BY <1>4 DEF NoticeInv, AuditFits
<1>16. ShowsFit'
  <2>1. j.pc # "commit"
    OBVIOUS
  <2> QED
    BY <1>2, <1>4, <2>1 DEF NoticeInv, ShowsFit, Audited
<1>17. FewSoFar'
  <2>1. IsFiniteSet(DOMAIN pending')
    BY <1>4, FS_Subset DEF NoticeInv, FewSoFar
  <2> QED
    BY <2>1 DEF NoticeInv, FewSoFar, Told
<1>18. CountFits'
  <2> SUFFICES ASSUME pup', ~rezoned'
               PROVE  Cardinality(Counted') <= Notify!CountOf(d)'
    BY DEF CountFits
  <2>1. d' = d /\ Notify!CountOf(d)' = IF d = r.date THEN (IF c > 1 THEN c - 1 ELSE 0) ELSE Notify!CountOf(d)
    <3>1. d' = d
      BY <1>4 DEF Notify!LocalDate
    <3> HIDE DEF d
    <3>2. Notify!CountOf(d)' = IF d \in DOMAIN dailyCounts' THEN dailyCounts'[d] ELSE 0
      BY <3>1 DEF Notify!CountOf
    <3> QED
      BY <3>1, <3>2, <1>11
  <2>2. IsFiniteSet(Counted) /\ Cardinality(Counted) \in Nat /\ Notify!CountOf(d) \in Nat
    BY CountedIsFinite, FS_CardinalityType, Counts
  <2>3. Cardinality(Counted) <= Notify!CountOf(d)
    BY DEF NoticeInv, CountFits
  <2>4. Counted' \subseteq Counted
    <3>1. Notify!ShownOn(d)' = Notify!ShownOn(d)
      BY <1>4 DEF Notify!ShownOn, Notify!LocalDate
    <3>2. Notify!Reserved(d)' \subseteq Notify!Reserved(d)
      BY <1>4, <2>1 DEF Notify!Reserved
    <3>3. Lost \subseteq Lost'
      BY <1>4 DEF Lost
    <3>4. Counted' = (Notify!ShownOn(d)' \cup Notify!Reserved(d)') \ Lost' /\ Counted = (Notify!ShownOn(d) \cup Notify!Reserved(d)) \ Lost
      BY DEF Counted
    <3> HIDE DEF d
    <3> QED
      BY <3>1, <3>2, <3>3, <3>4
  <2>5. CASE d # r.date
    <3>1. Cardinality(Counted') <= Cardinality(Counted) /\ Cardinality(Counted') \in Nat
      BY <2>2, <2>4, FewerCounted
    <3>2. Notify!CountOf(d)' = Notify!CountOf(d)
      BY <2>1, <2>5
    <3> QED
      BY <2>2, <2>3, <3>1, <3>2
  <2>6. CASE d = r.date
    <3>1. n \in Counted
      BY <1>1, <2>6 DEF Counted, Lost, Notify!Reserved
    <3>2. n \notin Counted'
      <4>1. n \notin DOMAIN pending' /\ n \notin delivered'
        BY <1>1, <1>4
      <4>2. n \notin Notify!Reserved(d)'
        BY <4>1 DEF Notify!Reserved
      <4>3. n \in Notify!ShownOn(d)' => n \in Lost'
        <5> SUFFICES ASSUME n \in Notify!ShownOn(d)'
                     PROVE  n \in Lost'
          OBVIOUS
        <5>1. shown[n] # << >>
          BY DEF Notify!ShownOn
        <5>2. n \in unaudited
          BY <5>1, <1>1 DEF NoticeInv, ShowsFit, Audited, AuditFits
        <5> QED
          BY <4>1, <5>2 DEF Lost
      <4> QED
        BY <4>2, <4>3 DEF Counted
    <3>3. Counted' \subseteq Counted \ {n}
      BY <3>2, <2>4
    <3>4. Cardinality(Counted \ {n}) = Cardinality(Counted) - 1 /\ Cardinality(Counted) \in Nat \ {0}
      BY <2>2, <3>1, OneLess
    <3>5. IsFiniteSet(Counted \ {n})
      BY <2>2, FS_Subset
    <3>6. Cardinality(Counted') <= Cardinality(Counted \ {n}) /\ Cardinality(Counted') \in Nat
      BY <3>3, <3>5, FewerCounted
    <3>7. Notify!CountOf(d) = c
      BY <2>6 DEF c
    <3>8. Notify!CountOf(d)' = IF c > 1 THEN c - 1 ELSE 0
      BY <2>1, <2>6
    <3> QED
      BY <1>10, <2>2, <2>3, <3>4, <3>6, <3>7, <3>8
  <2> QED
    BY <2>5, <2>6
<1> QED
  BY <1>3, <1>13, <1>14, <1>15, <1>16, <1>17, <1>18 DEF NoticeInv

LEMMA EmitKeeps ==
  ASSUME Notify!ProactivityAssumption, NoticeInv, NEW j \in jobs, Notify!emitNotification(j)
  PROVE  NoticeInv'
<1>1. /\ j.pc = "notify" /\ pup /\ UNCHANGED <<audit, pnow, pup, crashed, rezoned>>
  BY DEF Notify!emitNotification
<1>2. \/ /\ shown' = [shown EXCEPT ![j.notice] = Append(@, pending[j.notice].at)]
         /\ unaudited' = unaudited \cup {j.notice} /\ Notify!Moves(j, "commit")
         /\ UNCHANGED Notify!policy
      \/ Notify!rollbackLocked(j.notice) /\ Notify!Errs(j) /\ UNCHANGED <<shown, unaudited>>
  BY DEF Notify!emitNotification
<1> QED
  BY <1>1, <1>2, ShowKeeps, RollbackKeeps DEF Notify!policy

LEMMA CommitKeeps ==
  ASSUME Notify!ProactivityAssumption, NoticeInv, NEW j \in jobs, Notify!CommitDelivery(j)
  PROVE  NoticeInv'
<1> DEFINE n == j.notice
           m == Moved(j, "audit")
           d == Notify!LocalDate(pnow)
<1>1. /\ j.pc = "commit" /\ pup /\ Notify!Moves(j, "audit")
      /\ UNCHANGED <<psettings, dailyCounts, lastByType, audit, pnow, pup, crashed, shown, unaudited, rezoned>>
      /\ DOMAIN pending' = DOMAIN pending \ {n} /\ delivered' = delivered \cup {n}
      /\ \A o \in DOMAIN pending' : pending'[o] = pending[o]
  BY DEF Notify!CommitDelivery, Notify!commitLocked, Notify!Restrict, Notify!bounds
<1>2. /\ JobsFit' /\ jobs' = (jobs \ {j}) \cup {m} /\ m.pc = "audit" /\ m.notice = n
  BY <1>1, MovedOn
<1>3. n \in Notices /\ n \in DOMAIN pending /\ n \notin delivered
  BY <1>1 DEF NoticeInv, JobsFit, JobShaped, ReservesFit, Active
<1> HIDE DEF m
<1>4. ReservesFit'
  <2>1. \A i \in jobs \ {j} : i.pc \in Active => i.notice # n
    BY <1>1 DEF NoticeInv, ReservesFit, Active
  <2> HIDE DEF n
  <2>2. ASSUME NEW i \in jobs'
        PROVE  /\ i.pc \in Active => i.notice \in DOMAIN pending'
               /\ i.pc = "audit" => i.notice \in delivered'
               /\ i.pc = "commit" => i.notice \in unaudited'
    BY <1>1, <1>2, <2>1 DEF NoticeInv, ReservesFit, Active
  <2>3. ASSUME NEW i \in jobs', NEW l \in jobs', i.pc \in Active, l.pc \in Active, i.notice = l.notice
        PROVE  i = l
    BY <1>2, <2>3 DEF NoticeInv, ReservesFit, Active
  <2> QED
    BY <1>1, <1>3, <2>2, <2>3 DEF NoticeInv, ReservesFit
<1>5. TimesFit'
  BY <1>1 DEF NoticeInv, TimesFit, Notify!LocalDate
<1>6. AuditFits'
  BY <1>1 DEF NoticeInv, AuditFits
<1>7. ShowsFit'
  <2> SUFFICES ASSUME NEW o \in Notices, shown[o] # << >>
               PROVE  /\ o \in unaudited' \cup Audited'
                      /\ o \in delivered' \/ (o \in unaudited' /\ crashed')
                         \/ \E k \in jobs' : k.pc = "commit" /\ k.notice = o
    BY <1>1 DEF ShowsFit
  <2>1. /\ o \in unaudited \cup Audited
        /\ o \in delivered \/ (o \in unaudited /\ crashed) \/ \E k \in jobs : k.pc = "commit" /\ k.notice = o
    BY DEF NoticeInv, ShowsFit
  <2>2. Audited' = Audited
    BY <1>1 DEF Audited
  <2> QED
    BY <1>1, <1>2, <2>1, <2>2
<1>8. FewSoFar'
  <2>1. IsFiniteSet(DOMAIN pending')
    BY <1>1, FS_Subset DEF NoticeInv, FewSoFar
  <2> QED
    BY <1>1, <2>1 DEF NoticeInv, FewSoFar, Told
<1>9. CountFits'
  <2>1. d' = d /\ Notify!CountOf(d)' = Notify!CountOf(d)
    BY <1>1 DEF Notify!LocalDate, Notify!CountOf
  <2>2. Counted' \subseteq Counted
    <3>1. Notify!ShownOn(d)' = Notify!ShownOn(d)
      BY <1>1 DEF Notify!ShownOn, Notify!LocalDate
    <3>2. Notify!Reserved(d)' \subseteq Notify!Reserved(d)
      BY <1>1, <2>1 DEF Notify!Reserved
    <3>3. Lost \subseteq Lost'
      <4> HIDE DEF n
      <4>1. DOMAIN pending' \cup delivered' = DOMAIN pending \cup delivered
        BY <1>1, <1>3
      <4>2. unaudited' = unaudited
        BY <1>1
      <4> QED
        BY <4>1, <4>2 DEF Lost
    <3>4. Counted' = (Notify!ShownOn(d)' \cup Notify!Reserved(d)') \ Lost' /\ Counted = (Notify!ShownOn(d) \cup Notify!Reserved(d)) \ Lost
      BY DEF Counted
    <3> HIDE DEF d
    <3> QED
      BY <3>1, <3>2, <3>3, <3>4
  <2>3. IsFiniteSet(Counted) /\ Notify!CountOf(d) \in Nat
    BY CountedIsFinite, Counts
  <2>4. Cardinality(Counted') <= Cardinality(Counted) /\ Cardinality(Counted) \in Nat /\ Cardinality(Counted') \in Nat
    BY <2>2, <2>3, FewerCounted
  <2>5. pup /\ ~rezoned => Cardinality(Counted) <= Notify!CountOf(d)
    BY DEF NoticeInv, CountFits
  <2>6. pup /\ ~rezoned => Cardinality(Counted') <= Notify!CountOf(d)'
    BY <2>1, <2>3, <2>4, <2>5
  <2> QED
    BY <1>1, <2>6 DEF CountFits
<1> QED
  BY <1>2, <1>4, <1>5, <1>6, <1>7, <1>8, <1>9 DEF NoticeInv

LEMMA AuditedKeeps ==
  ASSUME Notify!ProactivityAssumption, NoticeInv, NEW j \in jobs, Notify!deliverNotification(j)
  PROVE  NoticeInv'
<1> DEFINE n == j.notice
           m == Moved(j, "done")
           d == Notify!LocalDate(pnow)
           a == [notice |-> n, at |-> pnow]
<1>1. /\ j.pc = "audit" /\ pup /\ Notify!Moves(j, "done")
      /\ UNCHANGED <<psettings, dailyCounts, lastByType, delivered, pending, pnow, pup, crashed, shown, rezoned>>
      /\ \/ audit' = audit \cup {a} /\ unaudited' = unaudited \ {n}
         \/ UNCHANGED <<audit, unaudited>>
  BY DEF Notify!deliverNotification, Notify!policy
<1>2. /\ JobsFit' /\ jobs' = (jobs \ {j}) \cup {m} /\ m.pc = "done" /\ m.notice = n
  BY <1>1, MovedOn
<1>3. n \in Notices /\ n \in delivered /\ n \notin DOMAIN pending
  BY <1>1 DEF NoticeInv, JobsFit, JobShaped, ReservesFit
<1>4. a.notice = n /\ a.at = pnow /\ pnow \in Nat /\ pnow \in 0 .. Horizon
  BY DEF NoticeInv, TimesFit, Notify!ProactivityAssumption
<1> HIDE DEF m, a
<1>5. ReservesFit'
  <2>1. \A i \in jobs : i.pc \in Active => i.notice # n
    BY <1>3 DEF NoticeInv, ReservesFit
  <2> HIDE DEF n
  <2>2. ASSUME NEW i \in jobs'
        PROVE  /\ i.pc \in Active => i.notice \in DOMAIN pending'
               /\ i.pc = "audit" => i.notice \in delivered'
               /\ i.pc = "commit" => i.notice \in unaudited'
    BY <1>1, <1>2, <2>1 DEF NoticeInv, ReservesFit, Active
  <2>3. ASSUME NEW i \in jobs', NEW l \in jobs', i.pc \in Active, l.pc \in Active, i.notice = l.notice
        PROVE  i = l
    BY <1>2, <2>3 DEF NoticeInv, ReservesFit, Active
  <2> QED
    BY <1>1, <2>2, <2>3 DEF NoticeInv, ReservesFit
<1>6. TimesFit'
  BY <1>1 DEF NoticeInv, TimesFit, Notify!LocalDate
<1>7. AuditFits'
  <2>1. \A i \in DOMAIN shown[n] : shown[n][i] <= pnow
    BY <1>3 DEF NoticeInv, TimesFit
  <2>2. ASSUME NEW b \in audit'
        PROVE  /\ b.notice \in delivered /\ b.at \in 0 .. pnow
               /\ \A i \in DOMAIN shown[b.notice] : shown[b.notice][i] <= b.at
    <3>1. CASE b \in audit
      BY <3>1 DEF NoticeInv, AuditFits
    <3>2. CASE b = a
      BY <1>3, <1>4, <2>1, <3>2
    <3> QED
      BY <1>1, <3>1, <3>2
  <2> QED
    BY <1>1, <2>2 DEF AuditFits
<1>8. ShowsFit'
  <2> SUFFICES ASSUME NEW o \in Notices, shown[o] # << >>
               PROVE  /\ o \in unaudited' \cup Audited'
                      /\ o \in delivered' \/ (o \in unaudited' /\ crashed')
                         \/ \E k \in jobs' : k.pc = "commit" /\ k.notice = o
    BY <1>1 DEF ShowsFit
  <2>1. /\ o \in unaudited \cup Audited
        /\ o \in delivered \/ (o \in unaudited /\ crashed) \/ \E k \in jobs : k.pc = "commit" /\ k.notice = o
    BY DEF NoticeInv, ShowsFit
  <2>2. o \in unaudited' \cup Audited'
    BY <1>1, <1>4, <2>1 DEF Audited
  <2>3. o = n \/ (o \in unaudited => o \in unaudited')
    BY <1>1
  <2>4. \A k \in jobs : k.pc = "commit" => k \in jobs'
    BY <1>1, <1>2
  <2> QED
    BY <1>1, <1>3, <2>1, <2>2, <2>3, <2>4
<1>9. FewSoFar'
  <2>1. IsFiniteSet(audit')
    BY <1>1, FS_AddElement DEF NoticeInv, FewSoFar
  <2> QED
    BY <1>1, <2>1 DEF NoticeInv, FewSoFar, Told
<1>10. CountFits'
  <2>1. d' = d /\ Notify!CountOf(d)' = Notify!CountOf(d)
    BY <1>1 DEF Notify!LocalDate, Notify!CountOf
  <2>2. Notify!ShownOn(d)' = Notify!ShownOn(d) /\ Notify!Reserved(d)' = Notify!Reserved(d)
    BY <1>1 DEF Notify!ShownOn, Notify!LocalDate, Notify!Reserved
  <2>3. Lost' = Lost
    BY <1>1, <1>3 DEF Lost
  <2>4. Counted' = Counted
    BY <2>2, <2>3 DEF Counted
  <2> QED
    BY <1>1, <2>1, <2>4 DEF NoticeInv, CountFits
<1> QED
  BY <1>2, <1>5, <1>6, <1>7, <1>8, <1>9, <1>10 DEF NoticeInv

-----------------------------------------------------------------------------
(* Settings, time, crashes and starts.                                     *)

\* New settings, time, a crash, and the restart that counts what the journal knows.
LEMMA SettingsKeepNotices ==
  ASSUME Notify!ProactivityAssumption, NoticeInv, Notify!UpdateSettings
  PROVE  NoticeInv'
<1> DEFINE d == Notify!LocalDate(pnow)
<1>1. /\ psettings' \in Offers
      /\ UNCHANGED <<lastByType, delivered, pending, jobs, audit, pnow, pup, crashed, shown, unaudited>>
      /\ dailyCounts' = IF psettings'.zone # psettings.zone THEN << >> ELSE dailyCounts
      /\ rezoned' = (rezoned \/ psettings'.zone # psettings.zone)
  BY DEF Notify!UpdateSettings
<1>2. JobsFit' /\ ReservesFit' /\ AuditFits' /\ ShowsFit' /\ FewSoFar'
  BY <1>1 DEF NoticeInv, JobsFit, ReservesFit, AuditFits, ShowsFit, FewSoFar, Audited, Told
<1>3. ~rezoned' => ~rezoned /\ dailyCounts' = dailyCounts /\ \A t : Notify!LocalDate(t)' = Notify!LocalDate(t)
  BY <1>1 DEF Notify!LocalDate
<1>4. TimesFit'
  <2>1. ASSUME NEW o \in DOMAIN pending'
        PROVE  /\ (pending[o].at)' \in 0 .. pnow' /\ (pending[o].before)' \in -1 .. pnow'
               /\ ~rezoned' => (pending[o].date)' = Notify!LocalDate(pending[o].at)'
    <3>1. (pending[o].at)' \in 0 .. pnow' /\ (pending[o].before)' \in -1 .. pnow'
      BY <1>1 DEF NoticeInv, TimesFit
    <3>2. ASSUME ~rezoned'
          PROVE  (pending[o].date)' = Notify!LocalDate(pending[o].at)'
      <4>1. pending[o].date = Notify!LocalDate(pending[o].at)
        BY <1>1, <1>3, <3>2 DEF NoticeInv, TimesFit
      <4>2. psettings'.zone = psettings.zone
        BY <1>1, <3>2
      <4> QED
        BY <1>1, <4>1, <4>2 DEF Notify!LocalDate
    <3> QED
      BY <3>1, <3>2
  <2>2. \A e \in DOMAIN dailyCounts' : dailyCounts'[e] \in Nat \ {0}
    BY <1>1 DEF NoticeInv, TimesFit
  <2> QED
    BY <1>1, <2>1, <2>2 DEF NoticeInv, TimesFit
<1>5. CountFits'
  <2> SUFFICES ASSUME pup', ~rezoned'
               PROVE  Cardinality(Counted') <= Notify!CountOf(d)'
    BY DEF CountFits
  <2>0. psettings'.zone = psettings.zone /\ ~rezoned
    BY <1>1
  <2>1. d' = d
    BY <1>1, <2>0 DEF Notify!LocalDate
  <2>2. Notify!CountOf(d)' = Notify!CountOf(d) /\ Notify!ShownOn(d)' = Notify!ShownOn(d) /\ Notify!Reserved(d)' = Notify!Reserved(d) /\ Lost' = Lost
    BY <1>1, <2>0, <2>1 DEF Notify!CountOf, Notify!ShownOn, Notify!Reserved, Lost, Notify!LocalDate
  <2>3. Counted' = Counted
    BY <2>2 DEF Counted
  <2> QED
    BY <1>1, <2>0, <2>2, <2>3 DEF NoticeInv, CountFits
<1> QED
  BY <1>2, <1>4, <1>5 DEF NoticeInv

LEMMA TickKeepsNotices ==
  ASSUME Notify!ProactivityAssumption, NoticeInv, Notify!Tick
  PROVE  NoticeInv'
<1> DEFINE d == Notify!LocalDate(pnow)
<1>1. /\ pnow < Horizon /\ pnow' = pnow + 1
      /\ UNCHANGED <<psettings, dailyCounts, lastByType, delivered, pending, jobs, audit, pup, crashed,
                     shown, unaudited, rezoned>>
  BY DEF Notify!Tick, Notify!policy, Notify!bounds
<1>2. JobsFit' /\ ReservesFit' /\ ShowsFit' /\ FewSoFar'
  BY <1>1 DEF NoticeInv, JobsFit, ReservesFit, ShowsFit, FewSoFar, Audited, Told
<1>3. pnow \in Nat /\ Horizon \in Nat /\ pnow' \in Nat /\ pnow' \in 0 .. Horizon /\ pnow <= pnow'
  BY <1>1 DEF NoticeInv, TimesFit, Notify!ProactivityAssumption
<1>4. \A x \in 0 .. pnow : x \in 0 .. pnow'
  BY <1>3
<1>5. \A x \in -1 .. pnow : x \in -1 .. pnow'
  BY <1>3
<1>6. TimesFit'
  <2>1. ASSUME NEW o \in DOMAIN pending
        PROVE  /\ pending[o].at \in 0 .. pnow' /\ pending[o].before \in -1 .. pnow'
               /\ ~rezoned => pending[o].date = Notify!LocalDate(pending[o].at)
    BY <1>4, <1>5 DEF NoticeInv, TimesFit
  <2>2. lastByType \in [Types -> -1 .. pnow']
    BY <1>5 DEF NoticeInv, TimesFit
  <2>3. ASSUME NEW o \in Notices, NEW i \in DOMAIN shown[o]
        PROVE  shown[o][i] <= pnow'
    <3>1. shown[o] \in Seq(Nat) /\ shown[o][i] <= pnow
      BY DEF NoticeInv, TimesFit
    <3>2. shown[o][i] \in Nat
      BY <3>1
    <3> DEFINE x == shown[o][i]
    <3>3. x \in Nat /\ x <= pnow
      BY <3>1, <3>2
    <3> HIDE DEF x
    <3>4. x <= pnow'
      BY <3>3, <1>3
    <3> QED
      BY <3>4 DEF x
  <2>4. ASSUME NEW o \in DOMAIN pending'
        PROVE  ~rezoned' => (pending[o].date)' = Notify!LocalDate(pending[o].at)'
    BY <1>1, <2>1 DEF Notify!LocalDate
  <2> QED
    BY <1>1, <1>3, <2>1, <2>2, <2>3, <2>4 DEF NoticeInv, TimesFit
<1>7. AuditFits'
  BY <1>1, <1>4 DEF NoticeInv, AuditFits
<1>8. CountFits'
  <2> SUFFICES ASSUME pup', ~rezoned'
               PROVE  Cardinality(Counted') <= Notify!CountOf(d)'
    BY DEF CountFits
  <2> DEFINE e == Notify!LocalDate(pnow + 1)
  <2>1. /\ d \in Int /\ e \in Int /\ d <= e
        /\ \A t \in Nat : t <= pnow => Notify!LocalDate(t) \in Int /\ Notify!LocalDate(t) <= d
    <3>1. psettings \in Offers
      BY DEF NoticeInv, TimesFit
    <3>2. pnow \in Int /\ pnow + 1 \in Int /\ pnow <= pnow + 1
      BY <1>3
    <3> QED
      BY <3>1, <3>2, Dates
  <2>2. d' = e
    BY <1>1 DEF Notify!LocalDate
  <2>3. Notify!CountOf(d)' = Notify!CountOf(e)
    BY <1>1, <2>2 DEF Notify!CountOf
  <2>4. Counted' = (Notify!ShownOn(e) \cup Notify!Reserved(e)) \ Lost
    BY <1>1, <2>2 DEF Counted, Notify!ShownOn, Notify!Reserved, Notify!LocalDate, Lost
  <2>5. CASE e = d
    <3>1. Counted' = Counted
      BY <2>4, <2>5 DEF Counted
    <3> QED
      BY <1>1, <2>3, <2>5, <3>1 DEF NoticeInv, CountFits
  <2>6. CASE e # d
    <3>1. Notify!ShownOn(e) = {}
      <4> SUFFICES ASSUME NEW o \in Notices, NEW i \in DOMAIN shown[o], Notify!LocalDate(shown[o][i]) = e
                   PROVE  FALSE
        BY DEF Notify!ShownOn
      <4>1. shown[o] \in Seq(Nat) /\ shown[o][i] <= pnow
        BY DEF NoticeInv, TimesFit
      <4>2. shown[o][i] \in Nat
        BY <4>1
      <4> QED
        BY <2>1, <2>6, <4>1, <4>2
    <3>2. Notify!Reserved(e) = {}
      <4> SUFFICES ASSUME NEW o \in DOMAIN pending, pending[o].date = e
                   PROVE  FALSE
        BY DEF Notify!Reserved
      <4>1. pending[o].at \in 0 .. pnow /\ Notify!LocalDate(pending[o].at) = e
        BY <1>1 DEF NoticeInv, TimesFit
      <4>2. pending[o].at \in Nat /\ pending[o].at <= pnow
        BY <4>1, <1>3
      <4> QED
        BY <2>1, <2>6, <4>1, <4>2
    <3>3. Counted' = {}
      BY <2>4, <3>1, <3>2
    <3>4. Cardinality(Counted') = 0
      BY <3>3, FS_EmptySet
    <3>5. Notify!CountOf(e) \in Nat
      BY Counts
    <3> QED
      BY <2>3, <3>4, <3>5
  <2> QED
    BY <2>5, <2>6
<1> QED
  BY <1>2, <1>6, <1>7, <1>8 DEF NoticeInv

LEMMA CrashKeepsNotices ==
  ASSUME NoticeInv, Notify!Crash
  PROVE  NoticeInv'
<1> DEFINE turned(j) == IF j.pc \in {"due", "done", "failed"} THEN j ELSE Notify!Retried(j)
<1>1. /\ pup /\ crashed' /\ ~pup' /\ jobs' = {turned(j) : j \in jobs}
      /\ UNCHANGED <<psettings, dailyCounts, lastByType, delivered, pending, audit, pnow, shown, unaudited, rezoned>>
  BY DEF Notify!Crash, Notify!policy
<1>2. ASSUME NEW j \in jobs
      PROVE  /\ JobShaped(turned(j)) /\ SameJob(turned(j), j) /\ turned(j).pc \in {"due", "done", "failed"}
             /\ (turned(j).pc = "done" /\ turned(j).to # Notify!Never) => turned(j) = j
  <2>1. JobShaped(j)
    BY DEF NoticeInv, JobsFit
  <2> QED
    BY <2>1, RetriedFields DEF SameJob, JobShaped
<1> HIDE DEF turned
<1>3. JobsFit'
  <2>1. ASSUME NEW i \in jobs'
        PROVE  JobShaped(i) /\ Carried(i, jobs')
    <3>1. PICK j \in jobs : i = turned(j)
      BY <1>1
    <3>2. JobShaped(i)
      BY <1>2, <3>1
    <3>3. SUFFICES ASSUME i.pc = "done", i.to # Notify!Never
                   PROVE  \E k \in jobs' : Carries(k, i)
      BY <1>2, <3>1, <3>2 DEF Carried
    <3>4. i = j
      BY <1>2, <3>1, <3>3
    <3>5. PICK k \in jobs : Carries(k, j)
      BY <3>3, <3>4 DEF NoticeInv, JobsFit, Carried
    <3>6. Carries(turned(k), i)
      BY <1>2, <3>4, <3>5 DEF Carries, SameJob
    <3> QED
      BY <1>1, <3>2, <3>6
  <2>2. ASSUME NEW i \in jobs', NEW l \in jobs', SameJob(i, l)
        PROVE  i = l
    <3>1. PICK j \in jobs, k \in jobs : i = turned(j) /\ l = turned(k)
      BY <1>1
    <3>2. SameJob(j, k)
      BY <1>2, <2>2, <3>1 DEF SameJob
    <3> QED
      BY <3>1, <3>2 DEF NoticeInv, JobsFit
  <2> QED
    BY <2>1, <2>2 DEF JobsFit
<1>4. ReservesFit'
  <2>1. \A i \in jobs' : i.pc \in {"due", "done", "failed"}
    BY <1>1, <1>2
  <2> QED
    BY <1>1, <2>1 DEF NoticeInv, ReservesFit, Active
<1>5. TimesFit' /\ AuditFits' /\ FewSoFar'
  BY <1>1 DEF NoticeInv, TimesFit, AuditFits, FewSoFar, Told, Notify!LocalDate
<1>6. ShowsFit'
  <2> SUFFICES ASSUME NEW o \in Notices, shown[o] # << >>
               PROVE  o \in unaudited \cup Audited /\ (o \in delivered \/ o \in unaudited)
    BY <1>1 DEF ShowsFit, Audited
  <2> QED
    BY DEF NoticeInv, ShowsFit, ReservesFit
<1>7. CountFits'
  BY <1>1 DEF CountFits
<1> QED
  BY <1>3, <1>4, <1>5, <1>6, <1>7 DEF NoticeInv

LEMMA RestoreKeepsNotices ==
  ASSUME Notify!ProactivityAssumption, NoticeInv, Notify!restoreProactivityLedger
  PROVE  NoticeInv'
<1> DEFINE d == Notify!LocalDate(pnow)
           on(e) == {a \in audit : Notify!LocalDate(a.at) = e}
           last(k) == {Notify!Never} \cup {a.at : a \in {b \in audit : TypeOf[b.notice] = k}}
<1>1. /\ ~pup /\ delivered' = Audited /\ DOMAIN pending' = {}
      /\ dailyCounts' = [e \in {Notify!LocalDate(a.at) : a \in audit} |-> Notify!Cardinality(on(e))]
      /\ lastByType' = [k \in Types |-> Notify!Max(last(k))]
      /\ UNCHANGED <<psettings, jobs, audit, pnow, crashed, shown, unaudited, rezoned>>
  BY DEF Notify!restoreProactivityLedger, Notify!bounds, Audited
<1>2. /\ crashed /\ \A j \in jobs : j.pc \in {"due", "done", "failed"}
  BY <1>1 DEF NoticeInv, ReservesFit
<1>3. Audited \subseteq delivered
  BY DEF Audited, NoticeInv, AuditFits
<1>4. JobsFit' /\ FewSoFar'
  BY <1>1, FS_EmptySet DEF NoticeInv, JobsFit, FewSoFar, Told
<1>5. ReservesFit'
  BY <1>1, <1>2, <1>3 DEF NoticeInv, ReservesFit, Active
<1>6. pnow \in Nat
  BY DEF NoticeInv, TimesFit, Notify!ProactivityAssumption
<1>7. \A e : IsFiniteSet(on(e)) /\ Cardinality(on(e)) \in Nat /\ Notify!Cardinality(on(e)) = Cardinality(on(e))
  <2> TAKE e
  <2>1. IsFiniteSet(on(e))
    BY FS_Subset DEF NoticeInv, FewSoFar
  <2> QED
    BY <2>1, FS_CardinalityType, SameCount
<1>8. TimesFit'
  <2>1. ASSUME NEW k \in Types
        PROVE  Notify!Max(last(k)) \in -1 .. pnow
    <3>1. \A x \in 0 .. pnow : x \in -1 .. pnow
      BY <1>6
    <3>2. -1 \in -1 .. pnow
      BY <1>6
    <3>3. last(k) \in SUBSET (-1 .. pnow) /\ last(k) # {}
      BY <3>1, <3>2 DEF NoticeInv, AuditFits, Notify!Never
    <3> HIDE DEF last
    <3> QED
      BY <1>6, <3>3, LatestIsOne
  <2> HIDE DEF last
  <2>2. lastByType' \in [Types -> -1 .. pnow]
    BY <1>1, <2>1
  <2>3. ASSUME NEW e \in DOMAIN dailyCounts'
        PROVE  dailyCounts'[e] \in Nat \ {0}
    <3>1. dailyCounts'[e] = Cardinality(on(e)) /\ on(e) # {}
      BY <1>1, <1>7, <2>3
    <3>2. Cardinality(on(e)) # 0
      BY <1>7, <3>1, FS_EmptySet
    <3> QED
      BY <1>7, <3>1, <3>2
  <2> QED
    BY <1>1, <2>2, <2>3 DEF NoticeInv, TimesFit
<1>9. AuditFits'
  BY <1>1 DEF NoticeInv, AuditFits, Audited
<1>10. ShowsFit'
  <2> SUFFICES ASSUME NEW o \in Notices, shown[o] # << >>
               PROVE  o \in unaudited \cup Audited
    BY <1>1, <1>2 DEF ShowsFit, Audited
  <2> QED
    BY DEF NoticeInv, ShowsFit
<1>11. CountFits'
  <2> SUFFICES ASSUME ~rezoned'
               PROVE  Cardinality(Counted') <= Notify!CountOf(d)'
    BY DEF CountFits
  <2>1. d' = d
    BY <1>1 DEF Notify!LocalDate
  <2>2. Notify!CountOf(d)' = Cardinality(on(d))
    <3>1. Notify!CountOf(d)' = IF d \in DOMAIN dailyCounts' THEN dailyCounts'[d] ELSE 0
      BY <2>1 DEF Notify!CountOf
    <3>2. CASE d \in DOMAIN dailyCounts'
      BY <1>1, <1>7, <3>1, <3>2
    <3>3. CASE d \notin DOMAIN dailyCounts'
      <4>1. on(d) = {}
        BY <1>1, <3>3
      <4> QED
        BY <3>1, <3>3, <4>1, FS_EmptySet
    <3> QED
      BY <3>2, <3>3
  <2>3. Counted' \subseteq {a.notice : a \in on(d)}
    <3>1. Notify!Reserved(d)' = {}
      BY <1>1 DEF Notify!Reserved
    <3>2. Notify!ShownOn(d)' = Notify!ShownOn(d)
      BY <1>1 DEF Notify!ShownOn, Notify!LocalDate
    <3>3. Lost' = unaudited \ Audited
      BY <1>1 DEF Lost
    <3> SUFFICES ASSUME NEW o \in Notify!ShownOn(d), o \notin unaudited \ Audited
                 PROVE  \E a \in on(d) : o = a.notice
      BY <3>1, <3>2, <3>3, <2>1 DEF Counted
    <3>4. PICK i \in DOMAIN shown[o] : o \in Notices /\ Notify!LocalDate(shown[o][i]) = d
      BY DEF Notify!ShownOn
    <3>5. shown[o] # << >>
      BY <3>4
    <3>6. o \in Audited
      BY <3>4, <3>5 DEF NoticeInv, ShowsFit
    <3>7. PICK a \in audit : o = a.notice
      BY <3>6 DEF Audited
    <3>8. a.at \in 0 .. pnow /\ shown[o][i] <= a.at
      BY <3>4, <3>7 DEF NoticeInv, AuditFits
    <3>9. shown[o] \in Seq(Nat)
      BY <3>4 DEF NoticeInv, TimesFit
    <3>10. shown[o][i] \in Nat
      BY <3>4, <3>9
    <3>11. a.at \in Nat /\ a.at <= pnow
      BY <3>8, <1>6
    <3>12. psettings \in Offers
      BY DEF NoticeInv, TimesFit
    <3>13. /\ Notify!LocalDate(a.at) \in Int /\ d \in Int
           /\ Notify!LocalDate(shown[o][i]) <= Notify!LocalDate(a.at) /\ Notify!LocalDate(a.at) <= d
      BY <3>8, <3>10, <3>11, <3>12, <1>6, Dates
    <3>14. Notify!LocalDate(a.at) = d
      BY <3>4, <3>13
    <3> QED
      BY <3>7, <3>14
  <2>4. IsFiniteSet({a.notice : a \in on(d)}) /\ Cardinality({a.notice : a \in on(d)}) <= Cardinality(on(d))
    <3> DEFINE S == on(d)
               f(a) == a.notice
               F == [a \in S |-> a.notice]
               T == {a.notice : a \in S}
    <3>1. IsFiniteSet(S)
      BY <1>7
    <3>2. F \in Surjection(S, T)
      BY DEF Surjection
    <3> HIDE DEF S, F, T
    <3>3. IsFiniteSet(T) /\ Cardinality(T) <= Cardinality(S)
      BY <3>1, <3>2, FS_Surjection
    <3> QED
      BY <3>3 DEF S, T
  <2> DEFINE N == {a.notice : a \in on(d)}
  <2>5. IsFiniteSet(N) /\ Cardinality(N) <= Cardinality(on(d)) /\ Counted' \subseteq N
    BY <2>3, <2>4
  <2> HIDE DEF N
  <2>6. Cardinality(Counted') <= Cardinality(N) /\ Cardinality(Counted') \in Nat /\ Cardinality(N) \in Nat
    BY <2>5, FewerCounted
  <2> QED
    BY <1>7, <2>2, <2>5, <2>6
<1> QED
  BY <1>4, <1>5, <1>8, <1>9, <1>10, <1>11 DEF NoticeInv

-----------------------------------------------------------------------------
\* Every step keeps the count above what the owner was shown today.
LEMMA NoticeStep ==
  ASSUME Notify!ProactivityAssumption, NoticeInv, [Notify!Next]_(Notify!vars)
  PROVE  NoticeInv'
<1>1. ASSUME NEW j \in jobs, Notify!Deliver(j) \/ Notify!emitNotification(j) \/ Notify!CommitDelivery(j)
      PROVE  NoticeInv'
  BY <1>1, DeliverKeeps, EmitKeeps, CommitKeeps
<1>2. ASSUME NEW j \in jobs,
             Notify!deliverNotification(j) \/ Notify!enqueueDeferredNotification(j) \/ Notify!executeNotificationJob(j)
      PROVE  NoticeInv'
  BY <1>2, AuditedKeeps, EnqueueKeeps, ExecutedKeeps
<1>3. CASE UNCHANGED Notify!vars
  <2>1. UNCHANGED <<psettings, dailyCounts, lastByType, delivered, pending, jobs, audit, pnow, pup, crashed,
                    shown, unaudited, rezoned>>
    BY <1>3 DEF Notify!vars, Notify!policy, Notify!bounds
  <2>2. JobsFit' /\ ReservesFit' /\ TimesFit' /\ AuditFits' /\ ShowsFit' /\ FewSoFar'
    BY <2>1 DEF NoticeInv, JobsFit, ReservesFit, TimesFit, AuditFits, ShowsFit, FewSoFar, Audited, Told,
                Notify!LocalDate
  <2>3. CountFits'
    BY <2>1 DEF NoticeInv, CountFits, Counted, Lost, Notify!ShownOn, Notify!Reserved, Notify!LocalDate, Notify!CountOf
  <2> QED
    BY <2>2, <2>3 DEF NoticeInv
<1> QED
  BY <1>1, <1>2, <1>3, SettingsKeepNotices, CrashKeepsNotices, RestoreKeepsNotices, TickKeepsNotices
     DEF Notify!Next

\* Only a decision to deliver reserves, and it has looked at the count.
LEMMA LimitIsKept ==
  ASSUME Notify!ProactivityAssumption, NoticeInv, Notify!Next, ~rezoned, unaudited \subseteq DOMAIN pending \cup delivered,
         psettings.limit > 0, DOMAIN pending' \ DOMAIN pending # {}
  PROVE  Notify!Cardinality(Notify!ShownOn(Notify!LocalDate(pnow)) \cup Notify!Reserved(Notify!LocalDate(pnow))) < psettings.limit
<1>1. \E j \in jobs : Notify!Deliver(j) /\ Notify!decideLocked(j.notice) = "deliver"
  <2>1. ASSUME NEW j \in jobs, Notify!Deliver(j), Notify!decideLocked(j.notice) # "deliver"
        PROVE  FALSE
    BY <2>1 DEF Notify!Deliver, Notify!policy
  <2>2. ASSUME NEW j \in jobs, Notify!emitNotification(j)
        PROVE  FALSE
    BY <2>2 DEF Notify!emitNotification, Notify!policy, Notify!rollbackLocked, Notify!Restrict
  <2>3. ASSUME NEW j \in jobs, Notify!CommitDelivery(j)
        PROVE  FALSE
    BY <2>3 DEF Notify!CommitDelivery, Notify!commitLocked, Notify!Restrict
  <2>4. ASSUME NEW j \in jobs,
               Notify!deliverNotification(j) \/ Notify!enqueueDeferredNotification(j) \/ Notify!executeNotificationJob(j)
        PROVE  FALSE
    BY <2>4 DEF Notify!deliverNotification, Notify!enqueueDeferredNotification, Notify!executeNotificationJob, Notify!policy
  <2>5. ~Notify!UpdateSettings /\ ~Notify!Crash /\ ~Notify!Tick
    BY DEF Notify!UpdateSettings, Notify!Crash, Notify!Tick, Notify!policy
  <2>6. ~Notify!restoreProactivityLedger
    BY DEF Notify!restoreProactivityLedger
  <2> QED
    BY <2>1, <2>2, <2>3, <2>4, <2>5, <2>6 DEF Notify!Next
<1>2. PICK j \in jobs : Notify!Deliver(j) /\ Notify!decideLocked(j.notice) = "deliver"
  BY <1>1
<1> DEFINE d == Notify!LocalDate(pnow)
           c == Notify!CountOf(d)
<1>3. pup /\ ~Notify!Endless /\ Notify!Held(j.notice) = {}
  BY <1>2 DEF Notify!Deliver, Notify!decideLocked
<1>4. ~(c >= psettings.limit)
  BY <1>3 DEF Notify!Held
<1>5. c \in Nat /\ psettings.limit \in Nat
  BY Counts DEF NoticeInv, TimesFit, Notify!ProactivityAssumption
<1>6. Lost = {}
  BY DEF Lost
<1>7. Counted = Notify!ShownOn(d) \cup Notify!Reserved(d)
  BY <1>6 DEF Counted
<1>8. Cardinality(Counted) <= c /\ Cardinality(Counted) \in Nat
  BY <1>3, CountedIsFinite, FS_CardinalityType DEF NoticeInv, CountFits
<1> HIDE DEF c
<1>9. Cardinality(Counted) < psettings.limit
  BY <1>4, <1>5, <1>8
<1> QED
  BY <1>7, <1>9, SameCount

\* A notice is shown by its job in hand, which no other job has committed.
LEMMA ShownAgain ==
  ASSUME NoticeInv, Notify!Next, NEW n \in Notices, shown'[n] # shown[n], shown[n] # << >>
  PROVE  n \in unaudited /\ crashed
<1>1. PICK j \in jobs : Notify!emitNotification(j) /\ shown' = [shown EXCEPT ![j.notice] = Append(@, pending[j.notice].at)]
  <2>1. ASSUME NEW j \in jobs, Notify!emitNotification(j)
        PROVE  shown' = [shown EXCEPT ![j.notice] = Append(@, pending[j.notice].at)]
    BY <2>1 DEF Notify!emitNotification
  <2>2. ~Notify!UpdateSettings /\ ~Notify!Crash /\ ~Notify!Tick /\ ~Notify!restoreProactivityLedger
    BY DEF Notify!UpdateSettings, Notify!Crash, Notify!Tick, Notify!restoreProactivityLedger
  <2>3. ASSUME NEW j \in jobs,
               \/ Notify!Deliver(j) \/ Notify!CommitDelivery(j)
               \/ Notify!deliverNotification(j) \/ Notify!enqueueDeferredNotification(j) \/ Notify!executeNotificationJob(j)
        PROVE  FALSE
    BY <2>3 DEF Notify!Deliver, Notify!CommitDelivery, Notify!deliverNotification, Notify!enqueueDeferredNotification,
                Notify!executeNotificationJob
  <2> QED
    BY <2>1, <2>2, <2>3 DEF Notify!Next
<1>2. j.pc = "notify" /\ j.notice = n
  BY <1>1 DEF Notify!emitNotification, NoticeInv, TimesFit
<1>3. n \notin delivered /\ ~\E k \in jobs : k.pc = "commit" /\ k.notice = n
  BY <1>2 DEF NoticeInv, ReservesFit, Active
<1> QED
  BY <1>3 DEF NoticeInv, ShowsFit

\* Whatever jobs, settings, failures, crashes and restarts interleave: a job that
\* puts its notice off ends only when another carries it on, a notice is let
\* through only below the limit of the local day, and one is shown again only when
\* a crash came before its record (proactivity/policy.go, desktop/proactivity.go,
\* desktop/schedules.go).
THEOREM NoticesKept ==
  ASSUME Notify!ProactivityAssumption
  PROVE  Notify!Spec => NoticesHold
<1>1. Notify!Init => NoticeInv
  BY NoticesInit
<1>2. NoticeInv /\ [Notify!Next]_(Notify!vars) => NoticeInv'
  BY NoticeStep
<1>3. NoticeInv => Notify!ProactivityTypeOK /\ Notify!DeferredIsKept
  <2> SUFFICES ASSUME NoticeInv
               PROVE  Notify!ProactivityTypeOK /\ Notify!DeferredIsKept
    OBVIOUS
  <2>1. Notify!DeferredIsKept
    BY DEF NoticeInv, JobsFit, Carried, Carries, Notify!DeferredIsKept
  <2>2. \A k \in Types : lastByType[k] \in -1 .. Horizon
    <3>1. pnow \in 0 .. Horizon /\ lastByType \in [Types -> -1 .. pnow]
      BY DEF NoticeInv, TimesFit
    <3>2. Horizon \in Nat
      BY DEF Notify!ProactivityAssumption
    <3>3. ASSUME NEW x \in -1 .. pnow
          PROVE  x \in -1 .. Horizon
      BY <3>1, <3>2
    <3> QED
      BY <3>1, <3>3
  <2> QED
    BY <2>1, <2>2 DEF NoticeInv, JobsFit, JobShaped, ReservesFit, TimesFit, Notify!ProactivityTypeOK
<1>4. NoticeInv /\ [Notify!Next]_(Notify!vars)
      => [~rezoned /\ unaudited \subseteq DOMAIN pending \cup delivered
          /\ psettings.limit > 0 /\ DOMAIN pending' \ DOMAIN pending # {}
          => Notify!Cardinality(Notify!ShownOn(Notify!LocalDate(pnow)) \cup Notify!Reserved(Notify!LocalDate(pnow))) < psettings.limit]_(Notify!vars)
  BY LimitIsKept
<1>5. NoticeInv /\ [Notify!Next]_(Notify!vars)
      => [\A n \in Notices : shown'[n] # shown[n] /\ shown[n] # << >> => n \in unaudited /\ crashed]_(Notify!vars)
  BY ShownAgain
<1> QED
  BY <1>1, <1>2, <1>3, <1>4, <1>5, PTL DEF Notify!Spec, NoticesHold, Notify!DailyLimitHolds, Notify!ShownOnce
=================================================================================
