--------------------------- MODULE DutyCheckpoint ---------------------------
(***************************************************************************)
(* Checkpoints of the duty scheduler (duty_runtime.go, duty_checkpoint.go) *)
(* across failed writes, process crashes, machine crashes and restarts     *)
(* under another configuration.                                            *)
(*                                                                         *)
(* writeCheckpoint creates checkpoint-<session>-<sequence>.json, which     *)
(* must not exist, writes and syncs it, replaces latest.json through a     *)
(* synced temporary file and syncs the directory.  configureCheckpoints    *)
(* reads every numbered file, skips what it does not accept, keeps the     *)
(* highest sequence of each session and resumes the strongest of them,     *)
(* continuing its session and its sequence.  Close writes a last           *)
(* checkpoint and then the report file, with the same replacement.         *)
(*                                                                         *)
(* What a crash leaves is the file system's contract: a synced file keeps  *)
(* its contents, an entry of a synced directory stays; anything else may   *)
(* be there, be cut short or be gone.                                      *)
(***************************************************************************)
EXTENDS Integers, FiniteSets

CONSTANTS
  Configs,      \* configurations a start may use: [inventory, mode, target, policy]
  Numerator,    \* blockSamples in nanoseconds of one sample per second
  Rate,         \* sampleRate
  MaxStarts, MaxBlocks, MaxWrites, MaxEvidence, MaxFaults, MaxCrashes,  \* bounds
  None

ASSUME CheckpointAssumption ==
  /\ Numerator \in Nat \ {0} /\ Rate \in Nat \ {0}
  /\ \A c \in Configs : c.mode \in {"shadow", "gated"}
  /\ {MaxStarts, MaxBlocks, MaxWrites, MaxEvidence, MaxFaults, MaxCrashes} \subseteq Nat

VARIABLES
  disk,      \* numbered files: <<session, sequence>> -> [report, contents, entry]
  named,     \* latest.json and the report file: [report, synced], None if absent
  onDisk,    \* what a machine crash may bring back for each of them
  pc,        \* "down", "run" or the next step of a write
  target,    \* the file a replacement is for
  temp,      \* contents of the temporary file
  report,    \* the report being written
  config, session, sequence, pending, due,          \* dutyRuntime
  blocks, sampleTime, sampleRemainder, evidence,    \* dutyRuntime and its scheduler
  cadence,   \* policy the scheduler's histories and watchdogs were learned under
  closing,   \* Close is running
  refused,   \* writes since the start that met an existing file
  completed, \* reports whose writeCheckpoint returned nil (history)
  starts, writes, faults, crashes

runtime == <<config, session, blocks, sampleTime, sampleRemainder, evidence, cadence>>
bounds  == <<starts, writes, faults, crashes>>
files   == <<disk, named, onDisk>>
vars    == <<files, pc, target, temp, report, runtime, sequence, pending, due, closing, refused,
             completed, bounds>>

Steps == {"create", "sync", "temp", "rename", "dirsync"}

Init ==
  /\ disk = <<>> /\ named = [f \in {"latest", "report"} |-> None] /\ onDisk = named
  /\ pc = "down" /\ target = "latest" /\ temp = "none" /\ report = None
  /\ config = None /\ session = 0 /\ sequence = 0 /\ pending = FALSE /\ due = FALSE
  /\ blocks = 0 /\ sampleTime = 0 /\ sampleRemainder = 0 /\ evidence = 0
  /\ cadence = None
  /\ closing = FALSE /\ refused = 0 /\ completed = {}
  /\ starts = 0 /\ writes = 0 /\ faults = 0 /\ crashes = 0

-----------------------------------------------------------------------------
(* Reading a checkpoint                                                    *)

\* The clock of a number of blocks, in one computation.
DutySampleClock(n) ==
  LET whole == Numerator \div Rate
      left  == n * (Numerator % Rate)
  IN  [time |-> n * whole + left \div Rate, remainder |-> left % Rate]

\* A shadow checkpoint serves a gated runtime, never the other way.
CompatibleMode(c, r) == r.config.mode = c.mode \/ (r.config.mode = "shadow" /\ c.mode = "gated")

\* How readCheckpoint restores the scheduler, and whether its whole state
\* is kept or only the evidence of the snapshot.
Restoration(c, r) ==
  LET same(f) == r.config[f] = c[f]
  IN  CASE r.config = c                       -> [status |-> "exact", full |-> TRUE]
        [] ~same("mode")                      -> [status |-> "shadow_to_gated",
                                                  full |-> same("target") /\ same("policy")]
        [] same("mode") /\ ~same("target")    -> IF same("policy")
                                                 THEN [status |-> "capture_target", full |-> TRUE]
                                                 ELSE [status |-> "policy_migration", full |-> FALSE]
        [] OTHER                              -> [status |-> "policy_migration", full |-> FALSE]

\* validateCheckpointReport and the checks of readCheckpoint after the
\* restore.  Senders, candidates and sample geometry are the inventory.
Accepts(c, r) ==
  LET clock == DutySampleClock(r.blocks)
  IN  /\ r.config.inventory = c.inventory /\ CompatibleMode(c, r) /\ r.sequence > 0
      /\ r.time = clock.time
      /\ Restoration(c, r).status \in {"exact", "capture_target"} => r.remainder = clock.remainder

Readable(name) == disk[name].contents # "torn"

Candidates(c) == {r \in {disk[n].report : n \in {m \in DOMAIN disk : Readable(m)}} : Accepts(c, r)}

NewestOfSessions(cs) == {r \in cs : \A q \in cs : q.session = r.session => q.sequence <= r.sequence}

\* A bug: the order ignores the mode of the evidence.
StrongerAnyMode(c, q, r) ==
  \/ q.evidence > r.evidence
  \/ q.evidence = r.evidence /\ q.blocks > r.blocks
  \/ q.evidence = r.evidence /\ q.blocks = r.blocks /\ q.created > r.created

\* The order of the sort: gated first for a gated runtime, then evidence,
\* blocks and the time of creation.
Stronger(c, q, r) ==
  IF c.mode = "gated" /\ q.config.mode # r.config.mode
  THEN q.config.mode = "gated"
  ELSE \/ q.evidence > r.evidence
       \/ q.evidence = r.evidence /\ q.blocks > r.blocks
       \/ q.evidence = r.evidence /\ q.blocks = r.blocks /\ q.created > r.created

Strongest(c, cs) == CHOOSE r \in cs : \A q \in cs \ {r} : Stronger(c, r, q)

-----------------------------------------------------------------------------
(* The process                                                             *)

\* configureCheckpoints of a new runtime: resume, or begin a session.
Start(c) ==
  /\ pc = "down" /\ starts < MaxStarts
  /\ pc' = "run" /\ config' = c /\ starts' = starts + 1
  /\ due' = TRUE /\ closing' = FALSE /\ refused' = 0
  /\ LET heads == NewestOfSessions(Candidates(c)) IN
     IF heads = {}
     THEN /\ session' = starts + 1 /\ sequence' = 0 /\ pending' = FALSE
          /\ blocks' = 0 /\ sampleTime' = 0 /\ sampleRemainder' = 0 /\ evidence' = 0
          /\ cadence' = c.policy
     ELSE LET chosen == Strongest(c, heads) IN
          /\ session' = chosen.session /\ sequence' = chosen.sequence /\ pending' = TRUE
          /\ blocks' = chosen.blocks /\ sampleTime' = chosen.time /\ evidence' = chosen.evidence
          /\ sampleRemainder' = DutySampleClock(chosen.blocks).remainder
          /\ cadence' = IF Restoration(c, chosen).full THEN chosen.cadence ELSE c.policy
  /\ UNCHANGED <<files, target, temp, report, completed, writes, faults, crashes>>

\* beginBlock: the clock advances by the block and the fraction kept so far.
AdvanceClock ==
  LET numerator == Numerator + sampleRemainder
  IN  /\ sampleTime' = sampleTime + numerator \div Rate
      /\ sampleRemainder' = numerator % Rate

\* Decoding observes arrivals, or a discontinuity restarts the evidence.
Observe == evidence' \in {0, evidence, evidence + 1} /\ evidence' <= MaxEvidence

\* makeReport, from the state the step leaves.
MakeReport ==
  report' = [config |-> config, session |-> session, sequence |-> sequence', blocks |-> blocks',
             time |-> sampleTime', remainder |-> sampleRemainder', evidence |-> evidence',
             cadence |-> cadence, created |-> writes']

BeginWrite ==
  /\ writes' = writes + 1 /\ sequence' = sequence + 1 /\ MakeReport
  /\ pc' = "create" /\ target' = "latest"

\* processBlock: one block, then maybeCheckpoint.
ProcessBlock ==
  /\ pc = "run" /\ blocks < MaxBlocks
  /\ AdvanceClock /\ Observe
  /\ blocks' = blocks + 1
  /\ IF due
     THEN writes < MaxWrites /\ BeginWrite
     ELSE UNCHANGED <<writes, sequence, report, pc, target>>
  /\ UNCHANGED <<files, temp, config, session, cadence, pending, due, closing, refused, completed,
                 starts, faults, crashes>>

\* The wall clock reaches nextCheckpointUTC.
CheckpointDue ==
  /\ pc = "run" /\ ~due /\ due' = TRUE
  /\ UNCHANGED <<files, pc, target, temp, report, runtime, sequence, pending, closing, refused,
                 completed, bounds>>

\* Close: the final checkpoint.
Close ==
  /\ pc = "run" /\ writes < MaxWrites
  /\ UNCHANGED <<blocks, sampleTime, sampleRemainder, evidence>>
  /\ closing' = TRUE /\ BeginWrite
  /\ UNCHANGED <<files, temp, config, session, cadence, pending, due, refused, completed,
                 starts, faults, crashes>>

\* processBlock returns early, between beginBlock and finishBlock, when a
\* message cannot be encoded; the receiver ends and Close follows.
EncodeFails ==
  /\ pc = "run" /\ blocks < MaxBlocks /\ writes < MaxWrites /\ faults < MaxFaults
  /\ AdvanceClock /\ Observe /\ blocks' = blocks
  /\ closing' = TRUE /\ BeginWrite /\ faults' = faults + 1
  /\ UNCHANGED <<files, temp, config, session, cadence, pending, due, refused, completed, starts, crashes>>

-----------------------------------------------------------------------------
(* writeCheckpoint and writeReport                                         *)

\* After a write: maybeCheckpoint waits for its next time and, on success,
\* has delivered the receipt; Close goes on to the report file and ends.
AfterWrite(ok) ==
  /\ temp' = "none"
  /\ IF ~closing
     THEN /\ pc' = "run" /\ due' = FALSE /\ pending' = (pending /\ ~ok)
          /\ UNCHANGED <<target, report>>
     ELSE IF target = "latest"
     THEN /\ pc' = "temp" /\ target' = "report"
          /\ UNCHANGED <<report, due, pending>>
     ELSE pc' = "down" /\ UNCHANGED <<target, report, due, pending>>

Numbered == <<report.session, report.sequence>>

\* A bug: the file is opened without O_EXCL.
CreateOver ==
  /\ pc = "create" /\ pc' = "sync"
  /\ disk' = [n \in DOMAIN disk \cup {Numbered} |->
                IF n = Numbered THEN [report |-> report, contents |-> "torn", entry |-> FALSE] ELSE disk[n]]
  /\ UNCHANGED <<named, onDisk, target, temp, report, runtime, sequence, pending, due, closing,
                 refused, completed, bounds>>

\* OpenFile with O_CREATE and O_EXCL.
CreateNumbered ==
  /\ pc = "create"
  /\ IF Numbered \in DOMAIN disk
     THEN refused' = refused + 1 /\ AfterWrite(FALSE) /\ UNCHANGED disk
     ELSE /\ disk' = [n \in DOMAIN disk \cup {Numbered} |->
                        IF n = Numbered THEN [report |-> report, contents |-> "torn", entry |-> FALSE]
                        ELSE disk[n]]
          /\ pc' = "sync"
          /\ UNCHANGED <<target, temp, report, pending, due, refused>>
  /\ UNCHANGED <<named, onDisk, runtime, sequence, closing, completed, bounds>>

\* A bug: the file is closed without Sync.
WriteUnsynced ==
  /\ pc = "sync" /\ pc' = "temp"
  /\ disk' = [disk EXCEPT ![Numbered].contents = "cached"]
  /\ UNCHANGED <<named, onDisk, target, temp, report, runtime, sequence, pending, due, closing,
                 refused, completed, bounds>>

\* Write, Sync and Close of the numbered file.
WriteSynced ==
  /\ pc = "sync" /\ pc' = "temp"
  /\ disk' = [disk EXCEPT ![Numbered].contents = "synced"]
  /\ UNCHANGED <<named, onDisk, target, temp, report, runtime, sequence, pending, due, closing,
                 refused, completed, bounds>>

\* CreateTemp, Chmod, Write, Sync and Close of the temporary file.
WriteTemp ==
  /\ pc = "temp" /\ pc' = "rename" /\ temp' = "synced"
  /\ UNCHANGED <<files, target, report, runtime, sequence, pending, due, closing, refused,
                 completed, bounds>>

Rename ==
  /\ pc = "rename" /\ pc' = "dirsync" /\ temp' = "none"
  /\ named' = [named EXCEPT ![target] = [report |-> report, contents |-> temp]]
  /\ UNCHANGED <<disk, onDisk, target, report, runtime, sequence, pending, due, closing, refused,
                 completed, bounds>>

\* syncDirectory, and the write has succeeded.
SyncDirectory ==
  /\ pc = "dirsync"
  /\ disk' = [n \in DOMAIN disk |-> [disk[n] EXCEPT !.entry = TRUE]]
  /\ onDisk' = named
  /\ completed' = IF target = "latest" THEN completed \cup {report} ELSE completed
  /\ AfterWrite(TRUE)
  /\ UNCHANGED <<named, runtime, sequence, closing, refused, bounds>>

\* A step of the write fails.  A failed Write or Sync leaves the numbered
\* file, cut short or whole; the temporary file is removed.
StepFails ==
  /\ pc \in Steps /\ faults < MaxFaults
  /\ faults' = faults + 1
  /\ IF pc = "sync"
     THEN \E c \in {"torn", "cached"} : disk' = [disk EXCEPT ![Numbered].contents = c]
     ELSE UNCHANGED disk
  /\ AfterWrite(FALSE)
  /\ UNCHANGED <<named, onDisk, runtime, sequence, closing, refused, completed, starts, writes, crashes>>

-----------------------------------------------------------------------------
(* Crashes (external)                                                      *)

Down == pc' = "down" /\ temp' = "none" /\ closing' = FALSE

\* The process dies; what it wrote stays.
ProcessCrash ==
  /\ pc # "down" /\ crashes < MaxCrashes /\ crashes' = crashes + 1
  /\ Down
  /\ IF pc = "sync"
     THEN \E c \in {"torn", "cached"} : disk' = [disk EXCEPT ![Numbered].contents = c]
     ELSE UNCHANGED disk
  /\ UNCHANGED <<named, onDisk, target, report, runtime, sequence, pending, due, refused, completed,
                 starts, writes, faults>>

\* The machine goes down: entries not synced may go, contents not synced
\* may be cut short.
MachineCrash ==
  /\ starts > 0 /\ crashes < MaxCrashes /\ crashes' = crashes + 1
  /\ Down
  /\ \E kept \in {s \in SUBSET DOMAIN disk : \A n \in DOMAIN disk : disk[n].entry => n \in s} :
     \E whole \in SUBSET {n \in kept : disk[n].contents # "synced"} :
       disk' = [n \in kept |->
                  [disk[n] EXCEPT !.entry = TRUE,
                                  !.contents = IF @ = "synced" \/ n \in whole THEN "synced" ELSE "torn"]]
  /\ \E lost \in SUBSET DOMAIN named :
       named' = [f \in DOMAIN named |->
                   CASE f \in lost -> onDisk[f]
                     [] f \notin lost /\ named[f] # None /\ named[f].contents # "synced" ->
                          [named[f] EXCEPT !.contents = "torn"]
                     [] OTHER -> named[f]]
  /\ onDisk' = named'
  /\ UNCHANGED <<target, report, runtime, sequence, pending, due, refused, completed,
                 starts, writes, faults>>

Next ==
  \/ \E c \in Configs : Start(c)
  \/ ProcessBlock \/ CheckpointDue \/ Close \/ EncodeFails
  \/ CreateNumbered \/ WriteSynced \/ WriteTemp \/ Rename \/ SyncDirectory \/ StepFails
  \/ ProcessCrash \/ MachineCrash

Spec == Init /\ [][Next]_vars

-----------------------------------------------------------------------------
(* Properties                                                              *)

\* Types; a numbered file holds the report its name says.
TypeOK ==
  /\ pc \in Steps \cup {"down", "run"} /\ temp \in {"none", "cached", "synced"}
  /\ config \in Configs \cup {None} /\ session \in 0 .. MaxStarts /\ sequence \in 0 .. MaxWrites
  /\ blocks \in 0 .. MaxBlocks /\ evidence \in 0 .. MaxEvidence /\ sampleRemainder \in 0 .. Rate - 1
  /\ \A n \in DOMAIN disk : /\ n = <<disk[n].report.session, disk[n].report.sequence>>
                            /\ disk[n].contents \in {"torn", "cached", "synced"}
  /\ {pending, due, closing} \subseteq BOOLEAN

\* latest.json and the report file are whole at every moment, after a crash
\* of the machine in the middle of their replacement too (writeCheckpoint,
\* writeAtomicSynced: "Checkpoints are atomic").
LatestWhole == \A f \in DOMAIN named : named[f] # None => named[f].contents # "torn"

\* A checkpoint whose write returned success survives every later crash,
\* whole and under its name (writeExclusiveSynced, syncDirectory).
CompletedSurvives ==
  \A r \in completed : /\ <<r.session, r.sequence>> \in DOMAIN disk
                       /\ disk[<<r.session, r.sequence>>].report = r
                       /\ Readable(<<r.session, r.sequence>>)

\* A running process goes on from the newest completed checkpoint of its
\* session that it could have resumed: torn, vanished and foreign files never
\* make restoreBestCheckpoint fall back further in the session.
NewestResumed ==
  pc # "down" =>
    \A r \in completed : r.session = session /\ Accepts(config, r) => r.sequence <= sequence

\* The clock a runtime resumes and then advances block by block is the clock
\* dutySampleClock recomputes from the block count, so that rounding never
\* makes the next start refuse a checkpoint.
ClockExact ==
  pc = "run" => /\ sampleTime = DutySampleClock(blocks).time
                /\ sampleRemainder = DutySampleClock(blocks).remainder

\* A gated runtime resumes shadow evidence only when every completed gated
\* checkpoint it could have resumed is followed, in its own session, by a
\* file it accepts too, at whatever moment the crash came.
NewestOfSession(c, r) ==
  \A n \in DOMAIN disk : n[1] = r.session /\ n[2] > r.sequence =>
    ~Readable(n) \/ ~Accepts(c, disk[n].report)

GatedFirst ==
  [][\A c \in Configs :
       Start(c) /\ c.mode = "gated" /\ (\E r \in completed : /\ r.config.mode = "gated"
                                                             /\ Accepts(c, r) /\ NewestOfSession(c, r))
         => \E n \in DOMAIN disk : disk[n].report.config.mode = "gated" /\ n = <<session', sequence'>>]_vars

\* Cadence histories and watchdogs are only used under the policy they were
\* learned under, over any series of restarts that change mode, target and
\* policy: "any additional policy difference ... forces cadence relearning".
RelearnedUnderPolicy == pc # "down" => cadence = config.policy

\* A retry always moves on: a leftover file that cannot be resumed costs one
\* refused write, never two (maybeCheckpoint retries with the next sequence).
RefusalsBounded ==
  pc # "down" =>
    refused <= Cardinality({n \in DOMAIN disk :
                              n[1] = session /\ (~Readable(n) \/ ~Accepts(config, disk[n].report))})

\* A whole numbered file is never rewritten, whatever sequence a restart
\* resumes from; only a machine crash may remove or cut it.
Immutable ==
  [][\A n \in DOMAIN disk : Readable(n) /\ crashes' = crashes =>
       n \in DOMAIN disk' /\ disk'[n].report = disk[n].report /\ disk'[n].contents # "torn"]_vars

\* Over crashes between any two steps of a write and over restarts: nothing
\* torn under a fixed name, nothing completed lost, nothing resumed from
\* further back than necessary, counted under another policy, written with a
\* clock the next start would refuse or refused twice for one leftover file.
CrashSafe ==
  /\ TypeOK /\ LatestWhole /\ CompletedSurvives /\ NewestResumed /\ RelearnedUnderPolicy
  /\ ClockExact /\ RefusalsBounded

\* "resume the strongest compatible checkpoint, then write hourly": without
\* failing I/O and crashes no checkpoint write is refused.
HourlyWritten == faults = 0 /\ crashes = 0 => refused = 0

\* "resume the strongest compatible checkpoint": a running process is never
\* behind a completed checkpoint of its session that it could have resumed,
\* with the same evidence and, for a gated runtime, with gated evidence.
NeverBehind ==
  pc # "down" =>
    \A r \in {q \in completed : q.session = session /\ Accepts(config, q)} :
      r.evidence = evidence /\ r.config.mode = config.mode => r.blocks <= blocks
=============================================================================
