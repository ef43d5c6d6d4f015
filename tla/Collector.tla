----------------------------- MODULE Collector ------------------------------
(***************************************************************************)
(* rtlamr-collect (cmd/rtlamr-collect): main reads one message after       *)
(* another, expands it to points, drops those the database already has and *)
(* writes the rest in one batch.  An IDM message carries the last          *)
(* intervals of its meter; the meter map, kept in a file, remembers the    *)
(* newest interval so that only newer ones are written.  Unchanged R900    *)
(* readings are dropped for a while by the coalescer, which lives in       *)
(* memory.  A failed write ends the process.                               *)
(*                                                                         *)
(* One IDM and one R900 meter; meters do not interact.  Interval k starts  *)
(* at k * Period of the true clock; messages carry its number modulo       *)
(* Indices, and their receive time is off by at most Jitter.               *)
(***************************************************************************)
EXTENDS Integers, Sequences, FiniteSets

CONSTANTS
  Indices,    \* values of the interval counter: 256
  Window,     \* intervals in a message: 47 for IDM
  Period,     \* length of an interval: 5 minutes
  Threshold,  \* 30 seconds
  Jitter,     \* error of the receive time
  Heartbeat,  \* COLLECT_INFLUXDB_UNCHANGED_INTERVAL, 0 disables coalescing
  Readings,   \* R900 field values
  MaxClock, MaxUnsaved,   \* bounds on the clock and on failed updates (model only)
  None

CollectorAssumption ==
  /\ Window \in Nat \ {0} /\ Indices \in Nat /\ Window < Indices
  /\ Period \in Nat \ {0} /\ Jitter \in Nat /\ Threshold \in Nat
  /\ 2 * Jitter < Threshold /\ Threshold < Period
  /\ Heartbeat \in Nat /\ MaxUnsaved \in Nat /\ MaxClock \in Nat /\ Window * Period <= MaxClock
  /\ None \notin [fields : Readings, time : Int] \cup [time : Int, interval : 0 .. (Indices - 1)]

VARIABLES
  clock,
  pc,         \* "read" a line or "write" its batch
  meters,     \* the IDM meter's entry in meters.db: [time, interval]
  coalesced,  \* the R900 meter's entry in the coalescer: [fields, time]
  batch,      \* intervals about to be written
  reading,    \* R900 point about to be written
  written,    \* how often each interval is in the database
  lost,       \* intervals of batches that were not written (history)
  offered,    \* intervals some message contained (history)
  stored,     \* the R900 meter's last point in the database
  heard,      \* the last R900 message [fields, time], None after a restart
  unsaved     \* failed updates of the meter map (history)

vars == <<clock, pc, meters, coalesced, batch, reading, written, lost, offered, stored, heard,
          unsaved>>

Intervals == 0 .. (MaxClock \div Period)

Init ==
  /\ clock = Window * Period
  /\ pc = "read" /\ meters = None /\ coalesced = None
  /\ batch = {} /\ reading = None
  /\ written = [k \in Intervals |-> 0] /\ lost = {} /\ offered = {}
  /\ stored = None /\ heard = None /\ unsaved = 0

Tick ==
  /\ pc = "read" /\ clock < MaxClock
  /\ clock' = clock + 1
  /\ UNCHANGED <<pc, meters, coalesced, batch, reading, written, lost, offered, stored, heard, unsaved>>

-----------------------------------------------------------------------------
Current == clock \div Period

Index(k, idx) == (k - idx) % Indices

\* A bug: an interval is told from an older one by its index alone.
KnownByIndex(k, idx, start) == meters # None /\ Index(k, idx) = meters.interval

(* The interval is the newest one already stored: its counter is the same  *)
(* and it began at the same time, up to the threshold.                     *)
Known(k, idx, start) ==
  /\ meters # None
  /\ Index(k, idx) = meters.interval
  /\ meters.time - (start - idx * Period) \in (1 - Threshold) .. (Threshold - 1)

\* Positions in the message up to the first interval that is known.
Unknown(k, start) ==
  {idx \in 0 .. (Window - 1) : \A i \in 0 .. idx : ~Known(k, i, start)}

(* MeterMap.Update: the file is written, and with it the map in memory; on *)
(* failure both stay as they were, and AddPoints ignores the error.        *)
UpdateMeters(start) ==
  \/ meters' = [time |-> start, interval |-> Index(Current, 0)] /\ UNCHANGED unsaved
  \/ unsaved < MaxUnsaved /\ unsaved' = unsaved + 1 /\ UNCHANGED meters

(* IDM.AddPoints: the meter map is updated before the points are written.  *)
ReceiveIDM(error) ==
  LET start == Current * Period + error IN
  /\ pc = "read"
  /\ UpdateMeters(start)
  /\ batch' = {Current - idx : idx \in Unknown(Current, start)}
  /\ offered' = offered \cup {Current - idx : idx \in 0 .. (Window - 1)}
  /\ pc' = "write"
  /\ UNCHANGED <<clock, coalesced, reading, written, lost, stored, heard>>

(* ShouldEmit is false: unchanged, the time advanced, and the heartbeat is *)
(* not due.                                                                *)
Suppressed(fields, t) ==
  /\ Heartbeat > 0 /\ coalesced # None
  /\ t > coalesced.time /\ fields = coalesced.fields
  /\ t - coalesced.time < Heartbeat

ReceiveR900(fields, error) ==
  LET point == [fields |-> fields, time |-> clock + error] IN
  /\ pc = "read"
  /\ heard' = point
  /\ IF Suppressed(fields, point.time)
       THEN UNCHANGED <<coalesced, reading, pc>>
       ELSE /\ coalesced' = IF Heartbeat > 0 THEN point ELSE None
            /\ reading' = point /\ pc' = "write"
  /\ UNCHANGED <<clock, meters, batch, written, lost, offered, stored, unsaved>>

-----------------------------------------------------------------------------
WriteBatch ==
  /\ pc = "write"
  /\ written' = [k \in Intervals |-> IF k \in batch THEN written[k] + 1 ELSE written[k]]
  /\ stored' = IF reading = None THEN stored ELSE reading
  /\ pc' = "read" /\ batch' = {} /\ reading' = None
  /\ UNCHANGED <<clock, meters, coalesced, lost, offered, heard, unsaved>>

(* The write fails, which ends the process, or the process is killed; the  *)
(* next one starts with the meter map of the file and an empty coalescer.  *)
Restart ==
  /\ lost' = lost \cup batch
  /\ pc' = "read" /\ batch' = {} /\ reading' = None
  /\ coalesced' = None /\ heard' = None
  /\ UNCHANGED <<clock, meters, written, offered, stored, unsaved>>

Next ==
  \/ Tick
  \/ \E error \in -Jitter .. Jitter :
       ReceiveIDM(error) \/ \E fields \in Readings : ReceiveR900(fields, error)
  \/ WriteBatch \/ Restart

Spec == Init /\ [][Next]_vars
-----------------------------------------------------------------------------
Points == [fields : Readings, time : Int] \cup {None}

TypeOK ==
  /\ clock \in 0 .. MaxClock /\ pc \in {"read", "write"}
  /\ meters \in [time : Int, interval : 0 .. (Indices - 1)] \cup {None}
  /\ coalesced \in Points /\ reading \in Points /\ stored \in Points /\ heard \in Points
  /\ batch \subseteq Intervals /\ lost \subseteq Intervals /\ offered \subseteq Intervals
  /\ written \in [Intervals -> Nat] /\ unsaved \in 0 .. MaxUnsaved

(* "MeterMap keeps meter state to avoid sending duplicate data to the      *)
(* database": no interval is written twice, across restarts, however long  *)
(* the meter was silent and although its counter repeats, except after an  *)
(* update of the map that failed.                                          *)
NoDuplicates == \A k \in Intervals : written[k] <= 1 + unsaved

(* Every interval a message contained is in the database, unless the write *)
(* of the batch it was in failed: the repeating counter never hides one.   *)
NothingSkipped == pc = "read" => \A k \in offered : written[k] > 0 \/ k \in lost

(* The database has the current R900 reading, and its last point is never  *)
(* older than the heartbeat when a message arrives.                        *)
ReadingCurrent ==
  pc = "read" /\ heard # None =>
    /\ stored # None /\ stored.fields = heard.fields
    /\ heard.time = stored.time \/ heard.time - stored.time \in 1 .. (Heartbeat - 1)

(* What reaches the database.                                              *)
CollectedOnce == TypeOK /\ NoDuplicates /\ NothingSkipped /\ ReadingCurrent
=============================================================================
