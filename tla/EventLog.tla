------------------------------ MODULE EventLog ------------------------------
(***************************************************************************)
(* The append-only command log, src/replay/event_log.cpp: EventLogWriter   *)
(* with its three durability modes, the recovery scan and tail repair,     *)
(* over a file whose bytes pass through the stdio buffer, the page cache   *)
(* and the disk, with process kills, power losses, failed writes and media *)
(* damage.                                                                 *)
(*                                                                         *)
(* A record's frame is four units: two halves of the header (the second    *)
(* holds the payload size), the payload, the checksum.  A write may end    *)
(* between any two units.  A frame whose four units are not its own fails  *)
(* its checksum (FNV-1a collisions are left out).                          *)
(*                                                                         *)
(* A successful fsync makes the whole file durable; a storage that lies    *)
(* about it is outside the log's contract.  Its name is durable once the   *)
(* directory has been synced, or once the file was found after a power     *)
(* loss; a writer that finds a file never syncs its directory.             *)
(*                                                                         *)
(* The callers are those the interface allows: qsl-replay's generate and   *)
(* append-loop end at a failed append, and open a log without looking at   *)
(* its tail; another caller may use the writer again.                      *)
(***************************************************************************)
EXTENDS Integers, Sequences, FiniteSets, SequencesExt

CONSTANTS
  MaxRecords,   \* bound: append calls
  MaxCrashes,   \* bound: kills, power losses and media damage
  Modes         \* subset of {"buffered", "flush", "fsync"}

ASSUME RecordsAssumption == MaxRecords \in Nat

VARIABLES
  exists, nameDurable,  \* the directory entry, and whether it is on disk
  cache, disk, user,    \* file as read, file on disk, stdio buffer
  pc, mode,             \* the call in flight ("none": no writer), mode_
  dirPending,           \* directory_sync_pending_
  next,                 \* the record being, or next to be, appended
  acked,                \* history: records whose append returned true, until
                        \*   a failure their mode does not cover
  kept, durable,        \* history: those promised to survive a kill, a power loss
  buried,               \* history: records appended behind an incomplete frame
  careful,              \* history: no writer was used after a failed call, and
                        \*   no log opened before its torn tail was repaired
  rooted,               \* history: no log was opened whose name was not on disk
  vanished,             \* history: durable records whose file lost its name
  crashes

vars == <<exists, nameDurable, cache, disk, user, pc, mode, dirPending, next,
          acked, kept, durable, buried, careful, rooted, vanished, crashes>>
callers == <<buried, careful, rooted>>
history == <<acked, kept, durable, callers, vanished>>

Zero == [rec |-> 0, part |-> 0]          \* a unit that was never written
Garbled == [rec |-> 0, part |-> 5]       \* a unit of bytes that nobody wrote
HeaderUnits == 2
FrameUnits == 4

\* encode_record
Frame(r) == [i \in 1..FrameUnits |-> [rec |-> r, part |-> i]]

Init ==
  /\ exists = FALSE /\ nameDurable = FALSE
  /\ cache = <<>> /\ disk = <<>> /\ user = <<>>
  /\ pc = "none" /\ mode = "flush" /\ dirPending = FALSE
  /\ next = 1
  /\ acked = {} /\ kept = {} /\ durable = {} /\ buried = {} /\ careful = TRUE
  /\ rooted = TRUE /\ vanished = {}
  /\ crashes = 0

-----------------------------------------------------------------------------
(* Recovery.                                                               *)

\* decode_record at an offset returns this record.
DecodesAt(bytes, o, r) ==
  o + FrameUnits <= Len(bytes) /\ SubSeq(bytes, o + 1, o + FrameUnits) = Frame(r)

Decodes(bytes, o) == \E r \in 1..MaxRecords : DecodesAt(bytes, o, r)

\* recover_log, read_log: the number of records of the longest valid prefix.
ValidCount(bytes) ==
  CHOOSE n \in 0..Len(bytes) :
    /\ \A k \in 0..(n - 1) : Decodes(bytes, FrameUnits * k)
    /\ ~Decodes(bytes, FrameUnits * n)

ValidRecords(bytes) == [k \in 1..ValidCount(bytes) |-> bytes[FrameUnits * k].rec]
ValidUnits(bytes) == FrameUnits * ValidCount(bytes)

\* Where the frame at offset o ends, by the size its header declares: the size
\* of a lost (zeroed) unit is 0, what other bytes declare is not known.
DeclaredEnds(bytes, o) ==
  CASE bytes[o + 2].part = 2 -> {o + FrameUnits}
    [] bytes[o + 2] = Zero -> {o + FrameUnits - 1}
    [] OTHER -> (o + FrameUnits - 1)..(Len(bytes) + 1)

\* Mutant: a checksum failure is a torn tail wherever its frame ends.
classify_tail_AnyEnd(bytes) ==
  LET o == ValidUnits(bytes)
      left == Len(bytes) - o
  IN  IF left = 0 THEN {"CleanTail"}
      ELSE IF left < HeaderUnits THEN {"TornTail"}
      ELSE {IF end <= Len(bytes) THEN "TornTail" ELSE "Corrupt" : end \in DeclaredEnds(bytes, o)}

\* classify_tail: a partial header is torn, and so is a checksum failure whose
\* frame ends at the end of the file; a frame that ends elsewhere is not.
classify_tail(bytes) ==
  LET o == ValidUnits(bytes)
      left == Len(bytes) - o
  IN  IF left = 0 THEN {"CleanTail"}
      ELSE IF left < HeaderUnits THEN {"TornTail"}
      ELSE {IF end = Len(bytes) THEN "TornTail" ELSE "Corrupt" : end \in DeclaredEnds(bytes, o)}

\* repair_log_file of a torn tail: resize_file ...
repair_log_file ==
  /\ cache' = SubSeq(cache, 1, ValidUnits(cache))
  /\ pc' = "repairing"

\* qsl-replay recover --repair: a clean log is left alone, a corrupt one refused.
recover ==
  /\ pc = "none" /\ exists
  /\ "TornTail" \in classify_tail(cache)
  /\ repair_log_file
  /\ UNCHANGED <<exists, nameDurable, disk, user, mode, dirPending, next, history, crashes>>

\* ... then fsync, which may fail.
RepairSync ==
  /\ pc = "repairing"
  /\ pc' = "none"
  /\ disk' \in {disk, cache}
  /\ UNCHANGED <<exists, nameDurable, cache, user, mode, dirPending, next, history, crashes>>

-----------------------------------------------------------------------------
(* EventLogWriter.                                                         *)

\* The constructor: fopen in append mode creates a missing file.
Open(m) ==
  /\ pc = "none"
  /\ dirPending' = ~exists
  /\ exists' = TRUE
  /\ mode' = m
  /\ pc' = IF m = "fsync" /\ ~exists THEN "opening" ELSE "ready"
  /\ careful' = (careful /\ (exists => classify_tail(cache) = {"CleanTail"}))
  /\ rooted' = (rooted /\ (exists => nameDurable))
  /\ UNCHANGED <<nameDurable, cache, disk, user, next, acked, kept, durable, buried, vanished,
                 crashes>>

\* The constructor's sync_parent_directory_once.
OpenSynced ==
  /\ pc = "opening"
  /\ pc' = "ready"
  /\ nameDurable' = TRUE /\ dirPending' = FALSE
  /\ UNCHANGED <<exists, cache, disk, user, mode, next, history, crashes>>

OpenFailed ==
  /\ pc = "opening"
  /\ pc' = "none"
  /\ UNCHANGED <<exists, nameDurable, cache, disk, user, mode, dirPending, next, history, crashes>>

\* append: fwrite into the stdio buffer.
append ==
  /\ pc = "ready"
  /\ next <= MaxRecords
  /\ user' = user \o Frame(next)
  /\ pc' = "appending"
  /\ buried' = IF ValidUnits(cache \o user) = Len(cache \o user) THEN buried
                                                                ELSE buried \cup {next}
  /\ UNCHANGED <<exists, nameDurable, cache, disk, mode, dirPending, next, acked, kept,
                 durable, careful, rooted, vanished, crashes>>

\* write(2): stdio hands over a prefix of its buffer, when it is full in
\* fwrite, or in fflush.
WriteOut(n) ==
  /\ pc \in {"appending", "syncing"}
  /\ n \in 1..Len(user)
  /\ cache' = cache \o SubSeq(user, 1, n)
  /\ user' = SubSeq(user, n + 1, Len(user))
  /\ UNCHANGED <<exists, nameDurable, disk, pc, mode, dirPending, next, history, crashes>>

\* append returns true; the record is promised what the mode promises.
Acknowledge ==
  /\ acked' = acked \cup {next}
  /\ kept' = IF mode = "buffered" THEN kept ELSE kept \cup {next}
  /\ durable' = IF mode = "fsync" THEN durable \cup {next} ELSE durable
  /\ next' = next + 1
  /\ pc' = "ready"

AppendBuffered ==
  /\ pc = "appending" /\ mode = "buffered"
  /\ Acknowledge
  /\ UNCHANGED <<exists, nameDurable, cache, disk, user, mode, dirPending, callers, vanished,
                 crashes>>

\* Mutant: the acknowledgment does not wait for fflush.
AppendFlushed_NoFlush ==
  /\ pc = "appending" /\ mode = "flush"
  /\ Acknowledge
  /\ UNCHANGED <<exists, nameDurable, cache, disk, user, mode, dirPending, callers, vanished,
                 crashes>>

\* fflush has written everything.
AppendFlushed ==
  /\ pc = "appending" /\ mode = "flush"
  /\ user = <<>>
  /\ Acknowledge
  /\ UNCHANGED <<exists, nameDurable, cache, disk, user, mode, dirPending, callers, vanished,
                 crashes>>

\* Mutant: the fsync mode acknowledges after fflush.
AppendSynced_NoFsync ==
  /\ pc = "appending" /\ mode = "fsync"
  /\ user = <<>>
  /\ Acknowledge
  /\ UNCHANGED <<exists, nameDurable, cache, disk, user, mode, dirPending, callers, vanished,
                 crashes>>

\* ... and sync_to_storage.
AppendSynced ==
  /\ pc = "appending" /\ mode = "fsync"
  /\ user = <<>>
  /\ disk' = cache
  /\ Acknowledge
  /\ UNCHANGED <<exists, nameDurable, cache, user, mode, dirPending, callers, vanished,
                 crashes>>

\* fclose writes out what it can of the buffer.
FlushedPart == \E n \in 0..Len(user) : cache' = cache \o SubSeq(user, 1, n)

\* A failed fwrite, fflush or fsync: append or sync returns false.  The
\* process ends, as qsl-replay does, ...
StopAfterFailure ==
  /\ pc \in {"appending", "syncing", "syncDir"}
  /\ next' = IF pc = "appending" THEN next + 1 ELSE next
  /\ pc' = "none" /\ FlushedPart /\ user' = <<>> /\ acked' = kept
  /\ UNCHANGED <<exists, nameDurable, disk, mode, dirPending, kept, durable, callers,
                 vanished, crashes>>

\* ... or uses the writer again; stdio may have dropped what it could not write.
GoOnAfterFailure ==
  /\ pc \in {"appending", "syncing", "syncDir"}
  /\ next' = IF pc = "appending" THEN next + 1 ELSE next
  /\ pc' = "ready"
  /\ \/ UNCHANGED <<user, acked>>
     \/ user' = <<>> /\ acked' = kept
  /\ careful' = FALSE
  /\ UNCHANGED <<exists, nameDurable, cache, disk, mode, dirPending, kept, durable, buried,
                 rooted, vanished, crashes>>

\* The destructor, which reports no failure.
Close ==
  /\ pc = "ready"
  /\ pc' = "none" /\ FlushedPart /\ user' = <<>> /\ acked' = kept
  /\ UNCHANGED <<exists, nameDurable, disk, mode, dirPending, next, kept, durable, callers,
                 vanished, crashes>>

\* sync: fflush, ...
sync ==
  /\ pc = "ready"
  /\ pc' = "syncing"
  /\ UNCHANGED <<exists, nameDurable, cache, disk, user, mode, dirPending, next, history, crashes>>

\* ... sync_to_storage, ...
SyncData ==
  /\ pc = "syncing"
  /\ user = <<>>
  /\ disk' = cache
  /\ pc' = "syncDir"
  /\ UNCHANGED <<exists, nameDurable, cache, user, mode, dirPending, next, history, crashes>>

\* ... sync_parent_directory_once; true promises every acknowledged record.
SyncDone ==
  /\ pc = "syncDir"
  /\ nameDurable' = (nameDurable \/ dirPending)
  /\ dirPending' = FALSE
  /\ kept' = acked
  /\ durable' = acked
  /\ pc' = "ready"
  /\ UNCHANGED <<exists, cache, disk, user, mode, next, acked, callers, vanished, crashes>>

-----------------------------------------------------------------------------
(* Failures.                                                               *)

\* The interrupted append is not retried under the same number.
AfterCrash ==
  /\ crashes < MaxCrashes
  /\ crashes' = crashes + 1
  /\ pc' = "none"
  /\ user' = <<>>
  /\ next' = IF pc = "appending" THEN next + 1 ELSE next

Kill ==
  /\ pc # "none"
  /\ AfterCrash
  /\ acked' = kept
  /\ UNCHANGED <<exists, nameDurable, cache, disk, mode, dirPending, kept, durable, callers,
                 vanished>>

\* What a power loss may leave of the file: the bytes on disk, or those the
\* two agree on and any part of the rest, one unit of which may be lost.
Survivors ==
  LET agreed == Len(LongestCommonPrefix({cache, disk}))
      cut == {SubSeq(cache, 1, n) : n \in agreed..Len(cache)}
  IN  {disk} \cup cut
      \cup UNION {{[t EXCEPT ![i] = Zero] : i \in (agreed + 1)..Len(t)} : t \in cut}

PowerLoss ==
  /\ exists
  /\ AfterCrash
  /\ \/ cache' \in Survivors /\ exists' = TRUE /\ UNCHANGED vanished
     \/ /\ ~nameDurable /\ cache' = <<>> /\ exists' = FALSE
        /\ vanished' = vanished \cup durable
  /\ disk' = cache'
  /\ nameDurable' = exists'
  /\ acked' = durable /\ kept' = durable
  /\ UNCHANGED <<mode, dirPending, durable, callers>>

\* A unit of the file at rest is lost, or turns into something else.  The log
\* promises no record after that, but repair must not make it worse.
MediaDamage ==
  /\ pc = "none" /\ cache = disk
  /\ crashes < MaxCrashes /\ crashes' = crashes + 1
  /\ \E i \in DOMAIN cache, u \in {Zero, Garbled} : cache' = [cache EXCEPT ![i] = u]
  /\ disk' = cache'
  /\ acked' = {} /\ kept' = {} /\ durable' = {}
  /\ UNCHANGED <<exists, nameDurable, user, pc, mode, dirPending, next, callers, vanished>>

-----------------------------------------------------------------------------
Next ==
  \/ \E m \in Modes : Open(m)
  \/ OpenSynced \/ OpenFailed
  \/ append \/ AppendBuffered \/ AppendFlushed \/ AppendSynced
  \/ \E n \in 1..Len(user) : WriteOut(n)
  \/ StopAfterFailure \/ GoOnAfterFailure
  \/ sync \/ SyncData \/ SyncDone
  \/ Close
  \/ recover \/ RepairSync
  \/ Kill \/ PowerLoss \/ MediaDamage

Spec == Init /\ [][Next]_vars

-----------------------------------------------------------------------------
(* Properties.                                                             *)

\* The contract of the durability modes: whatever was killed, cut off or
\* repaired since, an acknowledged append (FlushOnAppend: until a power loss;
\* FsyncOnAppend, or followed by a successful sync: always) is in the valid
\* prefix that recover_log returns, so that repair never removes it - unless it
\* was made behind an incomplete frame, which takes a caller that goes on after
\* a failed call or opens a log whose tail it has not repaired, or its whole
\* file is gone.
AckedRecoverable ==
  /\ kept \ (buried \cup vanished) \subseteq Range(ValidRecords(cache))
  /\ careful => buried = {}

\* What FsyncOnAppend and sync() promise is on the disk before true is
\* returned: a power loss at any step from there on, one inside repair_log_file
\* included, leaves it readable where the file is found.  The file is found, and
\* nothing of it vanishes, as long as no writer opens a log that was created
\* without a successful directory sync.
DurableOnDisk ==
  /\ durable \ (buried \cup vanished) \subseteq Range(ValidRecords(disk))
  /\ rooted => vanished = {} /\ (durable # {} => nameDurable)

\* docs/persistence.md:79-81 without that condition: an append acknowledged
\* under FsyncOnAppend, or covered by a successful sync(), is in the valid
\* prefix.  The code syncs the directory of the logs it creates only.
FsyncSurvives == durable \ buried \subseteq Range(ValidRecords(cache))

\* The file holds the complete frame of this record, at whatever offset.
Holds(bytes, r) == \E o \in 0..Len(bytes) : DecodesAt(bytes, o, r)

RepairKeepsRecords == \A r \in (1..MaxRecords) \ buried : Holds(cache, r) => Holds(cache', r)

\* The size field of the frame at which the scan stops is garbled.
SizeGarbled ==
  /\ ValidUnits(cache) + HeaderUnits <= Len(cache)
  /\ cache[ValidUnits(cache) + HeaderUnits] = Garbled

\* Repair discards an incomplete tail only: with units lost or garbled anywhere
\* in the file but in the size field at which the scan stops, no complete record
\* behind the damage is cut off.  (A garbled size that ends its frame exactly at
\* the end of the file is taken for a torn tail, and what it spans discarded.)
RepairDropsNoRecord == [][recover /\ ~SizeGarbled => RepairKeepsRecords]_vars
=============================================================================
