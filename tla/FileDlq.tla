------------------------------ MODULE FileDlq ------------------------------
(***************************************************************************)
(* infrastructure/dlq/file_dlq.py: the dead letter queue that keeps what   *)
(* could not be sent in memory and rewrites all of it to one file at every *)
(* add_batch, across crashes and restarts of the process.                  *)
(*                                                                         *)
(* Entries are numbered in the order in which they arrive.  add_batch      *)
(* holds _lock throughout, but the process can end at any of its steps:    *)
(* one for each entry appended, one for each halving of a queue that is    *)
(* too large, and the truncation of the file by Path.write_text, after     *)
(* which a crash leaves a prefix of the lines and perhaps a torn one.      *)
(***************************************************************************)
EXTENDS Lists

CONSTANTS
    MaxEntries,  \* bound: the number of entries that arrive
    MaxSizes,    \* the values config max_size may have, one per start
    MaxBytes,    \* config max_file_size_mb, in lines of a plain entry
    Kinds,       \* the kinds of entry that occur, see LineBytes
    Faults       \* whether write_text may be cut short by a crash, and
                 \* opening, reading and writing the file may raise OSError

AllKinds == {"plain",          \* one line of the file
             "large",          \* a line over max_file_size_mb by itself
             "unserializable", \* json.dumps raises: an object in its context
             "split"}          \* its line holds a separator of str.splitlines

ASSUME MaxEntriesAssumption == MaxEntries \in Nat
ASSUME MaxSizesAssumption == MaxSizes \subseteq Nat \ {0}
ASSUME MaxBytesAssumption == MaxBytes \in Nat \ {0}
ASSUME KindsAssumption == Kinds \subseteq AllKinds /\ Faults \in BOOLEAN

Entries == 1..MaxEntries

VARIABLES
    kind,      \* the kind of each entry
    process,   \* down, broken (the constructor raised), idle, adding, writing
    maxSize,   \* self._max_size
    queue,     \* self._queue
    dropped,   \* self._dropped_entries
    batchEnd,  \* the last entry of the batch that is being added
    file,      \* the lines of the file, by entry; a missing file has none
    tail,      \* what follows them: nothing, a torn line, half a character
    arrived,   \* history: the number of entries that have arrived
    taken,     \* history: entries added or loaded since the start
    cleared,   \* history: entries cleared since the start
    persisted, \* history: in the file when an add_batch returned, and not
               \* cleared since
    evicted,   \* history: left out of the queue for its size or the file's
    lost       \* history: in a file that a write truncated and did not
               \* complete, or that a start could not read

counts == <<dropped, taken, cleared>>
history == <<persisted, evicted, lost>>
vars == <<kind, process, maxSize, queue, batchEnd, file, tail, arrived, counts, history>>

Elements(q) == Seqs!ToSet(q)
Of(S) == {e \in Entries : kind[e] \in S}
Newest(q, n) == IF Len(q) <= n THEN q ELSE SubSeq(q, Len(q) - n + 1, Len(q))
LineBytes == [e \in Entries |-> IF kind[e] = "large" THEN MaxBytes + 1 ELSE 1]
Bytes(lines) == TotalOf(LineBytes, Elements(lines))

Init ==
    /\ kind \in [Entries -> Kinds]
    /\ process = "down"
    /\ maxSize \in MaxSizes
    /\ queue = <<>> /\ dropped = 0 /\ batchEnd = 0
    /\ file = <<>> /\ tail = "none"
    /\ arrived = 0 /\ taken = 0 /\ cleared = 0
    /\ persisted = {} /\ evicted = {} /\ lost = {}

(* The entries that a start can read from the file.  An entry whose line   *)
(* splits in two is not valid JSON, and skipped like a torn line.  A file  *)
(* cut inside a character is not UTF-8 and cannot be read at all.          *)
Readable ==
    IF tail = "half_character" THEN {} ELSE Elements(file) \ Of({"split"})

-----------------------------------------------------------------------------
(* The constructor and load_from_disk.                                     *)

(* Mutant: the oldest lines are kept. *)
LoadedOldest(lines, n) == SubSeq(lines, 1, IF Len(lines) < n THEN Len(lines) ELSE n)

(* loaded[-max_size:] *)
Loaded(lines, n) == Newest(lines, n)

(* Mutant: the excess is counted after the cut. *)
ExcessOfKept(lines, n) ==
    LET kept == Loaded(lines, n) IN IF Len(kept) > n THEN Len(kept) - n ELSE 0

(* What dropped_entries is raised by. *)
Excess(lines, n) == IF Len(lines) > n THEN Len(lines) - n ELSE 0

(* The UnicodeDecodeError of a file that is not UTF-8 is not an OSError    *)
(* and leaves the constructor.                                             *)
Start ==
    /\ process = "down"
    /\ maxSize' \in MaxSizes
    /\ IF tail = "half_character"
       THEN /\ process' = "broken"
            /\ UNCHANGED <<queue, counts, evicted, lost>>
       ELSE \E valid \in Sublists(file) :
            /\ Elements(valid) = Readable
            /\ process' = "idle"
            /\ queue' = Loaded(valid, maxSize')
            /\ dropped' = Excess(valid, maxSize')
            /\ taken' = Len(valid) /\ cleared' = 0
            /\ evicted' = (evicted \cup Readable) \ Elements(queue')
            /\ lost' = lost \ Readable
    /\ UNCHANGED <<kind, batchEnd, file, tail, arrived, persisted>>

(* The file cannot be read: the queue starts empty, and the next add_batch *)
(* will overwrite what the file holds.                                     *)
StartUnreadable ==
    /\ process = "down" /\ Faults
    /\ file # <<>> \/ tail # "none"
    /\ maxSize' \in MaxSizes
    /\ process' = "idle"
    /\ queue' = <<>>
    /\ dropped' = 0 /\ taken' = 0 /\ cleared' = 0
    /\ lost' = lost \cup Elements(file)
    /\ UNCHANGED <<kind, batchEnd, file, tail, arrived, persisted, evicted>>

-----------------------------------------------------------------------------
(* add_batch                                                               *)

(* add_batch is called with the next entries. *)
AddBatch ==
    /\ process = "idle"
    /\ process' = "adding"
    /\ batchEnd' \in arrived + 1..MaxEntries
    /\ UNCHANGED <<kind, maxSize, queue, file, tail, arrived, counts, history>>

(* Mutants: an entry too many is let in; the entry goes in front.          *)
PushedLate(e) ==
    IF Len(queue) > maxSize
    THEN queue' = Append(Tail(queue), e) /\ dropped' = dropped + 1
    ELSE queue' = Append(queue, e) /\ dropped' = dropped
PushedInFront(e) ==
    IF Len(queue) >= maxSize
    THEN queue' = <<e>> \o Tail(queue) /\ dropped' = dropped + 1
    ELSE queue' = <<e>> \o queue /\ dropped' = dropped

(* A full queue loses its oldest entry. *)
Pushed(e) ==
    IF Len(queue) >= maxSize
    THEN queue' = Append(Tail(queue), e) /\ dropped' = dropped + 1
    ELSE queue' = Append(queue, e) /\ dropped' = dropped

(* One turn of the loop over the batch. *)
AddNext ==
    /\ process = "adding" /\ arrived < batchEnd
    /\ arrived' = arrived + 1 /\ taken' = taken + 1
    /\ Pushed(arrived')
    /\ evicted' = evicted \cup (Elements(queue) \ Elements(queue'))
    /\ UNCHANGED <<kind, process, maxSize, batchEnd, file, tail, cleared, persisted, lost>>

(* The batch is in the queue, and _persist_queue_to_disk turns all of it   *)
(* into lines.                                                             *)
Persisting == process = "adding" /\ arrived = batchEnd
Serializable == Elements(queue) \cap Of({"unserializable"}) = {}

(* Mutants: the half that stays is counted; what leaves is taken off.      *)
HalvedCountKept(half) ==
    queue' = Newest(queue, half) /\ dropped' = dropped + half
HalvedCountDown(half) ==
    queue' = Newest(queue, half) /\ dropped' = dropped + half - Len(queue)

(* Only the newer half stays, and the rest is counted. *)
Halved(half) ==
    queue' = Newest(queue, half) /\ dropped' = dropped + Len(queue) - half

(* The content is too large: _persist_queue_to_disk calls itself with the  *)
(* newer half of the queue.                                                *)
Halve ==
    /\ Persisting /\ Serializable
    /\ Bytes(queue) > MaxBytes /\ Len(queue) > 1
    /\ Halved(Len(queue) \div 2)
    /\ evicted' = evicted \cup (Elements(queue) \ Elements(queue'))
    /\ UNCHANGED <<kind, process, maxSize, batchEnd, file, tail, arrived, taken, cleared,
                   persisted, lost>>

(* Mutant: the file is opened before the lines are made. *)
PersistRaisesTruncated ==
    /\ Persisting
    /\ ~Serializable
    /\ process' = "idle"
    /\ file' = <<>> /\ tail' = "none"
    /\ UNCHANGED <<kind, maxSize, queue, batchEnd, arrived, counts, history>>

(* add_batch raises before the file is touched: json.dumps does; or the    *)
(* recursion gets too deep, as half of one entry is one entry; or the file *)
(* cannot be opened.                                                       *)
PersistRaises ==
    /\ Persisting
    /\ \/ ~Serializable
       \/ Bytes(queue) > MaxBytes /\ Len(queue) = 1
       \/ Bytes(queue) <= MaxBytes /\ Faults
    /\ process' = "idle"
    /\ UNCHANGED <<kind, maxSize, queue, batchEnd, file, tail, arrived, counts, history>>

(* write_text opens the file, which truncates it. *)
Truncate ==
    /\ Persisting /\ Serializable
    /\ Bytes(queue) <= MaxBytes
    /\ process' = "writing"
    /\ file' = <<>> /\ tail' = "none"
    /\ UNCHANGED <<kind, maxSize, queue, batchEnd, arrived, counts, history>>

(* write_text is done and add_batch returns. *)
Written ==
    /\ process = "writing"
    /\ process' = "idle"
    /\ file' = queue
    /\ persisted' = persisted \cup Elements(queue)
    /\ lost' = lost \ Elements(queue)
    /\ UNCHANGED <<kind, maxSize, queue, batchEnd, tail, arrived, counts, evicted>>

(* write_text is cut short: the truncated file keeps some of the lines. *)
Torn ==
    \E n \in 0..Len(queue) :
        /\ file' = SubSeq(queue, 1, n)
        /\ tail' \in IF n = Len(queue) THEN {"none"}
                     ELSE {"none", "torn", "half_character"}
        /\ lost' = lost \cup (Elements(queue) \ Readable')

(* write_text raises OSError, and so does add_batch. *)
WriteFails ==
    /\ process = "writing" /\ Faults
    /\ process' = "idle"
    /\ UNCHANGED <<kind, maxSize, queue, batchEnd, arrived, counts, persisted, evicted>>
    /\ Torn

(* clear; an unlink that fails is only reported. *)
Clear ==
    /\ process = "idle"
    /\ queue' = <<>>
    /\ cleared' = cleared + Len(queue)
    /\ persisted' = {}
    /\ \/ file' = <<>> /\ tail' = "none"
       \/ Faults /\ UNCHANGED <<file, tail>>
    /\ UNCHANGED <<kind, process, maxSize, batchEnd, dropped, arrived, taken, evicted, lost>>

-----------------------------------------------------------------------------
(* The process ends: between two calls, before the file is truncated, or   *)
(* inside write_text.                                                      *)
Stop ==
    /\ process' = "down"
    /\ queue' = <<>>
    /\ UNCHANGED <<kind, maxSize, batchEnd, arrived, counts, persisted, evicted>>

Exit ==
    /\ process = "idle" \/ (process = "adding" /\ Faults)
    /\ Stop
    /\ UNCHANGED <<file, tail, lost>>

Crash ==
    /\ process = "writing" /\ Faults
    /\ Stop
    /\ Torn

Next ==
    \/ Start \/ StartUnreadable
    \/ AddBatch \/ AddNext \/ Halve \/ PersistRaises \/ Truncate
    \/ Written \/ WriteFails
    \/ Clear
    \/ Exit \/ Crash

Spec == Init /\ [][Next]_vars

-----------------------------------------------------------------------------
Up == process \in {"idle", "adding", "writing"}

(* What a start would find: the file, or what is being written to it. *)
Stored == IF process = "writing" THEN Elements(queue) ELSE Readable

(* The types of the queue, the file and the history. *)
TypeOK ==
    /\ kind \in [Entries -> Kinds]
    /\ process \in {"down", "broken", "idle", "adding", "writing"}
    /\ maxSize \in MaxSizes
    /\ queue \in Seq(Entries) /\ file \in Seq(Entries)
    /\ tail \in {"none", "torn", "half_character"}
    /\ arrived \in 0..MaxEntries /\ batchEnd \in 0..MaxEntries
    /\ dropped \in Nat /\ taken \in Nat /\ cleared \in Nat
    /\ persisted \cup evicted \cup lost \subseteq 1..arrived

(* Memory and file are bounded (ARCHITECTURE.md:26), through every mixture *)
(* of batches, halvings, failed persists and reloads with a new max_size.  *)
StorageBounded == Len(queue) <= maxSize /\ Bytes(file) <= MaxBytes

(* dropped_entries counts what left the queue unasked, exactly: each entry *)
(* taken since the start is in the queue, was cleared, or was counted, by  *)
(* the pop of a full queue, the cut of what was loaded, or the halvings    *)
(* for the file's size, which all count by themselves.                     *)
DropsCounted == Up => taken = Len(queue) + dropped + cleared

(* Neither eviction nor a reload reorders or doubles entries.              *)
ArrivalOrder ==
    \A q \in {queue, file} : \A i, j \in DOMAIN q : i < j => q[i] < q[j]

(* An entry that stood in the file when an add_batch returned stays there, *)
(* whatever later calls raise, until it is cleared or, as the oldest, left *)
(* out for size; or else it was lost in one of the two ways this queue can *)
(* lose what it had on disk: a later write truncated the file and was cut  *)
(* short (file_dlq.py:170), or a start could not read the file, which the  *)
(* next write then replaces.  An entry whose line splits is never read     *)
(* again.                                                                  *)
PersistedEntriesSurvive ==
    \A e \in persisted \ Of({"split"}) :
        \/ e \in Stored \cup lost
        \/ e \in evicted /\ \A x \in Stored : x > e

(* ARCHITECTURE.md:26, "drop-oldest policy": among the entries that can be *)
(* stored, the queue never lacks one that is newer than one it holds.      *)
DropsOldestFirst ==
    process = "idle"
       => \A e \in Of({"plain"}) \cap 1..arrived :
             (\E x \in Elements(queue) : x < e) => e \in Elements(queue)
=============================================================================
