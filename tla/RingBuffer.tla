----------------------------- MODULE RingBuffer -----------------------------
(***************************************************************************)
(* The shared-memory ring buffer through which a DanceGraph process hands  *)
(* signals to another one (core/lib/ipc/ringbuffer.cpp).  One writer and   *)
(* one reader share num_entries entries, a "read page", a "write page" and *)
(* a named semaphore; every access to shared memory is a step of its own,  *)
(* so the two processes interleave the way the hardware lets them.         *)
(*                                                                         *)
(* An entry holds a status and NumWords words.  Word 1 is the write_size   *)
(* field of the header, the others have room for the payload; each word    *)
(* remembers which call of write() stored it (calls are numbered from 1, 0 *)
(* is the content of fresh memory).  The size stored counts the header,    *)
(* and read() copies that many words from where the payload begins: so it  *)
(* also returns the HeaderWords words that lie behind the payload.  A      *)
(* payload fits its entry, so copy_to does not fail and the size checks    *)
(* pass.                                                                   *)
(***************************************************************************)
EXTENDS Integers, FiniteSets

CONSTANTS
  NumEntries,   \* num_entries of both constructors
  NumWords,     \* granularity at which a copy of an entry can be torn
  PayloadSize,  \* per call of write(): words of its payload
  MaxWrites     \* bound: calls of write() explored

ASSUME RingAssumption ==
  /\ NumEntries \in Nat /\ NumEntries >= 2
  /\ NumWords \in Nat /\ NumWords >= 2
  /\ MaxWrites \in Nat /\ MaxWrites >= 1
  /\ PayloadSize \in [1 .. MaxWrites -> 0 .. NumWords - 1]

Entries == 0 .. NumEntries - 1
Words == 1 .. NumWords
HeaderWords == 2    \* sizeof(buffer_entry): write_status and write_size
Reach == 1 .. NumWords + HeaderWords
Writes == 0 .. MaxWrites
Procs == {"W", "R"}

\* BufferWriteStatus, and the zero of memory nobody has written.
BUFFER_END == -1
WRITING == -2
READY == -3
FRESH == 0
Statuses == {BUFFER_END, WRITING, READY, FRESH}

NotReading == -1

VARIABLES
  sem,        \* value of the named semaphore
  status,     \* write_status of each entry
  cell,       \* words of each entry
  readPage,   \* the reader's page: the entry being read, or NotReading
  writePage,  \* the writer's page: the entry last written
  pc,         \* next statement of each process
  seen,       \* what DNSemaphore::set read before it decides to post
  writeOffset, written, writeWord,          \* the writer's locals
  readOffset, initialized, readWord, memto, \* the reader's locals
  raised,     \* history: the set() of the writer's constructor has posted
  returned,   \* history: a read() has succeeded
  newest,     \* history: the newest write that was READY when the reader
              \* looked up its starting entry
  overrun     \* history: the writer reused the entry being read

shared == <<sem, status, cell, readPage, writePage>>
writerVars == <<writeOffset, written, writeWord>>
readerVars == <<readOffset, initialized, readWord, memto>>
history == <<raised, returned, newest, overrun>>
vars == <<shared, pc, seen, writerVars, readerVars, history>>

\* Variants of some definitions, each the slip its name says, precede the
\* definition they stand in for: every property below fails under one.
BufferAddNoWrap(offset, n) == offset + n
BufferAddOneMore(offset, n) == (offset + n + 1) % NumEntries

BufferAdd(offset, n) == (offset + n) % NumEntries

\* Where the writer puts the tail; the variant advances write_offset first.
TailAfterAdvance(offset) == BufferAdd(offset, 2)
TailEntry(offset) == BufferAdd(offset, 1)

\* write_entry_size, which is what the size field of the entry holds.
EntrySize(w) == HeaderWords + PayloadSize[w]

\* The words of an entry that are of write() w: its size and its payload.
Stored(w) == 1 .. 1 + PayloadSize[w]

\* The last word write() w stores; the variant stops one short of the payload.
LastWordShort(w) == PayloadSize[w]
LastWord(w) == 1 + PayloadSize[w]

\* The word of memory at place k of an entry, or beyond its last: the header of
\* the entry that follows, or after all of them the read page.
MemoryAt(i, k) ==
  LET pageSize == IF readPage = NotReading THEN -1 ELSE NumWords + 1
      after == IF i = NumEntries - 1 THEN <<readPage, pageSize>>
                                     ELSE <<status[i + 1], cell[i + 1][1]>>
  IN  IF k \in Words THEN cell[i][k] ELSE after[k - NumWords]

Goto(p, from, to) ==
  /\ pc[p] = from
  /\ pc' = [pc EXCEPT ![p] = to]

-----------------------------------------------------------------------------
(* DNSemaphore.  set() is sem_getvalue followed by a sem_post when the     *)
(* value was 0: two steps, taken by whoever calls it.                      *)

SemWait(p, from, to) ==
  /\ Goto(p, from, to)
  /\ sem > 0
  /\ sem' = sem - 1
  /\ UNCHANGED <<status, cell, readPage, writePage, seen,
                 writerVars, readerVars, history>>

SemGetValue(p, from, to) ==
  /\ Goto(p, from, to)
  /\ seen' = [seen EXCEPT ![p] = sem]
  /\ UNCHANGED <<shared, writerVars, readerVars, history>>

PostInverted(p) == IF seen[p] = 0 THEN sem ELSE sem + 1
Post(p) == IF seen[p] = 0 THEN sem + 1 ELSE sem

SemPost(p, from, to) ==
  /\ Goto(p, from, to)
  /\ sem' = Post(p)
  /\ UNCHANGED <<status, cell, readPage, writePage, seen,
                 writerVars, readerVars, history>>

-----------------------------------------------------------------------------
(* The writer: its constructor, then write() again and again.              *)

WConstruct ==
  /\ Goto("W", "new", "ctorSet")
  /\ status' = [status EXCEPT ![writeOffset] = BUFFER_END]
  /\ UNCHANGED <<sem, cell, readPage, writePage, seen,
                 writerVars, readerVars, history>>

\* The end of its set().
WSet ==
  /\ Goto("W", "ctorPost", "idle")
  /\ sem' = Post("W")
  /\ raised' = (sem' # sem)
  /\ UNCHANGED <<status, cell, readPage, writePage, seen,
                 writerVars, readerVars, returned, newest, overrun>>

\* A call of write() whose size is accepted.
WCall ==
  /\ Goto("W", "idle", "wait")
  /\ written < MaxWrites
  /\ written' = written + 1
  /\ UNCHANGED <<shared, seen, writeOffset, writeWord, readerVars, history>>

\* The reader is between its status check and the end of its copy.
Copying == pc["R"] \in {"size", "wait", "page", "set", "post", "copy"}

\* The writer reads the read page here, and only logs it when it names the
\* entry about to be overwritten.
WMark ==
  /\ Goto("W", "mark", "page")
  /\ status' = [status EXCEPT ![writeOffset] = WRITING]
  /\ overrun' = (overrun \/ (Copying /\ readOffset = writeOffset))
  /\ UNCHANGED <<sem, cell, readPage, writePage, seen,
                 writerVars, readerVars, raised, returned, newest>>

WPage ==
  /\ Goto("W", "page", "set")
  /\ writePage' = writeOffset
  /\ UNCHANGED <<sem, status, cell, readPage, seen,
                 writerVars, readerVars, history>>

\* set_size, then copy_to, word by word.
WCopy ==
  /\ Goto("W", "copy",
          IF writeWord = LastWord(written) THEN "ready" ELSE "copy")
  /\ cell' = [cell EXCEPT ![writeOffset][writeWord] = written]
  /\ writeWord' = IF writeWord = LastWord(written) THEN 1 ELSE writeWord + 1
  /\ UNCHANGED <<sem, status, readPage, writePage, seen,
                 writeOffset, written, readerVars, history>>

WReady ==
  /\ Goto("W", "ready", "tail")
  /\ status' = [status EXCEPT ![writeOffset] = READY]
  /\ UNCHANGED <<sem, cell, readPage, writePage, seen,
                 writerVars, readerVars, history>>

WTail ==
  /\ Goto("W", "tail", "idle")
  /\ status' = [status EXCEPT ![TailEntry(writeOffset)] = BUFFER_END]
  /\ writeOffset' = BufferAdd(writeOffset, 1)
  /\ UNCHANGED <<sem, cell, readPage, writePage, seen,
                 written, writeWord, readerVars, history>>

WStep ==
  \/ WConstruct
  \/ SemGetValue("W", "ctorSet", "ctorPost")
  \/ WSet
  \/ WCall
  \/ SemWait("W", "wait", "mark")
  \/ WMark
  \/ WPage
  \/ SemGetValue("W", "set", "post")
  \/ SemPost("W", "post", "copy")
  \/ WCopy
  \/ WReady
  \/ WTail

-----------------------------------------------------------------------------
(* The reader: its constructor, then read() again and again.               *)

RConstruct ==
  /\ Goto("R", "new", "idle")
  /\ readPage' = NotReading
  /\ UNCHANGED <<sem, status, cell, writePage, seen,
                 writerVars, readerVars, history>>

RCall ==
  /\ Goto("R", "idle", IF initialized THEN "status" ELSE "initWait")
  /\ UNCHANGED <<shared, seen, writerVars, readerVars, history>>

\* Ids of the writes whose entry is READY at this moment.
Completed == {cell[i][1] : i \in {j \in Entries : status[j] = READY}} \cup {0}

\* The first read() starts at the entry the write page names.
StartAtTail == TailEntry(writePage)
StartEntry == writePage

RInitPage ==
  /\ Goto("R", "initPage", "initSet")
  /\ readOffset' = StartEntry
  /\ initialized' = TRUE
  /\ newest' \in {w \in Completed : \A v \in Completed : v <= w}
  /\ UNCHANGED <<shared, seen, writerVars, readWord, memto,
                 raised, returned, overrun>>

\* The header says the entry may be read; the variant goes by its size.
FoundBySize == cell[readOffset][1] > 0
Found == status[readOffset] = READY

\* READ_BUFFER_END, READ_BUFFER_BUSY or READ_FAILURE.
RNothing ==
  /\ Goto("R", "status", "idle")
  /\ ~Found
  /\ UNCHANGED <<shared, seen, writerVars, readerVars, history>>

RFound ==
  /\ Goto("R", "status", "size")
  /\ Found
  /\ overrun' = FALSE
  /\ UNCHANGED <<shared, seen, writerVars, readerVars,
                 raised, returned, newest>>

RSize ==
  /\ Goto("R", "size", "wait")
  /\ memto' = [memto EXCEPT ![1] = cell[readOffset][1]]
  /\ readWord' = 2
  /\ UNCHANGED <<shared, seen, writerVars, readOffset, initialized, history>>

RPage ==
  /\ Goto("R", "page", "set")
  /\ readPage' = readOffset
  /\ UNCHANGED <<sem, status, cell, writePage, seen,
                 writerVars, readerVars, history>>

\* The last word read() copies: read_size is the entry size, and the copy starts
\* at the payload.
LastRead == 1 + EntrySize(memto[1])

\* copy_from, word by word; the status is not looked at again.
RCopy ==
  /\ Goto("R", "copy", IF readWord = LastRead THEN "doneWait" ELSE "copy")
  /\ memto' = [memto EXCEPT ![readWord] = MemoryAt(readOffset, readWord)]
  /\ readWord' = IF readWord = LastRead THEN 1 ELSE readWord + 1
  /\ readOffset' = IF readWord = LastRead THEN BufferAdd(readOffset, 1)
                                          ELSE readOffset
  /\ UNCHANGED <<shared, seen, writerVars, initialized, history>>

RUnpage ==
  /\ Goto("R", "donePage", "doneSet")
  /\ readPage' = NotReading
  /\ UNCHANGED <<sem, status, cell, writePage, seen,
                 writerVars, readerVars, history>>

\* The last sem.set() of read(), and its return with SUCCESS.
RReturn ==
  /\ Goto("R", "donePost", "idle")
  /\ sem' = Post("R")
  /\ returned' = TRUE
  /\ UNCHANGED <<status, cell, readPage, writePage, seen,
                 writerVars, readerVars, raised, newest, overrun>>

RStep ==
  \/ RConstruct
  \/ RCall
  \/ SemWait("R", "initWait", "initPage")
  \/ RInitPage
  \/ SemGetValue("R", "initSet", "initPost")
  \/ SemPost("R", "initPost", "status")
  \/ RNothing
  \/ RFound
  \/ RSize
  \/ SemWait("R", "wait", "page")
  \/ RPage
  \/ SemGetValue("R", "set", "post")
  \/ SemPost("R", "post", "copy")
  \/ RCopy
  \/ SemWait("R", "doneWait", "donePage")
  \/ RUnpage
  \/ SemGetValue("R", "doneSet", "donePost")
  \/ RReturn

-----------------------------------------------------------------------------
Init ==
  /\ sem = 1
  /\ status = [i \in Entries |-> FRESH]
  /\ cell = [i \in Entries |-> [k \in Words |-> 0]]
  /\ readPage = 0
  /\ writePage = 0
  /\ pc = [p \in Procs |-> "new"]
  /\ seen = [p \in Procs |-> 0]
  /\ writeOffset = 0 /\ written = 0 /\ writeWord = 1
  /\ readOffset = 0 /\ initialized = FALSE /\ readWord = 1
  /\ memto = [k \in Reach |-> 0]
  /\ raised = FALSE /\ returned = FALSE
  /\ newest = 0
  /\ overrun = FALSE

Next == WStep \/ RStep

Spec == Init /\ [][Next]_vars

\* Both processes are scheduled, and the program around each keeps calling.
FairSpec == Spec /\ WF_vars(WStep) /\ WF_vars(RStep)

-----------------------------------------------------------------------------
WriterPCs == {"new", "ctorSet", "ctorPost", "idle", "wait", "mark", "page",
              "set", "post", "copy", "ready", "tail"}
ReaderPCs == {"new", "idle", "initWait", "initPage", "initSet", "initPost",
              "status", "size", "wait", "page", "set", "post", "copy",
              "doneWait", "donePage", "doneSet", "donePost"}

\* Types of the state of DNRingbuffer, its two ends and the semaphore.
TypeOK ==
  /\ sem \in Nat
  /\ status \in [Entries -> Statuses]
  /\ cell \in [Entries -> [Words -> Writes]]
  /\ readPage \in Entries \cup {NotReading}
  /\ writePage \in Entries
  /\ pc \in [Procs -> WriterPCs \cup ReaderPCs]
  /\ pc["W"] \in WriterPCs /\ pc["R"] \in ReaderPCs
  /\ seen \in [Procs -> Nat]
  /\ writeOffset \in Entries
  /\ written \in Writes
  /\ writeWord \in Words
  /\ readOffset \in Entries
  /\ initialized \in BOOLEAN
  /\ readWord \in Reach
  /\ memto \in [Reach -> Int] /\ memto[1] \in Writes
  /\ raised \in BOOLEAN /\ returned \in BOOLEAN
  /\ newest \in Writes
  /\ overrun \in BOOLEAN

\* p is between its sem.wait() and the end of the matching sem.set().
InsideSem(p) ==
  pc[p] \in IF p = "W" THEN {"mark", "page", "set", "post"}
            ELSE {"initPage", "initSet", "initPost", "page", "set", "post",
                  "donePage", "doneSet", "donePost"}

PostSites == {"post", "ctorPost", "initPost", "donePost"}

\* p has taken the semaphore and has not yet decided to leave it as it is.
WillPost(p) == InsideSem(p) /\ (pc[p] \in PostSites => seen[p] = 0)

\* Permits: the semaphore's count, and one for each process that will post.
Permits == sem + Cardinality({p \in Procs : WillPost(p)})

\* set() is not atomic, and the writer's constructor sets a semaphore that a
\* reader may be holding.  The permit is never lost.  Unless that set() has
\* posted there is one, so that no two processes are inside at a time; once it
\* has there may be two, and both processes inside, but never more.
PermitConserved ==
  /\ Permits \in 1 .. 2
  /\ ~raised => Permits = 1

\* An entry the reader may take for complete holds the size and the payload
\* of one single write: READY is stored after both (ringbuffer.cpp, write()),
\* also while the entry is reused lap after lap.
ReadyIsWhole ==
  \A i \in Entries : status[i] = READY =>
    /\ cell[i][1] > 0
    /\ \A k \in Stored(cell[i][1]) : cell[i][k] = cell[i][1]

\* Between two writes the entry after the newest one is the tail, so a reader
\* that follows the writer stops there instead of running into the entries of
\* the previous lap.
TailInPlace ==
  pc["W"] \in {"idle", "wait", "mark"} => status[writeOffset] = BUFFER_END

\* Outside the write in progress the entries hold the latest writes in ring
\* order: one step back from the tail is one write older.
EntriesInOrder ==
  pc["W"] \in {"idle", "wait", "mark"} =>
    \A i \in Entries : status[i] = READY =>
      LET back == (writeOffset - i - 1) % NumEntries
          complete == IF pc["W"] = "idle" THEN written ELSE written - 1
      IN  cell[i][1] = complete - back

\* What a read() that succeeds returns begins with the payload of one write,
\* unless the writer came round and reused the entry while it was being read.
\* (The words after it, HeaderWords of them, are of whatever follows in memory.)
TornOnlyIfOverrun ==
  pc["R"] \in {"doneWait", "donePage", "doneSet", "donePost"} /\ ~overrun =>
    memto[1] > 0 /\ \A k \in Stored(memto[1]) : memto[k] = memto[1]

\* The size the first successful read() of a reader goes by, and so what it
\* returns of an entry not reused, is not older than the newest entry that was
\* complete when it looked up the write page.
FirstReadIsFresh ==
  [][~returned /\ returned' =>
       /\ memto[1] >= newest
       /\ ~overrun => \A k \in Stored(memto[1]) : memto[k] >= newest]_returned

\* No call blocks for ever on the semaphore: a write() that waits for it
\* returns, and so does a read(), as long as neither process dies.
CallsReturn ==
  /\ pc["W"] = "wait" ~> pc["W"] = "idle"
  /\ pc["R"] \in {"initWait", "wait", "doneWait"} ~> pc["R"] = "idle"
=============================================================================
