------------------------- MODULE RingBuffer_proofs --------------------------
(***************************************************************************)
(* Proofs about RingBuffer, for rings of any size, entries of any number   *)
(* of words, payloads of any sizes and any number of writes.               *)
(***************************************************************************)
EXTENDS RingBuffer, FiniteSetTheorems, TLAPS

LEMMA BufferAddType ==
  ASSUME NEW offset \in Entries, NEW n \in Nat
  PROVE  BufferAdd(offset, n) \in Entries
  BY RingAssumption DEF BufferAdd, Entries

\* What write() stores lies in its entry, and what read() copies ends right after
\* an entry at the latest.
LEMMA EntrySizes ==
  ASSUME NEW w \in 1 .. MaxWrites
  PROVE  /\ LastWord(w) \in Words /\ Stored(w) \subseteq Words
         /\ 1 \in Stored(w) /\ Stored(w) = 1 .. LastWord(w)
         /\ 1 + EntrySize(w) \in Reach /\ 1 + EntrySize(w) = LastWord(w) + 2
<1>1. PayloadSize[w] \in 0 .. NumWords - 1 /\ NumWords \in Nat
  BY RingAssumption
<1>2. QED
  BY <1>1 DEF LastWord, Words, Stored, EntrySize, Reach, HeaderWords

LEMMA WordsReach == Words \subseteq Reach /\ 1 \in Words /\ 2 \in Reach /\ Reach \subseteq Nat
  BY RingAssumption DEF Words, Reach, HeaderWords

\* The semaphore's steps, whoever takes them and wherever in its program.
LEMMA SemType ==
  ASSUME TypeOK,
         NEW p \in Procs, NEW from, NEW to,
         to \in IF p = "W" THEN WriterPCs ELSE ReaderPCs,
         SemWait(p, from, to) \/ SemGetValue(p, from, to) \/ SemPost(p, from, to)
  PROVE  TypeOK'
<1>1. pc' \in [Procs -> WriterPCs \cup ReaderPCs] /\ pc'["W"] \in WriterPCs
        /\ pc'["R"] \in ReaderPCs
  BY DEF TypeOK, Goto, Procs, SemWait, SemGetValue, SemPost
<1>2. sem' \in Nat /\ seen' \in [Procs -> Nat]
  BY DEF TypeOK, SemWait, SemGetValue, SemPost, Post, shared
<1>3. UNCHANGED <<status, cell, readPage, writePage, writerVars, readerVars, history>>
  BY DEF SemWait, SemGetValue, SemPost, shared
<1>4. QED
  BY <1>1, <1>2, <1>3 DEF TypeOK, writerVars, readerVars, history

-----------------------------------------------------------------------------
(* The entry the writer is at, the entries a reader may take for complete, *)
(* and how far the reader is.                                              *)

BeforeMark == pc["W"] \in {"ctorSet", "ctorPost", "idle", "wait", "mark"}
Overwriting == pc["W"] \in {"page", "set", "post", "copy", "ready"}
Whole(words) ==
  words[1] > 0 /\ \A k \in Stored(words[1]) : words[k] = words[1]

WriterInv ==
  /\ BeforeMark => status[writeOffset] = BUFFER_END
  /\ Overwriting => status[writeOffset] = WRITING
  /\ pc["W"] \in {"wait", "mark"} \/ Overwriting => written > 0
  /\ pc["W"] # "copy" => writeWord = 1
  /\ pc["W"] = "copy" =>
       /\ writeWord <= LastWord(written)
       /\ \A k \in Words : k < writeWord => cell[writeOffset][k] = written
  /\ pc["W"] = "ready" =>
       \A k \in Stored(written) : cell[writeOffset][k] = written
  /\ \A i \in Entries : status[i] = READY => Whole(cell[i])

Copied == pc["R"] \in {"doneWait", "donePage", "doneSet", "donePost"}

\* The size the reader goes by is that of a write.
SizeInv ==
  /\ Copying => cell[readOffset][1] > 0
  /\ Copying /\ pc["R"] # "size" =>
       memto[1] > 0 /\ readWord > 1 /\ readWord <= LastRead
  /\ Copied => memto[1] > 0

-----------------------------------------------------------------------------
(* Types.                                                                  *)

LEMMA WriterType == TypeOK /\ WriterInv /\ WStep => TypeOK'
<1> SUFFICES ASSUME TypeOK, WriterInv, WStep PROVE TypeOK'
  OBVIOUS
<1>1. \/ SemGetValue("W", "ctorSet", "ctorPost")
      \/ SemWait("W", "wait", "mark")
      \/ SemGetValue("W", "set", "post")
      \/ SemPost("W", "post", "copy")
      => TypeOK'
  BY SemType DEF Procs, WriterPCs
<1> USE RingAssumption
    DEF TypeOK, shared, writerVars, readerVars, history, Goto, Procs, WriterPCs,
        ReaderPCs
<1>2. CASE WConstruct
  BY <1>2 DEF WConstruct, Statuses
<1>3. CASE WCall
  BY <1>3 DEF WCall, Writes
<1>4. CASE WMark
  BY <1>4 DEF WMark, Statuses
<1>5. CASE WPage
  BY <1>5 DEF WPage
<1>6. CASE WCopy
  <2>1. written \in 1 .. MaxWrites /\ writeWord <= LastWord(written)
    BY <1>6 DEF WCopy, WriterInv, Overwriting, Writes
  <2>2. LastWord(written) \in Words
    BY <2>1, EntrySizes
  <2>3. writeWord' \in Words
    BY <1>6, <2>1, <2>2 DEF WCopy, Words
  <2>4. QED
    BY <1>6, <2>3 DEF WCopy
<1>7. CASE WReady
  BY <1>7 DEF WReady, Statuses
<1>8. CASE WTail
  BY <1>8, BufferAddType DEF WTail, TailEntry, Statuses
<1>9. CASE WSet
  BY <1>9 DEF WSet, Post
<1>10. QED
  BY <1>1, <1>2, <1>3, <1>4, <1>5, <1>6, <1>7, <1>8, <1>9 DEF WStep

LEMMA ReaderType == TypeOK /\ SizeInv /\ RStep => TypeOK'
<1> SUFFICES ASSUME TypeOK, SizeInv, RStep PROVE TypeOK'
  OBVIOUS
<1>1. \/ SemWait("R", "initWait", "initPage")
      \/ SemGetValue("R", "initSet", "initPost")
      \/ SemPost("R", "initPost", "status")
      \/ SemWait("R", "wait", "page")
      \/ SemGetValue("R", "set", "post")
      \/ SemPost("R", "post", "copy")
      \/ SemWait("R", "doneWait", "donePage")
      \/ SemGetValue("R", "doneSet", "donePost")
      => TypeOK'
  BY SemType DEF Procs, ReaderPCs
<1>2. 1 \in Words /\ 1 \in Reach /\ 2 \in Reach
  BY WordsReach
<1>3. 0 \in Writes /\ Writes \subseteq Int
  BY RingAssumption DEF Writes
<1>4. \A i \in Entries : \A k \in Words : cell[i][k] \in Writes
  BY DEF TypeOK
<1> USE DEF TypeOK, shared, writerVars, readerVars, history, Goto, Procs,
            WriterPCs, ReaderPCs
<1>5. CASE RConstruct
  BY <1>5 DEF RConstruct
<1>6. CASE RCall
  BY <1>6 DEF RCall
<1>7. CASE RInitPage
  <2>1. Completed \subseteq Writes
    BY <1>2, <1>3, <1>4 DEF Completed
  <2>2. newest' \in Writes
    BY <1>7, <2>1 DEF RInitPage
  <2>3. QED
    BY <1>7, <2>2 DEF RInitPage, StartEntry
<1>8. CASE RNothing
  BY <1>8 DEF RNothing
<1>9. CASE RFound
  BY <1>9 DEF RFound
<1>10. CASE RSize
  <2>1. cell[readOffset][1] \in Writes
    BY <1>2, <1>4
  <2>2. memto' \in [Reach -> Int] /\ memto'[1] \in Writes
    BY <1>2, <1>3, <1>10, <2>1 DEF RSize
  <2>3. QED
    BY <1>2, <1>10, <2>2 DEF RSize
<1>11. CASE RPage
  BY <1>11 DEF RPage
<1>12. CASE RCopy
  <2>1. /\ memto[1] \in 1 .. MaxWrites
        /\ readWord > 1 /\ readWord <= LastRead
    BY <1>12, RingAssumption DEF RCopy, SizeInv, Copying, Writes
  <2>2. LastRead \in Reach
    BY <2>1, EntrySizes DEF LastRead
  <2>3. readWord' \in Reach
    BY <1>2, <1>12, <2>1, <2>2, RingAssumption DEF RCopy, Reach, HeaderWords
  <2>4. MemoryAt(readOffset, readWord) \in Int
    <3>1. CASE readWord \in Words
      BY <1>3, <1>4, <3>1 DEF MemoryAt
    <3>2. CASE readWord \notin Words
      <4>1. readWord - NumWords \in {1, 2}
        BY <3>2, RingAssumption DEF Reach, Words, HeaderWords
      <4>2. readOffset = NumEntries - 1 \/ readOffset + 1 \in Entries
        BY RingAssumption DEF Entries
      <4>3. CASE readOffset = NumEntries - 1
        BY <3>2, <4>1, <4>3, RingAssumption DEF MemoryAt, Entries, NotReading
      <4>4. CASE readOffset # NumEntries - 1
        <5>1. readOffset + 1 \in Entries /\ Statuses \subseteq Int
          BY <4>2, <4>4 DEF Statuses, BUFFER_END, WRITING, READY, FRESH
        <5>2. cell[readOffset + 1][1] \in Int /\ status[readOffset + 1] \in Int
          BY <1>2, <1>3, <1>4, <5>1
        <5>3. QED
          BY <3>2, <4>1, <4>4, <5>2 DEF MemoryAt
      <4>5. QED
        BY <4>3, <4>4
    <3>3. QED
      BY <3>1, <3>2
  <2>5. memto' \in [Reach -> Int] /\ memto'[1] \in Writes
    BY <1>2, <1>12, <2>1, <2>4 DEF RCopy, Reach
  <2>6. readOffset' \in Entries
    BY <1>12, BufferAddType DEF RCopy
  <2>7. QED
    BY <1>12, <2>3, <2>5, <2>6 DEF RCopy
<1>13. CASE RUnpage
  BY <1>13 DEF RUnpage
<1>14. CASE RReturn
  BY <1>14 DEF RReturn, Post
<1>15. QED
  BY <1>1, <1>5, <1>6, <1>7, <1>8, <1>9, <1>10, <1>11, <1>12, <1>13, <1>14 DEF RStep

LEMMA TypeStep == TypeOK /\ WriterInv /\ SizeInv /\ [Next]_vars => TypeOK'
<1>1. TypeOK /\ UNCHANGED vars => TypeOK'
  BY DEF TypeOK, vars, shared, writerVars, readerVars, history
<1>2. QED
  BY <1>1, WriterType, ReaderType DEF Next

LEMMA TypeInit == Init => TypeOK
<1> SUFFICES ASSUME Init PROVE TypeOK
  OBVIOUS
<1>1. 0 \in Entries /\ 0 \in Writes /\ FRESH \in Statuses
  BY RingAssumption DEF Entries, Writes, Statuses
<1>2. 1 \in Words /\ 1 \in Reach
  BY WordsReach
<1>3. pc \in [Procs -> WriterPCs \cup ReaderPCs]
  BY DEF Init, WriterPCs, ReaderPCs
<1>4. pc["W"] \in WriterPCs /\ pc["R"] \in ReaderPCs
  BY DEF Init, Procs, WriterPCs, ReaderPCs
<1>5. memto \in [Reach -> Int] /\ memto[1] \in Writes
  BY <1>1, <1>2 DEF Init
<1>6. QED
  BY <1>1, <1>2, <1>3, <1>4, <1>5 DEF Init, TypeOK

-----------------------------------------------------------------------------
(* Steps of the writer.                                                    *)

\* A step that leaves the writer and the entries alone.
LEMMA WriterFrame ==
  ASSUME WriterInv, pc'["W"] = pc["W"], UNCHANGED <<status, cell, writerVars>>
  PROVE  WriterInv'
  BY DEF WriterInv, BeforeMark, Overwriting, Whole, writerVars

LEMMA ReaderLeavesWriter ==
  ASSUME TypeOK, RStep
  PROVE  pc'["W"] = pc["W"] /\ UNCHANGED <<status, cell, writePage, writerVars>>
<1> USE DEF TypeOK, Goto, Procs, shared
<1>1. CASE \/ SemWait("R", "initWait", "initPage")
           \/ SemWait("R", "wait", "page")
           \/ SemWait("R", "doneWait", "donePage")
  BY <1>1 DEF SemWait
<1>2. CASE \/ SemGetValue("R", "initSet", "initPost")
           \/ SemGetValue("R", "set", "post")
           \/ SemGetValue("R", "doneSet", "donePost")
  BY <1>2 DEF SemGetValue
<1>3. CASE \/ SemPost("R", "initPost", "status")
           \/ SemPost("R", "post", "copy")
           \/ RReturn
  BY <1>3 DEF SemPost, RReturn
<1>4. CASE \/ RConstruct \/ RCall \/ RInitPage \/ RNothing \/ RFound
           \/ RSize \/ RPage \/ RCopy \/ RUnpage
  BY <1>4 DEF RConstruct, RCall, RInitPage, RNothing, RFound, RSize, RPage,
              RCopy, RUnpage
<1>5. QED
  BY <1>1, <1>2, <1>3, <1>4 DEF RStep

LEMMA WriterStep == TypeOK /\ WriterInv /\ [Next]_vars => WriterInv'
<1> SUFFICES ASSUME TypeOK, WriterInv, [Next]_vars PROVE WriterInv'
  OBVIOUS
<1>1. CASE RStep
  BY <1>1, WriterFrame, ReaderLeavesWriter
<1>2. CASE UNCHANGED vars
  BY <1>2, WriterFrame DEF vars, shared
<1> USE RingAssumption
    DEF TypeOK, WriterInv, BeforeMark, Overwriting, Whole, Goto, Procs, shared,
        writerVars, BUFFER_END, WRITING, READY
<1>3. CASE WConstruct
  BY <1>3 DEF WConstruct
<1>4. CASE WCall
  BY <1>4 DEF WCall, Writes
<1>5. CASE WMark
  BY <1>5 DEF WMark
<1>6. CASE WPage
  BY <1>6 DEF WPage
<1>7. CASE WCopy
  <2>1. \A k \in Words : k <= writeWord => cell'[writeOffset][k] = written
    BY <1>7 DEF WCopy, Words
  <2>2. \A i \in Entries : status[i] = READY => cell'[i] = cell[i]
    BY <1>7 DEF WCopy
  <2>3. /\ Stored(written) = 1 .. LastWord(written) /\ Stored(written) \subseteq Words
        /\ LastWord(written) \in Words /\ writeWord <= LastWord(written)
    <3>1. written \in 1 .. MaxWrites /\ writeWord <= LastWord(written)
      BY <1>7 DEF WCopy, Writes
    <3>2. QED
      BY <3>1, EntrySizes
  <2>4. CASE writeWord = LastWord(written)
    BY <1>7, <2>1, <2>2, <2>3, <2>4 DEF WCopy, Words
  <2>5. CASE writeWord # LastWord(written)
    BY <1>7, <2>1, <2>2, <2>3, <2>5 DEF WCopy, Words
  <2>6. QED
    BY <2>4, <2>5
<1>8. CASE WReady
  <2>1. written > 0 /\ \A k \in Stored(written) : cell[writeOffset][k] = written
    BY <1>8 DEF WReady
  <2>2. 1 \in Stored(written)
    BY <2>1, EntrySizes DEF Writes
  <2>3. Whole(cell[writeOffset])
    BY <2>1, <2>2
  <2>4. QED
    BY <1>8, <2>3 DEF WReady
<1>9. CASE WTail
  <2>1. TailEntry(writeOffset) \in Entries
          /\ TailEntry(writeOffset) = BufferAdd(writeOffset, 1)
    BY BufferAddType DEF TailEntry
  <2>2. QED
    BY <1>9, <2>1 DEF WTail
<1>10. CASE \/ SemGetValue("W", "ctorSet", "ctorPost")
            \/ SemGetValue("W", "set", "post")
  BY <1>10 DEF SemGetValue
<1>11. CASE WSet \/ SemPost("W", "post", "copy")
  <2>1. pc["W"] = "post" => LastWord(written) >= 1
    <3>1. pc["W"] = "post" => written \in 1 .. MaxWrites
      BY DEF Writes
    <3>2. QED
      BY <3>1, EntrySizes DEF Words
  <2>2. CASE WSet
    BY <2>2 DEF WSet
  <2>3. CASE SemPost("W", "post", "copy")
    BY <2>1, <2>3 DEF SemPost, Words
  <2>4. QED
    BY <1>11, <2>2, <2>3
<1>12. CASE SemWait("W", "wait", "mark")
  BY <1>12 DEF SemWait
<1>13. QED
  BY <1>1, <1>2, <1>3, <1>4, <1>5, <1>6, <1>7, <1>8, <1>9, <1>10, <1>11, <1>12
  DEF Next, WStep

LEMMA WriterInit == Init => WriterInv
  BY DEF Init, WriterInv, BeforeMark, Overwriting, Whole, Procs, FRESH, READY

-----------------------------------------------------------------------------
(* The size the reader goes by.                                            *)

\* What a step of the writer leaves alone.
LEMMA WriterLeavesReader ==
  ASSUME TypeOK, WStep
  PROVE  /\ pc'["R"] = pc["R"] /\ UNCHANGED readerVars
         /\ ~WMark => overrun' = overrun
         /\ ~WCopy => cell' = cell
         /\ WCopy => \A i \in Entries : i # writeOffset => cell'[i] = cell[i]
         /\ (Overwriting' => (Overwriting /\ writeOffset' = writeOffset) \/ WMark)
<1> USE DEF TypeOK, Goto, Procs, shared, writerVars, history, Overwriting
<1>1. CASE SemWait("W", "wait", "mark")
  BY <1>1 DEF SemWait
<1>2. CASE \/ SemGetValue("W", "ctorSet", "ctorPost")
           \/ SemGetValue("W", "set", "post")
  BY <1>2 DEF SemGetValue
<1>3. CASE WSet \/ SemPost("W", "post", "copy")
  BY <1>3 DEF WSet, SemPost
<1>4. CASE WConstruct \/ WCall \/ WPage \/ WReady \/ WTail
  BY <1>4 DEF WConstruct, WCall, WPage, WReady, WTail
<1>5. CASE WCopy
  BY <1>5 DEF WCopy
<1>6. CASE WMark
  BY <1>6 DEF WMark
<1>7. QED
  BY <1>1, <1>2, <1>3, <1>4, <1>5, <1>6 DEF WStep

LEMMA SizeWriter == TypeOK /\ WriterInv /\ SizeInv /\ WStep => SizeInv'
<1> SUFFICES ASSUME TypeOK, WriterInv, SizeInv, WStep PROVE SizeInv'
  OBVIOUS
<1>1. Copying' = Copying /\ Copied' = Copied /\ UNCHANGED readerVars
        /\ pc'["R"] = pc["R"]
  BY WriterLeavesReader DEF Copying, Copied
<1>2. ASSUME Copying PROVE cell'[readOffset][1] > 0
  <2>1. cell[readOffset][1] > 0 /\ readOffset \in Entries /\ 1 \in Words
    BY <1>2, WordsReach DEF SizeInv, TypeOK
  <2>2. CASE WCopy
    <3>1. written > 0
      BY <2>2 DEF WCopy, Goto, WriterInv, Overwriting
    <3>2. QED
      BY <2>1, <2>2, <3>1 DEF WCopy, TypeOK
  <2>3. CASE ~WCopy
    BY <2>1, <2>3, WriterLeavesReader
  <2>4. QED
    BY <2>2, <2>3
<1>3. QED
  BY <1>1, <1>2 DEF SizeInv, readerVars, LastRead, EntrySize

LEMMA SizeReader == TypeOK /\ WriterInv /\ SizeInv /\ RStep => SizeInv'
<1> SUFFICES ASSUME TypeOK, WriterInv, SizeInv, RStep PROVE SizeInv'
  OBVIOUS
<1>1. cell' = cell
  BY ReaderLeavesWriter
<1>2. 1 \in Words /\ 1 \in Reach
  BY WordsReach
<1>3. ASSUME memto[1] > 0
      PROVE  LastRead \in Reach /\ LastRead >= 3
  <2>1. memto[1] \in 1 .. MaxWrites
    BY <1>3 DEF TypeOK, Writes
  <2>2. QED
    BY <2>1, EntrySizes DEF LastRead, Words
<1> USE <1>1 DEF SizeInv, TypeOK, Goto, Procs, shared, readerVars, Copying, Copied,
                 LastRead, EntrySize
<1>4. CASE RConstruct \/ RCall \/ RInitPage \/ RNothing
  BY <1>4 DEF RConstruct, RCall, RInitPage, RNothing
<1>5. CASE RFound
  BY <1>5 DEF RFound, Found, WriterInv, Whole
<1>6. CASE RSize
  <2>1. memto'[1] = cell[readOffset][1] /\ cell[readOffset][1] \in 1 .. MaxWrites
    BY <1>2, <1>6 DEF RSize, Writes
  <2>2. LastRead' = LastWord(cell[readOffset][1]) + 2
          /\ LastWord(cell[readOffset][1]) \in Words
    BY <2>1, EntrySizes
  <2>3. QED
    BY <1>6, <2>1, <2>2 DEF RSize, Words
<1>7. CASE RPage \/ RUnpage
  BY <1>7 DEF RPage, RUnpage
<1>8. CASE RCopy
  <2>1. memto'[1] = memto[1] /\ memto[1] > 0 /\ readWord > 1 /\ readWord <= LastRead
    BY <1>2, <1>8 DEF RCopy, Reach
  <2>2. LastRead \in Nat
    BY <1>3, <2>1, WordsReach
  <2>3. QED
    BY <1>8, <2>1, <2>2 DEF RCopy, Reach
<1>9. CASE \/ SemWait("R", "initWait", "initPage")
           \/ SemWait("R", "wait", "page")
           \/ SemWait("R", "doneWait", "donePage")
  BY <1>9 DEF SemWait
<1>10. CASE \/ SemGetValue("R", "initSet", "initPost")
            \/ SemGetValue("R", "set", "post")
            \/ SemGetValue("R", "doneSet", "donePost")
  BY <1>10 DEF SemGetValue
<1>11. CASE \/ SemPost("R", "initPost", "status")
            \/ SemPost("R", "post", "copy")
            \/ RReturn
  BY <1>11 DEF SemPost, RReturn
<1>12. QED
  BY <1>4, <1>5, <1>6, <1>7, <1>8, <1>9, <1>10, <1>11 DEF RStep

LEMMA SizeStep == TypeOK /\ WriterInv /\ SizeInv /\ [Next]_vars => SizeInv'
<1>1. SizeInv /\ UNCHANGED vars => SizeInv'
  BY DEF SizeInv, Copying, Copied, LastRead, EntrySize, vars, shared, readerVars
<1>2. QED
  BY <1>1, SizeWriter, SizeReader DEF Next

LEMMA SizeInit == Init => SizeInv
  BY DEF Init, SizeInv, Copying, Copied, Procs

\* The three invariants everything else rests on.
Sound == TypeOK /\ WriterInv /\ SizeInv

LEMMA SoundAlways == Spec => []Sound
<1>1. Init => Sound
  BY TypeInit, WriterInit, SizeInit DEF Sound
<1>2. Sound /\ [Next]_vars => Sound'
  BY TypeStep, WriterStep, SizeStep DEF Sound
<1>3. QED
  BY <1>1, <1>2, PTL DEF Spec

\* Both ends of the ring and the semaphore keep their types; the reader never
\* copies from further than the header that follows its entry.
THEOREM TypeCorrect == Spec => []TypeOK
<1>1. Sound => TypeOK
  BY DEF Sound
<1>2. QED
  BY <1>1, SoundAlways, PTL

-----------------------------------------------------------------------------
(* The semaphore.  A permit is either in the count or owed by a process    *)
(* that took it and will post; while the writer's constructor runs there   *)
(* is exactly one besides what the constructor may post, and one is all    *)
(* there is as long as the constructor has not posted.                     *)

Owed(p) == IF WillPost(p) THEN 1 ELSE 0
Constructing == pc["W"] \in {"new", "ctorSet", "ctorPost"}

PermitInv ==
  /\ Constructing => sem + Owed("R") = 1
  /\ sem + Owed("W") + Owed("R") \in 1 .. 2
  /\ ~raised => sem + Owed("W") + Owed("R") = 1

LEMMA PermitCount ==
  ASSUME TypeOK
  PROVE  Permits = sem + Owed("W") + Owed("R")
<1>1. /\ Cardinality({}) = 0 /\ Cardinality({"W"}) = 1 /\ Cardinality({"R"}) = 1
      /\ Cardinality({"W"} \cup {"R"}) = 2
  <2>1. /\ Cardinality({}) = 0 /\ Cardinality({"R"}) = 1
        /\ IsFiniteSet({"W"}) /\ Cardinality({"W"}) = 1 /\ "R" \notin {"W"}
    BY FS_EmptySet, FS_Singleton
  <2>2. QED
    BY <2>1, FS_AddElement
<1>2. {p \in Procs : WillPost(p)} =
        (IF WillPost("W") THEN {"W"} ELSE {}) \cup (IF WillPost("R") THEN {"R"} ELSE {})
  BY DEF Procs
<1>3. Cardinality({p \in Procs : WillPost(p)}) = Owed("W") + Owed("R")
  <2>1. /\ {"W"} \cup {} = {"W"} /\ {} \cup {"R"} = {"R"} /\ {} \cup {} = {}
    OBVIOUS
  <2>2. CASE WillPost("W") /\ WillPost("R")
    BY <1>1, <1>2, <2>2 DEF Owed
  <2>3. CASE WillPost("W") /\ ~WillPost("R")
    BY <1>1, <1>2, <2>1, <2>3 DEF Owed
  <2>4. CASE ~WillPost("W") /\ WillPost("R")
    BY <1>1, <1>2, <2>1, <2>4 DEF Owed
  <2>5. CASE ~WillPost("W") /\ ~WillPost("R")
    BY <1>1, <1>2, <2>1, <2>5 DEF Owed
  <2>6. QED
    BY <2>2, <2>3, <2>4, <2>5
<1>4. sem \in Nat /\ Owed("W") \in Nat /\ Owed("R") \in Nat
  BY DEF TypeOK, Owed
<1>5. QED
  BY <1>3, <1>4 DEF Permits

LEMMA PermitStep == TypeOK /\ PermitInv /\ [Next]_vars => PermitInv'
<1> SUFFICES ASSUME TypeOK, PermitInv, [Next]_vars PROVE PermitInv'
  OBVIOUS
<1>1. /\ pc \in [Procs -> WriterPCs \cup ReaderPCs] /\ sem \in Nat
      /\ seen \in [Procs -> Nat]
  BY DEF TypeOK
<1> USE <1>1
    DEF PermitInv, Owed, WillPost, InsideSem, Constructing, PostSites, Procs, Goto,
        history
<1>2. CASE SemGetValue("W", "ctorSet", "ctorPost")
  BY <1>2 DEF SemGetValue, shared
<1>3. CASE WSet
  <2>1. ~raised' => sem' = sem
    BY <1>3 DEF WSet
  <2>2. QED
    BY <1>3, <2>1 DEF WSet, Post
<1>4. CASE SemWait("W", "wait", "mark")
  BY <1>4 DEF SemWait
<1>5. CASE SemGetValue("W", "set", "post")
  BY <1>5 DEF SemGetValue, shared
<1>6. CASE SemPost("W", "post", "copy")
  BY <1>6 DEF SemPost, Post
<1>7. CASE WConstruct \/ WCall \/ WMark \/ WPage \/ WCopy \/ WReady \/ WTail
  BY <1>7 DEF WConstruct, WCall, WMark, WPage, WCopy, WReady, WTail, shared
<1>8. CASE \/ SemWait("R", "initWait", "initPage")
           \/ SemWait("R", "wait", "page")
           \/ SemWait("R", "doneWait", "donePage")
  BY <1>8 DEF SemWait
<1>9. CASE \/ SemGetValue("R", "initSet", "initPost")
           \/ SemGetValue("R", "set", "post")
           \/ SemGetValue("R", "doneSet", "donePost")
  BY <1>9 DEF SemGetValue, shared
<1>10. CASE \/ SemPost("R", "initPost", "status")
            \/ SemPost("R", "post", "copy")
            \/ RReturn
  BY <1>10 DEF SemPost, RReturn, Post
<1>11. CASE \/ RConstruct \/ RCall \/ RInitPage \/ RNothing \/ RFound
            \/ RSize \/ RPage \/ RCopy \/ RUnpage
  BY <1>11 DEF RConstruct, RCall, RInitPage, RNothing, RFound, RSize, RPage,
               RCopy, RUnpage, shared
<1>12. CASE UNCHANGED vars
  BY <1>12 DEF vars, shared
<1>13. QED
  BY <1>2, <1>3, <1>4, <1>5, <1>6, <1>7, <1>8, <1>9, <1>10, <1>11, <1>12
  DEF Next, WStep, RStep

\* The semaphore of the ring never loses its last permit, so that nobody waits
\* for one that no process is going to post.  It keeps to one, so that it excludes
\* the processes from each other, except where the writer's constructor has
\* posted while a reader held it, and has two at the most even then.
THEOREM PermitsConserved == Spec => []PermitConserved
<1>1. Init => PermitInv
  BY DEF Init, PermitInv, Owed, WillPost, InsideSem, Constructing, Procs
<1>2. Sound /\ PermitInv /\ [Next]_vars => PermitInv'
  BY PermitStep DEF Sound
<1>3. Sound /\ PermitInv => PermitConserved
  BY PermitCount DEF Sound, PermitInv, PermitConserved
<1>4. QED
  BY <1>1, <1>2, <1>3, SoundAlways, PTL DEF Spec

-----------------------------------------------------------------------------
(* The entries, as the reader finds them.                                  *)

\* Whatever the reader does, an entry it may take for complete holds one write.
THEOREM ReadyWhole == Spec => []ReadyIsWhole
<1>1. Sound => ReadyIsWhole
  BY DEF Sound, WriterInv, ReadyIsWhole, Whole
<1>2. QED
  BY <1>1, SoundAlways, PTL

\* Between two writes a tail stands where the next one goes.
THEOREM TailStands == Spec => []TailInPlace
<1>1. Sound => TailInPlace
  BY DEF Sound, WriterInv, TailInPlace, BeforeMark
<1>2. QED
  BY <1>1, SoundAlways, PTL

-----------------------------------------------------------------------------
(* The reader's copy, as long as the writer has not reused the entry.      *)

ReaderInv ==
  /\ Copying /\ ~overrun =>
       /\ Whole(cell[readOffset])
       /\ ~(Overwriting /\ writeOffset = readOffset)
       /\ pc["R"] # "size" =>
            \A k \in Words : k < readWord => memto[k] = cell[readOffset][k]
  /\ Copied /\ ~overrun => Whole(memto)

LEMMA ReaderInvWriter ==
  TypeOK /\ WriterInv /\ ReaderInv /\ WStep => ReaderInv'
<1> SUFFICES ASSUME TypeOK, ReaderInv, WStep PROVE ReaderInv'
  OBVIOUS
<1>1. Copying' = Copying /\ Copied' = Copied /\ UNCHANGED readerVars
        /\ pc'["R"] = pc["R"]
  BY WriterLeavesReader DEF Copying, Copied
<1>2. readOffset \in Entries
  BY DEF TypeOK
<1>3. CASE WMark
  <2>1. writeOffset' = writeOffset /\ cell' = cell
          /\ overrun' = (overrun \/ (Copying /\ readOffset = writeOffset))
    BY <1>3 DEF WMark, writerVars
  <2>2. QED
    BY <1>1, <2>1 DEF ReaderInv, readerVars
<1>4. CASE ~WMark
  <2>1. overrun' = overrun
    BY <1>4, WriterLeavesReader
  <2>2. ~(Overwriting /\ writeOffset = readOffset)
          => ~(Overwriting /\ writeOffset = readOffset)'
    BY <1>1, <1>4, WriterLeavesReader DEF readerVars
  <2>3. ~(Overwriting /\ writeOffset = readOffset)
          => cell'[readOffset] = cell[readOffset]
    BY <1>2, WriterLeavesReader DEF WCopy, Goto, Overwriting
  <2>4. QED
    BY <1>1, <2>1, <2>2, <2>3 DEF ReaderInv, readerVars, Whole
<1>5. QED
  BY <1>3, <1>4

LEMMA ReaderInvReader ==
  TypeOK /\ WriterInv /\ SizeInv /\ ReaderInv /\ RStep => ReaderInv'
<1> SUFFICES ASSUME TypeOK, WriterInv, SizeInv, ReaderInv, RStep PROVE ReaderInv'
  OBVIOUS
<1>1. cell' = cell /\ Overwriting' = Overwriting /\ writeOffset' = writeOffset
  BY ReaderLeavesWriter DEF Overwriting, writerVars
<1> USE <1>1 DEF ReaderInv, TypeOK, Goto, Procs, shared, readerVars, history,
                 Copying, Copied
<1>2. CASE RConstruct \/ RCall \/ RInitPage \/ RNothing
  BY <1>2 DEF RConstruct, RCall, RInitPage, RNothing
<1>3. CASE RFound
  <2>1. status[readOffset] = READY
    BY <1>3 DEF RFound, Found
  <2>2. Whole(cell[readOffset]) /\ ~(Overwriting /\ writeOffset = readOffset)
    BY <2>1 DEF WriterInv, READY, WRITING
  <2>3. QED
    BY <1>3, <2>2 DEF RFound
<1>4. CASE RSize
  BY <1>4, WordsReach DEF RSize, Words
<1>5. CASE RPage \/ RUnpage
  BY <1>5 DEF RPage, RUnpage
<1>6. CASE RCopy
  <2>1. \A k \in Words : memto'[k] =
                          IF k = readWord THEN cell[readOffset][k] ELSE memto[k]
    BY <1>6, WordsReach DEF RCopy, MemoryAt
  <2>2. /\ memto[1] \in 1 .. MaxWrites /\ readWord > 1 /\ 1 \in Words
        /\ readWord \in Nat
    BY <1>6, WordsReach DEF RCopy, SizeInv, Writes
  <2>3. CASE readWord = LastRead
    <3>1. Copied' /\ ~Copying' /\ overrun' = overrun
      BY <1>6, <2>3 DEF RCopy
    <3>2. ASSUME ~overrun PROVE Whole(memto')
      <4>1. /\ Whole(cell[readOffset])
            /\ \A k \in Words : k < readWord => memto[k] = cell[readOffset][k]
        BY <1>6, <3>2 DEF RCopy
      <4>2. memto[1] = cell[readOffset][1] /\ memto'[1] = memto[1]
        BY <2>1, <2>2, <4>1
      <4>3. \A k \in Stored(memto[1]) : k \in Words /\ k < readWord
        BY <2>2, <2>3, EntrySizes DEF LastRead, Words
      <4>4. \A k \in Stored(memto[1]) : memto'[k] = memto[1]
        BY <2>1, <2>2, <4>1, <4>2, <4>3 DEF Whole
      <4>5. QED
        BY <2>2, <4>2, <4>4 DEF Whole
    <3>3. QED
      BY <3>1, <3>2
  <2>4. CASE readWord # LastRead
    <3>1. /\ pc'["R"] = "copy" /\ readWord' = readWord + 1
          /\ readOffset' = readOffset /\ overrun' = overrun
      BY <1>6, <2>4 DEF RCopy
    <3>2. \A k \in Words : k < readWord' => k = readWord \/ k < readWord
      BY <2>2, <3>1 DEF Words
    <3>3. QED
      BY <1>6, <2>1, <3>1, <3>2 DEF RCopy
  <2>5. QED
    BY <2>3, <2>4
<1>7. CASE \/ SemWait("R", "initWait", "initPage")
           \/ SemWait("R", "wait", "page")
           \/ SemWait("R", "doneWait", "donePage")
  BY <1>7 DEF SemWait
<1>8. CASE \/ SemGetValue("R", "initSet", "initPost")
           \/ SemGetValue("R", "set", "post")
           \/ SemGetValue("R", "doneSet", "donePost")
  BY <1>8 DEF SemGetValue
<1>9. CASE \/ SemPost("R", "initPost", "status")
           \/ SemPost("R", "post", "copy")
           \/ RReturn
  BY <1>9 DEF SemPost, RReturn
<1>10. QED
  BY <1>2, <1>3, <1>4, <1>5, <1>6, <1>7, <1>8, <1>9 DEF RStep

LEMMA ReaderInit == Init => ReaderInv
  BY DEF Init, ReaderInv, Copying, Copied, Procs

LEMMA ReaderStep == Sound /\ ReaderInv /\ [Next]_vars => ReaderInv'
<1>1. TypeOK /\ ReaderInv /\ UNCHANGED vars => ReaderInv'
  BY DEF ReaderInv, Copying, Copied, Overwriting, Whole, vars, shared,
         readerVars, writerVars, history
<1>2. QED
  BY <1>1, ReaderInvWriter, ReaderInvReader DEF Next, Sound

\* What a read that succeeds returns begins with the payload of one write, unless
\* the writer reused the entry while it was being read.
THEOREM ReadWhole == Spec => []TornOnlyIfOverrun
<1>1. ReaderInv => TornOnlyIfOverrun
  BY DEF ReaderInv, TornOnlyIfOverrun, Copied, Whole
<1>2. QED
  BY <1>1, ReaderInit, ReaderStep, SoundAlways, PTL DEF Spec
-----------------------------------------------------------------------------
(* The order of the entries around the ring.                               *)

\* The newest complete write, and how far back from it an entry is.
Latest == IF pc["W"] \in {"wait", "mark"} \/ Overwriting THEN written - 1
                                                         ELSE written
Tip == IF pc["W"] = "tail" THEN writeOffset ELSE writeOffset - 1
Back(i) == (Tip - i) % NumEntries

OrderInv ==
  \A i \in Entries : status[i] = READY => cell[i][1] = Latest - Back(i)

\* Where the write page stands.
PageInv ==
  /\ pc["W"] \in {"set", "post", "copy", "ready"} => writePage = writeOffset
  /\ status[writePage] = READY => cell[writePage][1] = Latest

\* Distances around the ring, as differences.
LEMMA Distance ==
  ASSUME NEW t \in -1 .. NumEntries - 1, NEW i \in Entries
  PROVE  (t - i) % NumEntries = IF i <= t THEN t - i ELSE t - i + NumEntries
<1>1. NumEntries \in Nat /\ NumEntries >= 2 /\ t \in Int /\ i \in Int
        /\ 0 <= i /\ i <= NumEntries - 1
  BY RingAssumption DEF Entries
<1>2. CASE i <= t
  <2>1. t - i \in 0 .. NumEntries - 1
    BY <1>1, <1>2
  <2>2. QED
    BY <1>1, <1>2, <2>1
<1>3. CASE ~(i <= t)
  <2>1. t - i \in Int /\ -NumEntries <= t - i /\ t - i <= -1
    BY <1>1, <1>3
  <2>2. QED
    BY <1>1, <1>3, <2>1
<1>4. QED
  BY <1>2, <1>3

LEMMA NextEntry ==
  ASSUME NEW o \in Entries
  PROVE  BufferAdd(o, 1) = IF o = NumEntries - 1 THEN 0 ELSE o + 1
<1>1. NumEntries \in Nat /\ NumEntries >= 2 /\ o \in 0 .. NumEntries - 1
  BY RingAssumption DEF Entries
<1>2. CASE o = NumEntries - 1
  BY <1>1, <1>2 DEF BufferAdd
<1>3. CASE o # NumEntries - 1
  <2>1. o + 1 \in 0 .. NumEntries - 1
    BY <1>1, <1>3
  <2>2. QED
    BY <1>1, <1>3, <2>1 DEF BufferAdd
<1>4. QED
  BY <1>2, <1>3

LEMMA OrderStep ==
  TypeOK /\ WriterInv /\ OrderInv /\ PageInv /\ [Next]_vars => OrderInv' /\ PageInv'
<1> SUFFICES ASSUME TypeOK, WriterInv, OrderInv, PageInv, [Next]_vars
             PROVE  OrderInv' /\ PageInv'
  OBVIOUS
<1>1. /\ pc \in [Procs -> WriterPCs \cup ReaderPCs] /\ pc["W"] \in WriterPCs
      /\ writeOffset \in Entries /\ writePage \in Entries /\ written \in Nat
      /\ status \in [Entries -> Statuses] /\ cell \in [Entries -> [Words -> Writes]]
      /\ 1 \in Words
  <2>1. 1 \in Words /\ Writes \subseteq Nat
    BY RingAssumption DEF Writes, Words
  <2>2. QED
    BY <2>1 DEF TypeOK
\* A step that neither completes a write nor moves on.
<1>2. ASSUME Latest' = Latest, Tip' = Tip,
             \A i \in Entries : status'[i] = READY =>
               status[i] = READY /\ cell'[i] = cell[i],
             writePage' = writePage \/ status'[writePage'] # READY,
             pc'["W"] \in {"set", "post", "copy", "ready"} => writePage' = writeOffset',
             writePage' \in Entries
      PROVE  OrderInv' /\ PageInv'
  BY <1>2 DEF OrderInv, PageInv, Back
<1>3. CASE RStep
  BY <1>1, <1>2, <1>3, ReaderLeavesWriter
  DEF Latest, Tip, Overwriting, PageInv, writerVars
<1>4. CASE UNCHANGED vars
  BY <1>1, <1>2, <1>4 DEF Latest, Tip, Overwriting, PageInv, vars, shared, writerVars
<1>5. CASE WConstruct
  BY <1>1, <1>2, <1>5 DEF WConstruct, Latest, Tip, Overwriting, PageInv, Goto, Procs,
                          writerVars, BUFFER_END, READY
<1>6. CASE WCall
  <2>1. pc["W"] = "idle" /\ pc'["W"] = "wait" /\ written' = written + 1
          /\ writeOffset' = writeOffset /\ UNCHANGED shared
    BY <1>1, <1>6 DEF WCall, Goto, Procs
  <2>2. Latest' = Latest /\ Tip' = Tip
    BY <1>1, <2>1 DEF Latest, Tip, Overwriting
  <2>3. QED
    BY <1>1, <1>2, <2>1, <2>2 DEF shared
<1>7. CASE WMark
  <2>1. /\ pc["W"] = "mark" /\ pc'["W"] = "page" /\ written' = written
        /\ writeOffset' = writeOffset /\ cell' = cell /\ writePage' = writePage
        /\ status' = [status EXCEPT ![writeOffset] = WRITING]
    BY <1>1, <1>7 DEF WMark, Goto, Procs, writerVars
  <2>2. Latest' = Latest /\ Tip' = Tip
    BY <2>1 DEF Latest, Tip, Overwriting
  <2>3. QED
    BY <1>1, <1>2, <2>1, <2>2 DEF WRITING, READY
<1>8. CASE WPage
  <2>1. /\ pc["W"] = "page" /\ pc'["W"] = "set" /\ written' = written
        /\ writeOffset' = writeOffset /\ cell' = cell /\ writePage' = writeOffset
        /\ status' = status
    BY <1>1, <1>8 DEF WPage, Goto, Procs, writerVars
  <2>2. Latest' = Latest /\ Tip' = Tip
    BY <2>1 DEF Latest, Tip, Overwriting
  <2>3. status'[writePage'] # READY
    BY <2>1 DEF WriterInv, Overwriting, WRITING, READY
  <2>4. QED
    BY <1>1, <1>2, <2>1, <2>2, <2>3
<1>9. CASE WCopy
  <2>1. /\ pc["W"] = "copy" /\ pc'["W"] \in {"copy", "ready"} /\ written' = written
        /\ writeOffset' = writeOffset /\ writePage' = writePage /\ status' = status
        /\ \A i \in Entries : i # writeOffset => cell'[i] = cell[i]
    BY <1>1, <1>9 DEF WCopy, Goto, Procs
  <2>2. Latest' = Latest /\ Tip' = Tip
    BY <2>1 DEF Latest, Tip, Overwriting
  <2>3. status[writeOffset] # READY /\ writePage = writeOffset
    BY <2>1 DEF WriterInv, PageInv, Overwriting, WRITING, READY
  <2>4. QED
    BY <1>1, <1>2, <2>1, <2>2, <2>3
\* Every entry is one further back from the write that is complete now.
<1>10. CASE WReady
  <2>1. /\ pc["W"] = "ready" /\ pc'["W"] = "tail" /\ written' = written
        /\ writeOffset' = writeOffset /\ writePage' = writePage /\ cell' = cell
        /\ status' = [status EXCEPT ![writeOffset] = READY]
    BY <1>1, <1>10 DEF WReady, Goto, Procs, writerVars
  <2>2. /\ Latest = written - 1 /\ Latest' = written
        /\ Tip = writeOffset - 1 /\ Tip' = writeOffset
    BY <2>1 DEF Latest, Tip, Overwriting
  <2>3. cell[writeOffset][1] = written /\ writePage = writeOffset
    <3>1. written \in 1 .. MaxWrites
      BY <2>1 DEF WriterInv, Overwriting, TypeOK, Writes
    <3>2. QED
      BY <2>1, <3>1, EntrySizes DEF WriterInv, PageInv
  <2>4. ASSUME NEW i \in Entries
        PROVE  Back(i)' = IF i = writeOffset THEN 0 ELSE Back(i) + 1
    <3>1. Back(i)' = (writeOffset - i) % NumEntries
            /\ Back(i) = ((writeOffset - 1) - i) % NumEntries
      BY <2>2 DEF Back
    <3>2. writeOffset \in -1 .. NumEntries - 1 /\ writeOffset - 1 \in -1 .. NumEntries - 1
      BY <1>1, RingAssumption DEF Entries
    <3>3. /\ (writeOffset - i) % NumEntries =
                IF i <= writeOffset THEN writeOffset - i
                                    ELSE writeOffset - i + NumEntries
          /\ ((writeOffset - 1) - i) % NumEntries =
                IF i <= writeOffset - 1 THEN (writeOffset - 1) - i
                                        ELSE (writeOffset - 1) - i + NumEntries
      BY <3>2, Distance
    <3>4. writeOffset \in Int /\ i \in Int /\ NumEntries \in Nat
            /\ writeOffset <= NumEntries - 1
      BY <1>1, RingAssumption DEF Entries
    <3>5. QED
      BY <3>1, <3>3, <3>4
  <2>5. ASSUME NEW i \in Entries
        PROVE  Back(i) \in Int
    BY <1>1, <2>2, RingAssumption DEF Back, Entries
  <2>6. ASSUME NEW i \in Entries, status'[i] = READY
        PROVE  cell'[i][1] = Latest' - Back(i)'
    <3>1. CASE i = writeOffset
      BY <1>1, <2>1, <2>2, <2>3, <2>4, <3>1
    <3>2. CASE i # writeOffset
      <4>1. cell[i][1] = Latest - Back(i)
        BY <1>1, <2>1, <2>6, <3>2 DEF OrderInv
      <4>2. QED
        BY <1>1, <2>1, <2>2, <2>4, <2>5, <3>2, <4>1
    <3>3. QED
      BY <3>1, <3>2
  <2>7. OrderInv'
    BY <2>6 DEF OrderInv
  <2>8. PageInv'
    BY <2>1, <2>2, <2>3 DEF PageInv
  <2>9. QED
    BY <2>7, <2>8
<1>11. CASE WTail
  <2>1. /\ pc["W"] = "tail" /\ pc'["W"] = "idle" /\ written' = written
        /\ writeOffset' = BufferAdd(writeOffset, 1) /\ writePage' = writePage
        /\ cell' = cell /\ status' = [status EXCEPT ![writeOffset'] = BUFFER_END]
    BY <1>1, <1>11 DEF WTail, TailEntry, Goto, Procs
  <2>2. /\ Latest = written /\ Latest' = written
        /\ Tip = writeOffset /\ Tip' = writeOffset' - 1
    BY <2>1 DEF Latest, Tip, Overwriting
  <2>3. ASSUME NEW i \in Entries
        PROVE  Back(i)' = Back(i)
    <3>1. Back(i)' = ((writeOffset' - 1) - i) % NumEntries
            /\ Back(i) = (writeOffset - i) % NumEntries
      BY <2>2 DEF Back
    <3>2. writeOffset' = IF writeOffset = NumEntries - 1 THEN 0 ELSE writeOffset + 1
      BY <1>1, <2>1, NextEntry
    <3>3. writeOffset \in -1 .. NumEntries - 1 /\ writeOffset' - 1 \in -1 .. NumEntries - 1
      BY <1>1, <3>2, RingAssumption DEF Entries
    <3>4. PICK t \in -1 .. NumEntries - 1 : t = writeOffset' - 1
      BY <3>3
    <3>5. /\ (writeOffset - i) % NumEntries =
                IF i <= writeOffset THEN writeOffset - i
                                    ELSE writeOffset - i + NumEntries
          /\ (t - i) % NumEntries = IF i <= t THEN t - i ELSE t - i + NumEntries
      BY <3>3, Distance
    <3>6. /\ writeOffset \in Int /\ i \in Int /\ NumEntries \in Nat
          /\ 0 <= i /\ i <= NumEntries - 1
          /\ t = IF writeOffset = NumEntries - 1 THEN -1 ELSE writeOffset
      BY <1>1, <3>2, <3>4, RingAssumption DEF Entries
    <3>7. QED
      BY <3>1, <3>4, <3>5, <3>6
  <2>4. \A i \in Entries : status'[i] = READY => status[i] = READY
    BY <1>1, <2>1 DEF BUFFER_END, READY
  <2>5. OrderInv'
    BY <2>1, <2>2, <2>3, <2>4 DEF OrderInv
  <2>6. PageInv'
    BY <1>1, <2>1, <2>2, <2>4 DEF PageInv
  <2>7. QED
    BY <2>5, <2>6
<1>12. CASE \/ SemGetValue("W", "ctorSet", "ctorPost")
            \/ SemGetValue("W", "set", "post")
  BY <1>1, <1>2, <1>12
  DEF SemGetValue, Goto, Procs, Latest, Tip, Overwriting, PageInv, shared, writerVars
<1>13. CASE WSet \/ SemPost("W", "post", "copy")
  BY <1>1, <1>2, <1>13
  DEF WSet, SemPost, Goto, Procs, Latest, Tip, Overwriting, PageInv, writerVars
<1>14. CASE SemWait("W", "wait", "mark")
  BY <1>1, <1>2, <1>14
  DEF SemWait, Goto, Procs, Latest, Tip, Overwriting, PageInv, writerVars
<1>15. QED
  BY <1>3, <1>4, <1>5, <1>6, <1>7, <1>8, <1>9, <1>10, <1>11, <1>12, <1>13, <1>14
  DEF Next, WStep

LEMMA OrderInit == Init => OrderInv /\ PageInv
<1>1. Init => \A i \in Entries : status[i] # READY
  BY DEF Init, FRESH, READY
<1>2. Init => pc["W"] = "new" /\ writePage \in Entries
  BY RingAssumption DEF Init, Procs, Entries
<1>3. QED
  BY <1>1, <1>2 DEF OrderInv, PageInv

\* Between two writes the entries a reader may take for complete are the latest
\* writes, one write older for each entry further back: nothing of an earlier
\* lap is left in between.
THEOREM EntriesOrdered == Spec => []EntriesInOrder
<1>1. TypeOK /\ WriterInv /\ OrderInv => EntriesInOrder
  <2> SUFFICES ASSUME TypeOK, WriterInv, OrderInv,
                      pc["W"] \in {"idle", "wait", "mark"},
                      NEW i \in Entries, status[i] = READY
               PROVE  cell[i][1] = (IF pc["W"] = "idle" THEN written ELSE written - 1)
                                     - ((writeOffset - i - 1) % NumEntries)
    BY DEF EntriesInOrder
  <2>1. Tip - i = writeOffset - i - 1
    BY RingAssumption DEF TypeOK, Tip, Entries
  <2>2. Latest = IF pc["W"] = "idle" THEN written ELSE written - 1
    BY DEF Latest, Overwriting
  <2>3. QED
    BY <2>1, <2>2 DEF OrderInv, Back
<1>2. Sound /\ OrderInv /\ PageInv /\ [Next]_vars => OrderInv' /\ PageInv'
  BY OrderStep DEF Sound
<1>3. Sound /\ OrderInv => EntriesInOrder
  BY <1>1 DEF Sound
<1>4. QED
  BY <1>2, <1>3, OrderInit, SoundAlways, PTL DEF Spec
-----------------------------------------------------------------------------
(* The first read.                                                         *)

\* Until the first read() has succeeded, the entry the reader is at, and the size
\* it goes by, are not older than the newest write that was complete when it
\* looked.
FreshInv ==
  /\ newest <= written
  /\ pc["R"] \in {"status", "initSet", "initPost"} => initialized
  /\ ~returned =>
       /\ initialized /\ ~Copied /\ status[readOffset] = READY =>
            cell[readOffset][1] >= newest
       /\ Copying => cell[readOffset][1] >= newest
       /\ Copying /\ pc["R"] # "size" => memto[1] >= newest
       /\ Copied => memto[1] >= newest

LEMMA FreshWriter ==
  TypeOK /\ WriterInv /\ FreshInv /\ WStep => FreshInv'
<1> SUFFICES ASSUME TypeOK, WriterInv, FreshInv, WStep PROVE FreshInv'
  OBVIOUS
<1>1. /\ writeOffset \in Entries /\ readOffset \in Entries /\ 1 \in Words
      /\ written \in Nat /\ newest \in Nat
      /\ \A i \in Entries : \A k \in Words : cell[i][k] \in Nat
      /\ status \in [Entries -> Statuses] /\ cell \in [Entries -> [Words -> Writes]]
  <2>1. 1 \in Words /\ Writes \subseteq Nat
    BY RingAssumption DEF Words, Writes
  <2>2. \A i \in Entries : \A k \in Words : cell[i][k] \in Writes
    BY DEF TypeOK
  <2>3. QED
    BY <2>1, <2>2 DEF TypeOK
<1>2. /\ pc'["R"] = pc["R"] /\ UNCHANGED readerVars
      /\ Copying' = Copying /\ Copied' = Copied
      /\ ~WCopy => cell' = cell
  BY WriterLeavesReader DEF Copying, Copied
<1>3. UNCHANGED <<returned, newest>>
  BY DEF WStep, WConstruct, WSet, WCall, WMark, WPage, WCopy, WReady, WTail, SemWait,
         SemGetValue, SemPost, history
<1>4. written' >= written
  BY <1>1 DEF WStep, WConstruct, WSet, WCall, WMark, WPage, WCopy, WReady, WTail, SemWait,
              SemGetValue, SemPost, writerVars
\* Words are only stored by the write in progress.
<1>5. ASSUME NEW i \in Entries, NEW k \in Words
      PROVE  \/ cell'[i][k] = cell[i][k]
             \/ cell'[i][k] = written /\ written > 0
  <2>1. CASE WCopy
    <3>1. pc["W"] = "copy"
      BY <2>1 DEF WCopy, Goto
    <3>2. written > 0
      BY <3>1 DEF WriterInv, Overwriting
    <3>3. QED
      BY <1>1, <2>1, <3>2 DEF WCopy
  <2>2. CASE ~WCopy
    BY <1>2, <2>2
  <2>3. QED
    BY <2>1, <2>2
\* An entry that becomes complete holds the last write.
<1>6. ASSUME NEW i \in Entries, status'[i] = READY
      PROVE  status[i] = READY \/ cell'[i][1] = written
  <2>1. CASE WReady
    <3>1. pc["W"] = "ready" /\ cell' = cell
            /\ status' = [status EXCEPT ![writeOffset] = READY]
      BY <2>1 DEF WReady, Goto
    <3>2. cell[writeOffset][1] = written
      <4>1. written \in 1 .. MaxWrites
        BY <3>1 DEF WriterInv, Overwriting, TypeOK, Writes
      <4>2. QED
        BY <3>1, <4>1, EntrySizes DEF WriterInv
    <3>3. QED
      BY <1>1, <1>6, <3>1, <3>2
  <2>2. CASE WMark \/ WTail \/ WConstruct
    <3>1. \E j : \E v \in {WRITING, BUFFER_END} : status' = [status EXCEPT ![j] = v]
      BY <2>2 DEF WMark, WTail, WConstruct
    <3>2. QED
      BY <1>1, <1>6, <3>1 DEF WRITING, BUFFER_END, READY
  <2>3. CASE ~WReady /\ ~WMark /\ ~WTail /\ ~WConstruct
    <3>1. status' = status
      BY <2>3 DEF WStep, WSet, WCall, WPage, WCopy, SemWait, SemGetValue, SemPost, shared
    <3>2. QED
      BY <1>6, <3>1
  <2>4. QED
    BY <2>1, <2>2, <2>3
<1>7. newest <= written
  BY DEF FreshInv
<1>8. newest' <= written'
  BY <1>1, <1>3, <1>4, <1>7, WriterType DEF TypeOK, Writes
<1>9. ASSUME ~returned, initialized, ~Copied, status'[readOffset] = READY
      PROVE  cell'[readOffset][1] >= newest
  <2>1. CASE status[readOffset] = READY
    <3>1. cell[readOffset][1] >= newest
      BY <1>9, <2>1 DEF FreshInv
    <3>2. QED
      BY <1>1, <1>5, <1>7, <3>1
  <2>2. CASE status[readOffset] # READY
    BY <1>1, <1>6, <1>7, <1>9, <2>2
  <2>3. QED
    BY <2>1, <2>2
<1>10. ASSUME ~returned, Copying
       PROVE  cell'[readOffset][1] >= newest
  <2>1. cell[readOffset][1] >= newest
    BY <1>10 DEF FreshInv
  <2>2. QED
    BY <1>1, <1>5, <1>7, <2>1
<1>11. QED
  BY <1>2, <1>3, <1>8, <1>9, <1>10 DEF FreshInv, readerVars

LEMMA FreshReader ==
  TypeOK /\ WriterInv /\ SizeInv /\ OrderInv /\ PageInv /\ FreshInv /\ RStep
    => FreshInv'
<1> SUFFICES ASSUME TypeOK, WriterInv, SizeInv, OrderInv, PageInv, FreshInv, RStep
             PROVE  FreshInv'
  OBVIOUS
<1>1. status' = status /\ cell' = cell /\ written' = written
  BY ReaderLeavesWriter DEF writerVars
<1>2. /\ pc \in [Procs -> WriterPCs \cup ReaderPCs] /\ pc["R"] \in ReaderPCs
      /\ readOffset \in Entries /\ writePage \in Entries
      /\ 1 \in Words /\ 1 \in Reach
      /\ written \in Nat /\ newest \in Nat /\ memto[1] \in Nat
      /\ \A i \in Entries : \A k \in Words : cell[i][k] \in Nat
      /\ memto \in [Reach -> Int]
  <2>1. 1 \in Words /\ 1 \in Reach /\ Writes \subseteq Nat
    BY WordsReach, RingAssumption DEF Writes
  <2>2. \A i \in Entries : \A k \in Words : cell[i][k] \in Writes
    BY DEF TypeOK
  <2>3. QED
    BY <2>1, <2>2 DEF TypeOK
<1>3. newest <= written
  BY DEF FreshInv
<1> USE DEF Goto, Procs, Copying, Copied, shared, readerVars, history
<1>4. CASE RConstruct \/ RCall \/ RNothing \/ RPage
  BY <1>1, <1>2, <1>4 DEF FreshInv, RConstruct, RCall, RNothing, RPage
<1>5. CASE RUnpage
  BY <1>1, <1>2, <1>5 DEF FreshInv, RUnpage
<1>6. CASE \/ SemWait("R", "initWait", "initPage")
           \/ SemWait("R", "wait", "page")
           \/ SemWait("R", "doneWait", "donePage")
  BY <1>1, <1>2, <1>6 DEF FreshInv, SemWait
<1>7. CASE \/ SemGetValue("R", "initSet", "initPost")
           \/ SemGetValue("R", "set", "post")
           \/ SemGetValue("R", "doneSet", "donePost")
  BY <1>1, <1>2, <1>7 DEF FreshInv, SemGetValue
<1>8. CASE \/ SemPost("R", "initPost", "status")
           \/ SemPost("R", "post", "copy")
  BY <1>1, <1>2, <1>8 DEF FreshInv, SemPost
\* The write page names the newest complete entry, if a complete one at all.
<1>9. CASE RInitPage
  <2>1. /\ pc'["R"] = "initSet" /\ readOffset' = writePage /\ initialized'
        /\ newest' \in Completed
    BY <1>2, <1>9 DEF RInitPage, StartEntry
  <2>2. Latest \in Int /\ Latest <= written
    BY <1>2 DEF Latest
  <2>3. ASSUME NEW i \in Entries, status[i] = READY
        PROVE  cell[i][1] <= Latest
    <3>1. NumEntries \in Nat /\ NumEntries >= 2 /\ Tip - i \in Int
      BY RingAssumption DEF Tip, Entries, TypeOK
    <3>2. Back(i) \in Nat
      BY <3>1 DEF Back
    <3>3. QED
      BY <2>2, <2>3, <3>2 DEF OrderInv
  <2>4. newest' = 0 \/ \E i \in Entries : status[i] = READY /\ newest' = cell[i][1]
    BY <2>1 DEF Completed
  <2>5. newest' <= written'
    BY <1>1, <1>2, <2>2, <2>3, <2>4
  <2>6. ASSUME status[writePage] = READY
        PROVE  cell[writePage][1] >= newest'
    <3>1. cell[writePage][1] = Latest
      BY <2>6 DEF PageInv
    <3>2. QED
      BY <1>2, <2>2, <2>3, <2>4, <3>1
  <2>7. QED
    BY <1>1, <2>1, <2>5, <2>6 DEF FreshInv
<1>10. CASE RFound
  <2>1. /\ pc["R"] = "status" /\ pc'["R"] = "size" /\ status[readOffset] = READY
        /\ UNCHANGED <<readOffset, initialized, memto, returned, newest>>
    BY <1>2, <1>10 DEF RFound, Found
  <2>2. ~returned => cell[readOffset][1] >= newest
    BY <2>1 DEF FreshInv
  <2>3. QED
    BY <1>1, <1>3, <2>1, <2>2 DEF FreshInv
<1>11. CASE RSize
  <2>1. /\ pc["R"] = "size" /\ pc'["R"] = "wait"
        /\ memto'[1] = cell[readOffset][1]
        /\ UNCHANGED <<readOffset, initialized, returned, newest>>
    BY <1>2, <1>11 DEF RSize
  <2>2. QED
    BY <1>1, <1>2, <1>3, <2>1 DEF FreshInv
<1>12. CASE RCopy
  <2>1. /\ pc["R"] = "copy"
        /\ pc'["R"] = IF readWord = LastRead THEN "doneWait" ELSE "copy"
        /\ readWord # LastRead => readOffset' = readOffset
        /\ UNCHANGED <<initialized, returned, newest>>
    BY <1>2, <1>12 DEF RCopy
  <2>2. memto'[1] = memto[1]
    <3>1. readWord > 1
      BY <2>1 DEF SizeInv
    <3>2. QED
      BY <1>2, <1>12, <3>1 DEF RCopy
  <2>3. QED
    BY <1>1, <1>3, <2>1, <2>2 DEF FreshInv
<1>13. CASE RReturn
  <2>1. /\ pc["R"] = "donePost" /\ pc'["R"] = "idle" /\ returned'
        /\ UNCHANGED <<initialized, newest>>
    BY <1>2, <1>13 DEF RReturn
  <2>2. QED
    BY <1>1, <1>3, <2>1 DEF FreshInv
<1>14. QED
  BY <1>4, <1>5, <1>6, <1>7, <1>8, <1>9, <1>10, <1>11, <1>12, <1>13 DEF RStep

LEMMA FreshStep ==
  Sound /\ OrderInv /\ PageInv /\ FreshInv /\ [Next]_vars => FreshInv'
<1>1. FreshInv /\ UNCHANGED vars => FreshInv'
  BY DEF FreshInv, Copying, Copied, vars, shared, writerVars, readerVars, history
<1>2. QED
  BY <1>1, FreshWriter, FreshReader DEF Next, Sound

LEMMA FreshInit == Init => FreshInv
<1>1. Init => newest <= written
  BY DEF Init
<1>2. Init => pc["R"] = "new" /\ ~initialized
  BY DEF Init, Procs
<1>3. QED
  BY <1>1, <1>2 DEF FreshInv, Copying, Copied

\* A reader that starts while the writer is at work is not sent back: the first
\* read() that succeeds is no older than the newest write complete at its start,
\* although the write page is looked up under the semaphore and the entry it
\* names is read after it.
THEOREM FirstReadFresh == Spec => FirstReadIsFresh
<1>1. Sound /\ ReaderInv /\ FreshInv /\ [Next]_vars =>
        [~returned /\ returned' =>
           /\ memto[1] >= newest
           /\ ~overrun => \A k \in Stored(memto[1]) : memto[k] >= newest]_returned
  <2> SUFFICES ASSUME ReaderInv, FreshInv, [Next]_vars, ~returned, returned'
               PROVE  /\ memto[1] >= newest
                      /\ ~overrun => \A k \in Stored(memto[1]) : memto[k] >= newest
    OBVIOUS
  <2>1. RReturn
    BY DEF Next, WStep, RStep, WConstruct, WSet, WCall, WMark, WPage, WCopy, WReady,
           WTail, RConstruct, RCall, RInitPage, RNothing, RFound, RSize, RPage,
           RCopy, RUnpage, SemWait, SemGetValue, SemPost, vars, history
  <2>2. Copied
    BY <2>1 DEF RReturn, Goto, Copied
  <2>3. memto[1] >= newest
    BY <2>2 DEF FreshInv
  <2>4. ASSUME ~overrun, NEW k \in Stored(memto[1]) PROVE memto[k] = memto[1]
    BY <2>2, <2>4 DEF ReaderInv, Whole
  <2>5. QED
    BY <2>3, <2>4
<1>2. Sound /\ OrderInv /\ PageInv /\ [Next]_vars => OrderInv' /\ PageInv'
  BY OrderStep DEF Sound
<1>3. QED
  BY <1>1, <1>2, FreshInit, FreshStep, OrderInit, ReaderInit, ReaderStep,
     SoundAlways, PTL DEF Spec, FirstReadIsFresh
=============================================================================
