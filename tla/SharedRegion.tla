---------------------------- MODULE SharedRegion -----------------------------
(***************************************************************************)
(* mmap/mmap_two_threads.cpp: a writer thread puts lines in a shared       *)
(* memory region, a reader thread prints the line it finds there whenever  *)
(* its length changed.  Only length and done are atomic; the bytes are not,*)
(* and each is read and written on its own.  A byte is the number of the   *)
(* line it came from.  The lock-free format has no lock: torn reads and    *)
(* missed lines are possible, and the model has them.                      *)
(***************************************************************************)
EXTENDS Integers, Sequences

CONSTANTS LineLens,   \* lengths of the lines typed (cut to kPayloadSize - 1)
          MaxLines,   \* bound: lines typed
          Payload     \* kPayloadSize

ASSUME SharedRegionAssumption ==
  /\ LineLens \subseteq 0..Payload - 1 /\ {MaxLines, Payload} \subseteq Nat

VARIABLES
  shm,        \* "absent", "empty" (no size yet) or "sized"
  leftover,   \* the region was there already, from a run that was killed
  length, stop, data, \* the region: length, done and the bytes
  lineOf,     \* the line whose length is in the region
  wpc, line, lineLen, copied, \* the writer
  rpc, lastLen, len, text, from, \* the reader; from: the line of len
  torn,       \* the writer wrote while the reader was copying
  early       \* when the reader last looked, the region was not cleared yet

regionVars == <<shm, leftover, length, stop, data, lineOf, wpc, line, lineLen, copied,
                rpc, lastLen, len, text, from, torn, early>>
regionOnly == <<shm, leftover, length, stop, data, lineOf>>
writerOnly == <<wpc, line, lineLen, copied>>
readerOnly == <<rpc, lastLen, len, text, from, early>>

Nul == 0
Old == -1   \* bytes and length of an earlier run
Bytes == 1..Payload

RegionInit ==
  /\ leftover \in BOOLEAN
  /\ shm = IF leftover THEN "sized" ELSE "absent"
  /\ data = [i \in Bytes |-> IF leftover THEN Old ELSE Nul]
  /\ length \in (IF leftover THEN LineLens ELSE {0})
  /\ stop \in (IF leftover THEN BOOLEAN ELSE {FALSE})
  /\ lineOf = IF leftover THEN Old ELSE 0
  /\ wpc = "open" /\ line = 0 /\ lineLen = 0 /\ copied = 0
  /\ rpc = "open" /\ lastLen = -1 /\ len = 0 /\ text = <<>> /\ from = 0
  /\ torn = FALSE /\ early = FALSE

-----------------------------------------------------------------------------
Touches == torn' = (torn \/ rpc = "copy")

\* map_region(true): shm_open, ftruncate (which keeps what was there), mmap.
WriterOpens ==
  /\ wpc = "open"
  /\ shm' = IF shm = "absent" THEN "empty" ELSE shm
  /\ wpc' = "truncate"
  /\ UNCHANGED <<leftover, length, stop, data, lineOf, line, lineLen, copied, readerOnly, torn>>

WriterSizes ==
  /\ wpc = "truncate" /\ shm' = "sized" /\ wpc' = "clear"
  /\ UNCHANGED <<leftover, length, stop, data, lineOf, line, lineLen, copied, readerOnly, torn>>

\* Fault: the region is used as it is.
WriterClearsFault ==
  /\ wpc = "clear" /\ wpc' = "getline"
  /\ UNCHANGED <<regionOnly, line, lineLen, copied, readerOnly, torn>>

\* memset: the two atomics, then the bytes one by one.
WriterClears ==
  /\ \/ /\ wpc = "clear" /\ wpc' = "clearing" /\ Touches
        /\ length' = 0 /\ stop' = FALSE /\ lineOf' = 0
        /\ UNCHANGED <<data, copied>>
     \/ /\ wpc = "clearing" /\ copied < Payload /\ Touches
        /\ data' = [data EXCEPT ![copied + 1] = Nul] /\ copied' = copied + 1
        /\ UNCHANGED <<wpc, length, stop, lineOf>>
     \/ /\ wpc = "clearing" /\ copied = Payload /\ wpc' = "getline"
        /\ UNCHANGED <<length, stop, lineOf, data, copied, torn>>
  /\ UNCHANGED <<shm, leftover, line, lineLen, readerOnly>>

\* The next line, or "quit".
WriterReads ==
  /\ wpc = "getline"
  /\ \/ /\ line < MaxLines /\ line' = line + 1
        /\ lineLen' \in LineLens /\ copied' = 0
        /\ wpc' = "memcpy"
     \/ wpc' = "quit" /\ UNCHANGED <<line, lineLen, copied>>
  /\ UNCHANGED <<regionOnly, readerOnly, torn>>

\* memcpy byte by byte, the terminating NUL, and the length, released.
WriterCopies ==
  /\ wpc = "memcpy"
  /\ IF copied <= lineLen
     THEN /\ data' = [data EXCEPT ![copied + 1] = IF copied < lineLen THEN line ELSE Nul]
          /\ copied' = copied + 1 /\ Touches
          /\ UNCHANGED <<wpc, length, lineOf>>
     ELSE /\ length' = lineLen /\ lineOf' = line /\ wpc' = "getline"
          /\ UNCHANGED <<data, copied, torn>>
  /\ UNCHANGED <<shm, leftover, stop, line, lineLen, readerOnly>>

WriterQuits ==
  /\ wpc = "quit" /\ stop' = TRUE /\ wpc' = "ended"
  /\ UNCHANGED <<shm, leftover, length, data, lineOf, line, lineLen, copied, readerOnly, torn>>

Uncleared == wpc \in {"open", "truncate", "clear", "clearing"}
Writing == wpc = "clearing" \/ (wpc = "memcpy" /\ copied \in 1..lineLen + 1)

\* map_region(false): exits if the writer's 100 ms were not enough.
ReaderOpens ==
  /\ rpc = "open"
  /\ rpc' = IF shm = "absent" THEN "exited" ELSE "load"
  /\ UNCHANGED <<regionOnly, writerOnly, lastLen, len, text, from, torn, early>>

\* length, acquired; a region without a size yet is a bus error.
ReaderLoads ==
  /\ rpc = "load"
  /\ len' = length /\ from' = lineOf /\ text' = <<>>
  /\ rpc' = CASE shm = "empty" -> "crashed"
              [] shm = "sized" /\ length > 0 /\ length # lastLen -> "copy"
              [] shm = "sized" /\ ~(length > 0 /\ length # lastLen) -> "check"
  /\ torn' = Writing /\ early' = Uncleared
  /\ UNCHANGED <<regionOnly, writerOnly, lastLen>>

ReaderCopies ==
  /\ rpc = "copy" /\ Len(text) < len
  /\ text' = Append(text, data[Len(text) + 1])
  /\ UNCHANGED <<regionOnly, writerOnly, rpc, lastLen, len, from, torn, early>>

ReaderPrints ==
  /\ rpc = "copy" /\ Len(text) = len
  /\ lastLen' = len /\ rpc' = "check"
  /\ UNCHANGED <<regionOnly, writerOnly, len, text, from, torn, early>>

\* done ends the reader, whether or not the last line was seen.
ReaderChecks ==
  /\ rpc = "check"
  /\ rpc' = IF stop THEN "ended" ELSE "load"
  /\ early' = Uncleared
  /\ UNCHANGED <<regionOnly, writerOnly, lastLen, len, text, from, torn>>

\* exit and a bus error end the process, the writer with it.
RegionNext ==
  /\ rpc \notin {"exited", "crashed"}
  /\ \/ WriterOpens \/ WriterSizes \/ WriterClears \/ WriterReads \/ WriterCopies \/ WriterQuits
     \/ ReaderOpens \/ ReaderLoads \/ ReaderCopies \/ ReaderPrints \/ ReaderChecks

-----------------------------------------------------------------------------
(***************************************************************************)
(* What the reader copies is the line whose length it read, byte for byte, *)
(* unless the writer wrote while it copied; even then no byte is older     *)
(* than that line.  It copies an earlier run's bytes, or is stopped by an  *)
(* earlier run's flag, only if it loaded the length, or the flag, before   *)
(* the writer had cleared a region left over.                              *)
(***************************************************************************)
ReadsHoldTogether ==
  /\ rpc = "copy" /\ ~torn => \A i \in 1..Len(text) : text[i] = from
  /\ \A i \in 1..Len(text) : text[i] = Nul \/ text[i] >= from
  /\ rpc = "copy" /\ (\E i \in 1..Len(text) : text[i] = Old) => early /\ leftover
  /\ rpc = "ended" => wpc = "ended" \/ (early /\ leftover)
  /\ rpc \in {"exited", "crashed"} => ~leftover
=============================================================================
