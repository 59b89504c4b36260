---------------------------- MODULE Threads_proofs ----------------------------
(***************************************************************************)
(* Proofs about the small programs with threads: the store buffering test, *)
(* for any set of modes and any number of iterations; the region shared by *)
(* a writer and a reader, for any lengths and number of lines; and threads *)
(* that churn one allocator, for any number of them and any options.       *)
(***************************************************************************)
EXTENDS StoreLoad, SharedRegion, Churn, TLAPS, FiniteSetTheorems,
        FunctionTheorems, SequenceTheorems, WellFoundedInduction

-----------------------------------------------------------------------------
(***************************************************************************)
(* mem_order: the store buffering test.                                    *)
(***************************************************************************)
\* The test run on its own.
LitmusSpec == LitmusInit /\ [][LitmusNext]_litmusVars

LitmusType ==
  /\ mem \in [Threads -> 0..1] /\ reg \in [Threads -> 0..1]
  /\ tpc \in [Threads -> {"store", "load", "end"}]
  /\ buffered \subseteq Threads

(***************************************************************************)
(* Under seq_cst no store waits in a buffer: who is past its store has it  *)
(* in memory, where the load of the other, if later, finds it.             *)
(***************************************************************************)
StoresAreSeen ==
  mode = "SEQ_CST" =>
    /\ buffered = {}
    /\ ~Over => \A t \in Threads : tpc[t] # "store" => mem[t] = 1
LitmusInv == LitmusType /\ StoresAreSeen /\ SomeoneSeesTheOther

LEMMA LitmusInitInv == LitmusInit => LitmusInv
<1> SUFFICES ASSUME LitmusInit PROVE LitmusInv
  OBVIOUS
<1>1. 1 \in Threads /\ 2 \in Threads
  BY DEF Threads
<1>2. LitmusType
  BY DEF LitmusInit, LitmusType, Zeros
<1>3. QED
  BY <1>1, <1>2 DEF LitmusInit, LitmusInv, StoresAreSeen, SomeoneSeesTheOther

(***************************************************************************)
(* A store goes to memory at once under seq_cst.                           *)
(***************************************************************************)
LEMMA StoreKeeps ==
  ASSUME LitmusInv, NEW t \in Threads, StoreOwn(t) PROVE LitmusInv'
<1> USE DEF LitmusInv
<1>1. tpc' = [tpc EXCEPT ![t] = "load"] /\ tpc'[t] = "load"
  BY DEF StoreOwn, LitmusType
<1>2. LitmusType'
  BY <1>1 DEF StoreOwn, LitmusType
<1>3. ASSUME mode = "SEQ_CST" PROVE mem' = [mem EXCEPT ![t] = 1] /\ buffered' = buffered
  BY <1>3 DEF StoreOwn
<1>4. StoresAreSeen'
  BY <1>1, <1>3 DEF StoreOwn, StoresAreSeen, LitmusType, Over
<1>5. SomeoneSeesTheOther'
  BY <1>1 DEF StoreOwn, SomeoneSeesTheOther, Over
<1>6. QED BY <1>2, <1>4, <1>5

(***************************************************************************)
(* Nothing is drained under seq_cst.                                       *)
(***************************************************************************)
LEMMA DrainKeeps ==
  ASSUME LitmusInv, NEW t \in Threads, Drain(t) PROVE LitmusInv'
<1> USE DEF LitmusInv
<1>1. LitmusType'
  BY DEF Drain, LitmusType
<1>2. mode # "SEQ_CST" /\ mode' = mode
  BY DEF Drain, StoresAreSeen
<1>3. QED BY <1>1, <1>2 DEF StoresAreSeen, SomeoneSeesTheOther

(***************************************************************************)
(* The thread that loads last finds what the other stored.                 *)
(***************************************************************************)
LEMMA LoadKeeps ==
  ASSUME LitmusInv, NEW t \in Threads, Load(t) PROVE LitmusInv'
<1> USE DEF LitmusInv
<1>1. OtherThread(t) \in Threads /\ OtherThread(t) # t
  BY DEF Threads, OtherThread
<1>2. tpc' = [tpc EXCEPT ![t] = "end"] /\ tpc[t] = "load"
  BY DEF Load
<1>3. reg' = [reg EXCEPT ![t] = mem[OtherThread(t)]]
  BY DEF Load
<1>4. LitmusType'
  BY <1>1, <1>2, <1>3 DEF Load, LitmusType
<1>5. StoresAreSeen'
  BY <1>2 DEF Load, StoresAreSeen, LitmusType, Over
<1>6. SomeoneSeesTheOther'
  <2> SUFFICES ASSUME mode = "SEQ_CST", ~Over, \A u \in Threads : tpc'[u] = "end"
               PROVE  \E u \in Threads : reg'[u] = 1
    BY DEF Load, SomeoneSeesTheOther, Over
  <2>1. tpc[OtherThread(t)] = "end"
    BY <1>1, <1>2 DEF LitmusType
  <2>2. mem[OtherThread(t)] = 1
    BY <1>1, <2>1 DEF StoresAreSeen
  <2>3. reg'[t] = 1
    BY <1>3, <2>2 DEF LitmusType
  <2>4. QED BY <2>3
<1>7. QED BY <1>4, <1>5, <1>6

(***************************************************************************)
(* The outcome that is noted has a 1 in it.                                *)
(***************************************************************************)
LEMMA NextIterationKeeps == LitmusInv /\ NextIteration => LitmusInv'
<1> SUFFICES ASSUME LitmusInv, NextIteration PROVE LitmusInv'
  OBVIOUS
<1> USE DEF LitmusInv
<1>1. 1 \in Threads /\ 2 \in Threads /\ \A t \in Threads : t = 1 \/ t = 2
  BY DEF Threads
<1>2. LitmusType'
  BY DEF NextIteration, LitmusType, Zeros
<1>3. ~Over' => \A t \in Threads : tpc'[t] = "store"
  BY DEF NextIteration, Over
<1>4. StoresAreSeen'
  BY <1>3 DEF NextIteration, StoresAreSeen
<1>5. ASSUME mode = "SEQ_CST" PROVE <<0, 0>> \notin seen'
  <2>1. reg[1] = 1 \/ reg[2] = 1
    BY <1>1, <1>5 DEF NextIteration, BothJoined, SomeoneSeesTheOther
  <2>2. <<reg[1], reg[2]>> # <<0, 0>>
    BY <2>1
  <2>3. <<0, 0>> \notin seen
    BY <1>5 DEF SomeoneSeesTheOther
  <2>4. seen' = seen \cup {<<reg[1], reg[2]>>}
    BY DEF NextIteration
  <2>5. QED BY <2>2, <2>3, <2>4
<1>6. SomeoneSeesTheOther'
  BY <1>1, <1>3, <1>5 DEF NextIteration, SomeoneSeesTheOther
<1>7. QED BY <1>2, <1>4, <1>6

(***************************************************************************)
(* store_load.cpp under seq_cst never shows (0, 0), however often it runs. *)
(***************************************************************************)
THEOREM SeqCstForbidsBothZero == LitmusSpec => []SomeoneSeesTheOther
<1>1. ASSUME LitmusInv, [LitmusNext]_litmusVars PROVE LitmusInv'
  <2>1. CASE LitmusNext
    BY <1>1, <2>1, StoreKeeps, DrainKeeps, LoadKeeps, NextIterationKeeps DEF LitmusNext
  <2>2. CASE UNCHANGED litmusVars
    BY <1>1, <2>2 DEF litmusVars, LitmusInv, LitmusType, StoresAreSeen,
                      SomeoneSeesTheOther, Over
  <2>3. QED BY <1>1, <2>1, <2>2
<1>2. LitmusInv => SomeoneSeesTheOther
  BY DEF LitmusInv
<1>3. QED
  BY LitmusInitInv, <1>1, <1>2, PTL DEF LitmusSpec

------------------------------------------------------------------------------
(***************************************************************************)
(* mmap: the writer and the reader on a region of their own.               *)
(***************************************************************************)
RegionSpec == RegionInit /\ [][RegionNext]_regionVars

\* Lines are numbered from 1; a byte is the number of its line, Nul or Old.
Marks == Nat \cup {Old}

RegionType ==
  /\ shm \in {"absent", "empty", "sized"} /\ leftover \in BOOLEAN
  /\ length \in LineLens \cup {0} /\ stop \in BOOLEAN
  /\ data \in [Bytes -> Marks] /\ lineOf \in Marks
  /\ wpc \in {"open", "truncate", "clear", "clearing", "getline", "memcpy", "quit", "ended"}
  /\ line \in Nat /\ lineLen \in LineLens \cup {0} /\ copied \in Nat
  /\ rpc \in {"open", "load", "copy", "check", "ended", "exited", "crashed"}
  /\ len \in LineLens \cup {0} /\ text \in Seq(Marks) /\ from \in Marks
  /\ torn \in BOOLEAN /\ early \in BOOLEAN

(* What is in the region: the whole line whose length it has, or while the *)
(* writer writes nothing older than it; and old bytes only in a region     *)
(* left over, until each is cleared.                                       *)
RegionContent ==
  /\ lineOf <= line
  /\ ~Writing => \A i \in 1..length : data[i] = lineOf
  /\ \A i \in 1..length : data[i] = Nul \/ data[i] >= lineOf
  /\ wpc = "memcpy" =>
       /\ lineOf < line /\ lineLen \in LineLens
       /\ \A i \in 1..lineLen : i <= copied => data[i] = line
  /\ wpc \in {"open", "truncate", "clear"} => copied = 0
  /\ wpc = "clearing" => ~stop /\ length = 0 /\ \A i \in Bytes : i <= copied => data[i] # Old
  /\ ~leftover \/ ~Uncleared => \A i \in Bytes : data[i] # Old
  /\ leftover => shm = "sized"
  /\ stop => wpc = "ended" \/ (leftover /\ Uncleared)

(* What the reader has copied and is about to: once it has loaded a length *)
(* the bytes it counts stay those of that line or are written under it.    *)
ReaderContent ==
  /\ rpc \in {"load", "copy", "check"} => shm # "absent"
  /\ rpc = "copy" =>
       /\ ~early => ~Uncleared
       /\ from <= line /\ Len(text) <= len
       /\ \A i \in 1..len : data[i] = Nul \/ data[i] >= from
       /\ ~torn => \A i \in 1..len : data[i] = from

RegionInv == RegionType /\ RegionContent /\ ReaderContent /\ ReadsHoldTogether

LEMMA RegionConstants ==
    /\ Old = -1 /\ Nul = 0 /\ Nul \in Marks /\ Old \in Marks /\ Nul # Old
    /\ Marks \subseteq Int /\ \A m \in Marks : m >= Old
    /\ \A l \in LineLens \cup {0} : l \in Nat /\ 1..l \subseteq Bytes
    /\ \A l \in LineLens, c \in Nat : c <= l => c + 1 \in Bytes
  <1>1. PICK p \in Nat : p = Payload
    BY SharedRegionAssumption
  <1>2. Bytes = 1..p /\ LineLens \subseteq 0..p - 1
    BY <1>1, SharedRegionAssumption DEF Bytes
  <1>3. \A l \in LineLens \cup {0} : l \in Nat /\ l <= p
    BY <1>1, <1>2
  <1>4. \A l \in LineLens \cup {0} : l \in Nat /\ 1..l \subseteq Bytes
    BY <1>2, <1>3
  <1>5. \A l \in LineLens, c \in Nat : c <= l => c + 1 \in 1..p
    BY <1>1, <1>2
  <1> QED BY <1>2, <1>4, <1>5 DEF Old, Nul, Marks

LEMMA InitRegion == RegionInit => RegionInv
  <1> SUFFICES ASSUME RegionInit PROVE RegionInv
    OBVIOUS
  <1> USE DEF RegionInit
  <1>1. \A i \in Bytes : data[i] = IF leftover THEN Old ELSE Nul
    OBVIOUS
  <1>2. data \in [Bytes -> Marks] /\ lineOf \in Marks /\ text \in Seq(Marks) /\ from \in Marks
    BY RegionConstants
  <1>3. RegionType
    BY <1>2, RegionConstants DEF RegionType
  <1>4. \A i \in 1..length : i \in Bytes /\ data[i] = lineOf
    BY <1>1, <1>3, RegionConstants DEF RegionType
  <1>5. \A i \in 1..length : data[i] = Nul \/ data[i] >= lineOf
    BY <1>3, <1>4, RegionConstants DEF RegionType
  <1>6. lineOf <= line
    BY RegionConstants
  <1>7. RegionContent
    BY <1>1, <1>4, <1>5, <1>6, RegionConstants DEF RegionContent, Uncleared
  <1>8. ReaderContent /\ ReadsHoldTogether
    BY DEF ReaderContent, ReadsHoldTogether
  <1> QED BY <1>3, <1>7, <1>8 DEF RegionInv

(* The writer opens the region, gives it its size, or quits. *)
LEMMA WriterPreparesKeeps ==
    ASSUME RegionInv, WriterOpens \/ WriterSizes \/ WriterQuits
    PROVE  RegionInv'
  <1>1. /\ UNCHANGED <<leftover, length, data, lineOf, line, lineLen, copied, torn>>
        /\ UNCHANGED <<rpc, lastLen, len, text, from, early>>
        /\ wpc \in {"open", "truncate", "quit"} /\ wpc' \in {"truncate", "clear", "ended"}
        /\ Uncleared' <=> Uncleared
        /\ wpc' # "ended" => wpc \in {"open", "truncate"}
        /\ shm' \in {"absent", "empty", "sized"} /\ (shm = "sized" => shm' = "sized")
        /\ stop' \in BOOLEAN /\ (stop' => stop \/ wpc' = "ended")
    <2>1. stop \in BOOLEAN /\ shm \in {"absent", "empty", "sized"}
      BY DEF RegionInv, RegionType
    <2>2. CASE WriterOpens
      BY <2>1, <2>2 DEF WriterOpens, readerOnly, Uncleared
    <2>3. CASE WriterSizes
      BY <2>1, <2>3 DEF WriterSizes, readerOnly, Uncleared
    <2>4. CASE WriterQuits
      BY <2>1, <2>4 DEF WriterQuits, readerOnly, Uncleared
    <2> QED BY <2>2, <2>3, <2>4
  <1>2. RegionType'
    BY <1>1 DEF RegionInv, RegionType
  <1>3. ~Writing /\ ~Writing'
    BY <1>1 DEF Writing
  <1>4. RegionContent'
    <2>1. wpc' # "memcpy" /\ wpc' # "clearing"
      BY <1>1
    <2>2. stop => leftover /\ Uncleared
      BY <1>1 DEF RegionInv, RegionContent
    <2>3. stop' => wpc' = "ended" \/ (leftover /\ Uncleared')
      BY <1>1, <2>2
    <2>4. wpc' \in {"open", "truncate", "clear"} => copied' = 0
      BY <1>1 DEF RegionInv, RegionContent
    <2>5. ~leftover' \/ ~Uncleared' => \A i \in Bytes : data'[i] # Old
      BY <1>1 DEF RegionInv, RegionContent
    <2> QED BY <1>1, <1>3, <2>1, <2>3, <2>4, <2>5 DEF RegionInv, RegionContent
  <1>5. ReaderContent'
    <2>1. shm # "absent" => shm' # "absent"
      BY DEF WriterOpens, WriterSizes, WriterQuits
    <2> QED BY <1>1, <2>1 DEF RegionInv, ReaderContent
  <1>6. ReadsHoldTogether'
    <2>1. wpc' = wpc \/ wpc # "ended"
      BY <1>1
    <2> QED BY <1>1, <2>1 DEF RegionInv, ReadsHoldTogether
  <1> QED BY <1>2, <1>4, <1>5, <1>6 DEF RegionInv

(* A write under the reader marks what it copies as torn. *)
LEMMA TouchedReader ==
    ASSUME RegionInv, UNCHANGED <<shm, leftover, line, rpc, lastLen, len, text, from, early>>, Touches,
           data' \in [Bytes -> Marks],
           \A i \in Bytes : data'[i] \in {data[i], Nul, line},
           wpc # "ended", Uncleared' => Uncleared
    PROVE  /\ torn' \in BOOLEAN /\ ReaderContent' /\ ReadsHoldTogether'
           /\ (~leftover \/ ~Uncleared => \A i \in Bytes : data'[i] # Old)
  <1>1. torn' \in BOOLEAN /\ (rpc = "copy" => torn') /\ line # Old /\ line \in Nat
    <2>1. torn' = (torn \/ rpc = "copy") /\ torn \in BOOLEAN /\ line \in Nat
      BY DEF Touches, RegionInv, RegionType
    <2>2. torn' \in BOOLEAN /\ (rpc = "copy" => torn')
      BY <2>1, Zenon
    <2>3. line # Old
      BY <2>1, RegionConstants
    <2> QED BY <2>1, <2>2, <2>3
  <1>2. ASSUME rpc = "copy", NEW i \in 1..len PROVE data'[i] = Nul \/ data'[i] >= from
    <2>1. i \in Bytes /\ (data[i] = Nul \/ data[i] >= from) /\ from <= line
      BY <1>2, RegionConstants DEF RegionInv, RegionType, ReaderContent
    <2>2. from \in Int /\ line \in Int
      <3>1. from \in Marks
        BY DEF RegionInv, RegionType
      <3> QED BY <1>1, <3>1, RegionConstants
    <2> QED BY <2>1, <2>2
  <1>3. ReaderContent'
    BY <1>1, <1>2 DEF RegionInv, ReaderContent
  <1>4. ~leftover \/ ~Uncleared => \A i \in Bytes : data'[i] # Old
    BY <1>1, RegionConstants DEF RegionInv, RegionContent
  <1>5. ReadsHoldTogether'
    BY <1>1 DEF RegionInv, ReadsHoldTogether
  <1> QED BY <1>1, <1>3, <1>4, <1>5

(* The writer clears the atomics and then the bytes. *)
LEMMA WriterClearsKeeps == ASSUME RegionInv, WriterClears PROVE RegionInv'
  <1>1. /\ UNCHANGED <<shm, leftover, line, lineLen>>
        /\ UNCHANGED <<rpc, lastLen, len, text, from, early>>
        /\ wpc \in {"clear", "clearing"} /\ Uncleared
    BY DEF WriterClears, readerOnly, Uncleared
  <1>2. PICK p \in Nat, c \in Nat : p = Payload /\ c = copied /\ Bytes = 1..p
    BY SharedRegionAssumption DEF RegionInv, RegionType, Bytes
  <1>3. /\ RegionType /\ line \in Nat /\ lineOf <= line
        /\ stop => leftover
    BY <1>1 DEF RegionInv, RegionType, RegionContent
  <1>4. CASE /\ wpc = "clear" /\ wpc' = "clearing" /\ Touches
             /\ length' = 0 /\ stop' = FALSE /\ lineOf' = 0 /\ UNCHANGED <<data, copied>>
    <2>1. Uncleared' /\ ~stop'
      BY <1>4 DEF Uncleared
    <2>2. data' \in [Bytes -> Marks] /\ \A i \in Bytes : data'[i] = data[i]
      BY <1>3, <1>4 DEF RegionType
    <2>3. /\ torn' \in BOOLEAN /\ ReaderContent' /\ ReadsHoldTogether'
          /\ (~leftover => \A i \in Bytes : data'[i] # Old)
      BY <1>1, <1>4, <2>1, <2>2, TouchedReader
    <2>4. RegionType'
      BY <1>1, <1>3, <1>4, <2>2, <2>3, RegionConstants DEF RegionType
    <2>5. \A i : i \notin 1..length'
      <3>1. \A i : i \notin 1..0
        OBVIOUS
      <3> QED BY <1>4, <3>1
    <2>6. lineOf' <= line'
      BY <1>1, <1>3, <1>4
    <2>7. wpc' = "clearing" => ~stop' /\ length' = 0 /\ \A i \in Bytes : i <= copied' => data'[i] # Old
      <3>1. copied' = 0
        BY <1>4 DEF RegionInv, RegionContent
      <3>2. \A i \in Bytes : ~(i <= 0)
        BY <1>2
      <3> QED BY <1>4, <2>1, <3>1, <3>2
    <2>8. RegionContent'
      BY <1>1, <1>4, <2>1, <2>3, <2>5, <2>6, <2>7 DEF RegionInv, RegionContent
    <2> QED BY <2>3, <2>4, <2>8 DEF RegionInv
  <1>5. CASE /\ wpc = "clearing" /\ copied < Payload /\ Touches
             /\ data' = [data EXCEPT ![copied + 1] = Nul] /\ copied' = copied + 1
             /\ UNCHANGED <<wpc, length, stop, lineOf>>
    <2>1. Uncleared' /\ length = 0
      BY <1>1, <1>5 DEF Uncleared, RegionInv, RegionContent
    <2>2. c + 1 \in Bytes /\ copied' = c + 1 /\ c + 1 \in Nat
      BY <1>2, <1>5
    <2>3. /\ data' \in [Bytes -> Marks] /\ data'[c + 1] = Nul
          /\ \A i \in Bytes : i # c + 1 => data'[i] = data[i]
      BY <1>2, <1>3, <1>5, <2>2, RegionConstants DEF RegionType
    <2>4. /\ torn' \in BOOLEAN /\ ReaderContent' /\ ReadsHoldTogether'
          /\ (~leftover => \A i \in Bytes : data'[i] # Old)
      BY <1>1, <1>5, <2>1, <2>3, TouchedReader
    <2>5. RegionType'
      BY <1>1, <1>3, <1>5, <2>2, <2>3, <2>4 DEF RegionType
    <2>6. \A i \in Bytes : i <= c + 1 => data'[i] # Old
      <3> SUFFICES ASSUME NEW i \in Bytes, i <= c + 1 PROVE data'[i] # Old
        OBVIOUS
      <3>1. CASE i = c + 1
        BY <2>3, <3>1, RegionConstants
      <3>2. CASE i # c + 1
        <4>1. i <= c
          BY <1>2, <3>2
        <4> QED BY <1>2, <1>5, <2>3, <3>2, <4>1 DEF RegionInv, RegionContent
      <3> QED BY <3>1, <3>2
    <2>7. \A i : i \notin 1..length'
      <3>1. \A i : i \notin 1..0
        OBVIOUS
      <3> QED BY <1>5, <2>1, <3>1
    <2>8. RegionContent'
      BY <1>1, <1>3, <1>5, <2>1, <2>2, <2>4, <2>6, <2>7 DEF RegionInv, RegionContent
    <2> QED BY <2>4, <2>5, <2>8 DEF RegionInv
  <1>6. CASE /\ wpc = "clearing" /\ copied = Payload /\ wpc' = "getline"
             /\ UNCHANGED <<length, stop, lineOf, data, copied, torn>>
    <2>1. ~Uncleared' /\ ~Writing'
      BY <1>6 DEF Uncleared, Writing
    <2>2. \A i \in Bytes : data[i] # Old
      <3>1. \A i \in Bytes : i <= copied
        BY <1>2, <1>6
      <3> QED BY <1>6, <3>1 DEF RegionInv, RegionContent
    <2>3. \A i : i \notin 1..length'
      <3>1. \A i : i \notin 1..0
        OBVIOUS
      <3>2. length' = 0
        BY <1>6 DEF RegionInv, RegionContent
      <3> QED BY <3>1, <3>2
    <2>4. RegionType'
      BY <1>1, <1>3, <1>6 DEF RegionType
    <2>5. ~stop
      BY <1>6 DEF RegionInv, RegionContent
    <2>6. RegionContent'
      BY <1>1, <1>3, <1>6, <2>1, <2>2, <2>3, <2>5 DEF RegionInv, RegionContent
    <2>7. ReaderContent'
      BY <1>1, <1>6, <2>1 DEF RegionInv, ReaderContent
    <2>8. ReadsHoldTogether'
      BY <1>1, <1>6 DEF RegionInv, ReadsHoldTogether
    <2> QED BY <2>4, <2>6, <2>7, <2>8 DEF RegionInv
  <1> QED BY <1>4, <1>5, <1>6 DEF WriterClears

(* The writer has a new line, or quits. *)
LEMMA WriterReadsKeeps == ASSUME RegionInv, WriterReads PROVE RegionInv'
  <1>1. /\ UNCHANGED <<shm, leftover, length, stop, data, lineOf, torn>>
        /\ UNCHANGED <<rpc, lastLen, len, text, from, early>> /\ wpc = "getline"
        /\ ~Uncleared /\ ~Uncleared'
    BY DEF WriterReads, regionOnly, readerOnly, Uncleared
  <1>2. ~Writing
    BY <1>1 DEF Writing
  <1>3. CASE wpc' = "memcpy" /\ line' = line + 1 /\ lineLen' \in LineLens /\ copied' = 0
    <2>1. PICK l \in Nat : l = line /\ line' = l + 1
      BY <1>3 DEF RegionInv, RegionType
    <2>2. RegionType'
      BY <1>1, <1>3, <2>1 DEF RegionInv, RegionType
    <2>3. lineOf \in Int /\ lineOf <= l
      BY <2>1, RegionConstants DEF RegionInv, RegionType, RegionContent
    <2>4. lineOf' < line' /\ lineOf' <= line'
      BY <1>1, <2>1, <2>3
    <2>5. \A i \in 1..lineLen' : ~(i <= copied')
      BY <1>3, <2>2, RegionConstants DEF RegionType
    <2>6. RegionContent'
      BY <1>1, <1>2, <1>3, <2>4, <2>5 DEF RegionInv, RegionContent
    <2>7. from \in Int /\ (from <= l => from <= line')
      <3>1. from \in Marks
        BY DEF RegionInv, RegionType
      <3>2. from \in Int
        BY <3>1, RegionConstants
      <3> QED BY <2>1, <3>2
    <2>8. ReaderContent'
      BY <1>1, <2>1, <2>7 DEF RegionInv, ReaderContent
    <2>9. ReadsHoldTogether'
      BY <1>1 DEF RegionInv, ReadsHoldTogether
    <2> QED BY <2>2, <2>6, <2>8, <2>9 DEF RegionInv
  <1>4. CASE wpc' = "quit" /\ UNCHANGED <<line, lineLen, copied>>
    <2>1. RegionType'
      BY <1>1, <1>4 DEF RegionInv, RegionType
    <2>2. RegionContent'
      BY <1>1, <1>2, <1>4 DEF RegionInv, RegionContent
    <2>3. ReaderContent' /\ ReadsHoldTogether'
      BY <1>1, <1>4 DEF RegionInv, ReaderContent, ReadsHoldTogether
    <2> QED BY <2>1, <2>2, <2>3 DEF RegionInv
  <1> QED BY <1>3, <1>4 DEF WriterReads

(* The bytes of a line, its end, and last its length. *)
LEMMA WriterCopiesKeeps == ASSUME RegionInv, WriterCopies PROVE RegionInv'
  <1>1. /\ UNCHANGED <<shm, leftover, stop, line, lineLen>>
        /\ UNCHANGED <<rpc, lastLen, len, text, from, early>> /\ wpc = "memcpy"
        /\ ~Uncleared /\ ~Uncleared'
    BY DEF WriterCopies, readerOnly, Uncleared
  <1>2. PICK c \in Nat, l \in Nat : c = copied /\ l = lineLen /\ l \in LineLens /\ 1..l \subseteq Bytes
    BY <1>1, RegionConstants DEF RegionInv, RegionType, RegionContent
  <1>3. /\ RegionType /\ line \in Nat /\ line \in Marks /\ lineOf \in Int /\ lineOf < line
        /\ \A i \in 1..l : i <= c => data[i] = line
    BY <1>1, <1>2, RegionConstants DEF RegionInv, RegionType, RegionContent, Marks
  <1>4. CASE c <= l
    <2>1. /\ data' = [data EXCEPT ![c + 1] = IF c < l THEN line ELSE Nul]
          /\ copied' = c + 1 /\ Touches /\ UNCHANGED <<wpc, length, lineOf>>
      BY <1>2, <1>4 DEF WriterCopies
    <2>2. c + 1 \in Bytes
      BY <1>2, <1>4, RegionConstants
    <2>3. /\ data' \in [Bytes -> Marks] /\ data'[c + 1] = IF c < l THEN line ELSE Nul
          /\ \A i \in Bytes : i # c + 1 => data'[i] = data[i]
      BY <1>3, <2>1, <2>2, RegionConstants DEF RegionType
    <2>4. \A i \in Bytes : data'[i] \in {data[i], Nul, line}
      BY <2>3
    <2>5. /\ torn' \in BOOLEAN /\ ReaderContent' /\ ReadsHoldTogether'
          /\ \A i \in Bytes : data'[i] # Old
      BY <1>1, <2>1, <2>3, <2>4, TouchedReader
    <2>6. RegionType'
      BY <1>1, <1>3, <2>1, <2>3, <2>5 DEF RegionType
    <2>7. \A i \in 1..l : i <= c + 1 => data'[i] = line
      <3> SUFFICES ASSUME NEW i \in 1..l, i <= c + 1 PROVE data'[i] = line
        OBVIOUS
      <3>1. CASE i = c + 1
        BY <1>2, <2>3, <3>1
      <3>2. CASE i # c + 1
        <4>1. i <= c /\ i \in Bytes
          BY <1>2, <3>2
        <4> QED BY <1>3, <2>3, <3>2, <4>1
      <3> QED BY <3>1, <3>2
    <2>8. \A i \in 1..length : data'[i] = Nul \/ data'[i] >= lineOf
      <3> SUFFICES ASSUME NEW i \in 1..length PROVE data'[i] = Nul \/ data'[i] >= lineOf
        OBVIOUS
      <3>1. i \in Bytes /\ (data[i] = Nul \/ data[i] >= lineOf)
        BY <1>3, RegionConstants DEF RegionInv, RegionType, RegionContent
      <3>2. line >= lineOf
        BY <1>3
      <3> QED BY <2>4, <3>1, <3>2
    <2>9. Writing'
      <3>1. c + 1 \in 1..l + 1
        BY <1>2, <1>4
      <3> QED BY <1>1, <1>2, <2>1, <3>1 DEF Writing
    <2>10. RegionContent'
      BY <1>1, <1>2, <2>1, <2>5, <2>7, <2>8, <2>9 DEF RegionInv, RegionContent
    <2> QED BY <2>5, <2>6, <2>10 DEF RegionInv
  <1>5. CASE ~(c <= l)
    <2>1. length' = l /\ lineOf' = line /\ wpc' = "getline" /\ UNCHANGED <<data, copied, torn>>
      BY <1>2, <1>5 DEF WriterCopies
    <2>2. \A i \in 1..l : data[i] = line
      BY <1>2, <1>3, <1>5
    <2>3. RegionType'
      BY <1>1, <1>2, <1>3, <2>1 DEF RegionType
    <2>4. line <= line /\ line >= line
      BY <1>3
    <2>5. RegionContent'
      BY <1>1, <2>1, <2>2, <2>4 DEF RegionInv, RegionContent
    <2>6. ReaderContent' /\ ReadsHoldTogether'
      BY <1>1, <2>1 DEF RegionInv, ReaderContent, ReadsHoldTogether
    <2> QED BY <2>3, <2>5, <2>6 DEF RegionInv
  <1> QED BY <1>4, <1>5

(* The reader leaves the region alone. *)
LEMMA ReaderLeavesRegion ==
    ASSUME RegionInv, UNCHANGED <<regionOnly, writerOnly>>
    PROVE  /\ RegionContent'
           /\ UNCHANGED <<shm, leftover, length, stop, data, lineOf, wpc, line, lineLen, copied>>
  BY DEF regionOnly, writerOnly, RegionInv, RegionContent, Writing, Uncleared

(* The reader opens the region, prints or looks at done. *)
LEMMA ReaderMovesKeeps ==
    ASSUME RegionInv, ReaderOpens \/ ReaderPrints \/ ReaderChecks
    PROVE  RegionInv'
  <1>0. Uncleared \in BOOLEAN /\ early \in BOOLEAN
    BY DEF Uncleared, RegionInv, RegionType
  <1>1. /\ RegionContent'
        /\ UNCHANGED <<shm, leftover, length, stop, data, lineOf, wpc, line, lineLen, copied>>
    BY ReaderLeavesRegion DEF ReaderOpens, ReaderPrints, ReaderChecks
  <1>2. /\ UNCHANGED <<len, text, from, torn>> /\ rpc' \in {"exited", "load", "check", "ended"}
        /\ rpc' = "exited" => shm = "absent" \/ rpc = "exited"
        /\ rpc' \in {"load", "check"} => shm # "absent"
        /\ rpc' = "ended" => stop /\ (early' <=> Uncleared)
        /\ early' \in BOOLEAN
    BY <1>0 DEF ReaderOpens, ReaderPrints, ReaderChecks, RegionInv, ReaderContent
  <1>3. RegionType' /\ ReaderContent'
    <2>1. RegionType'
      <3>1. RegionType
        BY Zenon DEF RegionInv
      <3>2. /\ shm' = shm /\ leftover' = leftover /\ length' = length /\ stop' = stop
            /\ data' = data /\ lineOf' = lineOf
        BY <1>1, Zenon
      <3>3. wpc' = wpc /\ line' = line /\ lineLen' = lineLen /\ copied' = copied
        BY <1>1, Zenon
      <3>4. len' = len /\ text' = text /\ from' = from /\ torn' = torn
        BY <1>2, Zenon
      <3>5. rpc' \in {"open", "load", "copy", "check", "ended", "exited", "crashed"}
        <4>1. rpc' \in {"exited", "load", "check", "ended"}
          BY <1>2, Zenon
        <4> QED BY <4>1
      <3>6. early' \in BOOLEAN
        BY <1>2, Zenon
      <3> QED BY <3>1, <3>2, <3>3, <3>4, <3>5, <3>6, Zenon DEF RegionType
    <2>2. rpc' # "copy"
      BY <1>2
    <2> QED BY <1>1, <1>2, <2>1, <2>2 DEF ReaderContent
  <1>4. ReadsHoldTogether'
    BY <1>1, <1>2 DEF RegionInv, RegionContent, ReadsHoldTogether
  <1> QED BY <1>1, <1>3, <1>4 DEF RegionInv

(* The length is loaded: either the line is whole, or the copy is torn. *)
LEMMA ReaderLoadsKeeps == ASSUME RegionInv, ReaderLoads PROVE RegionInv'
  <1>1. /\ RegionContent'
        /\ UNCHANGED <<shm, leftover, length, stop, data, lineOf, wpc, line, lineLen, copied>>
    BY ReaderLeavesRegion DEF ReaderLoads
  <1>2. /\ len' = length /\ from' = lineOf /\ text' = <<>> /\ torn' = Writing /\ early' = Uncleared /\ lastLen' = lastLen
        /\ rpc' = CASE shm = "empty" -> "crashed"
                    [] shm = "sized" /\ length > 0 /\ length # lastLen -> "copy"
                    [] shm = "sized" /\ ~(length > 0 /\ length # lastLen) -> "check"
    BY DEF ReaderLoads
  <1>3. RegionType /\ rpc = "load" /\ shm \in {"empty", "sized"}
    BY DEF ReaderLoads, RegionInv, RegionType, ReaderContent
  <1>4. /\ rpc' \in {"crashed", "copy", "check"} /\ (rpc' = "crashed" => shm = "empty")
    BY <1>2, <1>3
  <1>5. torn' \in BOOLEAN /\ early' \in BOOLEAN /\ torn' = Writing /\ text' \in Seq(Marks) /\ Len(text') = 0
    <2>1. \A a, b : (a \/ b) \in BOOLEAN
      OBVIOUS
    <2>2. torn' = Writing /\ torn' \in BOOLEAN
      BY <1>2, <2>1 DEF Writing
    <2>3. text' \in Seq(Marks) /\ Len(text') = 0
      BY <1>2
    <2>4. early' \in BOOLEAN
      BY <1>2, <2>1 DEF Uncleared
    <2> QED BY <2>2, <2>3, <2>4
  <1>6. RegionType'
    BY <1>1, <1>2, <1>3, <1>4, <1>5 DEF RegionType
  <1>7. ReaderContent'
    <2>1. \A i \in 1..len' : data'[i] = Nul \/ data'[i] >= from'
      BY <1>1, <1>2 DEF RegionInv, RegionContent
    <2>2. ~torn' => \A i \in 1..len' : data'[i] = from'
      <3>1. ~torn' => ~Writing
        BY <1>5
      <3>2. ~Writing => \A i \in 1..length : data[i] = lineOf
        BY DEF RegionInv, RegionContent
      <3> HIDE DEF Writing
      <3> QED BY <1>1, <1>2, <3>1, <3>2
    <2>3. from' <= line' /\ Len(text') <= len'
      <3>1. lineOf <= line /\ length \in Nat
        BY <1>3, RegionConstants DEF RegionInv, RegionContent, RegionType
      <3>2. 0 <= length
        BY <3>1
      <3> QED BY <1>1, <1>2, <1>5, <3>1, <3>2
    <2>4. ~early' => ~Uncleared'
      BY <1>1, <1>2 DEF Uncleared
    <2> QED BY <1>1, <1>3, <2>1, <2>2, <2>3, <2>4 DEF ReaderContent
  <1>8. ReadsHoldTogether'
    <2>1. 1..Len(text') = {}
      BY <1>5
    <2> QED BY <1>1, <1>4, <2>1 DEF RegionInv, RegionContent, ReadsHoldTogether
  <1> QED BY <1>1, <1>6, <1>7, <1>8 DEF RegionInv

(* One byte is copied. *)
LEMMA ReaderCopiesKeeps == ASSUME RegionInv, ReaderCopies PROVE RegionInv'
  <1>1. /\ RegionContent'
        /\ UNCHANGED <<shm, leftover, length, stop, data, lineOf, wpc, line, lineLen, copied>>
    BY ReaderLeavesRegion DEF ReaderCopies
  <1>2. /\ rpc = "copy" /\ UNCHANGED <<rpc, lastLen, len, from, torn, early>>
        /\ RegionType /\ text \in Seq(Marks)
    BY DEF ReaderCopies, RegionInv, RegionType
  <1>3. PICK k \in Nat, n \in Nat : k = Len(text) /\ n = len /\ k < n /\ 1..n \subseteq Bytes
    BY <1>2, LenProperties, RegionConstants DEF ReaderCopies, RegionType
  <1>4. PICK b : b = data[k + 1] /\ text' = Append(text, b)
    BY <1>3 DEF ReaderCopies
  <1>5. k + 1 \in 1..n /\ k + 1 \in Bytes
    BY <1>3
  <1>6. b \in Marks /\ (b = Nul \/ b >= from) /\ (~torn => b = from) /\ (~leftover \/ ~early => b # Old)
    BY <1>2, <1>3, <1>4, <1>5 DEF RegionInv, RegionType, RegionContent, ReaderContent
  <1>7. /\ text' \in Seq(Marks) /\ Len(text') = k + 1 /\ text'[k + 1] = b
        /\ \A i \in 1..k : text'[i] = text[i]
    BY <1>2, <1>3, <1>4, <1>6, AppendProperties
  <1>8. \A i \in 1..k + 1 : i \in 1..k \/ i = k + 1
    BY <1>3
  <1>9. RegionType'
    BY <1>1, <1>2, <1>7 DEF RegionType
  <1>10. k + 1 <= n
    BY <1>3
  <1>11. ReaderContent'
    BY <1>1, <1>2, <1>3, <1>7, <1>10 DEF RegionInv, ReaderContent, Uncleared
  <1>12. ReadsHoldTogether'
    <2>1. ~torn => \A i \in 1..k : text[i] = from
      BY <1>2, <1>3 DEF RegionInv, ReadsHoldTogether
    <2>2. \A i \in 1..k : text[i] = Nul \/ text[i] >= from
      BY <1>3 DEF RegionInv, ReadsHoldTogether
    <2>3. (\E i \in 1..k : text[i] = Old) => early /\ leftover
      BY <1>2, <1>3 DEF RegionInv, ReadsHoldTogether
    <2>4. ~torn => \A i \in 1..k + 1 : text'[i] = from
      BY <1>6, <1>7, <1>8, <2>1
    <2>5. \A i \in 1..k + 1 : text'[i] = Nul \/ text'[i] >= from
      BY <1>6, <1>7, <1>8, <2>2
    <2>6. (\E i \in 1..k + 1 : text'[i] = Old) => early /\ leftover
      BY <1>6, <1>7, <1>8, <2>3
    <2> QED BY <1>1, <1>2, <1>7, <2>4, <2>5, <2>6 DEF ReadsHoldTogether
  <1> QED BY <1>1, <1>9, <1>11, <1>12 DEF RegionInv

(***************************************************************************)
(* mmap: however the bytes of writer and reader interleave, for lines of   *)
(* any lengths and any number of them, and whatever a killed run left: a   *)
(* copy the writer did not write under is the line whose length was read,  *)
(* no copy has bytes of an older line, and an earlier run is met only by   *)
(* looking at a region left over before the writer has cleared it.         *)
(***************************************************************************)
THEOREM CopiesHoldTogether == RegionSpec => []ReadsHoldTogether
  <1>1. ASSUME RegionInv, [RegionNext]_regionVars PROVE RegionInv'
    <2>1. CASE RegionNext
      BY <1>1, <2>1, WriterPreparesKeeps, WriterClearsKeeps, WriterReadsKeeps, WriterCopiesKeeps,
         ReaderMovesKeeps, ReaderLoadsKeeps, ReaderCopiesKeeps DEF RegionNext
    <2>2. CASE UNCHANGED regionVars
      <3>1. UNCHANGED <<shm, leftover, length, stop, data, lineOf, wpc, line, lineLen, copied,
                        rpc, lastLen, len, text, from, torn, early>>
        BY <2>2 DEF regionVars
      <3>2. RegionType'
        <4>1. RegionType
          BY <1>1, Zenon DEF RegionInv
        <4>2. /\ shm' = shm /\ leftover' = leftover /\ length' = length /\ stop' = stop
              /\ data' = data /\ lineOf' = lineOf
          BY <3>1, Zenon
        <4>3. wpc' = wpc /\ line' = line /\ lineLen' = lineLen /\ copied' = copied
          BY <3>1, Zenon
        <4>4. rpc' = rpc /\ len' = len /\ text' = text /\ from' = from /\ torn' = torn /\ early' = early
          BY <3>1, Zenon
        <4>5. /\ shm' \in {"absent", "empty", "sized"} /\ leftover' \in BOOLEAN
              /\ length' \in LineLens \cup {0} /\ stop' \in BOOLEAN
              /\ data' \in [Bytes -> Marks] /\ lineOf' \in Marks
          BY <4>1, <4>2, Zenon DEF RegionType
        <4>6. /\ wpc' \in {"open", "truncate", "clear", "clearing", "getline", "memcpy", "quit", "ended"}
              /\ line' \in Nat /\ lineLen' \in LineLens \cup {0} /\ copied' \in Nat
          BY <4>1, <4>3, Zenon DEF RegionType
        <4>7. /\ rpc' \in {"open", "load", "copy", "check", "ended", "exited", "crashed"}
              /\ len' \in LineLens \cup {0} /\ text' \in Seq(Marks) /\ from' \in Marks
              /\ torn' \in BOOLEAN /\ early' \in BOOLEAN
          BY <4>1, <4>4, Zenon DEF RegionType
        <4> QED BY <4>5, <4>6, <4>7, Zenon DEF RegionType
      <3>3. Writing' = Writing /\ Uncleared' = Uncleared
        BY <3>1 DEF Writing, Uncleared
      <3>4. RegionContent'
        BY <1>1, <3>1, <3>3 DEF RegionInv, RegionContent
      <3>5. ReaderContent' /\ ReadsHoldTogether'
        BY <1>1, <3>1, <3>3 DEF RegionInv, ReaderContent, ReadsHoldTogether
      <3> QED BY <3>2, <3>4, <3>5 DEF RegionInv
    <2> QED BY <1>1, <2>1, <2>2
  <1>2. RegionInv => ReadsHoldTogether
    BY DEF RegionInv
  <1> QED BY InitRegion, <1>1, <1>2, PTL DEF RegionSpec

------------------------------------------------------------------------------
(***************************************************************************)
(* perf_lab: threads that fill and empty their live sets over one          *)
(* allocator.  What a thread holds is what the place it is at implies: a   *)
(* batch of n is on top of the warm set until as many have been freed, and *)
(* the allocations made so far are full batches after the warm set, or all *)
(* there are.                                                              *)
(***************************************************************************)
ChurnSpec == ChurnInit /\ [][ChurnNext]_churnVars

Addresses == Nat \ {0}
ChurnTypes ==
  /\ opt \in [allocs : Nat, live : Nat \ {0}, batch : Nat \ {0}]
  /\ inUse \in SUBSET Addresses /\ IsFiniteSet(inUse)
  /\ live \in [ChurnThreads -> Seq(Addresses)]
  /\ allocIdx \in [ChurnThreads -> Nat] /\ left \in [ChurnThreads -> Nat]
  /\ cpc \in [ChurnThreads -> {"warm", "batch", "free", "drain", "end"}]

OwnedBy(used, sets) ==
  /\ used = UNION {ToSet(sets[t]) : t \in ChurnThreads}
  /\ \A t \in ChurnThreads : IsInjective(sets[t])
  /\ \A t, u \in ChurnThreads : t # u => ToSet(sets[t]) \cap ToSet(sets[u]) = {}
Owned == aborted # "freed twice" /\ OwnedBy(inUse, live)

FullBatches(n) == n \in Nat /\ n % opt.batch = 0

InBatch(t) ==
  \E n \in 1..opt.batch :
    /\ left[t] <= n /\ Len(live[t]) = Warm + n - left[t]
    /\ FullBatches(allocIdx[t] + left[t] - n - Warm)
    /\ allocIdx[t] + left[t] <= opt.allocs
    /\ n = opt.batch \/ allocIdx[t] + left[t] = opt.allocs

InFree(t) ==
  /\ left[t] <= opt.batch /\ Len(live[t]) = Warm + left[t]
  /\ allocIdx[t] = opt.allocs \/ FullBatches(allocIdx[t] - Warm)
  /\ allocIdx[t] <= opt.allocs

Counts(t) ==
  /\ cpc[t] = "warm" => Len(live[t]) = allocIdx[t] /\ allocIdx[t] <= Warm
  /\ cpc[t] = "batch" => InBatch(t)
  /\ cpc[t] = "free" => InFree(t)
  /\ cpc[t] = "drain" => allocIdx[t] = opt.allocs /\ Len(live[t]) <= Warm
  /\ cpc[t] = "end" => allocIdx[t] = opt.allocs /\ live[t] = <<>>

ChurnInv == ChurnTypes /\ Owned /\ \A t \in ChurnThreads : Counts(t)

LEMMA DivModProperties ==
    \A x \in Int, b \in Nat \ {0} :
      x \div b \in Int /\ x % b \in 0..b - 1 /\ x = b * (x \div b) + (x % b)
  OBVIOUS

LEMMA RemainderIsUnique ==
    ASSUME NEW b \in Nat \ {0}, NEW q \in Int, NEW k \in Int,
           NEW r \in 0..b - 1, NEW s \in 0..b - 1, b * q + r = b * k + s
    PROVE  r = s
  <1>1. b * (q - k) = s - r
    OBVIOUS
  <1>2. ASSUME NEW d \in Int, d > 0 PROVE b * d >= b
    <2>1. PICK e \in Nat : d = e + 1
      <3>1. d - 1 \in Nat
        BY <1>2
      <3> QED BY <3>1
    <2>2. b * d = b * e + b
      BY <2>1
    <2>3. b * e >= 0
      OBVIOUS
    <2> QED BY <2>2, <2>3
  <1>3. ASSUME q > k PROVE FALSE
    BY <1>1, <1>2, <1>3
  <1>4. ASSUME q < k PROVE FALSE
    <2>1. b * (k - q) = r - s
      OBVIOUS
    <2> QED BY <1>2, <1>4, <2>1
  <1> QED BY <1>1, <1>3, <1>4

(* After full batches and one of n the remainder is n, or 0 if n is a full one. *)
LEMMA LastBatch ==
    ASSUME NEW b \in Nat \ {0}, NEW a \in Nat, NEW n \in 1..b, a - n \in Nat, (a - n) % b = 0
    PROVE  a % b = IF n = b THEN 0 ELSE n
  <1>1. PICK k \in Int : a - n = b * k
    <2>1. PICK d \in Int : d = a - n
      OBVIOUS
    <2>2. PICK k, r : k = d \div b /\ r = d % b
      OBVIOUS
    <2>3. k \in Int /\ r \in 0..b - 1 /\ d = b * k + r
      BY <2>2, DivModProperties
    <2>4. r = 0
      BY <2>1, <2>2
    <2> QED BY <2>1, <2>3, <2>4
  <1>2. PICK q \in Int, r \in 0..b - 1 : a = b * q + r /\ a % b = r
    <2>1. PICK q, r : q = a \div b /\ r = a % b
      OBVIOUS
    <2>2. q \in Int /\ r \in 0..b - 1 /\ a = b * q + r
      BY <2>1, DivModProperties
    <2> QED BY <2>1, <2>2
  <1>3. CASE n = b
    <2>1. b * q + r = b * (k + 1) + 0
      BY <1>1, <1>2, <1>3
    <2>2. r = 0
      BY <2>1, RemainderIsUnique, k + 1 \in Int, 0 \in 0..b - 1
    <2> QED BY <1>2, <1>3, <2>2
  <1>4. CASE n # b
    <2>1. b * q + r = b * k + n /\ n \in 0..b - 1
      BY <1>1, <1>2, <1>4
    <2>2. r = n
      BY <2>1, RemainderIsUnique
    <2> QED BY <1>2, <1>4, <2>2
  <1> QED BY <1>3, <1>4

(* Every nonempty set of numbers has a least one. *)
LEMMA LeastNumber ==
    ASSUME NEW S \in SUBSET Nat, S # {}
    PROVE  \E n \in S : \A m \in S : n =< m
  <1>1. IsWellFoundedOn(OpToRel(<, Nat), Nat)
    BY NatLessThanWellFounded
  <1>2. PICK n \in S : \A m \in S : <<m, n>> \notin OpToRel(<, Nat)
    BY <1>1, WFMin
  <1>3. ASSUME NEW m \in S PROVE ~(m < n)
    BY <1>2 DEF OpToRel
  <1> QED BY <1>3

(* The allocator has an address that is not in use. *)
LEMMA LowestFreeIsFree ==
    ASSUME ChurnTypes
    PROVE  LowestFree \in Addresses /\ LowestFree \notin inUse
  <1>1. PICK c \in Nat : c = Cardinality(inUse)
    BY FS_CardinalityType DEF ChurnTypes
  <1>2. IsFiniteSet(1..c + 1) /\ Cardinality(1..c + 1) = c + 1
    <2>1. PICK d \in Nat : d = c + 1
      OBVIOUS
    <2>2. IsFiniteSet(1..d) /\ Cardinality(1..d) = d
      BY FS_Interval
    <2> QED BY <2>1, <2>2
  <1>3. ASSUME 1..c + 1 \subseteq inUse PROVE FALSE
    <2>1. Cardinality(1..c + 1) =< Cardinality(inUse)
      BY <1>3, FS_Subset DEF ChurnTypes
    <2> QED BY <1>1, <1>2, <2>1
  <1>4. PICK a \in 1..c + 1 : a \notin inUse /\ \A b \in 1..c + 1 : b \notin inUse => a =< b
    <2>1. {a \in 1..c + 1 : a \notin inUse} \in SUBSET Nat
      OBVIOUS
    <2>2. {a \in 1..c + 1 : a \notin inUse} # {}
      BY <1>3
    <2>3. PICK a \in {a \in 1..c + 1 : a \notin inUse} :
            \A b \in {b \in 1..c + 1 : b \notin inUse} : a =< b
      BY <2>1, <2>2, LeastNumber
    <2> QED BY <2>3
  <1>5. \A b \in 1..a - 1 : b \in 1..c + 1 /\ ~(a =< b)
    OBVIOUS
  <1>6. \A b \in 1..a - 1 : b \in inUse
    BY <1>4, <1>5
  <1>7. LowestFree \in 1..c + 1 /\ LowestFree \notin inUse
    BY <1>1, <1>4, <1>6 DEF LowestFree
  <1>8. 1..c + 1 \subseteq Addresses
    BY DEF Addresses
  <1> QED BY <1>7, <1>8

------------------------------------------------------------------------------
(***************************************************************************)
(* Live sets: what a push_back, a removal and a free of the next do.       *)
(***************************************************************************)
LEMMA Pushed ==
    ASSUME NEW S, NEW s \in Seq(S), NEW e \in S, e \notin ToSet(s), IsInjective(s)
    PROVE  /\ Append(s, e) \in Seq(S) /\ Len(Append(s, e)) = Len(s) + 1
           /\ ToSet(Append(s, e)) = ToSet(s) \cup {e} /\ IsInjective(Append(s, e))
  <1> DEFINE r == Append(s, e)
  <1>1. PICK n \in Nat : n = Len(s)
    BY LenProperties
  <1>2. /\ r \in Seq(S) /\ Len(r) = n + 1 /\ DOMAIN s = 1..n /\ DOMAIN r = 1..n + 1
        /\ r[n + 1] = e /\ \A i \in 1..n : r[i] = s[i]
    BY <1>1, AppendProperties, LenProperties
  <1> HIDE DEF r
  <1>3. /\ \A i \in 1..n + 1 : i \in 1..n \/ i = n + 1
        /\ n + 1 \in 1..n + 1 /\ 1..n \subseteq 1..n + 1
    BY <1>1
  <1>4. ToSet(r) = ToSet(s) \cup {e}
    BY <1>2, <1>3 DEF ToSet
  <1>5. IsInjective(r)
    BY <1>2, <1>3 DEF IsInjective, ToSet
  <1> QED BY <1>1, <1>2, <1>4, <1>5 DEF r

(* The last takes the place of the one removed. *)
LEMMA Removed ==
    ASSUME NEW S, NEW s \in Seq(S), NEW i \in 1..Len(s), IsInjective(s)
    PROVE  LET r == Front([s EXCEPT ![i] = Last(s)])
           IN /\ r \in Seq(S) /\ Len(r) = Len(s) - 1
              /\ ToSet(r) = ToSet(s) \ {s[i]} /\ IsInjective(r)
              /\ s[i] \in ToSet(s)
  <1>1. PICK n \in Nat : n = Len(s) /\ DOMAIN s = 1..n
    BY LenProperties
  <1>2. /\ n > 0 /\ n \in 1..n /\ Last(s) = s[n] /\ s[n] \in S /\ i \in 1..n
        /\ \A j \in 1..n : s[j] \in S
    <2>1. n > 0 /\ n \in 1..n /\ i \in 1..n
      BY <1>1
    <2>2. \A j \in 1..n : s[j] \in S
      BY <1>1, ElementOfSeq
    <2> QED BY <1>1, <2>1, <2>2 DEF Last
  <1>3. PICK e : e = [s EXCEPT ![i] = Last(s)]
    OBVIOUS
  <1>4. /\ e \in Seq(S) /\ Len(e) = n /\ DOMAIN e = 1..n
        /\ e[i] = s[n] /\ \A j \in 1..n : j # i => e[j] = s[j]
    <2>1. e \in Seq(S) /\ Len(e) = n
      BY <1>1, <1>2, <1>3, ExceptSeq
    <2> QED BY <1>1, <1>2, <1>3, <2>1, LenProperties
  <1>5. PICK m \in Nat : m = n - 1 /\ n = m + 1
    <2>1. n - 1 \in Nat
      BY <1>2
    <2> QED BY <2>1
  <1>6. PICK r : r = Front(e)
    OBVIOUS
  <1>7. /\ r \in Seq(S) /\ Len(r) = m /\ DOMAIN r = 1..m
        /\ \A j \in 1..m : r[j] = e[j]
    <2>1. r = SubSeq(e, 1, m)
      BY <1>4, <1>5, <1>6 DEF Front
    <2>2. \A j \in 1..m : e[j] \in S
      <3>1. \A j \in 1..m : j \in 1..n
        BY <1>5
      <3> QED BY <1>2, <1>4, <3>1
    <2>3. /\ r \in Seq(S) /\ Len(r) = IF 1 =< m THEN m - 1 + 1 ELSE 0
          /\ \A j \in 1..m - 1 + 1 : r[j] = e[1 + j - 1]
      BY <2>1, <2>2, SubSeqProperties
    <2>4. Len(r) = m
      BY <2>3
    <2>5. \A j \in 1..m : j \in 1..m - 1 + 1 /\ 1 + j - 1 = j
      OBVIOUS
    <2>6. \A j \in 1..m : r[j] = e[j]
      BY <2>3, <2>5
    <2> QED BY <2>3, <2>4, <2>6, LenProperties
  <1>8. /\ \A j \in 1..m : j \in 1..n /\ j # n
        /\ \A j \in 1..n : j = n \/ j \in 1..m
    BY <1>5
  <1>9. \A j \in 1..m : (j = i /\ r[j] = s[n]) \/ (j # i /\ r[j] = s[j])
    BY <1>4, <1>7, <1>8
  <1>10. \A j, k \in 1..n : s[j] = s[k] => j = k
    BY <1>1 DEF IsInjective
  <1>11. IsInjective(r)
    <2> SUFFICES ASSUME NEW j \in 1..m, NEW k \in 1..m, r[j] = r[k] PROVE j = k
      BY <1>7 DEF IsInjective
    <2> QED BY <1>2, <1>8, <1>9, <1>10
  <1>12. ToSet(r) \subseteq ToSet(s) \ {s[i]}
    <2> SUFFICES ASSUME NEW j \in 1..m PROVE r[j] \in ToSet(s) \ {s[i]}
      BY <1>7 DEF ToSet
    <2>1. s[n] \in ToSet(s) /\ s[j] \in ToSet(s)
      BY <1>1, <1>2, <1>8 DEF ToSet
    <2>2. r[j] # s[i]
      BY <1>2, <1>8, <1>9, <1>10
    <2> QED BY <1>9, <2>1, <2>2
  <1>13. ToSet(s) \ {s[i]} \subseteq ToSet(r)
    <2> SUFFICES ASSUME NEW j \in 1..n, s[j] # s[i] PROVE s[j] \in ToSet(r)
      BY <1>1 DEF ToSet
    <2>1. CASE j = n
      <3>1. i \in 1..m /\ r[i] = s[n]
        BY <1>2, <1>8, <1>9, <2>1
      <3> QED BY <1>7, <2>1, <3>1 DEF ToSet
    <2>2. CASE j # n
      <3>1. j \in 1..m /\ r[j] = s[j]
        BY <1>8, <1>9, <2>2
      <3> QED BY <1>7, <3>1 DEF ToSet
    <2> QED BY <2>1, <2>2
  <1>14. s[i] \in ToSet(s)
    BY <1>1, <1>2 DEF ToSet
  <1>15. Len(r) = Len(s) - 1
    BY <1>1, <1>5, <1>7
  <1> QED BY <1>3, <1>6, <1>7, <1>11, <1>12, <1>13, <1>14, <1>15

LEMMA FirstGone ==
    ASSUME NEW S, NEW s \in Seq(S), s # <<>>, IsInjective(s)
    PROVE  /\ Tail(s) \in Seq(S) /\ Len(Tail(s)) = Len(s) - 1
           /\ ToSet(Tail(s)) = ToSet(s) \ {Head(s)} /\ IsInjective(Tail(s))
           /\ Head(s) \in ToSet(s)
  <1>1. PICK n \in Nat : Len(s) = n + 1
    <2>1. Len(s) \in Nat /\ Len(s) # 0
      BY EmptySeq, LenProperties
    <2> QED BY <2>1, Len(s) - 1 \in Nat
  <1>2. PICK r : r = Tail(s)
    OBVIOUS
  <1>3. /\ r \in Seq(S) /\ Len(r) = n /\ DOMAIN s = 1..n + 1 /\ DOMAIN r = 1..n
        /\ Head(s) = s[1] /\ \A i \in 1..n : r[i] = s[i + 1]
    BY <1>1, <1>2, HeadTailProperties, LenProperties
  <1>4. /\ \A i \in 1..n : i + 1 \in 1..n + 1 /\ i + 1 # 1
        /\ \A i \in 1..n + 1 : i = 1 \/ \E j \in 1..n : i = j + 1
        /\ 1 \in 1..n + 1
        /\ \A i, j \in 1..n : i + 1 = j + 1 => i = j
    <2>1. \A i \in 1..n + 1 : i # 1 => i - 1 \in 1..n /\ i = (i - 1) + 1
      BY <1>1
    <2> QED BY <1>1, <2>1
  <1>5. IsInjective(r)
    <2> SUFFICES ASSUME NEW i \in 1..n, NEW j \in 1..n, r[i] = r[j] PROVE i = j
      BY <1>3 DEF IsInjective
    <2>1. s[i + 1] = s[j + 1] /\ i + 1 \in DOMAIN s /\ j + 1 \in DOMAIN s
      BY <1>3, <1>4
    <2>2. i + 1 = j + 1
      BY <2>1 DEF IsInjective
    <2> QED BY <2>2
  <1>6. ToSet(r) \subseteq ToSet(s) \ {Head(s)}
    BY <1>3, <1>4 DEF ToSet, IsInjective
  <1>7. ToSet(s) \ {Head(s)} \subseteq ToSet(r)
    <2> SUFFICES ASSUME NEW i \in 1..n + 1, s[i] # Head(s) PROVE s[i] \in ToSet(r)
      BY <1>3 DEF ToSet
    <2>1. PICK j \in 1..n : i = j + 1
      BY <1>3, <1>4
    <2> QED BY <1>3, <2>1 DEF ToSet
  <1>8. Head(s) \in ToSet(s)
    BY <1>3, <1>4 DEF ToSet
  <1> QED BY <1>1, <1>2, <1>3, <1>5, <1>6, <1>7, <1>8

------------------------------------------------------------------------------
(***************************************************************************)
(* Who owns what, when one thread gains or loses one address.              *)
(***************************************************************************)
LEMMA OneMoreOwned ==
    ASSUME NEW u, NEW l, OwnedBy(u, l), NEW t \in ChurnThreads, NEW p, p \notin u,
           NEW m, \A v \in ChurnThreads : v # t => m[v] = l[v],
           ToSet(m[t]) = ToSet(l[t]) \cup {p}, IsInjective(m[t])
    PROVE  OwnedBy(u \cup {p}, m)
  <1> DEFINE H(v) == ToSet(l[v])
             G(v) == ToSet(m[v])
  <1>1. /\ u = UNION {H(v) : v \in ChurnThreads}
        /\ \A v, w \in ChurnThreads : v # w => H(v) \cap H(w) = {}
        /\ \A v \in ChurnThreads : v # t => G(v) = H(v)
        /\ G(t) = H(t) \cup {p}
    BY DEF OwnedBy
  <1>2. \A v \in ChurnThreads : IsInjective(m[v])
    BY DEF OwnedBy
  <1> HIDE DEF H, G
  <1>3. \A v \in ChurnThreads : p \notin H(v)
    BY <1>1
  <1>4. \A v, w \in ChurnThreads : v # w => G(v) \cap G(w) = {}
    BY <1>1, <1>3
  <1>5. u \cup {p} = UNION {G(v) : v \in ChurnThreads}
    <2>1. \A v \in ChurnThreads : G(v) \subseteq u \cup {p} /\ H(v) \subseteq G(v)
      BY <1>1
    <2>2. p \in G(t)
      BY <1>1
    <2> QED BY <1>1, <2>1, <2>2
  <1> QED BY <1>2, <1>4, <1>5 DEF OwnedBy, G

LEMMA OneLessOwned ==
    ASSUME NEW u, NEW l, OwnedBy(u, l), NEW t \in ChurnThreads, NEW p \in ToSet(l[t]),
           NEW m, \A v \in ChurnThreads : v # t => m[v] = l[v],
           ToSet(m[t]) = ToSet(l[t]) \ {p}, IsInjective(m[t])
    PROVE  p \in u /\ OwnedBy(u \ {p}, m)
  <1> DEFINE H(v) == ToSet(l[v])
             G(v) == ToSet(m[v])
  <1>1. /\ u = UNION {H(v) : v \in ChurnThreads}
        /\ \A v, w \in ChurnThreads : v # w => H(v) \cap H(w) = {}
        /\ \A v \in ChurnThreads : v # t => G(v) = H(v)
        /\ G(t) = H(t) \ {p} /\ p \in H(t)
    BY DEF OwnedBy
  <1>2. \A v \in ChurnThreads : IsInjective(m[v])
    BY DEF OwnedBy
  <1> HIDE DEF H, G
  <1>3. \A v \in ChurnThreads : v # t => p \notin H(v)
    BY <1>1
  <1>4. \A v, w \in ChurnThreads : v # w => G(v) \cap G(w) = {}
    BY <1>1, <1>3
  <1>5. \A v \in ChurnThreads : G(v) = H(v) \ {p}
    BY <1>1, <1>3
  <1>6. u \ {p} = UNION {G(v) : v \in ChurnThreads}
    BY <1>1, <1>5
  <1>7. p \in u
    BY <1>1
  <1> QED BY <1>2, <1>4, <1>6, <1>7 DEF OwnedBy, G

(* malloc and push_back by one thread. *)
LEMMA AllocatedKeeps ==
    ASSUME ChurnTypes, Owned, NEW t \in ChurnThreads, Allocated(t), aborted' = aborted
    PROVE  /\ inUse' \in SUBSET Addresses /\ IsFiniteSet(inUse')
           /\ live' \in [ChurnThreads -> Seq(Addresses)]
           /\ allocIdx' \in [ChurnThreads -> Nat]
           /\ Owned'
           /\ Len(live'[t]) = Len(live[t]) + 1 /\ allocIdx'[t] = allocIdx[t] + 1
           /\ \A v \in ChurnThreads : v # t => live'[v] = live[v] /\ allocIdx'[v] = allocIdx[v]
  <1>1. PICK p \in Addresses : p = LowestFree /\ p \notin inUse
    BY LowestFreeIsFree
  <1>2. PICK s : s = live[t] /\ s \in Seq(Addresses)
    BY DEF ChurnTypes
  <1>3. PICK r : r = Append(s, p)
    OBVIOUS
  <1>4. inUse' = inUse \cup {p} /\ live' = [live EXCEPT ![t] = r]
    BY <1>1, <1>2, <1>3 DEF Allocated
  <1>5. p \notin ToSet(s) /\ IsInjective(s)
    BY <1>1, <1>2, Zenon DEF Owned, OwnedBy
  <1>6. /\ r \in Seq(Addresses) /\ Len(r) = Len(s) + 1
        /\ ToSet(r) = ToSet(s) \cup {p} /\ IsInjective(r)
    BY <1>2, <1>3, <1>5, Pushed
  <1>7. /\ live' \in [ChurnThreads -> Seq(Addresses)] /\ live'[t] = r
        /\ \A v \in ChurnThreads : v # t => live'[v] = live[v]
    BY <1>4, <1>6 DEF ChurnTypes
  <1>8. OwnedBy(inUse \cup {p}, live')
    <2>1. OwnedBy(inUse, live)
      BY DEF Owned
    <2>2. PICK m : m = live'
      OBVIOUS
    <2>3. ToSet(m[t]) = ToSet(live[t]) \cup {p} /\ IsInjective(m[t])
          /\ \A v \in ChurnThreads : v # t => m[v] = live[v]
      BY <1>2, <1>6, <1>7, <2>2
    <2>4. OwnedBy(inUse \cup {p}, m)
      BY <1>1, <2>1, <2>3, OneMoreOwned
    <2> QED BY <2>2, <2>4
  <1>9. Owned'
    BY <1>4, <1>8, Zenon DEF Owned, OwnedBy
  <1>10. inUse' \in SUBSET Addresses /\ IsFiniteSet(inUse')
    BY <1>1, <1>4, FS_AddElement DEF ChurnTypes
  <1>11. /\ allocIdx' \in [ChurnThreads -> Nat] /\ allocIdx'[t] = allocIdx[t] + 1
         /\ \A v \in ChurnThreads : v # t => allocIdx'[v] = allocIdx[v]
    BY DEF Allocated, ChurnTypes
  <1> QED BY <1>2, <1>6, <1>7, <1>9, <1>10, <1>11

(* free by one thread of one of its own. *)
LEMMA FreesKeeps ==
    ASSUME ChurnTypes, Owned, NEW t \in ChurnThreads, NEW p \in ToSet(live[t]), Frees(p),
           NEW r \in Seq(Addresses), ToSet(r) = ToSet(live[t]) \ {p}, IsInjective(r),
           live' = [live EXCEPT ![t] = r]
    PROVE  /\ inUse' \in SUBSET Addresses /\ IsFiniteSet(inUse')
           /\ live' \in [ChurnThreads -> Seq(Addresses)]
           /\ Owned' /\ live'[t] = r
           /\ \A v \in ChurnThreads : v # t => live'[v] = live[v]
  <1>1. /\ live' \in [ChurnThreads -> Seq(Addresses)] /\ live'[t] = r
        /\ \A v \in ChurnThreads : v # t => live'[v] = live[v]
    BY DEF ChurnTypes
  <1>2. p \in inUse /\ OwnedBy(inUse \ {p}, live')
    <2>1. OwnedBy(inUse, live)
      BY DEF Owned
    <2>2. PICK m : m = live'
      OBVIOUS
    <2>3. ToSet(m[t]) = ToSet(live[t]) \ {p} /\ IsInjective(m[t])
          /\ \A v \in ChurnThreads : v # t => m[v] = live[v]
      BY <1>1, <2>2
    <2>4. p \in inUse /\ OwnedBy(inUse \ {p}, m)
      BY <2>1, <2>3, OneLessOwned
    <2> QED BY <2>2, <2>4
  <1>3. inUse' = inUse \ {p} /\ aborted' = aborted
    BY <1>2 DEF Frees
  <1>4. Owned'
    BY <1>2, <1>3, Zenon DEF Owned, OwnedBy
  <1>5. inUse' \in SUBSET Addresses /\ IsFiniteSet(inUse')
    BY <1>3, FS_RemoveElement DEF ChurnTypes
  <1> QED BY <1>1, <1>4, <1>5

------------------------------------------------------------------------------
(***************************************************************************)
(* The counts, step by step.                                               *)
(***************************************************************************)
LEMMA Chosen ==
    ASSUME ChurnTypes
    PROVE  /\ opt.allocs \in Nat /\ opt.live \in Nat \ {0} /\ opt.batch \in Nat \ {0}
           /\ Warm \in Nat /\ Warm <= opt.allocs
  <1>1. opt.allocs \in Nat /\ opt.live \in Nat \ {0} /\ opt.batch \in Nat \ {0}
    BY DEF ChurnTypes
  <1> QED BY <1>1 DEF Warm, Lesser

LEMMA InitChurn == ChurnInit => ChurnInv
  <1> SUFFICES ASSUME ChurnInit PROVE ChurnInv
    OBVIOUS
  <1>1. opt \in [allocs : Nat, live : Nat \ {0}, batch : Nat \ {0}]
    <2>1. PICK r \in [allocs : Nat, live : Nat, batch : Nat] : opt = Options(r)
      BY ChurnAssumption DEF ChurnInit
    <2> QED BY <2>1, ChurnAssumption DEF Options
  <1>2. \A t \in ChurnThreads :
          live[t] = <<>> /\ allocIdx[t] = 0 /\ cpc[t] = "warm" /\ left[t] = 0
    BY DEF ChurnInit
  <1>3. ChurnTypes
    BY <1>1, FS_EmptySet DEF ChurnInit, ChurnTypes
  <1>4. ToSet(<<>>) = {} /\ IsInjective(<<>>) /\ Len(<<>>) = 0
    BY DEF ToSet, IsInjective
  <1>5. Owned
    <2>1. inUse = {} /\ aborted # "freed twice"
      BY DEF ChurnInit
    <2>2. \A t \in ChurnThreads : ToSet(live[t]) = {} /\ IsInjective(live[t])
      BY <1>2, <1>4
    <2>3. inUse = UNION {ToSet(live[t]) : t \in ChurnThreads}
      BY <2>1, <2>2
    <2> QED BY <2>1, <2>2, <2>3 DEF Owned, OwnedBy
  <1>6. ASSUME NEW t \in ChurnThreads PROVE Counts(t)
    <2>1. cpc[t] = "warm" /\ Len(live[t]) = 0 /\ allocIdx[t] = 0 /\ 0 <= Warm
      BY <1>2, <1>3, <1>4, Chosen
    <2> QED BY <2>1 DEF Counts
  <1> QED BY <1>3, <1>5, <1>6 DEF ChurnInv

(* What another thread does leaves a thread's counts alone. *)
LEMMA CountsStay ==
    ASSUME NEW v \in ChurnThreads, Counts(v), opt' = opt, cpc'[v] = cpc[v],
           left'[v] = left[v], live'[v] = live[v], allocIdx'[v] = allocIdx[v]
    PROVE  Counts(v)'
  <1>1. InBatch(v) => InBatch(v)'
    BY DEF InBatch, FullBatches, Warm, Lesser
  <1>2. InFree(v) => InFree(v)'
    BY DEF InFree, FullBatches, Warm, Lesser
  <1> QED BY <1>1, <1>2 DEF Counts, Warm, Lesser

LEMMA WarmUpKeeps ==
    ASSUME ChurnInv, NEW t \in ChurnThreads, WarmUp(t) PROVE ChurnInv'
  <1>1. /\ cpc[t] = "warm" /\ allocIdx[t] < Warm /\ Allocated(t)
        /\ opt' = opt /\ cpc' = cpc /\ left' = left /\ aborted' = aborted
    BY DEF WarmUp
  <1>2. /\ inUse' \in SUBSET Addresses /\ IsFiniteSet(inUse')
        /\ live' \in [ChurnThreads -> Seq(Addresses)] /\ allocIdx' \in [ChurnThreads -> Nat]
        /\ Owned'
        /\ Len(live'[t]) = Len(live[t]) + 1 /\ allocIdx'[t] = allocIdx[t] + 1
        /\ \A v \in ChurnThreads : v # t => live'[v] = live[v] /\ allocIdx'[v] = allocIdx[v]
    BY <1>1, AllocatedKeeps DEF ChurnInv
  <1>3. ChurnTypes'
    BY <1>1, <1>2 DEF ChurnInv, ChurnTypes
  <1>4. Len(live'[t]) = allocIdx'[t] /\ allocIdx'[t] <= Warm
    <2>1. Len(live[t]) = allocIdx[t] /\ allocIdx[t] \in Nat /\ Warm \in Nat
      BY <1>1, Chosen DEF ChurnInv, Counts, ChurnTypes
    <2> QED BY <1>1, <1>2, <2>1
  <1>5. Counts(t)'
    <2>1. cpc'[t] = "warm" /\ Warm' = Warm
      BY <1>1 DEF Warm, Lesser
    <2> QED BY <1>4, <2>1 DEF Counts
  <1>6. ASSUME NEW v \in ChurnThreads, v # t PROVE Counts(v)'
    BY <1>1, <1>2, <1>6, CountsStay DEF ChurnInv
  <1> QED BY <1>2, <1>3, <1>5, <1>6 DEF ChurnInv

LEMMA AllocateOneKeeps ==
    ASSUME ChurnInv, NEW t \in ChurnThreads, AllocateOne(t) PROVE ChurnInv'
  <1>1. /\ cpc[t] = "batch" /\ left[t] > 0 /\ Allocated(t)
        /\ left' = [left EXCEPT ![t] = left[t] - 1]
        /\ opt' = opt /\ cpc' = cpc /\ aborted' = aborted
    BY DEF AllocateOne
  <1>2. /\ inUse' \in SUBSET Addresses /\ IsFiniteSet(inUse')
        /\ live' \in [ChurnThreads -> Seq(Addresses)] /\ allocIdx' \in [ChurnThreads -> Nat]
        /\ Owned'
        /\ Len(live'[t]) = Len(live[t]) + 1 /\ allocIdx'[t] = allocIdx[t] + 1
        /\ \A v \in ChurnThreads : v # t => live'[v] = live[v] /\ allocIdx'[v] = allocIdx[v]
    BY <1>1, AllocatedKeeps DEF ChurnInv
  <1>3. /\ left' \in [ChurnThreads -> Nat] /\ left'[t] = left[t] - 1
        /\ \A v \in ChurnThreads : v # t => left'[v] = left[v]
    <2>1. left \in [ChurnThreads -> Nat] /\ left[t] - 1 \in Nat
      BY <1>1 DEF ChurnInv, ChurnTypes
    <2> QED BY <1>1, <2>1
  <1>4. ChurnTypes'
    BY <1>1, <1>2, <1>3 DEF ChurnInv, ChurnTypes
  <1>5. PICK n \in 1..opt.batch :
          /\ left[t] <= n /\ Len(live[t]) = Warm + n - left[t]
          /\ FullBatches(allocIdx[t] + left[t] - n - Warm)
          /\ allocIdx[t] + left[t] <= opt.allocs
          /\ n = opt.batch \/ allocIdx[t] + left[t] = opt.allocs
    BY <1>1 DEF ChurnInv, Counts, InBatch
  <1>6. Warm' = Warm /\ Warm \in Nat /\ opt.batch \in Nat /\ left[t] \in Nat /\ allocIdx[t] \in Nat
    BY <1>1, Chosen DEF Warm, Lesser, ChurnInv, ChurnTypes
  <1>7. allocIdx'[t] + left'[t] = allocIdx[t] + left[t]
    <2>1. allocIdx'[t] = allocIdx[t] + 1
      BY <1>2
    <2>2. left'[t] = left[t] - 1
      BY <1>3
    <2> QED BY <1>6, <2>1, <2>2
  <1>8. left'[t] <= n /\ Len(live'[t]) = Warm + n - left'[t]
    <2>1. PICK l \in Nat, w \in Nat : l = left[t] /\ w = Warm
      BY <1>6
    <2>2. left'[t] = l - 1 /\ Len(live'[t]) = Len(live[t]) + 1
      BY <1>2, <1>3, <2>1
    <2>3. l <= n /\ Len(live[t]) = w + n - l
      BY <1>5, <2>1
    <2>4. l - 1 <= n /\ (w + n - l) + 1 = w + n - (l - 1)
      BY <2>1, <2>3
    <2> QED BY <2>1, <2>2, <2>3, <2>4
  <1>9. Counts(t)'
    <2>1. FullBatches(allocIdx[t] + left[t] - n - Warm)'
      <3>1. PICK d : d = allocIdx[t] + left[t] - n - Warm
        OBVIOUS
      <3>2. d = allocIdx'[t] + left'[t] - n - Warm'
        <4>1. PICK a \in Nat, l \in Nat, w \in Nat : a = allocIdx[t] /\ l = left[t] /\ w = Warm
          BY <1>6
        <4>2. allocIdx'[t] = a + 1 /\ left'[t] = l - 1 /\ Warm' = w
          BY <1>2, <1>3, <1>6, <4>1
        <4>3. d = a + l - n - w /\ n \in Int
          BY <1>5, <1>6, <3>1, <4>1
        <4>4. d = (a + 1) + (l - 1) - n - w
          BY <4>3
        <4> QED BY <4>2, <4>4
      <3> QED BY <1>1, <1>5, <3>1, <3>2 DEF FullBatches
    <2>2. n \in 1..opt'.batch /\ (n = opt'.batch \/ allocIdx'[t] + left'[t] = opt'.allocs)
          /\ allocIdx'[t] + left'[t] <= opt'.allocs
      BY <1>1, <1>5, <1>7
    <2>3. Len(live'[t]) = Warm' + n - left'[t] /\ left'[t] <= n
      BY <1>6, <1>8
    <2>4. InBatch(t)'
      BY <2>1, <2>2, <2>3 DEF InBatch
    <2>5. cpc'[t] = "batch"
      BY <1>1
    <2> QED BY <2>4, <2>5 DEF Counts
  <1>10. ASSUME NEW v \in ChurnThreads, v # t PROVE Counts(v)'
    BY <1>1, <1>2, <1>3, <1>10, CountsStay DEF ChurnInv
  <1> QED BY <1>2, <1>4, <1>9, <1>10 DEF ChurnInv

(* Steps that only move a thread on. *)
LEMMA MovesKeep ==
    ASSUME ChurnInv, NEW t \in ChurnThreads,
           opt' = opt, inUse' = inUse, live' = live, allocIdx' = allocIdx, aborted' = aborted,
           cpc' \in [ChurnThreads -> {"warm", "batch", "free", "drain", "end"}],
           left' \in [ChurnThreads -> Nat],
           \A v \in ChurnThreads : v # t => cpc'[v] = cpc[v] /\ left'[v] = left[v],
           Counts(t)'
    PROVE  ChurnInv'
  <1>1. ChurnTypes'
    BY DEF ChurnInv, ChurnTypes
  <1>2. Owned'
    BY Zenon DEF ChurnInv, Owned, OwnedBy
  <1>3. ASSUME NEW v \in ChurnThreads, v # t PROVE Counts(v)'
    BY <1>3, CountsStay DEF ChurnInv
  <1> QED BY <1>1, <1>2, <1>3 DEF ChurnInv

LEMMA NextBatchKeeps ==
    ASSUME ChurnInv, NEW t \in ChurnThreads, NextBatch(t) PROVE ChurnInv'
  <1>1. /\ (cpc[t] = "warm" /\ allocIdx[t] = Warm) \/ (cpc[t] = "free" /\ left[t] = 0)
        /\ opt' = opt /\ inUse' = inUse /\ live' = live /\ allocIdx' = allocIdx
        /\ aborted' = aborted
    BY DEF NextBatch
  <1>2. /\ opt.allocs \in Nat /\ opt.batch \in Nat \ {0} /\ Warm \in Nat /\ Warm <= opt.allocs
        /\ allocIdx[t] \in Nat /\ left[t] \in Nat
        /\ cpc \in [ChurnThreads -> {"warm", "batch", "free", "drain", "end"}]
        /\ left \in [ChurnThreads -> Nat]
    BY Chosen DEF ChurnInv, ChurnTypes
  <1>3. Warm' = Warm
    BY <1>1 DEF Warm, Lesser
  <1>4. 0 % opt.batch = 0
    BY <1>2
  <1>5. /\ Len(live[t]) = Warm /\ allocIdx[t] <= opt.allocs
        /\ allocIdx[t] = opt.allocs \/ FullBatches(allocIdx[t] - Warm)
    <2>1. CASE cpc[t] = "warm" /\ allocIdx[t] = Warm
      <3>1. Len(live[t]) = allocIdx[t]
        BY <2>1 DEF ChurnInv, Counts
      <3>2. allocIdx[t] - Warm = 0
        BY <1>2, <2>1
      <3> QED BY <1>2, <1>4, <2>1, <3>1, <3>2 DEF FullBatches
    <2>2. CASE cpc[t] = "free" /\ left[t] = 0
      <3>1. InFree(t)
        BY <2>2 DEF ChurnInv, Counts
      <3>2. Len(live[t]) = Warm
        BY <1>2, <2>2, <3>1 DEF InFree
      <3> QED BY <3>1, <3>2 DEF InFree
    <2> QED BY <1>1, <2>1, <2>2
  <1>6. CASE allocIdx[t] < opt.allocs
    <2>1. PICK n : n = Lesser(opt.batch, opt.allocs - allocIdx[t])
      OBVIOUS
    <2>2. /\ n \in 1..opt.batch /\ allocIdx[t] + n <= opt.allocs
          /\ n = opt.batch \/ allocIdx[t] + n = opt.allocs
      <3>1. PICK c \in Nat \ {0} : c = opt.allocs - allocIdx[t]
        BY <1>2, <1>6
      <3>2. (n = opt.batch /\ opt.batch < c) \/ (n = c /\ c <= opt.batch)
        BY <1>2, <2>1, <3>1 DEF Lesser
      <3> QED BY <1>2, <3>1, <3>2
    <2>3. left' = [left EXCEPT ![t] = n] /\ cpc' = [cpc EXCEPT ![t] = "batch"]
      BY <1>6, <2>1 DEF NextBatch
    <2>4. /\ left' \in [ChurnThreads -> Nat] /\ left'[t] = n /\ cpc'[t] = "batch"
          /\ cpc' \in [ChurnThreads -> {"warm", "batch", "free", "drain", "end"}]
          /\ \A v \in ChurnThreads : v # t => cpc'[v] = cpc[v] /\ left'[v] = left[v]
      BY <1>2, <2>2, <2>3
    <2>5. InBatch(t)'
      <3>1. FullBatches(allocIdx[t] - Warm)
        BY <1>2, <1>5, <1>6
      <3>2. FullBatches(allocIdx[t] + left[t] - n - Warm)'
        <4>1. PICK d : d = allocIdx[t] - Warm
          OBVIOUS
        <4>2. d = allocIdx'[t] + left'[t] - n - Warm'
          BY <1>1, <1>2, <1>3, <2>2, <2>4, <4>1
        <4> QED BY <1>1, <3>1, <4>1, <4>2 DEF FullBatches
      <3>3. n \in 1..opt'.batch /\ (n = opt'.batch \/ allocIdx'[t] + left'[t] = opt'.allocs)
            /\ allocIdx'[t] + left'[t] <= opt'.allocs
        BY <1>1, <2>2, <2>4
      <3>4. Len(live'[t]) = Warm' + n - left'[t] /\ left'[t] <= n
        BY <1>1, <1>2, <1>3, <1>5, <2>2, <2>4
      <3> QED BY <3>2, <3>3, <3>4 DEF InBatch
    <2>6. Counts(t)'
      BY <2>4, <2>5 DEF Counts
    <2> QED BY <1>1, <2>4, <2>6, MovesKeep
  <1>7. CASE ~(allocIdx[t] < opt.allocs)
    <2>1. left' = left /\ cpc' = [cpc EXCEPT ![t] = "drain"]
      BY <1>7 DEF NextBatch
    <2>2. /\ left' \in [ChurnThreads -> Nat] /\ cpc'[t] = "drain"
          /\ cpc' \in [ChurnThreads -> {"warm", "batch", "free", "drain", "end"}]
          /\ \A v \in ChurnThreads : v # t => cpc'[v] = cpc[v] /\ left'[v] = left[v]
      BY <1>2, <2>1
    <2>3. allocIdx'[t] = opt'.allocs /\ Len(live'[t]) <= Warm'
      BY <1>1, <1>2, <1>3, <1>5, <1>7
    <2>4. Counts(t)'
      BY <2>2, <2>3 DEF Counts
    <2> QED BY <1>1, <2>2, <2>4, MovesKeep
  <1> QED BY <1>6, <1>7

LEMMA StartFreesKeeps ==
    ASSUME ChurnInv, NEW t \in ChurnThreads, StartFrees(t) PROVE ChurnInv'
  <1>1. /\ cpc[t] = "batch" /\ left[t] = 0
        /\ opt' = opt /\ inUse' = inUse /\ live' = live /\ allocIdx' = allocIdx
        /\ aborted' = aborted /\ cpc' = [cpc EXCEPT ![t] = "free"]
    BY DEF StartFrees
  <1>2. /\ opt.allocs \in Nat /\ opt.batch \in Nat \ {0} /\ Warm \in Nat
        /\ allocIdx[t] \in Nat
        /\ cpc \in [ChurnThreads -> {"warm", "batch", "free", "drain", "end"}]
        /\ left \in [ChurnThreads -> Nat]
    BY Chosen DEF ChurnInv, ChurnTypes
  <1>3. Warm' = Warm
    BY <1>1 DEF Warm, Lesser
  <1>4. PICK n \in 1..opt.batch :
          /\ Len(live[t]) = Warm + n - left[t]
          /\ FullBatches(allocIdx[t] + left[t] - n - Warm)
          /\ allocIdx[t] + left[t] <= opt.allocs
          /\ n = opt.batch \/ allocIdx[t] + left[t] = opt.allocs
    BY <1>1 DEF ChurnInv, Counts, InBatch
  <1>5. PICK b \in Nat \ {0} : b = opt.batch
    BY <1>2
  <1>6. PICK a \in Int : a = allocIdx[t] - Warm
    BY <1>2
  <1>7. allocIdx[t] + left[t] - n - Warm = a - n
    BY <1>1, <1>2, <1>4, <1>5, <1>6
  <1>8. a - n \in Nat /\ (a - n) % b = 0 /\ a \in Nat /\ n \in 1..b
    <2>1. a - n \in Nat /\ (a - n) % b = 0
      BY <1>4, <1>5, <1>7 DEF FullBatches
    <2> QED BY <1>4, <1>5, <2>1
  <1>9. a % b = IF n = b THEN 0 ELSE n
    BY <1>8, LastBatch
  <1>10. PICK l \in Nat : l = Len(live[t]) /\ l = Warm + n
    BY <1>1, <1>2, <1>4, <1>5
  <1>11. left' = [left EXCEPT ![t] = n]
    <2>1. PICK last : last = a % b
      OBVIOUS
    <2>2. n = IF last = 0 THEN b ELSE last
      BY <1>8, <1>9, <2>1
    <2>3. left' = [left EXCEPT ![t] = Lesser(IF last = 0 THEN b ELSE last, l)]
      BY <1>5, <1>6, <1>10, <2>1 DEF StartFrees
    <2>4. Lesser(n, l) = n
      BY <1>2, <1>8, <1>10 DEF Lesser
    <2> QED BY <2>2, <2>3, <2>4
  <1>12. /\ left' \in [ChurnThreads -> Nat] /\ left'[t] = n /\ cpc'[t] = "free"
         /\ cpc' \in [ChurnThreads -> {"warm", "batch", "free", "drain", "end"}]
         /\ \A v \in ChurnThreads : v # t => cpc'[v] = cpc[v] /\ left'[v] = left[v]
    BY <1>1, <1>2, <1>8, <1>11
  <1>13. left'[t] <= opt'.batch /\ Len(live'[t]) = Warm' + left'[t]
    BY <1>1, <1>3, <1>5, <1>8, <1>10, <1>12
  <1>14. allocIdx'[t] <= opt'.allocs
    BY <1>1, <1>2, <1>4
  <1>15. allocIdx'[t] = opt'.allocs \/ FullBatches(allocIdx[t] - Warm)'
    <2>1. CASE n = b
      <3>1. a % b = 0
        BY <1>9, <2>1
      <3>2. a = allocIdx'[t] - Warm' /\ b = opt'.batch
        BY <1>1, <1>3, <1>5, <1>6
      <3> QED BY <1>8, <3>1, <3>2 DEF FullBatches
    <2>2. CASE n # b
      BY <1>1, <1>2, <1>4, <1>5, <2>2
    <2> QED BY <2>1, <2>2
  <1>16. Counts(t)'
    <2>1. InFree(t)'
      BY <1>13, <1>14, <1>15 DEF InFree
    <2> QED BY <1>12, <2>1 DEF Counts
  <1> QED BY <1>1, <1>12, <1>16, MovesKeep

LEMMA FreeOneKeeps ==
    ASSUME ChurnInv, NEW t \in ChurnThreads, FreeOne(t) PROVE ChurnInv'
  <1>1. PICK s : s = live[t] /\ s \in Seq(Addresses)
    BY DEF ChurnInv, ChurnTypes
  <1>2. PICK i \in 1..Len(s) :
          /\ Frees(s[i]) /\ live' = [live EXCEPT ![t] = Front([@ EXCEPT ![i] = Last(s)])]
    BY <1>1 DEF FreeOne
  <1>3. /\ cpc[t] = "free" /\ left[t] > 0 /\ left' = [left EXCEPT ![t] = left[t] - 1]
        /\ opt' = opt /\ cpc' = cpc /\ allocIdx' = allocIdx
    BY DEF FreeOne
  <1>4. PICK r : r = Front([s EXCEPT ![i] = Last(s)])
    OBVIOUS
  <1>5. IsInjective(s)
    BY <1>1 DEF ChurnInv, Owned, OwnedBy
  <1>6. /\ r \in Seq(Addresses) /\ Len(r) = Len(s) - 1
        /\ ToSet(r) = ToSet(s) \ {s[i]} /\ IsInjective(r) /\ s[i] \in ToSet(s)
    BY <1>1, <1>4, <1>5, Removed
  <1>7. live' = [live EXCEPT ![t] = r]
    BY <1>1, <1>2, <1>4
  <1>8. /\ inUse' \in SUBSET Addresses /\ IsFiniteSet(inUse')
        /\ live' \in [ChurnThreads -> Seq(Addresses)]
        /\ Owned' /\ live'[t] = r
        /\ \A v \in ChurnThreads : v # t => live'[v] = live[v]
    <2>1. PICK p : p = s[i] /\ p \in ToSet(live[t])
      BY <1>1, <1>6
    <2>2. Frees(p) /\ ToSet(r) = ToSet(live[t]) \ {p}
      BY <1>1, <1>2, <1>6, <2>1
    <2> QED BY <1>6, <1>7, <2>1, <2>2, FreesKeeps DEF ChurnInv
  <1>9. /\ left' \in [ChurnThreads -> Nat] /\ left'[t] = left[t] - 1
        /\ \A v \in ChurnThreads : v # t => left'[v] = left[v]
    <2>1. left \in [ChurnThreads -> Nat] /\ left[t] - 1 \in Nat
      BY <1>3 DEF ChurnInv, ChurnTypes
    <2> QED BY <1>3, <2>1
  <1>10. ChurnTypes'
    BY <1>3, <1>8, <1>9 DEF ChurnInv, ChurnTypes
  <1>11. Counts(t)'
    <2>1. InFree(t)
      BY <1>3 DEF ChurnInv, Counts
    <2>2. Warm' = Warm /\ Warm \in Nat /\ left[t] \in Nat /\ opt.batch \in Nat
      BY <1>3, Chosen DEF Warm, Lesser, ChurnInv, ChurnTypes
    <2>3. left'[t] <= opt'.batch
      BY <1>3, <1>9, <2>1, <2>2 DEF InFree
    <2>4. Len(live'[t]) = Warm' + left'[t]
      <3>1. Len(live'[t]) = Len(s) - 1 /\ Len(s) = Warm + left[t]
        BY <1>1, <1>6, <1>8, <2>1 DEF InFree
      <3>2. left'[t] = left[t] - 1
        BY <1>9
      <3> QED BY <2>2, <3>1, <3>2
    <2>5. /\ allocIdx'[t] = opt'.allocs \/ FullBatches(allocIdx[t] - Warm)'
          /\ allocIdx'[t] <= opt'.allocs
      BY <1>3, <2>1, <2>2 DEF InFree, FullBatches
    <2>6. InFree(t)'
      BY <2>3, <2>4, <2>5 DEF InFree
    <2>7. cpc'[t] = "free"
      BY <1>3
    <2> QED BY <2>6, <2>7 DEF Counts
  <1>12. ASSUME NEW v \in ChurnThreads, v # t PROVE Counts(v)'
    BY <1>3, <1>8, <1>9, <1>12, CountsStay DEF ChurnInv
  <1> QED BY <1>8, <1>10, <1>11, <1>12 DEF ChurnInv

LEMMA FreeRestKeeps ==
    ASSUME ChurnInv, NEW t \in ChurnThreads, FreeRest(t) PROVE ChurnInv'
  <1>1. /\ cpc[t] = "drain" /\ opt' = opt /\ allocIdx' = allocIdx /\ left' = left
        /\ allocIdx[t] = opt.allocs /\ Len(live[t]) <= Warm
    BY DEF FreeRest, ChurnInv, Counts
  <1>2. PICK s : s = live[t] /\ s \in Seq(Addresses)
    BY DEF ChurnInv, ChurnTypes
  <1>3. CASE live[t] = <<>>
    <2>1. /\ cpc' = [cpc EXCEPT ![t] = "end"]
          /\ inUse' = inUse /\ live' = live /\ aborted' = aborted
      BY <1>3 DEF FreeRest
    <2>2. /\ cpc' \in [ChurnThreads -> {"warm", "batch", "free", "drain", "end"}]
          /\ cpc'[t] = "end" /\ left' \in [ChurnThreads -> Nat]
          /\ \A v \in ChurnThreads : v # t => cpc'[v] = cpc[v] /\ left'[v] = left[v]
      BY <1>1, <2>1 DEF ChurnInv, ChurnTypes
    <2>3. Counts(t)'
      BY <1>1, <1>3, <2>1, <2>2 DEF Counts
    <2> QED BY <1>1, <2>1, <2>2, <2>3, MovesKeep
  <1>4. CASE live[t] # <<>>
    <2>1. Frees(Head(s)) /\ live' = [live EXCEPT ![t] = Tail(s)] /\ cpc' = cpc
      BY <1>2, <1>4 DEF FreeRest
    <2>2. IsInjective(s)
      BY <1>2 DEF ChurnInv, Owned, OwnedBy
    <2>3. PICK r : r = Tail(s)
      OBVIOUS
    <2>4. /\ r \in Seq(Addresses) /\ Len(r) = Len(s) - 1
          /\ ToSet(r) = ToSet(s) \ {Head(s)} /\ IsInjective(r) /\ Head(s) \in ToSet(s)
      BY <1>2, <1>4, <2>2, <2>3, FirstGone
    <2>5. /\ inUse' \in SUBSET Addresses /\ IsFiniteSet(inUse')
          /\ live' \in [ChurnThreads -> Seq(Addresses)]
          /\ Owned' /\ live'[t] = r
          /\ \A v \in ChurnThreads : v # t => live'[v] = live[v]
      <3>1. PICK p : p = Head(s) /\ p \in ToSet(live[t])
        BY <1>2, <2>4
      <3>2. Frees(p) /\ ToSet(r) = ToSet(live[t]) \ {p} /\ live' = [live EXCEPT ![t] = r]
        BY <1>2, <2>1, <2>3, <2>4, <3>1
      <3> QED BY <2>4, <3>1, <3>2, FreesKeeps DEF ChurnInv
    <2>6. ChurnTypes'
      BY <1>1, <2>1, <2>5 DEF ChurnInv, ChurnTypes
    <2>7. Counts(t)'
      <3>1. Warm' = Warm /\ Warm \in Nat /\ Len(s) \in Nat
        BY <1>1, <1>2, Chosen, LenProperties DEF Warm, Lesser, ChurnInv
      <3>2. Len(live'[t]) = Len(s) - 1 /\ Len(s) <= Warm
        BY <1>1, <1>2, <2>4, <2>5
      <3>3. Len(live'[t]) <= Warm'
        BY <3>1, <3>2
      <3>4. cpc'[t] = "drain" /\ allocIdx'[t] = opt'.allocs
        BY <1>1, <2>1
      <3> QED BY <3>3, <3>4 DEF Counts
    <2>8. ASSUME NEW v \in ChurnThreads, v # t PROVE Counts(v)'
      BY <1>1, <2>1, <2>5, <2>8, CountsStay DEF ChurnInv
    <2> QED BY <2>5, <2>6, <2>7, <2>8 DEF ChurnInv
  <1> QED BY <1>3, <1>4

LEMMA ChurnIdles ==
    ASSUME ChurnInv, UNCHANGED <<opt, inUse, live, allocIdx, cpc, left>>,
           aborted' = aborted \/ aborted' = "no memory"
    PROVE  ChurnInv'
  <1>1. ChurnTypes'
    BY DEF ChurnInv, ChurnTypes
  <1>2. Owned'
    <2>1. aborted' # "freed twice" /\ inUse' = inUse /\ live' = live
      BY DEF ChurnInv, Owned
    <2> QED BY <2>1, Zenon DEF ChurnInv, Owned, OwnedBy
  <1>3. ASSUME NEW v \in ChurnThreads PROVE Counts(v)'
    BY CountsStay DEF ChurnInv
  <1> QED BY <1>1, <1>2, <1>3 DEF ChurnInv

LEMMA ChurnIsKept == ChurnInv /\ [ChurnNext]_churnVars => ChurnInv'
  <1> SUFFICES ASSUME ChurnInv, [ChurnNext]_churnVars PROVE ChurnInv'
    OBVIOUS
  <1>1. ASSUME NEW t \in ChurnThreads, WarmUp(t) PROVE ChurnInv'
    BY <1>1, WarmUpKeeps
  <1>2. ASSUME NEW t \in ChurnThreads, NextBatch(t) PROVE ChurnInv'
    BY <1>2, NextBatchKeeps
  <1>3. ASSUME NEW t \in ChurnThreads, AllocateOne(t) PROVE ChurnInv'
    BY <1>3, AllocateOneKeeps
  <1>4. ASSUME NEW t \in ChurnThreads, StartFrees(t) PROVE ChurnInv'
    BY <1>4, StartFreesKeeps
  <1>5. ASSUME NEW t \in ChurnThreads, FreeOne(t) PROVE ChurnInv'
    BY <1>5, FreeOneKeeps
  <1>6. ASSUME NEW t \in ChurnThreads, FreeRest(t) PROVE ChurnInv'
    BY <1>6, FreeRestKeeps
  <1>7. CASE MallocFails
    BY <1>7, ChurnIdles DEF MallocFails
  <1>8. CASE UNCHANGED churnVars
    BY <1>8, ChurnIdles DEF churnVars
  <1> QED BY <1>1, <1>2, <1>3, <1>4, <1>5, <1>6, <1>7, <1>8 DEF ChurnNext

(* The counts say how large a live set is. *)
LEMMA ChurnBalances == ChurnInv => ChurnIsBalanced
  <1> SUFFICES ASSUME ChurnInv PROVE ChurnIsBalanced
    OBVIOUS
  <1>1. ASSUME NEW t \in ChurnThreads
        PROVE  /\ Len(live[t]) <= Warm + opt.batch
               /\ cpc[t] = "free" /\ left[t] = 0 => Len(live[t]) = Warm
               /\ cpc[t] = "end" => allocIdx[t] = opt.allocs /\ live[t] = <<>>
    <2>1. /\ opt.allocs \in Nat /\ opt.batch \in Nat /\ Warm \in Nat
          /\ allocIdx[t] \in Nat /\ left[t] \in Nat /\ Counts(t)
          /\ cpc[t] \in {"warm", "batch", "free", "drain", "end"}
      BY Chosen DEF ChurnInv, ChurnTypes
    <2>2. Len(<<>>) = 0
      OBVIOUS
    <2>3. cpc[t] = "batch" => Len(live[t]) <= Warm + opt.batch
      BY <2>1 DEF Counts, InBatch
    <2>4. cpc[t] = "free" => Len(live[t]) = Warm + left[t] /\ left[t] <= opt.batch
      BY <2>1 DEF Counts, InFree
    <2>5. cpc[t] \in {"warm", "drain", "end"} => Len(live[t]) <= Warm
      BY <2>1, <2>2 DEF Counts
    <2>6. Len(live[t]) <= Warm + opt.batch
      BY <2>1, <2>3, <2>4, <2>5
    <2>7. cpc[t] = "free" /\ left[t] = 0 => Len(live[t]) = Warm
      BY <2>1, <2>4
    <2> QED BY <2>1, <2>6, <2>7 DEF Counts
  <1>2. Owned
    BY DEF ChurnInv
  <1> QED BY <1>1, <1>2, Zenon DEF Owned, OwnedBy, ChurnIsBalanced

(* No pointer is freed twice or by a thread it was not given to, and every    *)
(* live set is between batches what was asked for and at the end empty: what  *)
(* run_once in malloc_compare.cpp measures is churn at a constant size.       *)
THEOREM ChurnStaysBalanced == ChurnSpec => []ChurnIsBalanced
  <1> QED BY InitChurn, ChurnIsKept, ChurnBalances, PTL DEF ChurnSpec
=============================================================================
