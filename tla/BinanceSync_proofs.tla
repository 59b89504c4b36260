--------------------------- MODULE BinanceSync_proofs ---------------------------
(***************************************************************************)
(* For every client, every book, every set of damages and any number of    *)
(* updates: the types, that the client's book is the exchange's at the id  *)
(* the client believes to be at, that an unusable message ends the         *)
(* connection, and that a client which follows the stream meets no gap of  *)
(* its own making.  The last is an invariant only with SkipsTheSnapshot:   *)
(* the proof needs it where main.rs ends its bridge on a stale update.     *)
(***************************************************************************)
EXTENDS BinanceSync, TLAPS, SequenceTheorems, WellFoundedInduction

(* Every nonempty set of numbers has a least one. *)
LEMMA LeastNumber ==
    ASSUME NEW T \in SUBSET Nat, T # {}
    PROVE  \E n \in T : \A m \in T : n <= m
  <1>1. IsWellFoundedOn(OpToRel(<, Nat), Nat)
    BY NatLessThanWellFounded
  <1>2. PICK n \in T : \A m \in T : ~(<<m, n>> \in OpToRel(<, Nat))
    BY <1>1, WFMin
  <1>3. ASSUME NEW m \in T PROVE ~(m < n)
    BY <1>2 DEF OpToRel
  <1> QED BY <1>3

(* What no step from i to j changes is the same at both ends. *)
LEMMA Untouched ==
    ASSUME NEW f, NEW i \in Nat, NEW j \in Nat,
           \A k \in i + 1..j : f[k] = f[k - 1]
    PROVE  \A k \in i..j : f[k] = f[j]
  <1> DEFINE T == {n \in Nat : j - n \in i..j /\ f[j - n] # f[j]}
  <1> SUFFICES T = {}
    <2>1. ASSUME NEW k \in i..j, f[k] # f[j] PROVE j - k \in T
      <3>1. j - k \in Nat /\ j - (j - k) = k
        OBVIOUS
      <3> QED BY <2>1, <3>1
    <2> QED BY <2>1
  <1>1. SUFFICES ASSUME T # {} PROVE FALSE
    OBVIOUS
  <1>2. PICK n \in T : \A m \in T : n <= m
    BY <1>1, LeastNumber
  <1>3. n # 0
    BY <1>2
  <1>4. n - 1 \in Nat /\ n - 1 \notin T
    BY <1>2, <1>3
  <1>5. j - (n - 1) \in i + 1..j /\ j - (n - 1) - 1 = j - n
    BY <1>2, <1>3
  <1>6. f[j - (n - 1)] = f[j]
    BY <1>4, <1>5
  <1> QED BY <1>2, <1>5, <1>6

------------------------------------------------------------------------------
(***************************************************************************)
(* The updates on the connection.  A genuine one follows the id Prev, and  *)
(* what it says, and what it leaves out, is true of the exchange's books.  *)
(***************************************************************************)
Contents == UNION {[S -> Sizes] : S \in SUBSET Levels}

Msg == [U : Nat, u : Int, pu : Nat, flaw : Flaws \cup {"text"}, levels : Contents]

Genuine(e) == e.u \in 1..MaxId

Prev(e) == IF e.pu # 0 THEN e.pu ELSE e.U - 1

Faithful(e) ==
    /\ e.U \in 1..e.u /\ e.u <= flushed /\ e.pu < e.U
    /\ \A l \in DOMAIN e.levels : e.levels[l] = BookAt(e.u)[l]
    /\ \A l \in Levels \ DOMAIN e.levels :
          \A k \in Prev(e)..e.u : BookAt(k)[l] = BookAt(e.u)[l]

Sound == {e \in Msg : IF Genuine(e) THEN Faithful(e) ELSE e \in {Garbage, Beyond}}

(* What the bounds on the two counters rest on. *)
CountersLeft ==
    /\ pc = "bridge" => stale <= StaleLimit
    /\ pc # "stopped" => samples < UpdateLimit

(***************************************************************************)
(* The inductive invariant behind BookIsExact: the client's part, and the  *)
(* exchange's with the connection.                                         *)
(***************************************************************************)
ClientInv ==
    /\ pc \in {"connect", "snapshot", "bridge", "steady", "read", "sleep", "stopped", "crashed"}
    /\ stop \in BOOLEAN /\ spoilt \in BOOLEAN
    /\ book \in Books /\ lastId \in 0..Now
    /\ stale \in 0..StaleLimit + 1
    /\ samples \in 0..UpdateLimit
    /\ CountersLeft
    /\ BookIsExact

SyncInv ==
    /\ client \in Clients
    /\ books \in Seq(Books) /\ Len(books) \in 1..MaxId + 1
    /\ flushed \in 0..Now
    /\ wire \in Seq(Sound) /\ Len(wire) <= MaxWire
    /\ ClientInv

------------------------------------------------------------------------------
(* What clients make of a message.                                         *)

LEMMA UpdateKinds ==
    ASSUME client \in Clients, NEW e \in Msg
    PROVE  /\ e.flaw = "none" => ReadUpdate(e) = e.levels
           /\ e.flaw = "text" => ReadUpdate(e) = Unreadable
           /\ ReadUpdate(e) \in {Unreadable, Abort, <<>>, Zeroed(e.levels), e.levels}
  <1> DEFINE lv == e.levels
             un == Unreadable
             ab == Abort
             ze == Zeroed(e.levels)
  <1>1. e.flaw \in {"none", "partial", "number", "text"}
    BY BinanceSyncAssumption DEF Msg
  <1>2. client \in {"md", "md2", "md3", "md4", "md5", "rust"}
    BY BinanceSyncAssumption
  <1> USE DEF ReadUpdate, MdUpdate, Md2Update, Md3Update, Md4Update, Md5Update, RustUpdate
  <1> HIDE DEF Unreadable, Abort, Zeroed
  <1>3. CASE e.flaw = "none"
    BY <1>2, <1>3
  <1>4. CASE e.flaw = "partial"
    BY <1>2, <1>4
  <1>5. CASE e.flaw = "number"
    BY <1>2, <1>5
  <1>6. CASE e.flaw = "text"
    BY <1>2, <1>6
  <1> QED BY <1>1, <1>3, <1>4, <1>5, <1>6

LEMMA SnapshotKinds ==
    ASSUME client \in Clients, NEW f \in Flaws, NEW b
    PROVE  ReadSnapshot(f, b) \in {Unreadable, Abort, Empty, Zeroed(b), b}
  <1>1. f \in {"none", "partial", "number"}
    BY BinanceSyncAssumption
  <1>2. client \in {"md", "md2", "md3", "md4", "md5", "rust"}
    BY BinanceSyncAssumption
  <1> QED
    BY <1>1, <1>2
       DEF ReadSnapshot, MdSnapshot, Md2Snapshot, Md3Snapshot, Md4Snapshot,
           Md5Snapshot, RustSnapshot

(* The levels of a readable update are levels and sizes. *)
LEMMA ContentsType ==
    ASSUME NEW lv \in Contents
    PROVE  /\ DOMAIN lv \subseteq Levels
           /\ \A l \in DOMAIN lv : lv[l] \in Sizes
           /\ DOMAIN Zeroed(lv) \subseteq Levels
           /\ \A l \in DOMAIN Zeroed(lv) : Zeroed(lv)[l] \in Sizes
           /\ lv # Unreadable /\ lv # Abort
  <1>1. PICK S \in SUBSET Levels : lv \in [S -> Sizes]
    BY DEF Contents
  <1>2. 0 \in Sizes /\ -1 \notin Sizes /\ -2 \notin Sizes
    BY BinanceSyncAssumption
  <1>3. DOMAIN lv = S /\ \A l \in S : lv[l] \in Sizes
    BY <1>1
  <1>4. DOMAIN Zeroed(lv) = S /\ \A l \in S : Zeroed(lv)[l] = 0
    BY <1>3 DEF Zeroed
  <1>5. PICK l \in Levels : TRUE
    BY BinanceSyncAssumption
  <1>6. lv # Unreadable /\ lv # Abort
    <2>1. DOMAIN Unreadable = Levels /\ Unreadable[l] = -1
      BY DEF Unreadable
    <2>2. DOMAIN Abort = Levels /\ Abort[l] = -2
      BY DEF Abort
    <2> QED BY <1>2, <1>3, <2>1, <2>2
  <1> QED BY <1>2, <1>3, <1>4, <1>6

(* An update that is applied is genuine, and what is read of it is a part  *)
(* of a book.                                                              *)
LEMMA AppliedIsGenuine ==
    ASSUME TypeOK, NEW e \in Sound, Usable(e), ~IsStale(e)
    PROVE  /\ Genuine(e) /\ Faithful(e)
           /\ DOMAIN ReadUpdate(e) \subseteq Levels
           /\ \A l \in DOMAIN ReadUpdate(e) : ReadUpdate(e)[l] \in Sizes
           /\ lastId < e.u /\ lastId \in Prev(e)..e.u
  <1>1. client \in Clients /\ Now \in Nat /\ Now <= MaxId /\ lastId \in 0..Now /\ MaxId \in Nat
    <2>1. Len(books) \in 1..MaxId + 1
      BY DEF TypeOK
    <2> QED BY <2>1, BinanceSyncAssumption DEF TypeOK, Now
  <1> e \in Msg
    BY DEF Sound
  <1>2. ReadUpdate(e) \notin {Unreadable, Abort} /\ Bridges(e) /\ e.u > lastId
    BY <1>1 DEF Usable, Readable, IsStale, Msg
  <1>3. e # Garbage
    <2>1. e.flaw # "text"
      BY <1>1, <1>2, UpdateKinds
    <2> QED BY <2>1 DEF Garbage
  <1>4. e # Beyond
    <2>1. CASE e = Beyond
      <3>1. e.U = MaxId + 2 /\ e.u = MaxId + 2 /\ e.pu = 0
        BY <2>1 DEF Beyond
      <3> QED BY <1>1, <1>2, <3>1 DEF Bridges
    <2> QED BY <2>1
  <1>5. Genuine(e) /\ Faithful(e)
    BY <1>3, <1>4 DEF Sound
  <1>6. lastId \in Prev(e)..e.u
    BY <1>1, <1>2, <1>5 DEF Bridges, Faithful, Prev, Msg
  <1>7. ReadUpdate(e) \in {<<>>, Zeroed(e.levels), e.levels}
    BY <1>1, <1>2, UpdateKinds
  <1>8. e.levels \in Contents
    BY DEF Msg
  <1>9. DOMAIN ReadUpdate(e) \subseteq Levels /\ \A l \in DOMAIN ReadUpdate(e) : ReadUpdate(e)[l] \in Sizes
    <2>1. CASE ReadUpdate(e) = <<>>
      <3>1. DOMAIN ReadUpdate(e) = {}
        BY <2>1
      <3> QED BY <3>1
    <2>2. CASE ReadUpdate(e) \in {Zeroed(e.levels), e.levels}
      BY <1>8, <2>2, ContentsType
    <2> QED BY <1>7, <2>1, <2>2
  <1> QED BY <1>2, <1>5, <1>6, <1>9

------------------------------------------------------------------------------
(* The exchange.                                                           *)

LEMMA NowType ==
    ASSUME TypeOK
    PROVE  /\ Len(books) \in Nat /\ Now \in Nat /\ Now <= MaxId /\ MaxId \in Nat
           /\ flushed \in Nat /\ flushed <= Now
           /\ \A k \in 0..Now : BookAt(k) \in Books
  <1>1. Len(books) \in 1..MaxId + 1 /\ MaxId \in Nat /\ books \in Seq(Books)
    BY BinanceSyncAssumption DEF TypeOK
  <1>2. Now \in Nat /\ Now <= MaxId
    BY <1>1 DEF Now
  <1>3. \A k \in 0..Now : BookAt(k) \in Books
    BY <1>1, <1>2, ElementOfSeq DEF Now, BookAt
  <1> QED BY <1>1, <1>2, <1>3 DEF TypeOK

(* A change adds a book and alters none. *)
LEMMA BooksGrow ==
    ASSUME TypeOK, Change
    PROVE  /\ books' \in Seq(Books) /\ Len(books') = Len(books) + 1
           /\ Now' = Now + 1 /\ Now' <= MaxId
           /\ \A k \in 0..Now : BookAt(k)' = BookAt(k)
  <1>1. PICK l \in Levels, s \in Sizes : books' = Append(books, [BookAt(Now) EXCEPT ![l] = s])
    BY DEF Change
  <1> DEFINE b == [BookAt(Now) EXCEPT ![l] = s]
  <1>2. BookAt(Now) \in Books /\ Now \in Nat /\ MaxId \in Nat
    BY NowType
  <1>3. b \in Books
    BY <1>2 DEF Books
  <1> HIDE DEF b
  <1>4. books \in Seq(Books) /\ books' = Append(books, b)
    BY <1>1 DEF b, TypeOK
  <1>5. /\ books' \in Seq(Books) /\ Len(books') = Len(books) + 1
        /\ \A k \in 1..Len(books) : books'[k] = books[k]
    BY <1>3, <1>4, AppendProperties
  <1>6. Now' = Now + 1 /\ Now' <= MaxId
    BY <1>2, <1>5, NowType DEF Change, Now
  <1>7. \A k \in 0..Now : BookAt(k)' = BookAt(k)
    BY <1>2, <1>5, NowType DEF Now, BookAt
  <1> QED BY <1>5, <1>6, <1>7

(* What is flushed is faithful, and follows the id flushed last. *)
MayStartAt(U, pu) ==
    U = flushed + 1 \/
       (pu # 0 /\ \A k \in flushed + 1..U - 1 : BookAt(k) = BookAt(flushed))

Flushed(U, pu, f) == [Diff(U, Now, pu) EXCEPT !.flaw = f]

FollowsFlushed(e) ==
    /\ e \in Msg /\ Genuine(e)
    /\ e.u = Now /\ Prev(e) = flushed
    /\ e.U \in 1..e.u /\ e.pu < e.U
    /\ \A l \in DOMAIN e.levels : e.levels[l] = BookAt(e.u)[l]
    /\ \A l \in Levels \ DOMAIN e.levels :
          \A k \in Prev(e)..e.u : BookAt(k)[l] = BookAt(e.u)[l]

LEMMA FlushedIsFaithful ==
    ASSUME TypeOK, NEW U \in flushed + 1..Now, NEW pu \in {0, flushed}, NEW f \in Flaws,
           MayStartAt(U, pu)
    PROVE  FollowsFlushed(Flushed(U, pu, f))
  <1> SUFFICES ASSUME NEW e, e = [Diff(U, Now, pu) EXCEPT !.flaw = f]
               PROVE  FollowsFlushed(e)
    BY DEF Flushed
  <1> USE DEF MayStartAt
  <1> DEFINE touched == {l \in Levels : \E k \in U..Now : BookAt(k)[l] # BookAt(k - 1)[l]}
             lv == [l \in touched |-> BookAt(Now)[l]]
  <1>1. e = [U |-> U, u |-> Now, pu |-> pu, flaw |-> f, levels |-> lv]
    BY DEF Diff
  <1>2. /\ Now \in Nat /\ Now <= MaxId /\ MaxId \in Nat /\ flushed \in Nat
        /\ U \in Nat /\ U <= Now /\ flushed < U
        /\ \A k \in 0..Now : BookAt(k) \in Books
    BY NowType
  <1>3. touched \in SUBSET Levels /\ lv \in [touched -> Sizes]
    BY <1>2 DEF Books
  <1>4. lv \in Contents
    BY <1>3 DEF Contents
  <1>5. ASSUME NEW l \in Levels \ touched, NEW k \in flushed..Now
        PROVE  BookAt(k)[l] = BookAt(Now)[l]
    <2> DEFINE g == [n \in Nat |-> BookAt(n)[l]]
    <2>1. \A n \in U..Now : BookAt(n)[l] = BookAt(n - 1)[l]
      BY <1>5
    <2>2. \A n \in (U - 1) + 1..Now : g[n] = g[n - 1]
      BY <1>2, <2>1
    <2>3. U - 1 \in Nat
      BY <1>2
    <2> HIDE DEF g
    <2>4. \A n \in U - 1..Now : g[n] = g[Now]
      BY <1>2, <2>2, <2>3, Untouched
    <2>5. ASSUME NEW n \in U - 1..Now PROVE BookAt(n)[l] = BookAt(Now)[l]
      <3>1. n \in Nat /\ Now \in Nat
        BY <1>2
      <3>2. g[n] = BookAt(n)[l] /\ g[Now] = BookAt(Now)[l]
        BY <3>1 DEF g
      <3> QED BY <2>4, <3>2
    <2>6. CASE k \in U - 1..Now
      BY <2>5, <2>6
    <2>7. CASE k \in flushed..U - 2
      <3>1. U # flushed + 1
        BY <1>2, <2>7
      <3>2. \A n \in flushed + 1..U - 1 : BookAt(n) = BookAt(flushed)
        BY <3>1
      <3>3. BookAt(k) = BookAt(flushed) /\ BookAt(U - 1) = BookAt(flushed)
        BY <1>2, <2>7, <3>2
      <3> QED BY <1>2, <2>5, <3>3
    <2> QED BY <1>2, <2>6, <2>7
  <1>6. DOMAIN e.levels = touched /\ \A l \in touched : e.levels[l] = BookAt(Now)[l]
    BY <1>1
  <1> HIDE DEF touched, lv
  <1>7. Prev(e) = flushed /\ e.u = Now /\ e.U = U /\ e.pu = pu /\ pu < U
    BY <1>1, <1>2 DEF Prev
  <1>8. e \in Msg
    <2>1. U \in Nat /\ Now \in Int /\ pu \in Nat /\ f \in Flaws \cup {"text"}
      BY <1>2
    <2>2. [U |-> U, u |-> Now, pu |-> pu, flaw |-> f, levels |-> lv] \in Msg
      BY <1>4, <2>1, Zenon DEF Msg
    <2> QED BY <1>1, <2>2
  <1> QED BY <1>2, <1>5, <1>6, <1>7, <1>8 DEF Genuine, FollowsFlushed

------------------------------------------------------------------------------
(* The connection.                                                         *)

LEMMA MsgsAreTyped ==
    ASSUME NEW s \in Seq(Msg)
    PROVE  \A i \in DOMAIN s :
              /\ s[i].U \in Nat /\ s[i].u \in Int /\ s[i].pu \in Nat
              /\ DOMAIN s[i].levels \subseteq Levels
  <1> SUFFICES ASSUME NEW i \in DOMAIN s
               PROVE  /\ s[i].U \in Nat /\ s[i].u \in Int /\ s[i].pu \in Nat
                      /\ DOMAIN s[i].levels \subseteq Levels
    OBVIOUS
  <1>1. s[i] \in Msg
    BY ElementOfSeq, LenProperties
  <1>2. s[i].levels \in Contents
    BY <1>1 DEF Msg
  <1> QED BY <1>1, <1>2, ContentsType DEF Msg

(* What is no update at all is a message too. *)
LEMMA NuisanceType == Garbage \in Msg /\ Beyond \in Msg
  <1>1. <<>> \in Contents
    <2>1. <<>> \in [{} -> Sizes]
      OBVIOUS
    <2> QED BY <2>1 DEF Contents
  <1> QED BY <1>1, BinanceSyncAssumption DEF Garbage, Beyond, Msg

(* A message stays sound while books are only added. *)
LEMMA SoundStays ==
    ASSUME TypeOK, flushed' \in Nat, flushed <= flushed',
           \A k \in 0..Now : BookAt(k)' = BookAt(k)
    PROVE  Sound \subseteq Sound'
  <1> SUFFICES ASSUME NEW e \in Sound PROVE e \in Sound'
    OBVIOUS
  <1>1. CASE ~Genuine(e)
    BY <1>1 DEF Sound, Genuine, Garbage, Beyond
  <1>2. CASE Genuine(e)
    <2>1. /\ e \in Msg /\ Faithful(e)
          /\ e.u \in Nat /\ e.u <= flushed /\ e.pu \in Nat /\ e.U \in Nat
      BY <1>2 DEF Sound, Faithful, Genuine, Msg
    <2>2. e.u \in 0..Now /\ \A k \in Prev(e)..e.u : k \in 0..Now
      BY <2>1, NowType DEF Prev, Faithful
    <2>3. BookAt(e.u)' = BookAt(e.u) /\ \A k \in Prev(e)..e.u : BookAt(k)' = BookAt(k)
      BY <2>2
    <2>4. Faithful(e)'
      BY <2>1, <2>3, NowType DEF Faithful, Prev
    <2> QED BY <1>2, <2>1, <2>4 DEF Sound, Genuine
  <1> QED BY <1>1, <1>2

(* The messages on the connection stay sound, whether it is read, closed   *)
(* or written.                                                             *)
LEMMA WireStep ==
    ASSUME wire \in Seq(Sound), Sound \subseteq Sound',
           \/ wire' \in {wire, <<>>}
           \/ wire # <<>> /\ wire' = Tail(wire)
           \/ \E e \in Sound' : wire' = Append(wire, e)
    PROVE  wire' \in Seq(Sound')
  <1>1. wire \in Seq(Sound')
    BY SeqMonotonic
  <1>2. CASE wire' \in {wire, <<>>}
    BY <1>1, <1>2, EmptySeq
  <1>3. CASE wire # <<>> /\ wire' = Tail(wire)
    BY <1>1, <1>3, HeadTailProperties
  <1>4. CASE \E e \in Sound' : wire' = Append(wire, e)
    BY <1>1, <1>4, AppendProperties
  <1> QED BY <1>2, <1>3, <1>4

------------------------------------------------------------------------------
(* The client.                                                             *)

LEMMA SyncInvTypes == SyncInv => TypeOK
  <1>1. Sound \subseteq Msg
    BY DEF Sound
  <1>2. wire \in Seq(Sound) => wire \in Seq(Msg)
    BY <1>1, SeqMonotonic
  <1> QED BY <1>2, MsgsAreTyped DEF SyncInv, TypeOK, ClientInv

(* The client does not touch the exchange, and takes messages one by one   *)
(* or drops them all.                                                      *)
LEMMA ProgramFrame ==
    ASSUME client \in Clients, Program
    PROVE  /\ UNCHANGED <<client, books, flushed>>
           /\ wire' \in {wire, <<>>} \/ (wire # <<>> /\ wire' = Tail(wire))
  <1> USE DEF exchangeVars
  <1>1. CASE Connect
    BY <1>1 DEF Connect
  <1>2. CASE Snapshot
    BY <1>2 DEF Snapshot, GiveUp, Crash
  <1>3. CASE Wake \/ SteadyHead \/ Fail \/ Interrupt
    BY <1>3 DEF Wake, SteadyHead, GiveUp, Fail, Interrupt
  <1>4. CASE BridgeAdvances \/ SteadyUpdate
    BY <1>4 DEF BridgeAdvances, SteadyUpdate, Count
  <1>5. CASE BridgeStale
    BY <1>5, BinanceSyncAssumption DEF BridgeStale, Swallows, Count, GiveUp
  <1>6. CASE BridgeError \/ SteadyError
    BY <1>6 DEF BridgeError, SteadyError, Crash, GiveUp
  <1> QED BY <1>1, <1>2, <1>3, <1>4, <1>5, <1>6 DEF Program, ClientStep

(* Steps that leave the book alone and, at most, move the client back.     *)
LEMMA QuietStep ==
    ASSUME ClientInv, UNCHANGED <<books, book, lastId, spoilt, stale, samples>>,
           stop' \in BOOLEAN,
           \/ pc' \in {"connect", "snapshot", "sleep", "crashed"} /\ pc # "stopped"
           \/ pc' = "stopped"
           \/ pc' = pc
           \/ pc = "steady" /\ pc' = "read"
    PROVE  ClientInv'
  BY DEF ClientInv, CountersLeft, BookIsExact, Now, BookAt

LEMMA EmptyIsABook == Empty \in Books
  BY BinanceSyncAssumption DEF Empty, Books

LEMMA ConnectStep ==
    ASSUME SyncInv, Connect PROVE ClientInv'
  <1>1. ClientInv /\ Now \in Nat
    BY SyncInvTypes, NowType DEF SyncInv
  <1>2. samples' \in 0..UpdateLimit /\ samples' < UpdateLimit
    BY <1>1, BinanceSyncAssumption DEF Connect, ClientInv, CountersLeft
  <1>3. /\ pc' = "snapshot" /\ book' = Empty /\ lastId' = 0 /\ ~spoilt'
        /\ UNCHANGED <<books, stop, stale>>
    BY DEF Connect, exchangeVars
  <1>4. CountersLeft' /\ BookIsExact'
    BY <1>2, <1>3 DEF CountersLeft, BookIsExact
  <1>5. spoilt' \in BOOLEAN
    BY DEF Connect
  <1> QED
    BY <1>1, <1>2, <1>3, <1>4, <1>5, EmptyIsABook DEF ClientInv, Now

LEMMA SnapshotStep ==
    ASSUME SyncInv, Snapshot PROVE ClientInv'
  <1>1. ClientInv /\ client \in Clients /\ Now \in Nat /\ \A k \in 0..Now : BookAt(k) \in Books
    BY SyncInvTypes, NowType DEF SyncInv
  <1>2. PICK n \in 0..Now, f \in Flaws :
          LET b == ReadSnapshot(f, BookAt(n))
          IN  CASE b = Unreadable -> GiveUp /\ UNCHANGED clientVars
                [] b = Abort      -> Crash /\ UNCHANGED clientVars
                [] OTHER          -> /\ book' = b /\ lastId' = n
                                     /\ spoilt' = (b # BookAt(n))
                                     /\ stale' = 0 /\ pc' = "bridge"
                                     /\ UNCHANGED <<wire, samples>>
    BY DEF Snapshot
  <1> DEFINE b == ReadSnapshot(f, BookAt(n))
  <1>3. b \in {Unreadable, Abort, Empty, Zeroed(BookAt(n)), BookAt(n)}
    BY <1>1, SnapshotKinds
  <1>4. pc = "snapshot" /\ UNCHANGED <<books, stop>>
    BY DEF Snapshot, exchangeVars
  <1>5. Unreadable # Abort
    <2>1. PICK l \in Levels : TRUE
      BY BinanceSyncAssumption
    <2> QED BY <2>1 DEF Unreadable, Abort
  <1>6. Zeroed(BookAt(n)) \in Books
    BY <1>1, BinanceSyncAssumption DEF Zeroed, Books
  <1> HIDE DEF b
  <1>7. CASE b = Unreadable
    <2>1. pc' = "sleep" /\ UNCHANGED clientVars
      BY <1>2, <1>5, <1>7 DEF b, GiveUp
    <2> QED BY <1>1, <1>4, <2>1, QuietStep DEF clientVars, ClientInv
  <1>8. CASE b = Abort
    <2>1. pc' = "crashed" /\ UNCHANGED clientVars
      BY <1>2, <1>5, <1>8 DEF b, Crash
    <2> QED BY <1>1, <1>4, <2>1, QuietStep DEF clientVars, ClientInv
  <1>9. CASE b # Unreadable /\ b # Abort
    <2>1. /\ book' = b /\ lastId' = n /\ spoilt' = (b # BookAt(n))
          /\ stale' = 0 /\ pc' = "bridge" /\ samples' = samples
      BY <1>2, <1>9 DEF b
    <2>2. b \in Books
      BY <1>1, <1>3, <1>6, <1>9, EmptyIsABook
    <2>3. spoilt' \in BOOLEAN /\ (spoilt' \/ b = BookAt(n))
      BY <2>1
    <2>4. samples < UpdateLimit /\ samples \in 0..UpdateLimit /\ stop \in BOOLEAN
      BY <1>1, <1>4 DEF ClientInv, CountersLeft
    <2>5. lastId' \in 0..Now' /\ BookAt(lastId)' = BookAt(n)
      BY <1>4, <2>1 DEF Now, BookAt
    <2>6. stale' \in 0..StaleLimit + 1 /\ stale' <= StaleLimit
      BY <2>1, BinanceSyncAssumption
    <2> QED
      BY <1>1, <1>4, <2>1, <2>2, <2>3, <2>4, <2>5, <2>6
         DEF ClientInv, CountersLeft, BookIsExact
  <1> QED BY <1>7, <1>8, <1>9

(* An update that bridges takes the book from lastId to its last id.       *)
LEMMA ApplyStep ==
    ASSUME SyncInv, pc \in {"bridge", "steady", "read"}, UNCHANGED books,
           NEW e \in Sound, Usable(e), ~IsStale(e), Apply(e)
    PROVE  /\ book' \in Books /\ lastId' \in 0..Now'
           /\ spoilt' \in BOOLEAN /\ (spoilt' \/ book' = BookAt(lastId)')
  <1> DEFINE lv == ReadUpdate(e)
  <1>1. /\ TypeOK /\ book \in Books /\ lastId \in 0..Now
        /\ spoilt \in BOOLEAN /\ (spoilt \/ book = BookAt(lastId))
    BY SyncInvTypes DEF SyncInv, ClientInv, BookIsExact
  <1>2. /\ Genuine(e) /\ Faithful(e)
        /\ DOMAIN lv \subseteq Levels /\ \A l \in DOMAIN lv : lv[l] \in Sizes
        /\ lastId < e.u /\ lastId \in Prev(e)..e.u
    BY <1>1, AppliedIsGenuine
  <1>3. /\ book' = [l \in Levels |-> IF l \in DOMAIN lv THEN lv[l] ELSE book[l]]
        /\ lastId' = e.u /\ spoilt' = (spoilt \/ lv # e.levels)
    BY DEF Apply
  <1> HIDE DEF lv
  <1>4. e.u \in 0..Now /\ BookAt(e.u) \in Books
    BY <1>1, <1>2, NowType DEF Faithful, Genuine
  <1>5. book' \in Books
    BY <1>1, <1>2, <1>3 DEF Books
  <1>6. lastId' \in 0..Now' /\ BookAt(lastId)' = BookAt(e.u)
    BY <1>3, <1>4 DEF Now, BookAt
  <1>7. ASSUME ~spoilt' PROVE book' = BookAt(e.u)
    <2>1. ~spoilt /\ lv = e.levels /\ book = BookAt(lastId)
      BY <1>1, <1>3, <1>7
    <2>2. ASSUME NEW l \in Levels PROVE book'[l] = BookAt(e.u)[l]
      <3>1. CASE l \in DOMAIN lv
        BY <1>2, <1>3, <2>1, <3>1 DEF Faithful
      <3>2. CASE l \notin DOMAIN lv
        BY <1>2, <1>3, <2>1, <3>2 DEF Faithful
      <3> QED BY <3>1, <3>2
    <2> QED BY <1>4, <1>5, <2>2 DEF Books
  <1>8. spoilt' \in BOOLEAN
    BY <1>1, <1>3
  <1> QED BY <1>5, <1>6, <1>7, <1>8

LEMMA CountStep ==
    ASSUME ClientInv, pc # "stopped", NEW next, Count(next)
    PROVE  /\ samples' \in 0..UpdateLimit
           /\ pc' \in {next, "stopped"} /\ (pc' # "stopped" => samples' < UpdateLimit)
  BY BinanceSyncAssumption DEF ClientInv, CountersLeft, Count

(* The message that waits. *)
LEMMA HeadIsSound == ASSUME SyncInv, wire # <<>> PROVE Head(wire) \in Sound
  BY HeadTailProperties DEF SyncInv

LEMMA AdvanceStep ==
    ASSUME SyncInv, BridgeAdvances \/ SteadyUpdate PROVE ClientInv'
  <1> DEFINE e == Head(wire)
  <1>1. /\ ClientInv /\ wire # <<>> /\ pc \in {"bridge", "read"}
        /\ UNCHANGED <<books, stop>> /\ Usable(e)
    BY DEF SyncInv, BridgeAdvances, SteadyUpdate, exchangeVars
  <1>2. stale' \in 0..StaleLimit + 1
    BY <1>1, BinanceSyncAssumption DEF BridgeAdvances, SteadyUpdate, ClientInv
  <1>3. Count("stopped") \/ Count("steady")
    BY DEF BridgeAdvances, SteadyUpdate
  <1>4. /\ samples' \in 0..UpdateLimit
        /\ pc' \in {"steady", "stopped"} /\ (pc' # "stopped" => samples' < UpdateLimit)
    BY <1>1, <1>3, CountStep
  <1> HIDE DEF e
  <1>5. /\ book' \in Books /\ lastId' \in 0..Now'
        /\ spoilt' \in BOOLEAN /\ (spoilt' \/ book' = BookAt(lastId)')
    <2>1. CASE ~IsStale(e) /\ Apply(e)
      BY <1>1, <2>1, HeadIsSound, ApplyStep DEF e
    <2>2. CASE UNCHANGED <<book, lastId, spoilt>>
      BY <1>1, <2>2 DEF ClientInv, BookIsExact, Now, BookAt
    <2> QED BY <2>1, <2>2 DEF BridgeAdvances, SteadyUpdate, e
  <1>6. Now' = Now /\ Now \in Nat
    BY <1>1, SyncInvTypes, NowType DEF Now
  <1> QED
    BY <1>1, <1>2, <1>4, <1>5, <1>6 DEF ClientInv, CountersLeft, BookIsExact

LEMMA StaleStep ==
    ASSUME SyncInv, BridgeStale PROVE ClientInv'
  <1>1. /\ ClientInv /\ pc = "bridge" /\ client \in Clients
        /\ UNCHANGED <<books, stop, book, lastId, spoilt>>
    BY DEF SyncInv, BridgeStale, exchangeVars
  <1>2. client \in {"rust", "md4"} \/ Swallows
    BY <1>1, BinanceSyncAssumption DEF Swallows
  <1>3. CASE client = "rust"
    <2>1. Count("steady") /\ UNCHANGED stale
      BY <1>3 DEF BridgeStale, Swallows
    <2>2. /\ samples' \in 0..UpdateLimit
          /\ pc' \in {"steady", "stopped"} /\ (pc' # "stopped" => samples' < UpdateLimit)
      BY <1>1, <2>1, CountStep
    <2> QED BY <1>1, <2>1, <2>2 DEF ClientInv, CountersLeft, BookIsExact, Now, BookAt
  <1>4. CASE Swallows
    <2>1. UNCHANGED <<pc, stale, samples>>
      BY <1>4 DEF BridgeStale, Swallows
    <2> QED BY <1>1, <2>1, QuietStep DEF ClientInv
  <1>5. CASE client = "md4"
    <2>1. /\ stale' = stale + 1 /\ UNCHANGED samples
          /\ IF stale' > StaleLimit THEN GiveUp ELSE UNCHANGED pc
      BY <1>5 DEF BridgeStale, Swallows
    <2>2. pc' \in {"sleep", "bridge"} /\ (pc' = "bridge" => stale' <= StaleLimit)
      BY <1>1, <2>1, BinanceSyncAssumption DEF GiveUp, ClientInv
    <2>3. stale' \in 0..StaleLimit + 1
      BY <1>1, <2>1, BinanceSyncAssumption DEF ClientInv, CountersLeft
    <2> QED BY <1>1, <2>1, <2>2, <2>3 DEF ClientInv, CountersLeft, BookIsExact, Now, BookAt
  <1> QED BY <1>2, <1>3, <1>4, <1>5

LEMMA OtherStep ==
    ASSUME SyncInv, Wake \/ BridgeError \/ SteadyHead \/ SteadyError \/ Fail \/ Interrupt
    PROVE  ClientInv'
  <1>1. ClientInv /\ UNCHANGED <<books, book, lastId, spoilt, stale, samples>>
    BY DEF SyncInv, Wake, BridgeError, SteadyHead, SteadyError, Fail, Interrupt,
       exchangeVars, clientVars
  <1>2. stop' \in BOOLEAN
    BY <1>1 DEF Wake, BridgeError, SteadyHead, SteadyError, Fail, Interrupt, ClientInv
  <1>3. \/ pc' \in {"connect", "snapshot", "sleep", "crashed"} /\ pc # "stopped"
        \/ pc' = "stopped"
        \/ pc' = pc
        \/ pc = "steady" /\ pc' = "read"
    BY DEF Wake, BridgeError, SteadyHead, SteadyError, Fail, Interrupt, GiveUp, Crash
  <1> QED BY <1>1, <1>2, <1>3, QuietStep

LEMMA ProgramStep ==
    ASSUME SyncInv, Program PROVE SyncInv'
  <1>1. ClientInv'
    BY ConnectStep, SnapshotStep, AdvanceStep, StaleStep, OtherStep DEF Program, ClientStep
  <1>2. TypeOK /\ client \in Clients /\ wire \in Seq(Sound) /\ Len(wire) <= MaxWire
    BY SyncInvTypes DEF SyncInv
  <1>3. /\ UNCHANGED <<client, books, flushed>>
        /\ wire' \in {wire, <<>>} \/ (wire # <<>> /\ wire' = Tail(wire))
    BY <1>2, ProgramFrame
  <1>4. Sound \subseteq Sound'
    BY <1>2, <1>3, NowType, SoundStays DEF BookAt
  <1>5. wire' \in Seq(Sound')
    BY <1>2, <1>3, <1>4, WireStep
  <1>6. Len(wire') <= MaxWire
    BY <1>2, <1>3, EmptySeq, HeadTailProperties, LenProperties, BinanceSyncAssumption
  <1> QED BY <1>1, <1>2, <1>3, <1>5, <1>6 DEF SyncInv, Now

LEMMA ExchangeStep ==
    ASSUME SyncInv, Exchange PROVE SyncInv'
  <1>1. TypeOK /\ client \in Clients /\ ClientInv /\ wire \in Seq(Sound) /\ Len(wire) <= MaxWire
    BY SyncInvTypes DEF SyncInv
  <1>2. /\ UNCHANGED <<client, pc, stop, book, lastId, spoilt, stale, samples>>
    BY DEF Exchange, Change, Flush, Nuisance, clientVars, exchangeVars
  <1>3. CASE Change
    <2>1. /\ books' \in Seq(Books) /\ Len(books') \in 1..MaxId + 1
          /\ Now' = Now + 1 /\ \A k \in 0..Now : BookAt(k)' = BookAt(k)
      BY <1>1, <1>3, BooksGrow, NowType DEF Now
    <2>2. UNCHANGED <<flushed, wire>> /\ Now \in Nat /\ flushed \in 0..Now
      BY <1>1, <1>3, NowType DEF Change
    <2>3. Sound \subseteq Sound'
      BY <1>1, <2>1, <2>2, SoundStays
    <2>4. wire' \in Seq(Sound')
      BY <1>1, <2>2, <2>3, SeqMonotonic
    <2>5. lastId \in 0..Now /\ BookAt(lastId)' = BookAt(lastId)
      BY <1>1, <1>2, <2>1 DEF ClientInv, BookAt
    <2>6. ClientInv'
      BY <1>1, <1>2, <2>1, <2>2, <2>5 DEF ClientInv, CountersLeft, BookIsExact
    <2> QED BY <1>1, <1>2, <2>1, <2>2, <2>4, <2>6 DEF SyncInv
  <1>4. CASE Flush \/ Nuisance
    <2>1. UNCHANGED books
      BY <1>4 DEF Flush, Nuisance, exchangeVars
    <2>2. ClientInv'
      BY <1>1, <1>2, <2>1 DEF ClientInv, CountersLeft, BookIsExact, Now, BookAt
    <2>3. flushed' \in 0..Now' /\ flushed <= flushed'
      BY <1>1, <1>4, <2>1, NowType DEF Flush, Nuisance, exchangeVars, Now
    <2>4. Sound \subseteq Sound'
      BY <1>1, <2>1, <2>3, NowType, SoundStays DEF BookAt
    <2>5. \/ wire' = wire
          \/ Len(wire) < MaxWire /\ \E e \in Sound' : wire' = Append(wire, e)
      <3>1. CASE Nuisance
        <4>1. Garbage \in Sound' /\ Beyond \in Sound'
          BY <1>1, NowType, NuisanceType DEF Sound, Genuine, Garbage, Beyond
        <4> QED BY <3>1, <4>1 DEF Nuisance, Send
      <3>2. CASE Flush
        <4>1. PICK U \in flushed + 1..Now, pu \in {0, flushed}, f \in Flaws :
                 MayStartAt(U, pu) /\ Send(Flushed(U, pu, f))
          BY <3>2 DEF Flush, MayStartAt, Flushed
        <4>2. PICK e : e = Flushed(U, pu, f)
          OBVIOUS
        <4>3. FollowsFlushed(e) /\ Send(e)
          BY <1>1, <4>1, <4>2, FlushedIsFaithful
        <4>4. flushed' = Now /\ (Connected => Len(wire) < MaxWire) /\ Now \in Nat
          BY <1>1, <3>2, NowType DEF Flush
        <4>5. Faithful(e)'
          BY <2>1, <4>3, <4>4 DEF FollowsFlushed, Faithful, BookAt
        <4>6. e \in Sound'
          BY <4>3, <4>5 DEF FollowsFlushed, Sound, Genuine
        <4> QED BY <4>3, <4>4, <4>6 DEF Send
      <3> QED BY <1>4, <3>1, <3>2
    <2>6. wire' \in Seq(Sound')
      BY <1>1, <2>4, <2>5, WireStep
    <2>7. Len(wire') <= MaxWire
      BY <1>1, <2>5, AppendProperties, LenProperties, BinanceSyncAssumption
    <2> QED BY <1>1, <1>2, <2>1, <2>2, <2>3, <2>6, <2>7 DEF SyncInv
  <1> QED BY <1>3, <1>4 DEF Exchange

LEMMA InitSync == Init => SyncInv
  <1> SUFFICES ASSUME Init PROVE SyncInv
    OBVIOUS
  <1>1. PICK b \in Books : books = <<b>>
    BY DEF Init
  <1>2. books \in Seq(Books) /\ Len(books) = 1 /\ Now = 0
    BY <1>1 DEF Now
  <1>3. wire \in Seq(Sound) /\ Len(wire) = 0
    BY EmptySeq DEF Init
  <1>4. ClientInv
    <2>1. /\ pc = "connect" /\ stop \in BOOLEAN /\ spoilt \in BOOLEAN
          /\ book = Empty /\ lastId = 0 /\ stale = 0 /\ samples = 0
      BY DEF Init
    <2>2. 0 \in 0..StaleLimit + 1 /\ 0 \in 0..UpdateLimit /\ 0 < UpdateLimit
      BY BinanceSyncAssumption
    <2> QED
      BY <1>2, <2>1, <2>2, EmptyIsABook DEF ClientInv, CountersLeft, BookIsExact
  <1> QED BY <1>2, <1>3, <1>4, BinanceSyncAssumption DEF Init, SyncInv

LEMMA SyncStep == SyncInv /\ [Next]_vars => SyncInv'
  <1> SUFFICES ASSUME SyncInv, [Next]_vars PROVE SyncInv'
    OBVIOUS
  <1>1. CASE UNCHANGED vars
    <2>1. Sound' = Sound
      BY <1>1 DEF Sound, Faithful, BookAt, vars, exchangeVars
    <2> QED
      BY <1>1, <2>1 DEF SyncInv, ClientInv, CountersLeft, BookIsExact, Now, BookAt,
         vars, exchangeVars, clientVars
  <1>2. CASE Next
    BY <1>1, <1>2, ExchangeStep, ProgramStep
       DEF Next, Md, Md2, Md3, Md4, Md5, Rust, AtRest
  <1> QED BY <1>1, <1>2

(***************************************************************************)
(* Whatever is lost, overlaps, is damaged or old, and however often the    *)
(* client starts over: its book is the exchange's at the id it believes    *)
(* to be at, unless its JSON library let a damaged message pass.           *)
(***************************************************************************)
THEOREM BookStaysExact == Spec => []BookIsExact
  <1>1. SyncInv => BookIsExact
    BY DEF SyncInv, ClientInv
  <1> QED BY <1>1, InitSync, SyncStep, PTL DEF Spec

(***************************************************************************)
(* Types, in particular that the counters keep their limits.               *)
(***************************************************************************)
THEOREM TypeCorrect == Spec => []TypeOK
  BY InitSync, SyncStep, SyncInvTypes, PTL DEF Spec

------------------------------------------------------------------------------
(* An action property: what cannot be used is not read past.               *)

LEMMA NotLonger ==
    ASSUME NEW S, NEW s \in Seq(S), s # <<>>
    PROVE  /\ Tail(s) # s
           /\ \A e : Tail(s) # Append(s, e)
  <1>1. Len(Tail(s)) = Len(s) - 1 /\ Len(s) \in Nat
    BY HeadTailProperties, LenProperties
  <1>2. ASSUME NEW e PROVE Len(Append(s, e)) = Len(s) + 1
    <2>1. PICK R : R = S \cup {e}
      OBVIOUS
    <2>2. S \subseteq R /\ e \in R
      BY <2>1
    <2>3. s \in Seq(R)
      BY <2>2, SeqMonotonic
    <2> QED BY <2>2, <2>3, AppendProperties
  <1>3. PICK n, m : n = Len(s) /\ m = Len(Tail(s))
    OBVIOUS
  <1>4. m # n /\ m # n + 1
    <2>1. m = n - 1 /\ n \in Nat
      BY <1>1, <1>3, Zenon
    <2> QED BY <2>1
  <1>5. ASSUME NEW e PROVE Tail(s) # Append(s, e)
    <2>1. Len(Append(s, e)) = n + 1
      BY <1>2, <1>3
    <2> QED BY <1>3, <1>4, <2>1, Zenon
  <1>6. Tail(s) # s
    BY <1>3, <1>4, Zenon
  <1> QED BY <1>5, <1>6

LEMMA ReadOnlyTheUsable ==
    ASSUME SyncInv, [Next]_vars, ReadsOn, pc = "read" \/ ~Swallows
    PROVE  Usable(Head(wire))
  <1>1. /\ wire # <<>> /\ wire' = Tail(wire) /\ pc' \in {"bridge", "steady"}
        /\ client \in Clients /\ (pc # "bridge" \/ ~Swallows)
    BY DEF ReadsOn, SyncInv
  <1>2. wire' # wire /\ \A e : wire' # Append(wire, e)
    BY <1>1, NotLonger DEF SyncInv
  <1>3. CASE Exchange \/ UNCHANGED vars \/ AtRest
    BY <1>2, <1>3 DEF Exchange, Change, Flush, Nuisance, Send, vars, AtRest
  <1>4. CASE Connect \/ Wake \/ SteadyHead \/ Fail \/ Interrupt
    BY <1>1, <1>2, <1>4 DEF Connect, Wake, SteadyHead, Fail, Interrupt, GiveUp
  <1>5. CASE Snapshot
    BY <1>1, <1>2, <1>5 DEF Snapshot, GiveUp, Crash
  <1>6. CASE BridgeAdvances \/ BridgeStale \/ SteadyUpdate
    BY <1>6 DEF BridgeAdvances, BridgeStale, SteadyUpdate
  <1>7. CASE SteadyError
    BY <1>1, <1>7 DEF SteadyError, GiveUp, Crash
  <1>8. CASE BridgeError
    <2>1. ~Swallows
      BY <1>1, <1>8 DEF BridgeError
    <2> QED BY <1>1, <1>8, <2>1 DEF BridgeError, GiveUp, Crash
  <1> QED
    BY <1>3, <1>4, <1>5, <1>6, <1>7, <1>8
       DEF Next, Md, Md2, Md3, Md4, Md5, Rust, Program, ClientStep

(***************************************************************************)
(* After a message that cannot be used no client reads on over the same    *)
(* connection, except one that swallows errors while it bridges.           *)
(***************************************************************************)
THEOREM ErrorsEndIt == Spec => ErrorsEndTheConnection
  <1>1. SyncInv /\ [Next]_vars =>
           [ReadsOn /\ (pc = "read" \/ ~Swallows) => Usable(Head(wire))]_vars
    BY ReadOnlyTheUsable
  <1> QED
    BY <1>1, InitSync, SyncStep, PTL DEF Spec, ErrorsEndTheConnection

------------------------------------------------------------------------------
(***************************************************************************)
(* Gaps.  g[i] is the last id sent before message i + 1 of the connection: *)
(* a genuine update leads from one to the next, anything else from an id   *)
(* to itself, and the last is flushed.  A client that follows the stream   *)
(* is at the first; main.rs, after a stale update, at that or a later one. *)
(***************************************************************************)
UpTo(id) == IF client = "rust" THEN id <= lastId ELSE id = lastId

SentUpTo(g) ==
    /\ g \in [0..Len(wire) -> Nat] /\ g[Len(wire)] = flushed
    /\ \A i \in 1..Len(wire) :
          IF Genuine(wire[i]) THEN Prev(wire[i]) = g[i - 1] /\ wire[i].u = g[i]
                              ELSE g[i] = g[i - 1]
    /\ pc \in {"steady", "read"} => UpTo(g[0])

GapInv ==
    /\ \E g : SentUpTo(g)
    /\ ~Connected => wire = <<>>

LEMMA NoGap == SyncInv /\ GapInv => NoFalseGaps
  <1> SUFFICES ASSUME SyncInv, GapInv, pc \in {"steady", "read"}, wire # <<>>,
                      Head(wire).flaw = "none", Head(wire) # Beyond
               PROVE  Usable(Head(wire)) \/ SkipsTheSnapshot(Head(wire))
    BY DEF NoFalseGaps
  <1>1. PICK e : e = Head(wire)
    OBVIOUS
  <1>2. e \in Sound /\ e \in Msg /\ e = wire[1] /\ 1 \in 1..Len(wire)
    BY <1>1, HeadIsSound, HeadTailProperties, LenProperties, EmptySeq DEF SyncInv, Sound
  <1>3. Genuine(e) /\ Faithful(e)
    BY <1>1, <1>2 DEF Sound, Garbage
  <1>4. Readable(e)
    <2>1. ReadUpdate(e) = e.levels /\ e.levels \in Contents
      BY <1>1, <1>2, UpdateKinds DEF SyncInv, Msg
    <2> QED BY <2>1, ContentsType DEF Readable
  <1>5. UpTo(Prev(e))
    <2>1. PICK g : SentUpTo(g)
      BY DEF GapInv
    <2>2. Prev(e) = g[0] /\ UpTo(g[0])
      BY <1>2, <1>3, <2>1 DEF SentUpTo
    <2> QED BY <2>2
  <1>6. lastId \in Nat
    BY SyncInvTypes, NowType DEF SyncInv, ClientInv
  <1>7. IsStale(e) \/ Bridges(e) \/ SkipsTheSnapshot(e)
    BY <1>2, <1>3, <1>5, <1>6
       DEF UpTo, Prev, Faithful, IsStale, Bridges, SkipsTheSnapshot, Msg
  <1> QED BY <1>1, <1>4, <1>7 DEF Usable

(* A stale update that is let pass is a genuine one. *)
LEMMA StaleIsGenuine ==
    ASSUME SyncInv, NEW e \in Sound, Usable(e), IsStale(e)
    PROVE  Genuine(e) /\ Faithful(e) /\ e.u <= lastId
  <1>1. e \in Msg /\ client \in Clients
    BY DEF Sound, SyncInv
  <1>2. e # Garbage
    BY <1>1, UpdateKinds DEF Usable, Readable, Garbage
  <1>3. e # Beyond
    <2>1. Beyond.u = MaxId + 2 /\ MaxId \in Nat
      BY BinanceSyncAssumption DEF Beyond
    <2>2. lastId \in Nat /\ lastId <= MaxId
      BY SyncInvTypes, NowType DEF SyncInv, ClientInv
    <2> QED BY <2>1, <2>2 DEF IsStale
  <1> QED BY <1>2, <1>3 DEF Sound, IsStale

(* Reading, or giving up, what waits. *)
LEMMA GapInvProgram ==
    ASSUME SyncInv, GapInv, Program PROVE GapInv'
  <1>1. /\ client \in Clients /\ UNCHANGED <<client, flushed>>
        /\ wire \in Seq(Sound) /\ Len(wire) \in Nat /\ flushed \in Nat /\ lastId \in Nat
    BY ProgramFrame, SyncInvTypes, NowType, LenProperties DEF SyncInv, ClientInv
  <1>2. PICK g : SentUpTo(g)
    BY DEF GapInv
  <1>3. ASSUME wire' = wire, wire = <<>> \/ Connected',
               pc' \in {"steady", "read"} => pc \in {"steady", "read"} /\ lastId' = lastId
        PROVE  GapInv'
    <2>1. SentUpTo(g)'
      BY <1>1, <1>2, <1>3 DEF SentUpTo, UpTo
    <2> QED BY <1>3, <2>1 DEF GapInv
  <1>4. ASSUME wire' = <<>>, pc' \notin {"steady", "read"} PROVE GapInv'
    <2>1. PICK h : h = [i \in 0..0 |-> flushed]
      OBVIOUS
    <2>2. Len(wire') = 0
      BY <1>4
    <2>3. SentUpTo(h)'
      BY <1>1, <1>4, <2>1, <2>2 DEF SentUpTo
    <2> QED BY <1>4, <2>3 DEF GapInv
  <1>5. ASSUME wire # <<>>, wire' = Tail(wire), Connected',
               pc' \in {"steady", "read"} =>
                  /\ Genuine(Head(wire))
                  /\ IF client = "rust" THEN Head(wire).u <= lastId' ELSE Head(wire).u = lastId'
        PROVE  GapInv'
    <2>1. PICK h : h = [i \in 0..Len(wire) - 1 |-> g[i + 1]]
      OBVIOUS
    <2>2. /\ Len(wire') = Len(wire) - 1 /\ Len(wire) \in Nat \ {0}
          /\ \A i \in 1..Len(wire') : wire'[i] = wire[i + 1]
          /\ Head(wire) = wire[1]
      BY <1>1, <1>5, HeadTailProperties, EmptySeq
    <2>3. h \in [0..Len(wire') -> Nat] /\ h[Len(wire')] = flushed'
      BY <1>1, <1>2, <2>1, <2>2 DEF SentUpTo
    <2>4. \A i \in 1..Len(wire') :
             IF Genuine(wire'[i]) THEN Prev(wire'[i]) = h[i - 1] /\ wire'[i].u = h[i]
                                  ELSE h[i] = h[i - 1]
      <3> SUFFICES ASSUME NEW i \in 1..Len(wire')
                   PROVE  IF Genuine(wire'[i]) THEN Prev(wire'[i]) = h[i - 1] /\ wire'[i].u = h[i]
                                               ELSE h[i] = h[i - 1]
        OBVIOUS
      <3>1. /\ i + 1 \in 1..Len(wire) /\ wire'[i] = wire[i + 1]
            /\ h[i] = g[i + 1] /\ h[i - 1] = g[i] /\ (i + 1) - 1 = i
        BY <2>1, <2>2
      <3> QED BY <1>2, <3>1 DEF SentUpTo
    <2>5. pc' \in {"steady", "read"} =>
             IF client = "rust" THEN h[0] <= lastId' ELSE h[0] = lastId'
      BY <1>2, <1>5, <2>1, <2>2 DEF SentUpTo
    <2>6. SentUpTo(h)'
      BY <1>1, <2>3, <2>4, <2>5 DEF SentUpTo, UpTo, Genuine, Prev
    <2> QED BY <1>5, <2>6 DEF GapInv
  <1>6. CASE Connect \/ Snapshot \/ Wake \/ SteadyHead \/ Fail \/ Interrupt
    <2>1. \/ wire' = <<>> /\ pc' \notin {"steady", "read"}
          \/ /\ wire' = wire
             /\ wire = <<>> \/ Connected'
             /\ pc' \in {"steady", "read"} => pc \in {"steady", "read"} /\ lastId' = lastId
      <3>1. CASE Connect
        BY <3>1 DEF Connect
      <3>2. CASE Snapshot
        BY <3>2 DEF Snapshot, GiveUp, Crash, Connected
      <3>3. CASE Wake \/ SteadyHead \/ Fail \/ Interrupt
        BY <3>3 DEF Wake, SteadyHead, Fail, Interrupt, GiveUp, Connected, GapInv, clientVars
      <3> QED BY <1>6, <3>1, <3>2, <3>3
    <2> QED BY <1>3, <1>4, <2>1
  <1>7. CASE BridgeError \/ SteadyError
    <2>1. \/ wire' = <<>> /\ pc' \notin {"steady", "read"}
          \/ wire # <<>> /\ wire' = Tail(wire) /\ pc = "bridge" /\ pc' = "bridge"
      BY <1>7 DEF BridgeError, SteadyError, GiveUp, Crash
    <2> QED BY <1>4, <1>5, <2>1 DEF Connected
  <1>8. ASSUME wire # <<>>, NEW next \in {"steady", "stopped"}, Count(next),
               Genuine(Head(wire)),
               IF client = "rust" THEN Head(wire).u <= lastId' ELSE Head(wire).u = lastId'
        PROVE  GapInv'
    <2>1. \/ wire' = <<>> /\ pc' \notin {"steady", "read"}
          \/ wire' = Tail(wire) /\ pc' = "steady"
      BY <1>8 DEF Count
    <2> QED BY <1>4, <1>5, <1>8, <2>1 DEF Connected
  <1>9. wire # <<>> => Head(wire) \in Sound /\ Head(wire).u \in Int /\ Head(wire) = wire[1]
    BY <1>1, HeadIsSound DEF Sound, Msg
  <1>10. CASE BridgeAdvances \/ SteadyUpdate \/ BridgeStale
    <2>1. wire # <<>> /\ Usable(Head(wire)) /\ TypeOK
      BY <1>10, SyncInvTypes DEF BridgeAdvances, SteadyUpdate, BridgeStale
    <2>2. CASE ~IsStale(Head(wire))
      <3>1. Genuine(Head(wire))
        BY <1>9, <2>1, <2>2, AppliedIsGenuine
      <3>2. lastId' = Head(wire).u /\ \E next \in {"steady", "stopped"} : Count(next)
        BY <1>10, <2>2 DEF BridgeAdvances, SteadyUpdate, BridgeStale, Apply
      <3> QED BY <1>8, <1>9, <2>1, <3>1, <3>2
    <2>3. CASE IsStale(Head(wire))
      <3>1. Genuine(Head(wire)) /\ Faithful(Head(wire)) /\ Head(wire).u <= lastId
        BY <1>9, <2>1, <2>3, StaleIsGenuine
      <3>2. lastId' = lastId
        BY <1>10, <2>3 DEF BridgeAdvances, SteadyUpdate, BridgeStale
      <3>3. CASE client = "rust"
        <4>1. Count("steady")
          BY <1>10, <2>3, <3>3 DEF BridgeAdvances, SteadyUpdate, BridgeStale, Swallows
        <4> QED BY <1>8, <2>1, <3>1, <3>2, <3>3, <4>1
      <3>4. CASE client # "rust" /\ pc = "read"
        <4>1. Prev(Head(wire)) = lastId
          BY <1>1, <1>2, <1>9, <2>1, <3>1, <3>4 DEF SentUpTo, UpTo
        <4>2. Prev(Head(wire)) < Head(wire).u
          BY <1>9, <2>1, <3>1 DEF Prev, Faithful, Sound, Msg
        <4> QED BY <1>1, <1>9, <2>1, <3>1, <4>1, <4>2
      <3>5. CASE client # "rust" /\ BridgeStale
        <4>1. \/ wire' = <<>> /\ pc' \notin {"steady", "read"}
              \/ wire' = Tail(wire) /\ pc' = "bridge"
          BY <1>1, <3>5, BinanceSyncAssumption DEF BridgeStale, Swallows, GiveUp
        <4> QED BY <1>4, <1>5, <2>1, <4>1 DEF Connected
      <3> QED BY <1>10, <2>3, <3>3, <3>4, <3>5 DEF BridgeAdvances, SteadyUpdate
    <2> QED BY <2>2, <2>3
  <1> QED BY <1>6, <1>7, <1>10 DEF Program, ClientStep

(* What is sent, or not, follows on. *)
LEMMA GapInvExchange ==
    ASSUME SyncInv, GapInv, Exchange PROVE GapInv'
  <1>1. /\ UNCHANGED <<client, pc, lastId>>
        /\ wire \in Seq(Sound) /\ wire \in Seq(Msg) /\ Len(wire) \in Nat
        /\ TypeOK /\ flushed \in Nat /\ Now \in Nat
    <2>1. Sound \subseteq Msg
      BY DEF Sound
    <2> QED
      BY <2>1, SeqMonotonic, SyncInvTypes, NowType, LenProperties
         DEF SyncInv, Exchange, Change, Flush, Nuisance, clientVars
  <1>2. PICK g : SentUpTo(g)
    BY DEF GapInv
  <1>3. ASSUME NEW e \in Msg, wire' = Append(wire, e), Connected,
               IF Genuine(e) THEN Prev(e) = flushed /\ e.u = flushed' ELSE flushed' = flushed,
               flushed' \in Nat
        PROVE  GapInv'
    <2>1. PICK n : n = Len(wire) + 1
      OBVIOUS
    <2>2. /\ Len(wire') = n /\ wire'[n] = e
          /\ \A i \in 1..n - 1 : wire'[i] = wire[i]
      BY <1>1, <1>3, <2>1, AppendProperties
    <2>3. PICK h : h = [i \in 0..n |-> IF i = n THEN flushed' ELSE g[i]]
      OBVIOUS
    <2>4. /\ n \in Nat \ {0} /\ h \in [0..n -> Nat] /\ h[n] = flushed'
          /\ \A i \in 0..n - 1 : h[i] = g[i]
      BY <1>1, <1>2, <1>3, <2>1, <2>3 DEF SentUpTo
    <2>5. ASSUME NEW i \in 1..n
          PROVE  IF Genuine(wire'[i]) THEN Prev(wire'[i]) = h[i - 1] /\ wire'[i].u = h[i]
                                      ELSE h[i] = h[i - 1]
      <3>1. CASE i = n
        <4>1. h[i - 1] = flushed /\ h[i] = flushed' /\ wire'[i] = e
          BY <1>1, <1>2, <2>1, <2>2, <2>4, <3>1 DEF SentUpTo
        <4> QED BY <1>3, <4>1
      <3>2. CASE i # n
        <4>1. /\ i \in 1..Len(wire) /\ wire'[i] = wire[i]
              /\ h[i] = g[i] /\ h[i - 1] = g[i - 1]
          BY <1>1, <2>1, <2>2, <2>4, <3>2
        <4> QED BY <1>2, <4>1 DEF SentUpTo
      <3> QED BY <3>1, <3>2
    <2>6. pc' \in {"steady", "read"} =>
             IF client' = "rust" THEN h[0] <= lastId' ELSE h[0] = lastId'
      BY <1>1, <1>2, <2>4 DEF SentUpTo, UpTo
    <2>7. SentUpTo(h)'
      BY <2>2, <2>4, <2>5, <2>6 DEF SentUpTo, UpTo, Genuine, Prev
    <2> QED BY <1>1, <1>3, <2>7 DEF GapInv, Connected
  <1>4. ASSUME wire' = wire, flushed' = flushed PROVE GapInv'
    <2>1. SentUpTo(g)'
      BY <1>1, <1>2, <1>4 DEF SentUpTo, UpTo
    <2> QED BY <1>1, <1>4, <2>1 DEF GapInv, Connected
  <1>5. CASE Change
    BY <1>4, <1>5 DEF Change
  <1>6. CASE Nuisance
    <2>1. ~Genuine(Garbage) /\ ~Genuine(Beyond)
      BY <1>1, NowType DEF Genuine, Garbage, Beyond
    <2>2. Connected /\ flushed' = flushed /\ \E e \in {Garbage, Beyond} : wire' = Append(wire, e)
      BY <1>6 DEF Nuisance, Send, exchangeVars
    <2> QED BY <1>1, <1>3, <2>1, <2>2, NuisanceType
  <1>7. CASE Flush
    <2>1. PICK U \in flushed + 1..Now, pu \in {0, flushed}, f \in Flaws :
             MayStartAt(U, pu) /\ Send(Flushed(U, pu, f))
      BY <1>7 DEF Flush, MayStartAt, Flushed
    <2>2. PICK e : e = Flushed(U, pu, f)
      OBVIOUS
    <2>3. FollowsFlushed(e) /\ Send(e) /\ flushed' = Now
      BY <1>1, <1>7, <2>1, <2>2, FlushedIsFaithful DEF Flush
    <2>4. CASE Connected
      BY <1>1, <1>3, <2>3, <2>4 DEF FollowsFlushed, Send
    <2>5. CASE ~Connected
      <3>1. wire = <<>> /\ wire' = <<>> /\ Len(wire') = 0
        BY <2>3, <2>5 DEF GapInv, Send
      <3>2. PICK h : h = [i \in 0..0 |-> Now]
        OBVIOUS
      <3>3. SentUpTo(h)'
        BY <1>1, <2>3, <2>5, <3>1, <3>2 DEF SentUpTo, Connected
      <3> QED BY <3>1, <3>3 DEF GapInv
    <2> QED BY <2>4, <2>5
  <1> QED BY <1>5, <1>6, <1>7 DEF Exchange

(***************************************************************************)
(* A client that follows the stream meets no gap of its own making, but    *)
(* for the one case of main.rs.                                            *)
(***************************************************************************)
THEOREM GapsAreReal == Spec => []NoFalseGaps
  <1>1. Init => GapInv
    <2> SUFFICES ASSUME Init PROVE GapInv
      OBVIOUS
    <2>1. PICK h : h = [i \in 0..0 |-> 0]
      OBVIOUS
    <2>2. wire = <<>> /\ Len(wire) = 0 /\ pc = "connect" /\ flushed = 0
      BY DEF Init
    <2>3. SentUpTo(h)
      BY <2>1, <2>2 DEF SentUpTo
    <2> QED BY <2>2, <2>3 DEF GapInv
  <1>2. SyncInv /\ GapInv /\ [Next]_vars => GapInv'
    <2> SUFFICES ASSUME SyncInv, GapInv, [Next]_vars PROVE GapInv'
      OBVIOUS
    <2>1. CASE UNCHANGED vars
      <3>1. PICK g : SentUpTo(g)
        BY DEF GapInv
      <3>2. SentUpTo(g)'
        BY <2>1, <3>1 DEF SentUpTo, UpTo, vars, exchangeVars, clientVars
      <3> QED BY <2>1, <3>2 DEF GapInv, Connected, vars
    <2>2. CASE Next
      BY <2>1, <2>2, GapInvExchange, GapInvProgram
         DEF Next, Md, Md2, Md3, Md4, Md5, Rust, AtRest
    <2> QED BY <2>1, <2>2
  <1> QED BY <1>1, <1>2, InitSync, SyncStep, NoGap, PTL DEF Spec

==============================================================================
