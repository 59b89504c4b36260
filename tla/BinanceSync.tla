----------------------------- MODULE BinanceSync ------------------------------
(***************************************************************************)
(* rust_cpp: the clients that keep a local order book in step with the     *)
(* exchange's depth stream: connect, take a REST snapshot, bridge from it  *)
(* to the stream, follow the stream; start again after a gap or an error.  *)
(*                                                                         *)
(* There are six of them: md.cpp to md5.cpp, and src/main.rs ("rust").     *)
(* They differ in what their JSON library makes of a damaged message, and  *)
(* in what they do while they bridge: md, md2, md3 and md5 ignore errors,  *)
(* md4 starts over after an error or too many stale updates, and for rust  *)
(* any update ends the bridge and any error starts over.                   *)
(*                                                                         *)
(* The exchange is external.  Its book is one side with a few levels, size *)
(* 0 meaning none; every update id is one change.  Bids and asks are       *)
(* handled alike, and printing is left out.                                *)
(***************************************************************************)
EXTENDS Integers, Sequences

CONSTANTS
    Clients,       \* the programs to consider: see above
    Levels,        \* prices
    Sizes,         \* sizes at a level, 0 among them
    HasPu,         \* whether updates may carry pu, the last id of the one before
    MayFail,       \* whether connections, requests and messages may be bad
    Flaws,         \* how a reply or an update may be damaged: see Diff
    MaxId,         \* bound on the exchange's update ids
    MaxWire,       \* bound on updates sent and not yet read
    UpdateLimit,   \* UPDATE_LIMIT: updates handled before the program ends
    StaleLimit     \* BRIDGE_STALE_LIMIT of md4.cpp

ASSUME BinanceSyncAssumption ==
    /\ Levels # {}
    /\ Clients \subseteq {"md", "md2", "md3", "md4", "md5", "rust"}
    /\ Flaws \subseteq {"none", "partial", "number"} /\ "none" \in Flaws
    /\ Sizes \subseteq Nat /\ 0 \in Sizes
    /\ HasPu \in BOOLEAN /\ MayFail \in BOOLEAN
    /\ MaxId \in Nat /\ MaxWire \in Nat \ {0}
    /\ UpdateLimit \in Nat \ {0} /\ StaleLimit \in Nat

VARIABLES
    client,     \* which program runs
    books,      \* exchange: its book after each id, books[1] before id 1
    flushed,    \* exchange: the last id sent to the streams
    wire,       \* updates on the connection, not yet read
    pc,         \* where the client is
    stop,       \* whether Ctrl+C was pressed; g_stop of the C++ clients
    book,       \* the client's book
    lastId,     \* last_id
    spoilt,     \* auxiliary: a damaged message went into the book
    stale,      \* bridge_stale
    samples     \* latencies: updates handled

exchangeVars == <<books, flushed>>
clientVars   == <<book, lastId, spoilt, stale, samples>>
vars == <<client, exchangeVars, wire, pc, stop, clientVars>>

Books == [Levels -> Sizes]

Empty == [l \in Levels |-> 0]

BookAt(n) == books[n + 1]

(* The exchange's current id. *)
Now == Len(books) - 1

Connected == pc \in {"snapshot", "bridge", "steady", "read"}

(* An update: ids U to u, and the sizes at u of the levels they changed.   *)
(* It may be damaged: "partial", its "b" or "bids" member is missing;      *)
(* "number", the sizes in it are not numbers; "text", it is not JSON.      *)
Diff(U, u, pu) ==
    LET touched == {l \in Levels : \E k \in U..u : BookAt(k)[l] # BookAt(k - 1)[l]}
    IN  [U |-> U, u |-> u, pu |-> pu, flaw |-> "none",
         levels |-> [l \in touched |-> BookAt(u)[l]]]

(* What the client cannot use: text that is no update, and an update far   *)
(* behind which others were lost.                                          *)
Garbage == [U |-> 0, u |-> -1, pu |-> 0, flaw |-> "text", levels |-> <<>>]
Beyond  == [U |-> MaxId + 2, u |-> MaxId + 2, pu |-> 0, flaw |-> "none", levels |-> <<>>]

------------------------------------------------------------------------------
Init ==
    /\ client \in Clients
    /\ \E b \in Books : books = <<b>>
    /\ book = Empty
    /\ flushed = 0
    /\ wire = <<>>
    /\ pc = "connect" /\ stop = FALSE
    /\ lastId = 0 /\ spoilt = FALSE /\ stale = 0 /\ samples = 0

------------------------------------------------------------------------------
(* The exchange.                                                           *)

Change ==
    /\ Now < MaxId
    /\ \E l \in Levels, s \in Sizes : books' = Append(books, [BookAt(Now) EXCEPT ![l] = s])
    /\ UNCHANGED <<client, flushed, wire, pc, stop, clientVars>>

Send(msg) == wire' = IF Connected THEN Append(wire, msg) ELSE wire

(* What changed since the last update, to whoever is connected; with pu    *)
(* the first id may lie further on.                                        *)
Flush ==
    /\ flushed < Now
    /\ Connected => Len(wire) < MaxWire
    /\ \E U \in flushed + 1..Now, pu \in IF HasPu THEN {0, flushed} ELSE {0}, f \in Flaws :
          /\ U = flushed + 1 \/
                (pu # 0 /\ \A k \in flushed + 1..U - 1 : BookAt(k) = BookAt(flushed))
          /\ Send([Diff(U, Now, pu) EXCEPT !.flaw = f])
    /\ flushed' = Now
    /\ UNCHANGED <<client, books, pc, stop, clientVars>>

Nuisance ==
    /\ MayFail
    /\ Connected /\ Len(wire) < MaxWire
    /\ \E msg \in {Garbage, Beyond} : Send(msg)
    /\ UNCHANGED <<client, exchangeVars, pc, stop, clientVars>>

Exchange == Change \/ Flush \/ Nuisance

------------------------------------------------------------------------------
(***************************************************************************)
(* What each client reads of the levels lv of a message with flaw f: the   *)
(* levels, Unreadable where it throws, or Abort where the library stops    *)
(* the process.                                                            *)
(***************************************************************************)
Unreadable == [l \in Levels |-> -1]
Abort      == [l \in Levels |-> -2]

(* A size that is no number is read as 0. *)
Zeroed(lv) == [l \in DOMAIN lv |-> 0]

(* nlohmann: operator[] makes a missing member null, which iterates over   *)
(* nothing; stod throws.                                                   *)
MdUpdate(f, lv) == CASE f \in {"text", "number"} -> Unreadable
                     [] f = "partial" -> <<>>
                     [] OTHER -> lv

MdSnapshot(f, lv) == CASE f = "number" -> Unreadable
                       [] f = "partial" -> Empty
                       [] OTHER -> lv

(* The same library without its exceptions; the fallback is stod again. *)
Md2Update(f, lv) == CASE f \in {"text", "number"} -> Unreadable
                      [] f = "partial" -> <<>>
                      [] OTHER -> lv

Md2Snapshot(f, lv) == CASE f = "number" -> Unreadable
                        [] f = "partial" -> Empty
                        [] OTHER -> lv

(* RapidJSON asserts that a member it is asked for exists; strtod gives 0. *)
Md3Update(f, lv) == CASE f = "text" -> Unreadable
                      [] f = "partial" -> Abort
                      [] f = "number" -> Zeroed(lv)
                      [] OTHER -> lv

Md3Snapshot(f, lv) == CASE f = "partial" -> Abort
                        [] f = "number" -> Zeroed(lv)
                        [] OTHER -> lv

(* simdjson throws on a missing member; strtod gives 0. *)
Md4Update(f, lv) == CASE f \in {"text", "partial"} -> Unreadable
                      [] f = "number" -> Zeroed(lv)
                      [] OTHER -> lv

Md4Snapshot(f, lv) == CASE f = "partial" -> Unreadable
                        [] f = "number" -> Zeroed(lv)
                        [] OTHER -> lv

(* glaze leaves a missing member empty; strtod gives 0. *)
Md5Update(f, lv) == CASE f = "text" -> Unreadable
                      [] f = "partial" -> <<>>
                      [] f = "number" -> Zeroed(lv)
                      [] OTHER -> lv

Md5Snapshot(f, lv) == CASE f = "partial" -> Empty
                        [] f = "number" -> Zeroed(lv)
                        [] OTHER -> lv

(* serde wants every member; parse_side takes what does not parse for 0. *)
RustUpdate(f, lv) == CASE f \in {"text", "partial"} -> Unreadable
                       [] f = "number" -> Zeroed(lv)
                       [] OTHER -> lv

RustSnapshot(f, lv) == CASE f = "partial" -> Unreadable
                         [] f = "number" -> Zeroed(lv)
                         [] OTHER -> lv

ReadUpdate(e) ==
    CASE client = "md"  -> MdUpdate(e.flaw, e.levels)
      [] client = "md2" -> Md2Update(e.flaw, e.levels)
      [] client = "md3" -> Md3Update(e.flaw, e.levels)
      [] client = "md4" -> Md4Update(e.flaw, e.levels)
      [] client = "md5" -> Md5Update(e.flaw, e.levels)
      [] OTHER          -> RustUpdate(e.flaw, e.levels)

ReadSnapshot(f, b) ==
    CASE client = "md"  -> MdSnapshot(f, b)
      [] client = "md2" -> Md2Snapshot(f, b)
      [] client = "md3" -> Md3Snapshot(f, b)
      [] client = "md4" -> Md4Snapshot(f, b)
      [] client = "md5" -> Md5Snapshot(f, b)
      [] OTHER          -> RustSnapshot(f, b)

Swallows == client \in {"md", "md2", "md3", "md5"}

------------------------------------------------------------------------------
(* Connecting and the snapshot.                                            *)

(* Every attempt starts with an empty book; "rust" also counts anew. *)
Connect ==
    /\ pc = "connect"
    /\ pc' = "snapshot"
    /\ wire' = <<>>
    /\ book' = Empty /\ lastId' = 0 /\ spoilt' = FALSE
    /\ samples' = IF client = "rust" THEN 0 ELSE samples
    /\ UNCHANGED <<client, exchangeVars, stop, stale>>

(* What a look at g_stop shows; main.rs has no such flag. *)
FlagSeen == stop /\ client # "rust"

(* The connection is given up; after a second the client starts over. *)
GiveUp ==
    /\ pc' = "sleep"
    /\ wire' = <<>>

(* An assertion of the JSON library stops the process. *)
Crash == pc' = "crashed" /\ wire' = <<>>

(* fetch_snapshot: the book at some id, not always the newest. *)
Snapshot ==
    /\ pc = "snapshot"
    /\ \E n \in 0..Now, f \in Flaws :
          LET b == ReadSnapshot(f, BookAt(n))
          IN  CASE b = Unreadable -> GiveUp /\ UNCHANGED clientVars
                [] b = Abort      -> Crash /\ UNCHANGED clientVars
                [] OTHER          -> /\ book' = b /\ lastId' = n
                                     /\ spoilt' = (b # BookAt(n))
                                     /\ stale' = 0 /\ pc' = "bridge"
                                     /\ UNCHANGED <<wire, samples>>
    /\ UNCHANGED <<client, exchangeVars, stop>>

(* Resolving, connecting, the handshakes, the request or a read fails;     *)
(* the outer catch looks at the flag, a failed snapshot does not.          *)
Fail ==
    /\ MayFail
    /\ pc \in {"connect", "snapshot", "bridge", "read"}
    /\ IF FlagSeen /\ pc # "snapshot"
       THEN pc' = "stopped" /\ wire' = <<>>
       ELSE GiveUp
    /\ UNCHANGED <<client, exchangeVars, stop, clientVars>>

(* The head of the outer loop. *)
Wake ==
    /\ pc = "sleep"
    /\ pc' = IF FlagSeen THEN "stopped" ELSE "connect"
    /\ UNCHANGED <<client, exchangeVars, wire, stop, clientVars>>

------------------------------------------------------------------------------
(* apply_update, apply_update_json: ids first, then the levels, which are  *)
(* all read before any is applied; glaze and serde read everything first.  *)

IsStale(e) == e.u <= lastId

\* an update that starts one id too late is accepted
BridgesFault(e) ==
    \/ e.U <= lastId + 2 /\ lastId + 1 <= e.u
    \/ e.pu # 0 /\ e.pu = lastId

Bridges(e) ==
    \/ e.U <= lastId + 1 /\ lastId + 1 <= e.u
    \/ e.pu # 0 /\ e.pu = lastId

\* last_id is set to the first id of the update
ApplyFault(e) ==
    /\ book' = [l \in Levels |-> IF l \in DOMAIN ReadUpdate(e) THEN ReadUpdate(e)[l] ELSE book[l]]
    /\ lastId' = e.U
    /\ spoilt' = (spoilt \/ ReadUpdate(e) # e.levels)

(* apply_deltas: absolute sizes replace what was there, 0 erases a level. *)
Apply(e) ==
    /\ book' = [l \in Levels |-> IF l \in DOMAIN ReadUpdate(e) THEN ReadUpdate(e)[l] ELSE book[l]]
    /\ lastId' = e.u
    /\ spoilt' = (spoilt \/ ReadUpdate(e) # e.levels)

(* Whether a damage shows: a stale update is left before its levels are    *)
(* read, but not by serde.                                                 *)
Readable(e) ==
    \/ ReadUpdate(e) \notin {Unreadable, Abort}
    \/ IsStale(e) /\ e.flaw # "text" /\ ~(client = "rust" /\ e.flaw = "partial")

Aborts(e) == ~IsStale(e) /\ Bridges(e) /\ ReadUpdate(e) = Abort

Usable(e) == Readable(e) /\ (IsStale(e) \/ Bridges(e))

(* One more update is counted; the last one ends the program. *)
Count(next) ==
    /\ samples' = samples + 1
    /\ IF samples + 1 >= UpdateLimit
       THEN pc' = "stopped" /\ wire' = <<>>
       ELSE /\ pc' = next
            /\ wire' = IF next = "stopped" THEN <<>> ELSE Tail(wire)

------------------------------------------------------------------------------
(* 3) Bridge: the interrupt flag is not looked at.                         *)

BridgeAdvances ==
    /\ pc = "bridge" /\ wire # <<>>
    /\ LET e == Head(wire)
       IN  Usable(e) /\ ~IsStale(e) /\ Apply(e)
    /\ stale' = 0
    /\ Count(IF FlagSeen THEN "stopped" ELSE "steady")
    /\ UNCHANGED <<client, exchangeVars, stop>>

(* "rust" counts a stale update and goes on to the steady state. *)
BridgeStale ==
    /\ pc = "bridge" /\ wire # <<>>
    /\ LET e == Head(wire)
       IN  Usable(e) /\ IsStale(e)
    /\ CASE client = "rust" -> Count("steady") /\ UNCHANGED stale
         [] Swallows -> wire' = Tail(wire) /\ UNCHANGED <<pc, stale, samples>>
         [] client = "md4" -> /\ stale' = stale + 1
                              /\ IF stale' > StaleLimit
                                 THEN GiveUp
                                 ELSE wire' = Tail(wire) /\ UNCHANGED pc
                              /\ UNCHANGED samples
    /\ UNCHANGED <<client, exchangeVars, stop, book, lastId, spoilt>>

\* as in the clients that swallow errors
BridgeErrorFault ==
    /\ pc = "bridge" /\ wire # <<>>
    /\ ~Usable(Head(wire))
    /\ wire' = Tail(wire) /\ UNCHANGED pc
    /\ UNCHANGED <<client, exchangeVars, stop, clientVars>>

BridgeError ==
    /\ pc = "bridge" /\ wire # <<>>
    /\ ~Usable(Head(wire))
    /\ CASE Aborts(Head(wire)) -> Crash
         [] Swallows /\ ~Aborts(Head(wire)) -> wire' = Tail(wire) /\ UNCHANGED pc
         [] OTHER -> GiveUp
    /\ UNCHANGED <<client, exchangeVars, stop, clientVars>>

------------------------------------------------------------------------------
(* 4) Steady state                                                         *)

(* The head of the loop; only the C++ clients look at the flag there. *)
SteadyHead ==
    /\ pc = "steady"
    /\ IF FlagSeen THEN GiveUp ELSE pc' = "read" /\ UNCHANGED wire
    /\ UNCHANGED <<client, exchangeVars, stop, clientVars>>

(* Every update is counted, stale or not. *)
SteadyUpdate ==
    /\ pc = "read" /\ wire # <<>>
    /\ LET e == Head(wire)
       IN  /\ Usable(e)
           /\ IF IsStale(e) THEN UNCHANGED <<book, lastId, spoilt>> ELSE Apply(e)
    /\ Count("steady")
    /\ UNCHANGED <<client, exchangeVars, stop, stale>>

SteadyError ==
    /\ pc = "read" /\ wire # <<>>
    /\ ~Usable(Head(wire))
    /\ IF Aborts(Head(wire)) THEN Crash ELSE GiveUp
    /\ UNCHANGED <<client, exchangeVars, stop, clientVars>>

------------------------------------------------------------------------------
(***************************************************************************)
(* Ctrl+C.  handle_signal only sets the flag.  In main.rs select! drops    *)
(* run_once, whatever it waits for; while the error branch sleeps nothing  *)
(* listens, and the next ctrl_c() sees later interrupts only.              *)
(***************************************************************************)
Interrupt ==
    /\ pc \notin {"stopped", "crashed"}
    /\ stop => client = "rust"
    /\ stop' = TRUE
    /\ IF client = "rust" /\ pc # "sleep"
       THEN pc' = "stopped" /\ wire' = <<>>
       ELSE UNCHANGED <<pc, wire>>
    /\ UNCHANGED <<client, exchangeVars, clientVars>>

(* The program has ended, or the part of the stream that is modelled. *)
AtRest ==
    /\ pc \in {"stopped", "crashed"} \/ (flushed = MaxId /\ wire = <<>>)
    /\ UNCHANGED vars

ClientStep ==
    \/ Connect \/ Snapshot \/ Wake
    \/ BridgeAdvances \/ BridgeStale \/ BridgeError
    \/ SteadyHead \/ SteadyUpdate \/ SteadyError

Program == ClientStep \/ Fail \/ Interrupt

(* The programs. *)
Md   == client = "md" /\ Program
Md2  == client = "md2" /\ Program
Md3  == client = "md3" /\ Program
Md4  == client = "md4" /\ Program
Md5  == client = "md5" /\ Program
Rust == client = "rust" /\ Program

Next == Exchange \/ Md \/ Md2 \/ Md3 \/ Md4 \/ Md5 \/ Rust \/ AtRest

Spec == Init /\ [][Next]_vars

(***************************************************************************)
(* The client runs, and the exchange keeps sending something to a client   *)
(* that waits: a depth stream is never silent for long.                    *)
(***************************************************************************)
FairSpec == Spec /\ WF_vars(ClientStep) /\ WF_vars(Flush \/ Nuisance)

------------------------------------------------------------------------------
(***************************************************************************)
(* Types of all variables.                                                 *)
(***************************************************************************)
TypeOK ==
    /\ client \in Clients
    /\ books \in Seq(Books) /\ Len(books) \in 1..MaxId + 1
    /\ flushed \in 0..Now
    /\ Len(wire) <= MaxWire
    /\ \A i \in DOMAIN wire :
          /\ wire[i].U \in Nat /\ wire[i].u \in Int /\ wire[i].pu \in Nat
          /\ DOMAIN wire[i].levels \subseteq Levels
    /\ pc \in {"connect", "snapshot", "bridge", "steady", "read", "sleep", "stopped", "crashed"}
    /\ stop \in BOOLEAN /\ spoilt \in BOOLEAN
    /\ book \in Books /\ lastId \in 0..Now
    /\ stale \in 0..StaleLimit + 1
    /\ samples \in 0..UpdateLimit

(***************************************************************************)
(* The client's book is the exchange's book at the id the client believes  *)
(* to be at: through overlapping and stale updates, lost ones, reconnects  *)
(* and old snapshots, no change is missed and none applied out of turn.    *)
(* Only a damaged message that the client's JSON library lets pass spoils  *)
(* it, until the next connection.                                          *)
(***************************************************************************)
BookIsExact ==
    pc \in {"bridge", "steady", "read"} => lastId <= Now /\ (spoilt \/ book = BookAt(lastId))

(***************************************************************************)
(* A client that follows the stream meets no gap of its own making: the    *)
(* first update that waits for it is usable unless the exchange sent       *)
(* something that is not.  Only main.rs can, because a stale update ends   *)
(* its bridge too: its snapshot may lie between the two ids of an update   *)
(* that skips ids by its pu, and neither of its tests lets that one pass.  *)
(***************************************************************************)
SkipsTheSnapshot(e) ==
    client = "rust" /\ 0 < e.pu /\ e.pu < lastId /\ lastId + 1 < e.U

NoFalseGaps ==
    pc \in {"steady", "read"} /\ wire # <<>> =>
        LET e == Head(wire)
        IN  e.flaw # "none" \/ e = Beyond \/ Usable(e) \/ SkipsTheSnapshot(e)

(* The next message was handled and the client reads on. *)
ReadsOn == wire # <<>> /\ wire' = Tail(wire) /\ pc' \in {"bridge", "steady"}

(***************************************************************************)
(* A message that cannot be used never lets a client read on over the same *)
(* connection: neither in the steady state nor, but for the clients that   *)
(* swallow errors, while it bridges.  So no update after a gap is applied  *)
(* before a new snapshot is taken.                                         *)
(***************************************************************************)
ErrorsEndTheConnection ==
    [][ReadsOn /\ (pc = "read" \/ ~Swallows) => Usable(Head(wire))]_vars

(***************************************************************************)
(* What the exception says of every client: a gap calls for a new snapshot *)
(* ("sequence gap; need resnapshot").                                      *)
(***************************************************************************)
GapForcesResnapshot == [][ReadsOn => Usable(Head(wire))]_vars

(***************************************************************************)
(* Ctrl+C ends the program ("Ctrl+C to quit").                             *)
(***************************************************************************)
StopHeeded == stop ~> pc = "stopped"

==============================================================================
