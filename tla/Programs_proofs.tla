---------------------------- MODULE Programs_proofs ----------------------------
(***************************************************************************)
(* Proofs about the programs without threads: every Function owns what it  *)
(* calls, for any functors and any number of objects; the three parsers    *)
(* read what the text says, for any texts and any width of an int; the     *)
(* book of price levels is the sum of what it was told, for any levels; a  *)
(* vector holds what it was given in arrays of its own, for any elements,  *)
(* throwing or not; the parser of frames handles every message once and    *)
(* in order, for any lengths and however the bytes are cut up; the figures *)
(* of the timing programs are right or say that they overflowed, for any   *)
(* samples and any width of a word; and two treaps hold what was put in    *)
(* them, for any keys, values, priorities and memory.                      *)
(***************************************************************************)
EXTENDS Callables, Numbers, DepthBook, Vectors, Frames, CycleStats, Treap, TLAPS,
        FiniteSetTheorems, SequenceTheorems, WellFoundedInduction

-----------------------------------------------------------------------------
(***************************************************************************)
(* std_function: the Functions of a program.                               *)
(***************************************************************************)

\* A program that uses two Functions.
CallablesSpec == CallablesInit /\ [][CallablesNext]_callVars

CallType ==
  /\ callable = [a \in DOMAIN callable |-> callable[a]]
  /\ DOMAIN callable \subseteq Addr
  /\ base \in [Functions -> Addr \cup {0}]
  /\ lives \subseteq Functions
  /\ stands \in [Functions -> Functors \cup {0, Lost}]
  /\ \A f \in Functions : stands[f] = 0 => base[f] = 0
  /\ \A f \in Functions \ lives : stands[f] = 0

\* OneOwnerEach of the Functions W, bases b and functors s over the objects h.
Owns(W, h, b, s) ==
  /\ DOMAIN h = {b[f] : f \in W}
  /\ \A f \in W : h[b[f]] = s[f]
  /\ \A f, g \in W : b[f] = b[g] => f = g

CallInv == CallType /\ Owns(Owning, callable, base, stands)

(***************************************************************************)
(* An address not in use is found while there is one.                      *)
(***************************************************************************)
LEMMA FreeAddrIsFree ==
  ASSUME NEW h, DOMAIN h \subseteq Addr, Room(h)
  PROVE  FreeAddr(h) \in Addr /\ FreeAddr(h) \notin DOMAIN h
<1>1. \E a \in Addr : a \notin DOMAIN h
  BY DEF Room
<1>2. QED BY <1>1 DEF FreeAddr

(***************************************************************************)
(* A Function that gets a new object owns it, the others keep theirs.      *)
(***************************************************************************)
LEMMA MadeOwns ==
  ASSUME NEW W \in SUBSET Functions, NEW h, NEW b, NEW s, NEW f \in Functions, NEW x,
         DOMAIN b = Functions, DOMAIN s = Functions,
         DOMAIN h \subseteq Addr, Room(h), f \notin W, Owns(W, h, b, s)
  PROVE  Owns(W \cup {f}, Made(h, x), [b EXCEPT ![f] = FreeAddr(h)], [s EXCEPT ![f] = x])
<1> DEFINE n == FreeAddr(h)
           h2 == Made(h, x)
           b2 == [b EXCEPT ![f] = n]
           s2 == [s EXCEPT ![f] = x]
<1>1. n \notin DOMAIN h
  BY FreeAddrIsFree
<1> HIDE DEF n
<1>2. DOMAIN h2 = DOMAIN h \cup {n} /\ h2[n] = x /\ \A a \in DOMAIN h : h2[a] = h[a]
  BY <1>1 DEF Made, n
<1> HIDE DEF h2
<1>3. b2[f] = n /\ s2[f] = x /\ \A g \in W : g # f /\ b2[g] = b[g] /\ s2[g] = s[g]
  OBVIOUS
<1> HIDE DEF b2, s2
<1>4. \A g \in W : b[g] \in DOMAIN h
  BY DEF Owns
<1>5. DOMAIN h2 = {b2[g] : g \in W \cup {f}}
  BY <1>2, <1>3 DEF Owns
<1>6. \A g \in W \cup {f} : h2[b2[g]] = s2[g]
  BY <1>2, <1>3, <1>4 DEF Owns
<1>7. \A e, g \in W \cup {f} : b2[e] = b2[g] => e = g
  BY <1>1, <1>3, <1>4 DEF Owns
<1>8. Owns(W \cup {f}, h2, b2, s2)
  BY <1>5, <1>6, <1>7 DEF Owns
<1>9. QED BY <1>8 DEF h2, b2, s2, n

(***************************************************************************)
(* Deleting what a Function owns, or nothing, leaves the others theirs.    *)
(***************************************************************************)
LEMMA DropsOwns ==
  ASSUME NEW W, NEW h, NEW b, NEW s, NEW f,
         f \in W \/ b[f] \notin DOMAIN h, Owns(W, h, b, s)
  PROVE  /\ Owns(W \ {f}, Drops(h, b[f]), b, s)
         /\ \A g \in W \ {f} : b[g] \in DOMAIN Drops(h, b[f])
<1> DEFINE h2 == Drops(h, b[f])
<1>1. DOMAIN h2 = DOMAIN h \ {b[f]} /\ \A a \in DOMAIN h2 : h2[a] = h[a]
  BY DEF Drops
<1> HIDE DEF h2
<1>2. \A g \in W \ {f} : b[g] \in DOMAIN h /\ b[g] # b[f]
  BY DEF Owns
<1>3. \A g \in W \ {f} : b[g] \in DOMAIN h2
  BY <1>1, <1>2
<1>4. DOMAIN h2 = {b[g] : g \in W \ {f}}
  BY <1>1, <1>3 DEF Owns
<1>5. Owns(W \ {f}, h2, b, s)
  BY <1>1, <1>3, <1>4 DEF Owns
<1>6. QED BY <1>3, <1>5 DEF h2

(***************************************************************************)
(* A Function that owns nothing may change without the others noticing.    *)
(***************************************************************************)
LEMMA OthersKeep ==
  ASSUME NEW W \in SUBSET Functions, NEW h, NEW b, NEW s, NEW f \in Functions, NEW y, NEW z,
         DOMAIN b = Functions, DOMAIN s = Functions, f \notin W, Owns(W, h, b, s)
  PROVE  Owns(W, h, [b EXCEPT ![f] = y], [s EXCEPT ![f] = z])
<1> DEFINE b2 == [b EXCEPT ![f] = y]
           s2 == [s EXCEPT ![f] = z]
<1>1. \A g \in W : b2[g] = b[g] /\ s2[g] = s[g]
  OBVIOUS
<1> HIDE DEF b2, s2
<1>2. {b2[g] : g \in W} = {b[g] : g \in W}
  BY <1>1
<1>3. Owns(W, h, b2, s2)
  BY <1>1, <1>2 DEF Owns
<1>4. QED BY <1>3 DEF b2, s2

(***************************************************************************)
(* What a type-correct state says of Owning, and of Made and Drops.        *)
(***************************************************************************)
LEMMA OwningFacts ==
  ASSUME CallType
  PROVE  /\ Owning \subseteq Functions
         /\ 0 \notin DOMAIN callable
         /\ DOMAIN base = Functions /\ DOMAIN stands = Functions
  BY CallablesAssumption DEF CallType, Owning, Addr

LEMMA MadeType ==
  ASSUME NEW h, NEW x, DOMAIN h \subseteq Addr, Room(h)
  PROVE  /\ Made(h, x) = [a \in DOMAIN Made(h, x) |-> Made(h, x)[a]]
         /\ DOMAIN Made(h, x) \subseteq Addr
  BY FreeAddrIsFree DEF Made

LEMMA DropsType ==
  ASSUME NEW h, NEW a, DOMAIN h \subseteq Addr
  PROVE  /\ Drops(h, a) = [b \in DOMAIN Drops(h, a) |-> Drops(h, a)[b]]
         /\ DOMAIN Drops(h, a) \subseteq Addr
  BY DEF Drops

(***************************************************************************)
(* The initial state: no object, no Function.                              *)
(***************************************************************************)
LEMMA CallInitInv == CallablesInit => CallInv
<1> SUFFICES ASSUME CallablesInit PROVE CallInv
  OBVIOUS
<1>1. CallType
  BY DEF CallablesInit, CallType
<1>2. Owning = {}
  BY DEF CallablesInit, Owning
<1>3. QED BY <1>1, <1>2 DEF CallablesInit, CallInv, Owns

(***************************************************************************)
(* Construction: a new object for a functor, none without.                 *)
(***************************************************************************)
LEMMA ConstructKeeps ==
  ASSUME CallInv, NEW f \in Functions, NEW x \in Functors \cup {0}, Construct(f, x)
  PROVE  CallInv'
<1> USE DEF CallInv
<1>1. f \notin Owning /\ Owning \in SUBSET Functions
  BY OwningFacts DEF Construct, Owning
<1>2. stands' = [stands EXCEPT ![f] = x] /\ stands'[f] = x /\ lives' = lives \cup {f}
  BY OwningFacts DEF Construct
<1>3. CASE x = 0
  <2>1. base' = [base EXCEPT ![f] = 0] /\ callable' = callable
    BY <1>3 DEF Construct
  <2>2. CallType'
    BY <1>2, <1>3, <2>1 DEF CallType
  <2>3. Owning' = Owning
    BY <1>1, <1>2, <1>3, OwningFacts DEF Owning
  <2>4. Owns(Owning, callable, base', stands')
    BY <1>1, <1>2, <2>1, OwningFacts, OthersKeep
  <2>5. QED BY <2>1, <2>2, <2>3, <2>4
<1>4. CASE x # 0
  <2>1. /\ Room(callable) /\ callable' = Made(callable, x)
        /\ base' = [base EXCEPT ![f] = FreeAddr(callable)]
    BY <1>4 DEF Construct
  <2>2. x \notin {0, Lost}
    BY <1>4, CallablesAssumption
  <2>3. DOMAIN callable \subseteq Addr
    BY DEF CallType
  <2>4. FreeAddr(callable) \in Addr
    BY <2>1, <2>3, FreeAddrIsFree
  <2>5. /\ callable' = [a \in DOMAIN callable' |-> callable'[a]]
        /\ DOMAIN callable' \subseteq Addr
    BY <2>1, <2>3, MadeType
  <2>6. CallType'
    BY <1>2, <1>4, <2>1, <2>4, <2>5 DEF CallType
  <2>7. Owning' = Owning \cup {f}
    BY <1>2, <2>2, OwningFacts DEF Owning
  <2>8. Owns(Owning \cup {f}, callable', base', stands')
    BY <1>1, <1>2, <2>1, <2>3, OwningFacts, MadeOwns
  <2>9. QED BY <2>6, <2>7, <2>8
<1>5. QED BY <1>3, <1>4

(***************************************************************************)
(* Copy construction: a second object with the functor of the first.       *)
(***************************************************************************)
LEMMA CopyConstructKeeps ==
  ASSUME CallInv, NEW f \in Functions, NEW g \in Functions, CopyConstruct(f, g)
  PROVE  CallInv'
<1> USE DEF CallInv
<1>1. CASE stands[g] \in {0, Lost}
  <2>1. UNCHANGED <<callable, base, lives, stands>>
    BY <1>1 DEF CopyConstruct, Goes
  <2>2. QED BY <2>1 DEF CallType, Owns, Owning
<1>2. CASE stands[g] \notin {0, Lost}
  <2>1. /\ f \notin lives /\ Room(callable)
        /\ callable' = Made(callable, callable[base[g]])
        /\ base' = [base EXCEPT ![f] = FreeAddr(callable)]
        /\ lives' = lives \cup {f} /\ stands' = [stands EXCEPT ![f] = stands[g]]
    BY <1>2 DEF CopyConstruct
  <2>2. g \in Owning
    BY <1>2 DEF CopyConstruct, Owning
  <2>3. callable[base[g]] = stands[g]
    BY <2>2 DEF Owns
  <2>4. f \notin Owning /\ Owning \in SUBSET Functions
    BY <2>1, OwningFacts DEF Owning
  <2>5. DOMAIN callable \subseteq Addr
    BY DEF CallType
  <2>6. FreeAddr(callable) \in Addr
    BY <2>1, <2>5, FreeAddrIsFree
  <2>7. /\ callable' = [a \in DOMAIN callable' |-> callable'[a]]
        /\ DOMAIN callable' \subseteq Addr
    BY <2>1, <2>5, MadeType
  <2>8. CallType'
    BY <1>2, <2>1, <2>6, <2>7 DEF CallType
  <2>9. Owning' = Owning \cup {f}
    BY <1>2, <2>1, OwningFacts DEF Owning
  <2>10. Owns(Owning \cup {f}, callable', base', stands')
    BY <2>1, <2>3, <2>4, <2>5, OwningFacts, MadeOwns
  <2>11. QED BY <2>8, <2>9, <2>10
<1>3. QED BY <1>1, <1>2

(***************************************************************************)
(* Assignment: the old object goes, then a new one comes, or, without      *)
(* memory, none.                                                           *)
(***************************************************************************)
LEMMA AssignKeeps ==
  ASSUME CallInv, NEW f \in Functions, NEW g \in Functions, Assign(f, g)
  PROVE  CallInv'
<1> USE DEF CallInv
<1> DEFINE after == Drops(callable, base[f])
           W == Owning \ {f}
<1>1. CASE stands[f] = Lost \/ stands[g] \in {0, Lost} \/ f = g
  <2>1. UNCHANGED <<callable, base, lives, stands>>
    BY <1>1 DEF Assign, Goes
  <2>2. QED BY <2>1 DEF CallType, Owns, Owning
<1>2. CASE ~(stands[f] = Lost \/ stands[g] \in {0, Lost} \/ f = g)
  <2>1. f \in Owning \/ base[f] \notin DOMAIN callable
    BY <1>2, OwningFacts DEF Assign, Owning, CallType
  <2>2. Owns(W, after, base, stands) /\ \A e \in W : base[e] \in DOMAIN after
    BY <2>1, DropsOwns
  <2>3. DOMAIN callable \subseteq Addr
    BY DEF CallType
  <2>4. after = [a \in DOMAIN after |-> after[a]] /\ DOMAIN after \subseteq Addr
    BY <2>3, DropsType
  <2>5. {f, g} \subseteq lives
    BY DEF Assign
  <2>6. g \in W
    BY <1>2, <2>5 DEF Owning
  <2>7. after[base[g]] = stands[g]
    BY <2>2, <2>6 DEF Owns
  <2>8. W \in SUBSET Functions /\ f \notin W
    BY OwningFacts
  <2> HIDE DEF after
  <2>9. CASE /\ Room(after)
             /\ callable' = Made(after, after[base[g]])
             /\ base' = [base EXCEPT ![f] = FreeAddr(after)]
             /\ stands' = [stands EXCEPT ![f] = stands[g]]
             /\ UNCHANGED <<lives, wrong>>
    <3>1. FreeAddr(after) \in Addr
      BY <2>4, <2>9, FreeAddrIsFree
    <3>2. /\ callable' = [a \in DOMAIN callable' |-> callable'[a]]
          /\ DOMAIN callable' \subseteq Addr
      BY <2>4, <2>9, MadeType
    <3>3. CallType'
      BY <1>2, <2>5, <2>9, <3>1, <3>2 DEF CallType
    <3>4. Owning' = W \cup {f}
      BY <1>2, <2>5, <2>9, OwningFacts DEF Owning
    <3>5. Owns(W \cup {f}, callable', base', stands')
      BY <2>2, <2>4, <2>7, <2>8, <2>9, OwningFacts, MadeOwns
    <3>6. QED BY <3>3, <3>4, <3>5
  <2>10. CASE /\ callable' = after
              /\ stands' = [stands EXCEPT ![f] = IF base[f] = 0 THEN 0 ELSE Lost]
              /\ UNCHANGED <<base, lives, wrong>>
    <3>1. CallType'
      <4>1. /\ callable' = [a \in DOMAIN callable' |-> callable'[a]]
            /\ DOMAIN callable' \subseteq Addr
        BY <2>4, <2>10
      <4>2. (IF base[f] = 0 THEN 0 ELSE Lost) \in {0, Lost}
        OBVIOUS
      <4>3. stands' \in [Functions -> Functors \cup {0, Lost}]
        BY <2>10, <4>2 DEF CallType
      <4>4. ASSUME NEW e \in Functions PROVE stands'[e] = 0 => base'[e] = 0
        <5>1. CASE e = f
          BY <2>10, <5>1 DEF CallType, Lost
        <5>2. CASE e # f
          BY <2>10, <5>2 DEF CallType
        <5>3. QED BY <5>1, <5>2
      <4>5. \A e \in Functions \ lives' : stands'[e] = 0
        BY <2>5, <2>10 DEF CallType
      <4>6. QED BY <2>10, <4>1, <4>3, <4>4, <4>5 DEF CallType
    <3>2. Owning' = W
      BY <2>10, OwningFacts DEF Owning
    <3>3. base' = [base EXCEPT ![f] = base[f]]
      BY <2>10, OwningFacts DEF CallType
    <3>4. Owns(W, after, [base EXCEPT ![f] = base[f]], stands')
      BY <2>2, <2>8, <2>10, OwningFacts, OthersKeep
    <3>5. QED BY <2>10, <3>1, <3>2, <3>3, <3>4
  <2>11. QED BY <1>2, <2>9, <2>10 DEF Assign, after
<1>3. QED BY <1>1, <1>2

(***************************************************************************)
(* Destruction: the object goes with its Function.                         *)
(***************************************************************************)
LEMMA DestroyKeeps ==
  ASSUME CallInv, NEW f \in Functions, DestroyFunction(f)
  PROVE  CallInv'
<1> USE DEF CallInv
<1> DEFINE W == Owning \ {f}
<1>1. CASE stands[f] = Lost
  <2>1. UNCHANGED <<callable, base, lives, stands>>
    BY <1>1 DEF DestroyFunction, Goes
  <2>2. QED BY <2>1 DEF CallType, Owns, Owning
<1>2. CASE stands[f] # Lost
  <2>1. /\ f \in lives /\ callable' = Drops(callable, base[f])
        /\ base' = [base EXCEPT ![f] = 0]
        /\ lives' = lives \ {f} /\ stands' = [stands EXCEPT ![f] = 0]
    BY <1>2 DEF DestroyFunction
  <2>2. f \in Owning \/ base[f] \notin DOMAIN callable
    BY <1>2, <2>1, OwningFacts DEF Owning, CallType
  <2>3. Owns(W, callable', base, stands)
    BY <2>1, <2>2, DropsOwns
  <2>4. DOMAIN callable \subseteq Addr
    BY DEF CallType
  <2>5. /\ callable' = [a \in DOMAIN callable' |-> callable'[a]]
        /\ DOMAIN callable' \subseteq Addr
    BY <2>1, <2>4, DropsType
  <2>6. CallType'
    BY <2>1, <2>5 DEF CallType
  <2>7. Owning' = W
    BY <2>1, OwningFacts DEF Owning
  <2>8. W \in SUBSET Functions /\ f \notin W
    BY OwningFacts
  <2>9. Owns(W, callable', base', stands')
    BY <2>1, <2>3, <2>8, OwningFacts, OthersKeep
  <2>10. QED BY <2>6, <2>7, <2>9
<1>3. QED BY <1>1, <1>2

(***************************************************************************)
(* However Functions are made, copied, assigned, called and destroyed,     *)
(* each owns what it calls and nothing leaks.                              *)
(***************************************************************************)
THEOREM EachOwnsItsCallable == CallablesSpec => []OneOwnerEach
<1>1. ASSUME CallInv, [CallablesNext]_callVars PROVE CallInv'
  <2>1. ASSUME NEW f \in Functions, CallStored(f) PROVE CallInv'
    <3>1. UNCHANGED <<callable, base, lives, stands>>
      BY <2>1 DEF CallStored, Goes, callVars
    <3>2. QED BY <1>1, <3>1 DEF CallInv, CallType, Owns, Owning
  <2>2. CASE CallablesNext
    BY <1>1, <2>1, <2>2, ConstructKeeps, CopyConstructKeeps, AssignKeeps, DestroyKeeps
       DEF CallablesNext
  <2>3. CASE UNCHANGED callVars
    BY <1>1, <2>3 DEF callVars, CallInv, CallType, Owns, Owning
  <2>4. QED BY <1>1, <2>2, <2>3
<1>2. CallInv => OneOwnerEach
  BY DEF CallInv, Owns, OneOwnerEach
<1>3. QED
  BY CallInitInv, <1>1, <1>2, PTL DEF CallablesSpec
------------------------------------------------------------------------------
(***************************************************************************)
(* Text to int.  As long as a parser reads digits it has, in res, the      *)
(* number they stand for; what it returned before the end of the text is   *)
(* settled by what it had read.                                            *)
(***************************************************************************)
NumbersSpec == NumbersInit /\ [][NumbersNext]_numVars

Forms == {"empty", "lead", "minus", "plus", "minus plus", "zero", "zeros", "number",
          "then space", "other"}
NumTypes ==
  /\ sign \in {1, -1} /\ exact \in 0..Beyond /\ form \in Forms /\ ended \in BOOLEAN
  /\ form = "number" => exact > 0

(* myAtoi: a sum that would leave the range is returned as its bound, and     *)
(* digits that follow only take the exact number further out.                 *)
AtoiIsAt ==
  /\ at \in {"space", "digits", "returned"} /\ res \in 0..IntMax
  /\ at = "space" => form \in {"empty", "lead"} /\ exact = 0 /\ res = 0 /\ sign = 1
  /\ at = "digits" => form \in {"plus", "minus", "zero", "zeros", "number"} /\ res = exact
  /\ at = "returned" =>
       \/ /\ value = <<sign * exact>> /\ exact <= IntMax
          /\ form \in {"then space", "other"} \/ ended
       \/ value = <<IF sign = 1 THEN IntMax ELSE IntMin>> /\ exact > IntMax

(* convert: what is refused before the end stays refused whatever follows. *)
Refused == form \in {"zero", "zeros", "then space", "other"} \/ exact > Limit
           \/ (form = "number" /\ exact = Limit)
Accepted == Numeral
ConvertIsAt ==
  /\ at \in {"space", "signed", "plus", "digits", "returned"}
  /\ at = "space" => form \in {"empty", "lead"} /\ exact = 0 /\ res = 0 /\ sign = 1
  /\ at = "signed" => form = "minus" /\ exact = 0 /\ res = 0
  /\ at = "plus" => form \in {"plus", "minus plus"} /\ exact = 0 /\ res = 0
  /\ at = "digits" => form = "number" /\ res = exact /\ exact < Limit /\ exact > 0
  /\ at = "returned" /\ ~ended => value = <<NullOpt>> /\ Refused
  /\ at = "returned" /\ ended => value = <<IF Accepted THEN sign * exact ELSE NullOpt>>
  /\ at # "returned" => ~ended

NumInv ==
  /\ NumTypes
  /\ parser # "convert" => AtoiIsAt
  /\ parser = "convert" /\ exact <= IntMax => ConvertIsAt

LEMMA NumberConstants ==
    /\ IntMax \in Nat /\ Limit \in Nat /\ Beyond \in Nat /\ Limit <= IntMax /\ IntMax < Beyond
    /\ IntMax % 10 = 7 /\ Digits \subseteq 0..9 /\ Digits \cap Other = {}
    /\ Space \in Other /\ Plus \in Other /\ Minus \in Other
    /\ Space # Plus /\ Space # Minus /\ Plus # Minus
  BY NumbersAssumption DEF Other, Space, Plus, Minus, Letter

(* The overflow tests are right for the last digit, in either form. *)
LEMMA TooBigIsTooBig ==
    ASSUME NEW d \in 0..9, res \in 0..IntMax
    PROVE  TooBig(d) <=> res * 10 + d > IntMax
  <1>1. PICK m \in Nat, q \in Int : m = IntMax /\ q = IntMax \div 10 /\ m = 10 * q + 7
    <2>1. PICK m \in Nat : m = IntMax
      BY NumberConstants
    <2>2. m % 10 = 7
      BY <2>1, NumberConstants
    <2>3. m = 10 * (m \div 10) + (m % 10) /\ m \div 10 \in Int
      OBVIOUS
    <2> QED BY <2>1, <2>2, <2>3
  <1>2. TooBig(d) <=> res > q \/ (res = q /\ d > 7)
    <2>1. (IF parser = "atoi" THEN IntMax % 10 ELSE 7) = 7
      BY NumberConstants
    <2> QED BY <1>1, <2>1 DEF TooBig
  <1> QED BY <1>1, <1>2

(* What fits in an int is not changed by being stored in one. *)
LEMMA FitsInInt ==
    ASSUME NEW n \in Int, n <= IntMax, n >= IntMin PROVE Wrapped(n) = n
  <1>1. PICK m \in Nat : m = IntMax
    BY NumberConstants
  <1>2. IntMin = -m - 1
    BY <1>1 DEF IntMin
  <1>3. PICK b \in Nat : b = 2 * (m + 1)
    BY <1>1
  <1>4. \A x \in 0..b - 1 : x % b = x
    BY <1>3
  <1>5. PICK x \in 0..b - 1 : x = n - IntMin
    BY <1>1, <1>2, <1>3
  <1>6. Wrapped(n) = (x % b) + IntMin
    BY <1>1, <1>3, <1>5 DEF Wrapped
  <1> QED BY <1>2, <1>4, <1>5, <1>6

(* The exact number never comes back into the range. *)
LEMMA ExactGrows ==
    ASSUME NumTypes, NEW ch, NEW e, e = IF Counting(ch) THEN Capped(exact * 10 + ch) ELSE exact
    PROVE  /\ e \in 0..Beyond /\ e >= exact
           /\ e <= IntMax /\ Counting(ch) => e = exact * 10 + ch /\ ch \in 0..9
           /\ Counting(ch) => ch \in Digits /\ (e > IntMax <=> exact * 10 + ch > IntMax)
           /\ exact > 0 => e > 0
           /\ Counting(ch) /\ ch # 0 => e > 0
  <1>1. PICK x \in 0..Beyond : x = exact
    BY DEF NumTypes
  <1>2. CASE Counting(ch)
    <2>1. ch \in Digits /\ ch \in 0..9
      BY <1>2, NumberConstants DEF Counting
    <2>2. e = Capped(x * 10 + ch)
      BY <1>1, <1>2
    <2>3. (x * 10 + ch > Beyond /\ e = Beyond) \/ (x * 10 + ch <= Beyond /\ e = x * 10 + ch)
      BY <2>1, <2>2, NumberConstants DEF Capped
    <2>4. e \in 0..Beyond /\ e >= x
      BY <1>1, <2>1, <2>3, NumberConstants
    <2>5. e <= IntMax => e = x * 10 + ch
      BY <1>1, <2>1, <2>3, NumberConstants
    <2>6. e > IntMax <=> x * 10 + ch > IntMax
      BY <1>1, <2>1, <2>3, NumberConstants
    <2>7. (x > 0 \/ ch # 0) => e > 0
      BY <1>1, <2>1, <2>3, NumberConstants
    <2> QED BY <1>1, <2>1, <2>4, <2>5, <2>6, <2>7
  <1>3. CASE ~Counting(ch)
    BY <1>1, <1>3
  <1> QED BY <1>2, <1>3

(* The grammar, one character further. *)
LEMMA FormTable ==
    ASSUME form \in Forms, NEW ch \in Digits \cup Other, NEW f, f = NextForm(ch)
    PROVE  /\ f \in Forms
           /\ form \in {"empty", "lead"} /\ ch = Space => f = "lead" /\ ~Counting(ch)
           /\ form \in {"empty", "lead"} /\ ch = Minus => f = "minus" /\ ~Counting(ch)
           /\ form \in {"empty", "lead"} /\ ch = Plus => f = "plus" /\ ~Counting(ch)
           /\ ch \notin Digits => f \notin {"zero", "zeros", "number"} /\ ~Counting(ch)
           /\ ch \in Digits /\ form \in {"empty", "lead", "plus", "minus", "minus plus"}
                => Counting(ch) /\ f = IF ch = 0 THEN "zero" ELSE "number"
           /\ ch \in Digits /\ form = "number" => f = "number" /\ Counting(ch)
           /\ ch \in Digits /\ form \in {"zero", "zeros"} => f = "zeros" /\ Counting(ch)
           /\ form \in {"zero", "zeros", "number", "then space"} /\ ch \notin Digits
                => f \in {"then space", "other"}
           /\ form \in {"plus", "minus", "minus plus"} /\ ch \notin Digits
                => f \in {"other", "minus plus"}
           /\ form \in {"plus", "minus plus"} /\ ch \notin Digits => f = "other"
           /\ form = "minus" /\ ch \notin Digits =>
                f = IF ch = Plus /\ parser = "convert" THEN "minus plus" ELSE "other"
           /\ form \in {"then space", "other"} => f \in {"then space", "other"} /\ ~Counting(ch)
           /\ form \in {"empty", "lead"} /\ ch \notin {Space, Plus, Minus} /\ ch \notin Digits
                => f = "other"
  <1> DEFINE lead == form \in {"empty", "lead"}
  <1>1. f = CASE lead /\ ch = Space -> "lead"
              [] lead /\ ch = Minus -> "minus"
              [] lead /\ ch = Plus -> "plus"
              [] form = "minus" /\ ch = Plus /\ parser = "convert" -> "minus plus"
              [] (lead \/ form \in {"plus", "minus", "minus plus"}) /\ ch \in Digits ->
                   IF ch = 0 THEN "zero" ELSE "number"
              [] form = "number" /\ ch \in Digits -> "number"
              [] form \in {"zero", "zeros"} /\ ch \in Digits -> "zeros"
              [] form \in {"zero", "number", "then space"} /\ ch = Space -> "then space"
              [] OTHER -> "other"
    BY DEF NextForm, Leading
  <1>2. ch \in Digits => ch \notin {Space, Plus, Minus}
    BY NumberConstants
  <1>3. Counting(ch) <=> ch \in Digits /\ form \notin {"then space", "other"}
    BY DEF Counting
  <1>4. Space # Plus /\ Space # Minus /\ Plus # Minus
    BY NumberConstants
  <1>5. CASE lead /\ ch = Space
    BY <1>1, <1>2, <1>3, <1>4, <1>5 DEF Forms
  <1>6. CASE lead /\ ch = Minus
    BY <1>1, <1>2, <1>3, <1>4, <1>6 DEF Forms
  <1>7. CASE lead /\ ch = Plus
    BY <1>1, <1>2, <1>3, <1>4, <1>7 DEF Forms
  <1>8. CASE form = "minus" /\ ch = Plus /\ parser = "convert"
    BY <1>1, <1>2, <1>3, <1>4, <1>8 DEF Forms
  <1>9. CASE ch \in Digits
    BY <1>1, <1>2, <1>3, <1>9 DEF Forms
  <1>10. CASE /\ ch \notin Digits /\ ~(lead /\ ch \in {Space, Plus, Minus})
              /\ ~(form = "minus" /\ ch = Plus /\ parser = "convert")
    BY <1>1, <1>3, <1>4, <1>10 DEF Forms
  <1> QED BY <1>5, <1>6, <1>7, <1>8, <1>9, <1>10

(* One character, whatever the parser does with it. *)
LEMMA CharacterTypes ==
    ASSUME NumTypes, NEW ch \in Digits \cup Other, NEW last \in BOOLEAN, Character(ch, last),
           sign' \in {1, -1}
    PROVE  /\ NumTypes' /\ parser' = parser /\ ~ended /\ ended' = last
           /\ exact' \in 0..Beyond /\ exact' >= exact
           /\ exact' <= IntMax /\ Counting(ch) => exact' = exact * 10 + ch /\ ch \in 0..9
           /\ Counting(ch) => ch \in Digits /\ (exact' > IntMax <=> exact * 10 + ch > IntMax)
           /\ ~Counting(ch) => exact' = exact
  <1>1. PICK f, e : f = NextForm(ch) /\ e = IF Counting(ch) THEN Capped(exact * 10 + ch) ELSE exact
    OBVIOUS
  <1>2. /\ form' = f /\ exact' = e /\ ended' = last /\ ~ended /\ parser' = parser
    BY <1>1 DEF Character
  <1>3. /\ e \in 0..Beyond /\ e >= exact
        /\ e <= IntMax /\ Counting(ch) => e = exact * 10 + ch /\ ch \in 0..9
        /\ Counting(ch) => ch \in Digits /\ (e > IntMax <=> exact * 10 + ch > IntMax)
        /\ exact > 0 => e > 0
        /\ Counting(ch) /\ ch # 0 => e > 0
    BY <1>1, ExactGrows
  <1>4. f \in Forms
    BY <1>1, FormTable DEF NumTypes
  <1>5. f = "number" => e > 0
    <2> SUFFICES ASSUME f = "number" PROVE e > 0
      OBVIOUS
    <2>1. form \in Forms
      BY DEF NumTypes
    <2>2. ch \in Digits
      BY <1>1, <2>1, FormTable
    <2>3. form = "number" \/ (ch # 0 /\ Counting(ch))
      BY <1>1, <2>1, <2>2, FormTable DEF Forms
    <2> QED BY <1>3, <2>3 DEF NumTypes
  <1>6. NumTypes'
    <2>1. ended' \in BOOLEAN
      BY <1>2
    <2> QED BY <1>2, <1>3, <1>4, <1>5, <2>1 DEF NumTypes
  <1> QED BY <1>1, <1>2, <1>3, <1>6

(* What myAtoi does with a character. *)
LEMMA AtoiDoes ==
    ASSUME AtoiIsAt, NEW ch \in Digits \cup Other, at # "returned", AtoiReads(ch)
    PROVE  \/ /\ at = "space" /\ ch \in {Space, Plus, Minus}
              /\ at' = IF ch = Space THEN "space" ELSE "digits"
              /\ sign' = IF ch = Minus THEN -1 ELSE sign
              /\ res' = res
           \/ /\ ch \in Digits /\ res * 10 + ch > IntMax
              /\ at' = "returned" /\ value' = <<IF sign = 1 THEN IntMax ELSE IntMin>>
              /\ sign' = sign /\ res' = res
           \/ /\ ch \in Digits /\ ~(res * 10 + ch > IntMax)
              /\ at' = "digits" /\ sign' = sign /\ res' = res * 10 + ch
           \/ /\ ch \notin Digits /\ (at = "space" => ch \notin {Space, Plus, Minus})
              /\ at' = "returned" /\ value' = <<sign * res>> /\ sign' = sign /\ res' = res
  <1>1. res \in 0..IntMax
    BY DEF AtoiIsAt
  <1>2. ch \in Digits => (ch \in 0..9 /\ (TooBig(ch) <=> res * 10 + ch > IntMax))
    BY <1>1, TooBigIsTooBig, NumberConstants
  <1>3. ch \in Digits => ch \notin {Space, Plus, Minus}
    BY NumberConstants
  <1>4. CASE at = "space" /\ ch \in {Space, Plus, Minus}
    BY <1>4, NumberConstants DEF AtoiReads, Go
  <1>5. CASE ch \in Digits
    <2>1. CASE TooBig(ch)
      BY <1>2, <1>3, <1>5, <2>1 DEF AtoiReads, Return
    <2>2. CASE ~TooBig(ch)
      BY <1>2, <1>3, <1>5, <2>2 DEF AtoiReads
    <2> QED BY <2>1, <2>2
  <1>6. CASE ch \notin Digits /\ ~(at = "space" /\ ch \in {Space, Plus, Minus})
    BY <1>6 DEF AtoiReads, Return
  <1> QED BY <1>4, <1>5, <1>6

LEMMA AtoiKeeps ==
    ASSUME NumInv, parser # "convert", NEW ch \in Digits \cup Other, NEW last \in BOOLEAN,
           Character(ch, last)
    PROVE  NumInv'
  <1>1. NumTypes /\ AtoiIsAt
    BY DEF NumInv
  <1>2. PICK e : e = exact /\ e \in 0..Beyond
    BY <1>1 DEF NumTypes
  <1>3. Reads(ch, last) /\ form' = NextForm(ch)
    BY DEF Character
  <1>4. form \in Forms /\ sign \in {1, -1}
    BY <1>1 DEF NumTypes
  <1>5. CASE at = "returned"
    <2>1. at' = "returned" /\ sign' = sign /\ res' = res /\ value' = value
      BY <1>3, <1>5 DEF Reads
    <2>2. /\ NumTypes' /\ parser' = parser /\ ~ended
          /\ exact' \in 0..Beyond /\ exact' >= exact /\ (~Counting(ch) => exact' = exact)
      BY <1>1, <1>4, <2>1, CharacterTypes
    <2>3. CASE value = <<sign * exact>> /\ exact <= IntMax /\ form \in {"then space", "other"}
      <3>1. form' \in {"then space", "other"} /\ exact' = exact
        BY <1>3, <1>4, <2>2, <2>3, FormTable
      <3>2. AtoiIsAt'
        BY <1>1, <2>1, <2>3, <3>1 DEF AtoiIsAt
      <3> QED BY <2>2, <3>2 DEF NumInv
    <2>4. CASE value = <<IF sign = 1 THEN IntMax ELSE IntMin>> /\ exact > IntMax
      <3>1. exact' > IntMax
        BY <1>2, <2>2, <2>4, NumberConstants
      <3>2. value' = <<IF sign' = 1 THEN IntMax ELSE IntMin>>
        BY <2>1, <2>4
      <3>3. AtoiIsAt'
        BY <1>1, <2>1, <3>1, <3>2 DEF AtoiIsAt
      <3> QED BY <2>2, <3>3 DEF NumInv
    <2> QED BY <1>1, <1>5, <2>2, <2>3, <2>4 DEF AtoiIsAt
  <1>6. CASE at # "returned"
    <2>1. AtoiReads(ch)
      BY <1>3, <1>6 DEF Reads
    <2>2. sign' \in {1, -1}
      BY <1>1, <1>4, <1>6, <2>1, AtoiDoes
    <2>3. /\ NumTypes' /\ parser' = parser /\ ~ended /\ ended' = last
          /\ exact' \in 0..Beyond /\ exact' >= exact
          /\ exact' <= IntMax /\ Counting(ch) => exact' = exact * 10 + ch /\ ch \in 0..9
          /\ Counting(ch) => ch \in Digits /\ (exact' > IntMax <=> exact * 10 + ch > IntMax)
          /\ ~Counting(ch) => exact' = exact
      BY <1>1, <2>2, CharacterTypes
    <2>4. /\ res = exact /\ exact <= IntMax /\ exact \in 0..IntMax
          /\ form \in {"empty", "lead", "plus", "minus", "zero", "zeros", "number"}
          /\ at = "space" \/ at = "digits"
      <3>1. CASE at = "space"
        <4>1. form \in {"empty", "lead"} /\ exact = 0 /\ res = 0
          BY <1>1, <3>1 DEF AtoiIsAt
        <4> QED BY <3>1, <4>1, NumberConstants
      <3>2. CASE at = "digits"
        <4>1. form \in {"plus", "minus", "zero", "zeros", "number"} /\ res = exact /\ res \in 0..IntMax
          BY <1>1, <3>2 DEF AtoiIsAt
        <4> QED BY <3>2, <4>1, NumberConstants
      <3> QED BY <1>1, <1>6, <3>1, <3>2 DEF AtoiIsAt
    <2>5. ASSUME at = "space", ch \in {Space, Plus, Minus},
                 at' = IF ch = Space THEN "space" ELSE "digits",
                 sign' = IF ch = Minus THEN -1 ELSE sign, res' = res
          PROVE  AtoiIsAt'
      <3>1. form \in {"empty", "lead"} /\ exact = 0 /\ res = 0 /\ sign = 1
        BY <1>1, <2>5 DEF AtoiIsAt
      <3>2. /\ form' = IF ch = Space THEN "lead" ELSE IF ch = Minus THEN "minus" ELSE "plus"
            /\ ~Counting(ch)
        BY <1>3, <1>4, <2>5, <3>1, FormTable, NumberConstants
      <3>3. exact' = 0 /\ res' = 0
        BY <2>3, <2>5, <3>1, <3>2
      <3>4. ch = Space => sign' = 1
        BY <2>5, <3>1, NumberConstants
      <3> QED BY <2>5, <3>2, <3>3, <3>4, NumberConstants DEF AtoiIsAt
    <2>6. ASSUME ch \in Digits
          PROVE  Counting(ch) /\ form' \in {"zero", "zeros", "number"}
      BY <1>3, <1>4, <2>4, <2>6, FormTable
    <2>7. ASSUME ch \in Digits, res * 10 + ch > IntMax,
                 at' = "returned", value' = <<IF sign = 1 THEN IntMax ELSE IntMin>>,
                 sign' = sign, res' = res
          PROVE  AtoiIsAt'
      <3>1. exact' > IntMax
        BY <2>3, <2>4, <2>6, <2>7
      <3>2. value' = <<IF sign' = 1 THEN IntMax ELSE IntMin>> /\ res' \in 0..IntMax
        BY <2>4, <2>7
      <3> QED BY <2>7, <3>1, <3>2 DEF AtoiIsAt
    <2>8. ASSUME ch \in Digits, ~(res * 10 + ch > IntMax),
                 at' = "digits", sign' = sign, res' = res * 10 + ch
          PROVE  AtoiIsAt'
      <3>1. ch \in 0..9
        BY <2>8, NumberConstants
      <3>2. exact' <= IntMax
        BY <2>3, <2>4, <2>6, <2>8, NumberConstants
      <3>3. exact' = exact * 10 + ch
        BY <2>3, <2>6, <2>8, <3>2
      <3>4. res' = exact' /\ res' \in 0..IntMax
        BY <2>3, <2>4, <2>8, <3>2, <3>3, NumberConstants
      <3> QED BY <2>6, <2>8, <3>4 DEF AtoiIsAt
    <2>9. ASSUME ch \notin Digits, at = "space" => ch \notin {Space, Plus, Minus},
                 at' = "returned", value' = <<sign * res>>, sign' = sign, res' = res
          PROVE  AtoiIsAt'
      <3>1. at = "space" => form \in {"empty", "lead"}
        BY <1>1 DEF AtoiIsAt
      <3>2. at = "digits" => form \in {"plus", "minus", "zero", "zeros", "number"}
        BY <1>1 DEF AtoiIsAt
      <3>3. form' \in {"then space", "other"} /\ ~Counting(ch)
        BY <1>3, <1>4, <2>4, <2>9, <3>1, <3>2, FormTable
      <3>4. exact' = exact
        BY <2>3, <3>3
      <3>5. value' = <<sign' * exact'>> /\ exact' <= IntMax /\ res' \in 0..IntMax
        BY <2>4, <2>9, <3>4
      <3> QED BY <2>9, <3>3, <3>5 DEF AtoiIsAt
    <2>10. AtoiIsAt'
      BY <1>1, <1>6, <2>1, <2>5, <2>7, <2>8, <2>9, AtoiDoes
    <2> QED BY <2>3, <2>10 DEF NumInv
  <1> QED BY <1>5, <1>6

(* What convert does with a character, as long as the digits make an int. *)
LEMMA ConvertDoes ==
    ASSUME ConvertIsAt, NEW ch \in Digits \cup Other, NEW last \in BOOLEAN,
           at # "returned", ConvertReads(ch, last),
           sign \in {1, -1}, exact \in Nat, NEW sum \in Nat, ch \in Digits => sum = exact * 10 + ch,
           sum <= IntMax
    PROVE  \/ /\ at = "space" /\ ch = Space /\ ~last
              /\ at' = "space" /\ sign' = sign /\ res' = res
           \/ /\ at = "space" /\ ch = Minus /\ ~last
              /\ at' = "signed" /\ sign' = -1 /\ res' = res
           \/ /\ at \in {"space", "signed"} /\ ch = Plus /\ ~last
              /\ at' = "plus" /\ sign' = sign /\ res' = res
           \/ /\ ch \in Digits /\ ~last /\ sum < Limit /\ (at # "digits" => ch # 0)
              /\ at' = "digits" /\ sign' = sign /\ res' = sum
           \/ /\ ch \in Digits /\ last /\ sum <= Limit
              /\ at' = "returned" /\ sign' = sign /\ value' = <<sign * sum>>
           \/ /\ ch \in Digits /\ at' = "returned" /\ sign' = sign /\ value' = <<NullOpt>>
              /\ sum > Limit \/ (sum = Limit /\ ~last) \/ (at # "digits" /\ ch = 0 /\ ~last)
           \/ /\ ch \notin Digits /\ at' = "returned" /\ sign' = sign /\ value' = <<NullOpt>>
              /\ \/ last
                 \/ /\ at = "space" => ch \notin {Space, Minus, Plus}
                    /\ at = "signed" => ch # Plus
  <1>1. at \in {"space", "signed", "plus", "digits"} /\ res = exact
    BY DEF ConvertIsAt
  <1>2. ch \in Digits => ch \notin {Space, Plus, Minus}
    BY NumberConstants
  <1>3. CASE ch \in Digits
    <2>1. Wrapped(res * 10 + ch) = sum
      <3>1. res * 10 + ch = sum /\ sum >= IntMin
        BY <1>1, <1>3, NumberConstants DEF IntMin
      <3> QED BY <3>1, FitsInInt
    <2>2. Wrapped(sign * sum) = sign * sum
      <3>1. PICK n \in Int : n = sign * sum /\ n <= IntMax /\ n >= IntMin
        BY NumberConstants DEF IntMin
      <3> QED BY <3>1, FitsInInt
    <2>3. PICK bad : bad = \/ at # "digits" /\ ch = 0 /\ ~last
                           \/ sum = Limit /\ ~last
                           \/ sum > Limit
      OBVIOUS
    <2>4. \/ /\ bad /\ Return(NullOpt)
          \/ /\ ~bad /\ last /\ Return(sign * sum)
          \/ /\ ~bad /\ ~last /\ at' = "digits" /\ res' = sum /\ sign' = sign
      BY <1>1, <1>2, <1>3, <2>1, <2>2, <2>3 DEF ConvertReads
    <2>5. ~bad => sum <= Limit /\ (~last => sum < Limit)
      BY <2>3, NumberConstants
    <2> QED BY <1>3, <2>3, <2>4, <2>5 DEF Return
  <1>4. CASE ch \notin Digits
    <2>1. CASE at = "space" /\ ch = Space
      BY <1>4, <2>1 DEF ConvertReads, Return, Go
    <2>2. CASE at = "space" /\ ch = Minus
      BY <1>4, <2>2, NumberConstants DEF ConvertReads, Return
    <2>3. CASE at \in {"space", "signed"} /\ ch = Plus
      BY <1>4, <2>3, NumberConstants DEF ConvertReads, Return, Go
    <2>4. CASE ~(at = "space" /\ ch \in {Space, Minus}) /\ ~(at \in {"space", "signed"} /\ ch = Plus)
      BY <1>1, <1>4, <2>4 DEF ConvertReads, Return
    <2> QED BY <2>1, <2>2, <2>3, <2>4
  <1> QED BY <1>3, <1>4

LEMMA SignStays ==
    ASSUME NumTypes, parser = "convert", NEW ch, NEW last, Character(ch, last)
    PROVE  sign' \in {1, -1}
  <1>1. sign \in {1, -1}
    BY DEF NumTypes
  <1>2. at = "returned" => sign' = sign
    BY DEF Character, Reads
  <1>3. at # "returned" => ConvertReads(ch, last)
    BY DEF Character, Reads
  <1>4. ConvertReads(ch, last) => sign' = sign \/ sign' = -1
    <2> DEFINE sum == Wrapped(res * 10 + ch)
               first == at # "digits"
    <2>1. ASSUME NEW v, Return(v) PROVE sign' = sign
      BY <2>1 DEF Return
    <2>2. ASSUME NEW v, Go(v) PROVE sign' = sign
      BY <2>2 DEF Go
    <2> QED BY <2>1, <2>2 DEF ConvertReads
  <1> QED BY <1>1, <1>2, <1>3, <1>4

LEMMA ConvertKeeps ==
    ASSUME NumInv, parser = "convert", NEW ch \in Digits \cup Other, NEW last \in BOOLEAN,
           Character(ch, last)
    PROVE  NumInv'
  <1>1. NumTypes
    BY DEF NumInv
  <1>2. /\ NumTypes' /\ parser' = parser /\ ~ended /\ ended' = last
        /\ exact' \in 0..Beyond /\ exact' >= exact
        /\ exact' <= IntMax /\ Counting(ch) => exact' = exact * 10 + ch /\ ch \in 0..9
        /\ ~Counting(ch) => exact' = exact
    BY <1>1, SignStays, CharacterTypes
  <1>3. /\ form \in Forms /\ sign \in {1, -1} /\ exact \in Nat /\ exact' \in Nat
        /\ form = "number" => exact > 0
        /\ form' = "number" => exact' > 0
    BY <1>1, <1>2 DEF NumTypes
  <1>4. Reads(ch, last) /\ form' = NextForm(ch)
    BY DEF Character
  <1>5. SUFFICES ASSUME exact' <= IntMax PROVE ConvertIsAt'
    BY <1>2 DEF NumInv
  <1>6. ConvertIsAt
    <2>1. exact <= IntMax
      BY <1>2, <1>3, <1>5, NumberConstants
    <2> QED BY <2>1 DEF NumInv
  <1>7. CASE at = "returned"
    <2>1. at' = "returned" /\ value' = value /\ res' = res
      BY <1>4, <1>7 DEF Reads
    <2>2. value = <<NullOpt>> /\ Refused
      BY <1>2, <1>6, <1>7 DEF ConvertIsAt
    <2>3. Refused' /\ ~Accepted'
      <3>1. CASE exact > Limit
        <4>1. exact' > Limit
          BY <1>2, <1>3, <3>1, NumberConstants
        <4>2. ~(exact' <= Limit)
          BY <1>3, <4>1, NumberConstants
        <4> QED BY <4>1, <4>2, Zenon DEF Refused, Accepted, Numeral
      <3>2. CASE form \in {"zero", "zeros", "then space", "other"}
        <4>1. form' \in {"zeros", "then space", "other"}
          BY <1>3, <1>4, <3>2, FormTable
        <4> QED BY <4>1 DEF Refused, Accepted, Numeral
      <3>3. CASE form = "number" /\ exact = Limit
        <4>1. CASE ch \in Digits
          <5>1. Counting(ch)
            BY <1>3, <1>4, <3>3, <4>1, FormTable
          <5>2. exact' > Limit
            BY <1>2, <1>3, <1>5, <3>3, <5>1, NumberConstants
          <5>3. ~(exact' <= Limit)
            BY <1>3, <5>2, NumberConstants
          <5> QED BY <5>2, <5>3, Zenon DEF Refused, Accepted, Numeral
        <4>2. CASE ch \notin Digits
          <5>1. form' \in {"then space", "other"}
            BY <1>3, <1>4, <3>3, <4>2, FormTable
          <5> QED BY <5>1 DEF Refused, Accepted, Numeral
        <4> QED BY <4>1, <4>2
      <3> QED BY <2>2, <3>1, <3>2, <3>3 DEF Refused
    <2> QED BY <2>1, <2>2, <2>3 DEF ConvertIsAt
  <1>8. CASE at # "returned"
    <2>1. ConvertReads(ch, last)
      BY <1>4, <1>8 DEF Reads
    <2>2. /\ at \in {"space", "signed", "plus", "digits"} /\ res = exact
          /\ at = "space" => form \in {"empty", "lead"} /\ exact = 0 /\ sign = 1
          /\ at = "signed" => form = "minus" /\ exact = 0
          /\ at = "plus" => form \in {"plus", "minus plus"} /\ exact = 0
          /\ at = "digits" => form = "number" /\ exact < Limit /\ exact > 0
      BY <1>6, <1>8 DEF ConvertIsAt
    <2>3. ch \in Digits =>
            /\ Counting(ch) /\ form' \in {"zero", "number"}
            /\ ch = 0 /\ at # "digits" => form' = "zero"
            /\ ch # 0 => form' = "number"
            /\ at = "digits" => form' = "number"
      <3>1. ASSUME ch \in Digits, at # "digits"
            PROVE  Counting(ch) /\ form' = IF ch = 0 THEN "zero" ELSE "number"
        BY <1>3, <1>4, <2>2, <3>1, FormTable
      <3>2. ASSUME ch \in Digits, at = "digits" PROVE Counting(ch) /\ form' = "number"
        BY <1>3, <1>4, <2>2, <3>2, FormTable
      <3> QED BY <3>1, <3>2
    <2>4. ch \notin Digits => form' \notin {"zero", "number"} /\ exact' = exact
      BY <1>2, <1>3, <1>4, FormTable
    <2>5. PICK sum \in Nat : sum = exact'
      BY <1>3
    <2>6. ch \in Digits => sum = exact * 10 + ch
      BY <1>2, <1>5, <2>3, <2>5
    <2>7. ASSUME at = "space", ch = Space, ~last, at' = "space", sign' = sign, res' = res
          PROVE  ConvertIsAt'
      <3>1. form' = "lead" /\ ch \notin Digits
        BY <1>3, <1>4, <2>2, <2>7, FormTable, NumberConstants
      <3> QED BY <1>2, <2>2, <2>4, <2>7, <3>1 DEF ConvertIsAt
    <2>8. ASSUME at = "space", ch = Minus, ~last, at' = "signed", sign' = -1, res' = res
          PROVE  ConvertIsAt'
      <3>1. form' = "minus" /\ ch \notin Digits
        BY <1>3, <1>4, <2>2, <2>8, FormTable, NumberConstants
      <3> QED BY <1>2, <2>2, <2>4, <2>8, <3>1 DEF ConvertIsAt
    <2>9. ASSUME at \in {"space", "signed"}, ch = Plus, ~last,
                 at' = "plus", sign' = sign, res' = res
          PROVE  ConvertIsAt'
      <3>1. ch \notin Digits
        BY <2>9, NumberConstants
      <3>2. form' \in {"plus", "minus plus"}
        BY <1>3, <1>4, <2>2, <2>9, <3>1, FormTable
      <3> QED BY <1>2, <2>2, <2>4, <2>9, <3>1, <3>2 DEF ConvertIsAt
    <2>10. ASSUME ch \in Digits, ~last, sum < Limit, at # "digits" => ch # 0,
                  at' = "digits", sign' = sign, res' = sum
           PROVE  ConvertIsAt'
      <3>1. form' = "number"
        BY <2>3, <2>10
      <3> QED BY <1>2, <1>3, <2>5, <2>10, <3>1 DEF ConvertIsAt
    <2>11. ASSUME ch \in Digits, last, sum <= Limit,
                  at' = "returned", sign' = sign, value' = <<sign * sum>>
           PROVE  ConvertIsAt'
      <3>1. Accepted' /\ value' = <<sign' * exact'>>
        BY <2>3, <2>5, <2>11 DEF Accepted, Numeral
      <3> QED BY <1>2, <2>11, <3>1 DEF ConvertIsAt
    <2>12. ASSUME ch \in Digits, at' = "returned", sign' = sign, value' = <<NullOpt>>,
                  sum > Limit \/ (sum = Limit /\ ~last) \/ (at # "digits" /\ ch = 0 /\ ~last)
           PROVE  ConvertIsAt'
      <3>1. Refused'
        BY <2>3, <2>5, <2>12 DEF Refused
      <3>2. last => ~Accepted'
        BY <2>5, <2>12, NumberConstants DEF Accepted, Numeral
      <3> QED BY <1>2, <2>12, <3>1, <3>2 DEF ConvertIsAt
    <2>13. ASSUME ch \notin Digits, at' = "returned", sign' = sign, value' = <<NullOpt>>,
                  \/ last
                  \/ /\ at = "space" => ch \notin {Space, Minus, Plus}
                     /\ at = "signed" => ch # Plus
           PROVE  ConvertIsAt'
      <3>1. ~Accepted'
        BY <2>4, <2>13 DEF Accepted, Numeral
      <3>2. ASSUME ~last PROVE Refused'
        <4>1. at = "space" => form' = "other"
          BY <1>3, <1>4, <2>2, <2>13, <3>2, FormTable
        <4>2. at = "signed" => form' = "other"
          BY <1>3, <1>4, <2>2, <2>13, <3>2, FormTable
        <4>3. at = "plus" => form' = "other"
          BY <1>3, <1>4, <2>2, <2>13, FormTable
        <4>4. at = "digits" => form' \in {"then space", "other"}
          BY <1>3, <1>4, <2>2, <2>13, FormTable
        <4> QED BY <2>2, <4>1, <4>2, <4>3, <4>4 DEF Refused
      <3> QED BY <1>2, <2>13, <3>1, <3>2 DEF ConvertIsAt
    <2>14. sum <= IntMax
      BY <1>5, <2>5
    <2> QED BY <1>3, <1>6, <1>8, <2>1, <2>6, <2>7, <2>8, <2>9, <2>10, <2>11, <2>12, <2>13,
               <2>14, ConvertDoes
  <1> QED BY <1>7, <1>8

LEMMA EndKeeps ==
    ASSUME NumInv, EndOfString PROVE NumInv'
  <1>1. /\ form = "empty" \/ ended
        /\ at # "returned" /\ at' = "returned" /\ ended' = TRUE
        /\ sign' = sign /\ res' = res /\ parser' = parser /\ form' = form /\ exact' = exact
        /\ value' = <<IF parser = "convert" THEN NullOpt ELSE sign * res>>
    BY DEF EndOfString, AtEnd, Return
  <1>2. NumTypes'
    BY <1>1 DEF NumInv, NumTypes
  <1>3. ASSUME parser # "convert" PROVE AtoiIsAt'
    <2>1. AtoiIsAt
      BY <1>3 DEF NumInv
    <2>2. res = exact /\ res \in 0..IntMax
      BY <1>1, <2>1 DEF AtoiIsAt
    <2>3. value' = <<sign' * exact'>> /\ exact' <= IntMax
      BY <1>1, <1>3, <2>2, NumberConstants
    <2> QED BY <1>1, <2>2, <2>3 DEF AtoiIsAt
  <1>4. ASSUME parser = "convert", exact <= IntMax PROVE ConvertIsAt'
    <2>1. ConvertIsAt
      BY <1>4 DEF NumInv
    <2>2. form = "empty"
      BY <1>1, <2>1 DEF ConvertIsAt
    <2>3. ~Accepted'
      BY <1>1, <2>2 DEF Accepted, Numeral
    <2> QED BY <1>1, <1>4, <2>3 DEF ConvertIsAt
  <1> QED BY <1>1, <1>2, <1>3, <1>4 DEF NumInv

LEMMA NumbersIdle == NumInv /\ UNCHANGED numVars => NumInv'
  <1> SUFFICES ASSUME NumInv, UNCHANGED numVars PROVE NumInv'
    OBVIOUS
  <1>1. /\ parser' = parser /\ at' = at /\ sign' = sign /\ res' = res /\ value' = value
        /\ form' = form /\ exact' = exact /\ ended' = ended
    BY DEF numVars
  <1>2. NumTypes'
    BY <1>1 DEF NumInv, NumTypes
  <1>3. AtoiIsAt => AtoiIsAt'
    BY <1>1 DEF AtoiIsAt
  <1>4. ConvertIsAt => ConvertIsAt'
    <2>1. Accepted' <=> Accepted
      BY <1>1 DEF Accepted, Numeral
    <2>2. Refused' <=> Refused
      BY <1>1 DEF Refused
    <2> QED BY <1>1, <2>1, <2>2 DEF ConvertIsAt
  <1> QED BY <1>1, <1>2, <1>3, <1>4 DEF NumInv

LEMMA NumbersBegin == NumbersInit => NumInv
  <1> SUFFICES ASSUME NumbersInit PROVE NumInv
    OBVIOUS
  <1>1. at = "space" /\ sign = 1 /\ res = 0 /\ form = "empty" /\ exact = 0 /\ ended = FALSE
    BY DEF NumbersInit
  <1>2. 0 \in 0..IntMax /\ 0 \in 0..Beyond
    BY NumberConstants
  <1>3. NumTypes
    BY <1>1, <1>2 DEF NumTypes, Forms
  <1>4. AtoiIsAt
    BY <1>1, <1>2 DEF AtoiIsAt
  <1>5. ConvertIsAt
    BY <1>1 DEF ConvertIsAt
  <1> QED BY <1>3, <1>4, <1>5 DEF NumInv

LEMMA NumbersParse == NumInv => ParsedRight
  <1> SUFFICES ASSUME NumInv PROVE ParsedRight
    OBVIOUS
  <1>1. PICK m \in Nat, e \in Nat : m = IntMax /\ e = exact /\ IntMin = -m - 1
    BY NumberConstants DEF NumInv, NumTypes, IntMin
  <1>2. sign = 1 \/ sign = -1
    BY DEF NumInv, NumTypes
  <1>3. parser # "convert" => res \in 0..IntMax
    BY DEF NumInv, AtoiIsAt
  <1>4. ASSUME ended, at = "returned", parser # "convert" PROVE value = <<Clamp(sign * exact)>>
    <2>1. CASE value = <<sign * exact>> /\ exact <= IntMax
      <3>1. ~(sign * exact > IntMax) /\ ~(sign * exact < IntMin)
        BY <1>1, <1>2, <2>1
      <3> QED BY <2>1, <3>1 DEF Clamp
    <2>2. CASE value = <<IF sign = 1 THEN IntMax ELSE IntMin>> /\ exact > IntMax
      <3>1. CASE sign = 1
        <4>1. sign * exact > IntMax
          BY <1>1, <2>2, <3>1
        <4> QED BY <2>2, <3>1, <4>1 DEF Clamp
      <3>2. CASE sign = -1
        <4>1. ~(sign * exact > IntMax) /\ (sign * exact < IntMin \/ sign * exact = IntMin)
          BY <1>1, <2>2, <3>2
        <4>2. Clamp(sign * exact) = IntMin
          BY <4>1 DEF Clamp
        <4> QED BY <2>2, <3>2, <4>2
      <3> QED BY <1>2, <3>1, <3>2
    <2> QED BY <1>4, <2>1, <2>2 DEF NumInv, AtoiIsAt
  <1>5. ASSUME ended, at = "returned", parser = "convert", exact <= IntMax
        PROVE  value = <<IF Accepted THEN sign * exact ELSE NullOpt>>
    BY <1>5 DEF NumInv, ConvertIsAt
  <1> QED BY <1>3, <1>4, <1>5 DEF ParsedRight, Accepted

(* myAtoi returns the number at the head of any text, brought into the range  *)
(* of an int of any width whose last digit is 7, and convert gives a number   *)
(* within its limit its value and, spaces behind and a second sign apart,     *)
(* refuses anything else whose digits make an int, for texts of any length.   *)
THEOREM TextIsParsed == NumbersSpec => []ParsedRight
  <1>1. NumInv /\ [NumbersNext]_numVars => NumInv'
    <2> SUFFICES ASSUME NumInv, [NumbersNext]_numVars PROVE NumInv'
      OBVIOUS
    <2>1. ASSUME NEW ch \in Digits \cup Other, NEW last \in BOOLEAN, Character(ch, last)
          PROVE  NumInv'
      BY <2>1, AtoiKeeps, ConvertKeeps
    <2> QED BY <2>1, EndKeeps, NumbersIdle DEF NumbersNext
  <1> QED BY NumbersBegin, <1>1, NumbersParse, PTL DEF NumbersSpec
(* Every nonempty set of numbers has a least one. *)
LEMMA LeastNumber ==
    ASSUME NEW S \in SUBSET Nat, S # {}
    PROVE  \E n \in S : \A m \in S : n =< m
  <1>1. IsWellFoundedOn(OpToRel(<, Nat), Nat)
    BY NatLessThanWellFounded
  <1>2. PICK n \in S : \A m \in S : <<m, n>> \notin OpToRel(<, Nat)
    BY <1>1, WFMin
  <1>3. ASSUME NEW m \in S PROVE ~(m < n)
    BY <1>2 DEF OpToRel
  <1> QED BY <1>3
------------------------------------------------------------------------------
(***************************************************************************)
(* The order books.  The connector's has the levels ever listed to it, those *)
(* the exchange has not changed since with its quantity; the synthetic one   *)
(* has a level at every price there ever was, so its best are the extremes.  *)
(***************************************************************************)
BookSpec == BookInit /\ [][BookNext]_bookVars

AsListed ==
  /\ exch \in [Ladder -> Nat] /\ Uncrossed(OnBook(exch))
  /\ levels = [l \in DOMAIN levels |-> levels[l]]
  /\ DOMAIN levels = shown /\ shown \subseteq Ladder /\ sure \subseteq shown
  /\ \A l \in sure : exch[l] # 0 /\ levels[l] = exch[l]
  /\ event # <<>> => event = Best(levels) /\ TwoSided(shown) /\ Listed(exch) \subseteq sure

Extremes ==
  /\ px \in Int /\ high \in Int /\ low \in Int /\ moves \in Nat
  /\ moves = 0 => DOMAIN levels = {} /\ event = <<>>
  /\ moves # 0 =>
       /\ high - TickSize \in BidPrices(DOMAIN levels)
       /\ \A p \in BidPrices(DOMAIN levels) : p \in Int /\ p <= high - TickSize
       /\ low + TickSize \in AskPrices(DOMAIN levels)
       /\ \A p \in AskPrices(DOMAIN levels) : p \in Int /\ p >= low + TickSize
  /\ event # <<>> => event[1].ask - event[1].bid = 2 * TickSize - (high - low)

BookInv ==
  /\ feeder \in {"binance", "synthetic"}
  /\ feeder = "binance" => AsListed
  /\ feeder = "synthetic" => Extremes

(* And every nonempty finite set of numbers a greatest. *)
LEMMA GreatestNumber ==
    ASSUME NEW S \in SUBSET Nat, S # {}, IsFiniteSet(S)
    PROVE  Max(S) \in S /\ \A x \in S : x <= Max(S)
  <1> DEFINE Least(T) == \E m \in T : \A x \in T : x <= m
             Bad(T) == IsFiniteSet(T) /\ T # {} /\ ~Least(T)
             Sizes == {k \in Nat : \E T \in SUBSET Nat : Bad(T) /\ Cardinality(T) = k}
  <1>1. Sizes = {}
    <2> SUFFICES ASSUME Sizes # {} PROVE FALSE
      OBVIOUS
    <2>1. PICK k \in Sizes : \A j \in Sizes : k =< j
      <3>1. Sizes \in SUBSET Nat
        OBVIOUS
      <3> HIDE DEF Sizes
      <3> QED BY <3>1, LeastNumber
    <2>2. PICK T \in SUBSET Nat : Bad(T) /\ Cardinality(T) = k
      OBVIOUS
    <2>3. PICK x \in T : TRUE
      BY <2>2
    <2>4. /\ T \ {x} \in SUBSET Nat /\ IsFiniteSet(T \ {x})
          /\ Cardinality(T \ {x}) = k - 1 /\ Cardinality(T \ {x}) \in Nat
      BY <2>2, <2>3, FS_RemoveElement, FS_CardinalityType
    <2>5. T \ {x} = {} => Least(T)
      BY <2>2, <2>3
    <2>6. T \ {x} # {}
      BY <2>2, <2>5
    <2>7. ~Bad(T \ {x})
      <3>1. ~(k =< k - 1) /\ k \in Nat
        BY <2>1
      <3>2. Bad(T \ {x}) => k - 1 \in Sizes
        BY <2>4
      <3> HIDE DEF Sizes, Bad
      <3> QED BY <2>1, <3>1, <3>2
    <2>8. PICK m \in T \ {x} : \A y \in T \ {x} : y <= m
      BY <2>4, <2>6, <2>7
    <2>9. m \in Nat /\ x \in Nat
      BY <2>2, <2>3, <2>8
    <2>10. CASE x <= m
      BY <2>2, <2>8, <2>10
    <2>11. CASE m <= x
      <3>1. \A y \in T \ {x} : y \in Nat /\ y <= x
        BY <2>2, <2>8, <2>9, <2>11
      <3> QED BY <2>2, <2>3, <2>9, <3>1
    <2> QED BY <2>9, <2>10, <2>11
  <1>2. ~Bad(S)
    <2>1. Cardinality(S) \in Nat
      BY FS_CardinalityType
    <2> HIDE DEF Bad
    <2> QED BY <1>1, <2>1
  <1>3. Least(S)
    BY <1>2
  <1> QED BY <1>3 DEF Max

(* The least element of a set of numbers is what Min says. *)
LEMMA SmallestNumber ==
    ASSUME NEW S \in SUBSET Nat, S # {}
    PROVE  Min(S) \in S /\ \A x \in S : Min(S) <= x
  <1>1. \E m \in S : \A x \in S : m =< x
    BY LeastNumber
  <1> QED BY <1>1, Zenon DEF Min

(* The greatest and the least of a set are where they are found. *)
LEMMA MaxIs ==
    ASSUME NEW S \in SUBSET Int, NEW m \in S, \A x \in S : x <= m PROVE Max(S) = m
  <1>1. PICK g : g = Max(S)
    OBVIOUS
  <1>2. g \in S /\ \A x \in S : g >= x
    <2>1. \E h \in S : \A x \in S : h >= x
      OBVIOUS
    <2> QED BY <1>1, <2>1, Zenon DEF Max
  <1>3. g \in Int /\ m \in Int /\ m <= g /\ g <= m
    BY <1>2
  <1> QED BY <1>1, <1>3

LEMMA MinIs ==
    ASSUME NEW S \in SUBSET Int, NEW m \in S, \A x \in S : x >= m PROVE Min(S) = m
  <1>1. PICK g : g = Min(S)
    OBVIOUS
  <1>2. g \in S /\ \A x \in S : g =< x
    <2>1. \E h \in S : \A x \in S : h =< x
      OBVIOUS
    <2> QED BY <1>1, <2>1, Zenon DEF Min
  <1>3. g \in Int /\ m \in Int /\ m <= g /\ g <= m
    BY <1>2
  <1> QED BY <1>1, <1>3

------------------------------------------------------------------------------
LEMMA AppliedIs ==
    ASSUME NEW D, NEW d, DOMAIN d = D
    PROVE  /\ Applied(d) = [l \in DOMAIN Applied(d) |-> Applied(d)[l]]
           /\ \A l \in D : IF d[l] = 0 THEN l \notin DOMAIN Applied(d)
                           ELSE l \in DOMAIN Applied(d) /\ Applied(d)[l] = d[l]
           /\ \A l : l \notin D => (l \in DOMAIN Applied(d) <=> l \in DOMAIN levels)
           /\ \A l \in DOMAIN levels : l \notin D => Applied(d)[l] = levels[l]
  <1> DEFINE gone == {l \in D : d[l] = 0}
  <1>1. Applied(d) = [l \in (DOMAIN levels \cup D) \ gone |-> IF l \in D THEN d[l] ELSE levels[l]]
    BY DEF Applied
  <1>2. DOMAIN Applied(d) = (DOMAIN levels \cup D) \ gone
    BY <1>1
  <1> QED BY <1>1, <1>2

LEMMA BookBegins == BookInit => BookInv
  <1> SUFFICES ASSUME BookInit PROVE BookInv
    OBVIOUS
  <1>1. /\ feeder \in {"binance", "synthetic"} /\ levels = [l \in {} |-> 0] /\ DOMAIN levels = {}
        /\ shown = {} /\ sure = {} /\ event = <<>> /\ moves = 0 /\ px = 0 /\ high = 0 /\ low = 0
    BY DEF BookInit
  <1>2. ASSUME feeder = "binance" PROVE AsListed
    <2>1. exch \in [Ladder -> {0, Max(Qtys)}] /\ Uncrossed(OnBook(exch))
      BY <1>2 DEF BookInit
    <2>2. Max(Qtys) \in Nat
      BY DepthBookAssumption, GreatestNumber
    <2>3. exch \in [Ladder -> Nat]
      BY <2>1, <2>2
    <2>4. levels = [l \in DOMAIN levels |-> levels[l]]
      BY <1>1
    <2> QED BY <1>1, <2>1, <2>3, <2>4 DEF AsListed
  <1>3. Extremes
    BY <1>1 DEF Extremes
  <1> QED BY <1>1, <1>2, <1>3 DEF BookInv

(* A message: what it lists is in the book as the exchange has it. *)
LEMMA MessageKeeps == ASSUME BookInv, HandleMessage PROVE BookInv'
  <1>1. feeder = "binance" /\ feeder' = feeder /\ AsListed
    BY DEF HandleMessage, BookInv
  <1>2. PICK changed \in SUBSET Ladder : \E d \in [changed -> Qtys] :
          /\ exch' = [l \in Ladder |-> IF l \in changed THEN d[l] ELSE exch[l]]
          /\ Uncrossed(OnBook(exch'))
          /\ \/ /\ levels' = Applied([l \in Listed(exch') |-> exch'[l]])
                /\ event' = Best(levels')
                /\ shown' = shown \cup Listed(exch')
                /\ sure' = (sure \ changed) \cup Listed(exch')
             \/ /\ sure' = sure \ changed
                /\ event' = <<>>
                /\ UNCHANGED <<levels, shown>>
    BY DEF HandleMessage
  <1>3. PICK d \in [changed -> Qtys] :
          exch' = [l \in Ladder |-> IF l \in changed THEN d[l] ELSE exch[l]]
    BY <1>2
  <1>4. \A l \in changed : d[l] \in Nat
    BY <1>3, DepthBookAssumption
  <1>5. /\ exch' \in [Ladder -> Nat] /\ Uncrossed(OnBook(exch'))
        /\ \A l \in Ladder \ changed : exch'[l] = exch[l]
    BY <1>1, <1>2, <1>3, <1>4 DEF AsListed
  <1>6. ASSUME NEW S, S = Listed(exch'), levels' = Applied([l \in S |-> exch'[l]]), event' = Best(levels'),
               shown' = shown \cup S, sure' = (sure \ changed) \cup S
        PROVE  AsListed'
    <2>1. PICK b : b = levels'
      OBVIOUS
    <2>2. S \subseteq Ladder /\ \A l \in S : exch'[l] # 0
      BY <1>5, <1>6 DEF Listed, OnBook
    <2>3. /\ b = [l \in DOMAIN b |-> b[l]]
          /\ \A l \in S : l \in DOMAIN b /\ b[l] = exch'[l]
          /\ \A l : l \notin S => (l \in DOMAIN b <=> l \in DOMAIN levels)
          /\ \A l \in DOMAIN levels : l \notin S => b[l] = levels[l]
      <3>1. PICK e : e = [l \in S |-> exch'[l]]
        OBVIOUS
      <3>2. DOMAIN e = S /\ \A l \in S : e[l] = exch'[l]
        BY <3>1
      <3>3. b = Applied(e)
        BY <1>6, <2>1, <3>1
      <3> QED BY <2>2, <3>2, <3>3, AppliedIs
    <2>4. DOMAIN b = shown'
      BY <1>1, <1>6, <2>3 DEF AsListed
    <2>5. shown' \subseteq Ladder /\ sure' \subseteq shown'
      BY <1>1, <1>6, <2>2 DEF AsListed
    <2>6. ASSUME NEW l \in sure' PROVE exch'[l] # 0 /\ b[l] = exch'[l]
      <3>1. CASE l \in S
        BY <2>2, <2>3, <3>1
      <3>2. CASE l \notin S
        <4>1. l \in sure /\ l \in Ladder \ changed /\ l \in DOMAIN levels
          BY <1>1, <1>6, <3>2 DEF AsListed
        <4> QED BY <1>1, <1>5, <2>3, <3>2, <4>1 DEF AsListed
      <3> QED BY <3>1, <3>2
    <2>7. event' # <<>> => TwoSided(DOMAIN b)
      BY <1>6, <2>1 DEF Best
    <2>8. Listed(exch') \subseteq sure'
      BY <1>6
    <2> QED BY <1>5, <1>6, <2>1, <2>3, <2>4, <2>5, <2>6, <2>7, <2>8 DEF AsListed
  <1>7. ASSUME sure' = sure \ changed, event' = <<>>, levels' = levels, shown' = shown
        PROVE  AsListed'
    <2>1. \A l \in sure' : l \in sure /\ exch'[l] = exch[l]
      BY <1>1, <1>5, <1>7 DEF AsListed
    <2> QED BY <1>1, <1>5, <1>7, <2>1 DEF AsListed
  <1>8. AsListed'
    <2>1. \/ /\ levels' = Applied([l \in Listed(exch') |-> exch'[l]])
             /\ event' = Best(levels')
             /\ shown' = shown \cup Listed(exch')
             /\ sure' = (sure \ changed) \cup Listed(exch')
          \/ /\ sure' = sure \ changed /\ event' = <<>>
             /\ levels' = levels /\ shown' = shown
      BY <1>2
    <2> QED BY <1>6, <1>7, <2>1
  <1> QED BY <1>1, <1>8 DEF BookInv

(* The generator: a level either side of the price. *)
LEMMA DeltaKeeps == ASSUME BookInv, NextDelta PROVE BookInv'
  <1>1. feeder = "synthetic" /\ feeder' = feeder /\ Extremes /\ moves' = moves + 1
    BY DEF NextDelta, BookInv
  <1>2. PICK step \in -TickSize..TickSize :
          /\ px' = px + step
          /\ levels' = Applied([l \in {<<"bid", px' - TickSize>>, <<"ask", px' + TickSize>>} |-> 1])
          /\ high' = IF moves = 0 THEN px' ELSE Max({high, px'})
          /\ low' = IF moves = 0 THEN px' ELSE Min({low, px'})
    BY DEF NextDelta
  <1>3. PICK t \in Nat, x \in Int : t = TickSize /\ x = px'
    <2>1. TickSize \in Nat /\ px \in Int
      BY <1>1, DepthBookAssumption DEF Extremes
    <2> QED BY <1>2, <2>1
  <1>4. PICK d : d = [l \in {<<"bid", x - t>>, <<"ask", x + t>>} |-> 1]
    OBVIOUS
  <1>5. PICK b : b = DOMAIN levels'
    OBVIOUS
  <1>6. b = DOMAIN levels \cup {<<"bid", x - t>>, <<"ask", x + t>>}
    <2>1. /\ DOMAIN d = {<<"bid", x - t>>, <<"ask", x + t>>}
          /\ \A l \in DOMAIN d : d[l] = 1
      BY <1>4
    <2>2. levels' = Applied(d)
      BY <1>2, <1>3, <1>4
    <2>3. /\ \A l \in DOMAIN d : l \in b
          /\ \A l : l \notin DOMAIN d => (l \in b <=> l \in DOMAIN levels)
      BY <1>5, <2>1, <2>2, AppliedIs
    <2> QED BY <2>1, <2>3
  <1>7. /\ BidPrices(b) = BidPrices(DOMAIN levels) \cup {x - t}
        /\ AskPrices(b) = AskPrices(DOMAIN levels) \cup {x + t}
    <2>1. {l \in b : l[1] = "bid"} = {l \in DOMAIN levels : l[1] = "bid"} \cup {<<"bid", x - t>>}
      BY <1>6
    <2>2. {l \in b : l[1] = "ask"} = {l \in DOMAIN levels : l[1] = "ask"} \cup {<<"ask", x + t>>}
      BY <1>6
    <2>3. BidPrices(b) = BidPrices(DOMAIN levels) \cup {x - t}
      <3>1. <<"bid", x - t>>[2] = x - t
        OBVIOUS
      <3> QED BY <2>1, <3>1 DEF BidPrices
    <2>4. AskPrices(b) = AskPrices(DOMAIN levels) \cup {x + t}
      <3>1. <<"ask", x + t>>[2] = x + t
        OBVIOUS
      <3> QED BY <2>2, <3>1 DEF AskPrices
    <2> QED BY <2>3, <2>4
  <1>8. PICK h, w : h = high' /\ w = low'
    OBVIOUS
  <1>9. /\ h \in Int /\ w \in Int
        /\ h - t \in BidPrices(b) /\ \A p \in BidPrices(b) : p \in Int /\ p <= h - t
        /\ w + t \in AskPrices(b) /\ \A p \in AskPrices(b) : p \in Int /\ p >= w + t
    <2>1. CASE moves = 0
      <3>1. BidPrices(b) = {x - t} /\ AskPrices(b) = {x + t}
        <4>1. DOMAIN levels = {}
          BY <1>1, <2>1 DEF Extremes
        <4> QED BY <1>7, <4>1 DEF BidPrices, AskPrices
      <3>2. h = x /\ w = x
        BY <1>2, <1>3, <1>8, <2>1
      <3>3. x - t \in Int /\ x + t \in Int
        BY <1>3
      <3>4. x - t <= x - t /\ x + t >= x + t
        BY <3>3
      <3>5. /\ x - t \in BidPrices(b) /\ \A p \in BidPrices(b) : p \in Int /\ p <= x - t
            /\ x + t \in AskPrices(b) /\ \A p \in AskPrices(b) : p \in Int /\ p >= x + t
        BY <3>1, <3>3, <3>4
      <3> QED BY <1>3, <3>2, <3>5
    <2>2. CASE moves # 0
      <3>1. PICK i \in Int, j \in Int : i = high /\ j = low
        BY <1>1 DEF Extremes
      <3>2. /\ i - t \in BidPrices(DOMAIN levels)
            /\ \A p \in BidPrices(DOMAIN levels) : p \in Int /\ p <= i - t
            /\ j + t \in AskPrices(DOMAIN levels)
            /\ \A p \in AskPrices(DOMAIN levels) : p \in Int /\ p >= j + t
        BY <1>1, <1>3, <2>2, <3>1 DEF Extremes
      <3>3. (h = i /\ x <= i) \/ (h = x /\ i <= x)
        <4>1. h = Max({i, x})
          BY <1>2, <1>3, <1>8, <2>2, <3>1
        <4>2. x <= i => Max({i, x}) = i
          BY MaxIs
        <4>3. i <= x => Max({i, x}) = x
          BY MaxIs
        <4> QED BY <4>1, <4>2, <4>3
      <3>4. (w = j /\ x >= j) \/ (w = x /\ j >= x)
        <4>1. w = Min({j, x})
          BY <1>2, <1>3, <1>8, <2>2, <3>1
        <4>2. x >= j => Min({j, x}) = j
          BY MinIs
        <4>3. j >= x => Min({j, x}) = x
          BY MinIs
        <4> QED BY <4>1, <4>2, <4>3
      <3>5. h \in Int /\ h - t \in BidPrices(b) /\ \A p \in BidPrices(b) : p \in Int /\ p <= h - t
        <4>1. CASE h = i /\ x <= i
          BY <1>7, <3>2, <4>1
        <4>2. CASE h = x /\ i <= x
          BY <1>7, <3>2, <4>2
        <4> QED BY <3>3, <4>1, <4>2
      <3>6. w \in Int /\ w + t \in AskPrices(b) /\ \A p \in AskPrices(b) : p \in Int /\ p >= w + t
        <4>1. CASE w = j /\ x >= j
          BY <1>7, <3>2, <4>1
        <4>2. CASE w = x /\ j >= x
          BY <1>7, <3>2, <4>2
        <4> QED BY <3>4, <4>1, <4>2
      <3> QED BY <3>5, <3>6
    <2> QED BY <2>1, <2>2
  <1>10. Max(BidPrices(b)) = h - t /\ Min(AskPrices(b)) = w + t
    <2>1. BidPrices(b) \subseteq Int /\ AskPrices(b) \subseteq Int
      BY <1>9
    <2> QED BY <1>9, <2>1, MaxIs, MinIs
  <1>11. event' # <<>> => event'[1].ask - event'[1].bid = 2 * t - (h - w)
    <2>1. event' = Best(levels')
      BY DEF NextDelta
    <2>2. PICK q : event' = <<[bid |-> h - t, ask |-> w + t, qty |-> q]>> \/ event' = <<>>
      BY <1>5, <1>10, <2>1 DEF Best, Top
    <2>3. (w + t) - (h - t) = 2 * t - (h - w)
      BY <1>9
    <2> QED BY <2>2, <2>3
  <1>12. Extremes'
    <2>1. moves' \in Nat /\ moves' # 0
      BY <1>1 DEF Extremes
    <2> QED BY <1>3, <1>5, <1>8, <1>9, <1>11, <2>1 DEF Extremes
  <1> QED BY <1>1, <1>12 DEF BookInv

LEMMA BookIdles == BookInv /\ UNCHANGED bookVars => BookInv'
  <1> SUFFICES ASSUME BookInv, UNCHANGED bookVars PROVE BookInv'
    OBVIOUS
  <1>1. /\ feeder' = feeder /\ levels' = levels /\ exch' = exch /\ shown' = shown /\ sure' = sure
        /\ event' = event /\ px' = px /\ moves' = moves /\ high' = high /\ low' = low
    BY DEF bookVars
  <1>2. AsListed => AsListed'
    BY <1>1 DEF AsListed
  <1>3. Extremes => Extremes'
    BY <1>1 DEF Extremes
  <1> QED BY <1>1, <1>2, <1>3 DEF BookInv

(* The best level of each side is listed. *)
LEMMA BestIsListed ==
    ASSUME NEW e, NEW side \in {"bid", "ask"}, NEW p, <<side, p>> \in OnBook(e),
           \A q : <<side, q>> \in OnBook(e) => IF side = "bid" THEN ~(q > p) ELSE ~(q < p)
    PROVE  <<side, p>> \in Listed(e)
  <1>1. \A k \in OnBook(e) : ~Better(k, <<side, p>>)
    <2> SUFFICES ASSUME NEW k \in OnBook(e), Better(k, <<side, p>>) PROVE FALSE
      OBVIOUS
    <2>1. k = <<k[1], k[2]>> /\ k[1] = side
      BY DEF OnBook, Ladder, Better
    <2> QED BY <2>1 DEF Better
  <1>2. {k \in OnBook(e) : Better(k, <<side, p>>)} = {}
    BY <1>1
  <1>3. Cardinality({k \in OnBook(e) : Better(k, <<side, p>>)}) < Depth
    BY <1>2, FS_EmptySet, DepthBookAssumption
  <1> QED BY <1>3 DEF Listed

(* Prices of a set of levels are finitely many numbers. *)
LEMMA SidesAreFinite ==
    ASSUME NEW b, b \subseteq Ladder
    PROVE  /\ BidPrices(b) \in SUBSET Nat /\ IsFiniteSet(BidPrices(b))
           /\ AskPrices(b) \in SUBSET Nat /\ IsFiniteSet(AskPrices(b))
           /\ \A p : p \in BidPrices(b) <=> <<"bid", p>> \in b
           /\ \A p : p \in AskPrices(b) <=> <<"ask", p>> \in b
  <1>1. \A l \in b : l = <<l[1], l[2]>> /\ l[2] \in Prices
    BY DEF Ladder
  <1>2. /\ \A p : p \in BidPrices(b) <=> <<"bid", p>> \in b
        /\ \A p : p \in AskPrices(b) <=> <<"ask", p>> \in b
    BY <1>1 DEF BidPrices, AskPrices
  <1>3. BidPrices(b) \subseteq Prices /\ AskPrices(b) \subseteq Prices
    BY <1>1 DEF BidPrices, AskPrices
  <1> QED BY <1>2, <1>3, DepthBookAssumption, FS_Subset

(* What was published is the exchange's best when its levels still are. *)
LEMMA PublishedBest ==
    ASSUME AsListed, event # <<>>,
           {<<"bid", event[1].bid>>, <<"ask", event[1].ask>>} \subseteq sure
    PROVE  event = Best([l \in OnBook(exch) |-> exch[l]])
  <1> DEFINE B == OnBook(exch)
             i == Max(BidPrices(shown))
             j == Min(AskPrices(shown))
  <1>1. /\ event = <<[bid |-> i, ask |-> j, qty |-> Min({levels[<<"bid", i>>], levels[<<"ask", j>>]})]>>
        /\ TwoSided(shown)
    BY DEF AsListed, Best, Top
  <1>2. <<"bid", i>> \in sure /\ <<"ask", j>> \in sure
    BY <1>1
  <1>3. sure \subseteq B /\ B \subseteq Ladder /\ shown \subseteq Ladder /\ Listed(exch) \subseteq shown
    BY DEF AsListed, OnBook
  <1>4. <<"bid", i>> \in B /\ <<"ask", j>> \in B /\ i \in BidPrices(B) /\ j \in AskPrices(B)
    BY <1>2, <1>3, SidesAreFinite
  <1> HIDE DEF B
  <1>5. Max(BidPrices(B)) = i
    <2>1. PICK g : g = Max(BidPrices(B))
      OBVIOUS
    <2>2. g \in BidPrices(B) /\ \A x \in BidPrices(B) : x <= g
      BY <1>3, <1>4, <2>1, SidesAreFinite, GreatestNumber
    <2>3. \A q : <<"bid", q>> \in B => q \in Nat /\ q <= g
      BY <1>3, <2>2, SidesAreFinite
    <2>4. <<"bid", g>> \in B /\ g \in Nat
      BY <1>3, <2>2, SidesAreFinite
    <2>5. <<"bid", g>> \in Listed(exch)
      <3>1. \A q : <<"bid", q>> \in B => ~(q > g)
        BY <2>3, <2>4
      <3> QED BY <2>4, <3>1, BestIsListed DEF B
    <2>6. g \in BidPrices(shown)
      BY <1>3, <2>5, SidesAreFinite
    <2>7. \A x \in BidPrices(shown) : x <= i
      BY <1>3, <2>6, SidesAreFinite, GreatestNumber
    <2>8. g <= i /\ i <= g /\ i \in Nat
      BY <1>3, <1>4, <2>2, <2>6, <2>7, SidesAreFinite
    <2> HIDE DEF i
    <2> QED BY <2>1, <2>4, <2>8
  <1>6. Min(AskPrices(B)) = j
    <2>1. PICK g : g = Min(AskPrices(B))
      OBVIOUS
    <2>2. g \in AskPrices(B) /\ \A x \in AskPrices(B) : g <= x
      BY <1>3, <1>4, <2>1, SidesAreFinite, SmallestNumber
    <2>3. \A q : <<"ask", q>> \in B => q \in Nat /\ g <= q
      BY <1>3, <2>2, SidesAreFinite
    <2>4. <<"ask", g>> \in B /\ g \in Nat
      BY <1>3, <2>2, SidesAreFinite
    <2>5. <<"ask", g>> \in Listed(exch)
      <3>1. \A q : <<"ask", q>> \in B => ~(q < g)
        BY <2>3, <2>4
      <3> QED BY <2>4, <3>1, BestIsListed DEF B
    <2>6. g \in AskPrices(shown)
      BY <1>3, <2>5, SidesAreFinite
    <2>7. \A x \in AskPrices(shown) : j <= x
      BY <1>3, <2>6, SidesAreFinite, SmallestNumber
    <2>8. j <= g /\ g <= j /\ j \in Nat
      BY <1>3, <1>4, <2>2, <2>6, <2>7, SidesAreFinite
    <2> HIDE DEF j
    <2> QED BY <2>1, <2>4, <2>8
  <1>7. levels[<<"bid", i>>] = exch[<<"bid", i>>] /\ levels[<<"ask", j>>] = exch[<<"ask", j>>]
    BY <1>2 DEF AsListed
  <1> HIDE DEF i, j
  <1>8. PICK f : f = [l \in B |-> exch[l]]
    OBVIOUS
  <1>9. DOMAIN f = B /\ f[<<"bid", i>>] = exch[<<"bid", i>>] /\ f[<<"ask", j>>] = exch[<<"ask", j>>]
    BY <1>4, <1>8
  <1>10. TwoSided(B)
    BY <1>4 DEF TwoSided
  <1>11. Best(f) = event
    BY <1>1, <1>5, <1>6, <1>7, <1>9, <1>10 DEF Best, Top
  <1> QED BY <1>8, <1>11 DEF B

LEMMA BookKnows == BookInv => BookKnowsWhatItSaw
  <1> SUFFICES ASSUME BookInv PROVE BookKnowsWhatItSaw
    OBVIOUS
  <1>1. ASSUME feeder = "binance", DOMAIN levels \subseteq sure PROVE Uncrossed(DOMAIN levels)
    <2>1. AsListed
      BY <1>1 DEF BookInv
    <2>2. DOMAIN levels \subseteq OnBook(exch)
      BY <1>1, <2>1 DEF AsListed, OnBook
    <2>3. /\ BidPrices(DOMAIN levels) \subseteq BidPrices(OnBook(exch))
          /\ AskPrices(DOMAIN levels) \subseteq AskPrices(OnBook(exch))
      BY <2>2 DEF BidPrices, AskPrices
    <2> QED BY <2>1, <2>3 DEF AsListed, Uncrossed
  <1>2. ASSUME feeder = "binance"
        PROVE  /\ \A l \in sure : l \in DOMAIN levels /\ levels[l] = exch[l]
               /\ event # <<>> =>
                    event[1].bid = Max(BidPrices(shown)) /\ event[1].ask = Min(AskPrices(shown))
    <2>1. AsListed
      BY <1>2 DEF BookInv
    <2> QED BY <2>1 DEF AsListed, Best, Top
  <1>3. ASSUME feeder = "binance", event # <<>>,
               {<<"bid", event[1].bid>>, <<"ask", event[1].ask>>} \subseteq sure
        PROVE  event = Best([l \in OnBook(exch) |-> exch[l]])
    BY <1>3, PublishedBest DEF BookInv
  <1>4. ASSUME feeder = "synthetic", event # <<>>
        PROVE  event[1].ask - event[1].bid = 2 * TickSize - (high - low)
    BY <1>4 DEF BookInv, Extremes
  <1> QED BY <1>1, <1>2, <1>3, <1>4 DEF BookKnowsWhatItSaw

(* A level is right from when it was listed until the exchange changes it,    *)
(* what is published is the best ever listed, the exchange's best while that  *)
(* still stands, the book crosses only on levels left behind, and the         *)
(* synthetic spread shrinks by the whole range of the price: for any prices,  *)
(* quantities, depth and tick, and any number of messages.                    *)
THEOREM BookIsWhatItWasTold == BookSpec => []BookKnowsWhatItSaw
  <1>1. BookInv /\ [BookNext]_bookVars => BookInv'
    BY MessageKeeps, DeltaKeeps, BookIdles DEF BookNext
  <1> QED BY BookBegins, <1>1, BookKnows, PTL DEF BookSpec
------------------------------------------------------------------------------
(***************************************************************************)
(* The vectors and the heap their arrays are in: an array has one owner at *)
(* most and the capacity its owner believes.                               *)
(***************************************************************************)
VectorsSpec == VectorsInit /\ [][VectorsNext]_vecVars

Cells == Elems \cup {0}
Arrays == [form : {"array", "single"}, els : Seq(Cells)]
VecRecords == [data : Blocks \cup {0}, size : Nat, cap : Nat]

Heap(h) ==
  /\ h = [b \in DOMAIN h |-> h[b]] /\ DOMAIN h \subseteq Blocks
  /\ \A b \in DOMAIN h : h[b] \in Arrays

(* An array and the vector that owns it.  vec_1's one object has no capacity. *)
Fits(a, r) == r.cap <= Len(a.els) /\ (a.form = "array" => Len(a.els) = r.cap)
OwnsIn(h, r) ==
  /\ r \in VecRecords /\ r.size <= r.cap
  /\ r.data = 0 => r = EmptyVec
  /\ r.data # 0 => r.data \in DOMAIN h /\ Fits(h[r.data], r)

HeapOk(h, l) ==
  /\ Heap(h) /\ l \in [Vecs -> VecRecords]
  /\ \A v \in Vecs : OwnsIn(h, l[v])
  /\ \A v, w \in Vecs : v # w /\ l[v].data # 0 => l[v].data # l[w].data

Leaks(h, l) == DOMAIN h \ {l[v].data : v \in Vecs}
AllArrays(h) == \A b \in DOMAIN h : h[b].form = "array"
NowIn(h, r) == IF r.data = 0 THEN <<>> ELSE SubSeq(h[r.data].els, 1, r.size)

(* Elements are lost only by a move that throws, arrays as the code can leak. *)
MayLose == "reserve" \in thrown /\ (kind = "moveonly" \/ impl = "vec_1")
MayLeak == IF impl = "basic" THEN "list" \in thrown ELSE thrown # {}
AsHeld(h, l) ==
  \A v \in Vecs : Len(held[v]) = l[v].size /\ (NowIn(h, l[v]) # held[v] => MayLose)

VecTypes ==
  /\ impl \in {"vec_1", "basic"} /\ kind \in {"plain", "copies", "moveonly"}
  /\ held \in [Vecs -> Seq(Elems)]
VecSound ==
  /\ HeapOk(block, vec) /\ AsHeld(block, vec)
  /\ Leaks(block, vec) # {} => MayLeak
  /\ impl = "basic" => AllArrays(block)
VecInv ==
  /\ VecTypes
  /\ undefined => impl = "vec_1"
  /\ ~undefined => VecSound

(***************************************************************************)
(* The heap with an array added.                                           *)
(***************************************************************************)
LEMMA Zero == 0 \notin Blocks
  BY DEF Blocks

LEMMA NewBlockIsNew ==
  ASSUME Heap(block), RoomForBlock
  PROVE  NewBlock \in Blocks /\ NewBlock \notin DOMAIN block
<1>1. \E b \in Blocks : b \notin DOMAIN block
  BY DEF Heap, RoomForBlock
<1> QED BY <1>1 DEF NewBlock

(***************************************************************************)
(* What an array holds is copied with room behind it, or gets one more.    *)
(***************************************************************************)
LEMMA PaddedHolds ==
  ASSUME NEW s \in Seq(Cells), NEW n \in Nat, Len(s) <= n
  PROVE  /\ Padded(s, n) \in Seq(Cells) /\ Len(Padded(s, n)) = n
         /\ SubSeq(Padded(s, n), 1, Len(s)) = s
<1> DEFINE z == [i \in 1..n - Len(s) |-> 0]
<1>1. PICK k \in Nat : k = Len(s) OBVIOUS
<1>2. PICK m \in Nat : m = n - k BY <1>1
<1>3. z \in Seq(Cells) /\ Len(z) = m
  <2>1. z = [i \in 1..m |-> 0] BY <1>1, <1>2
  <2> HIDE DEF z
  <2> QED BY <2>1, <1>2 DEF Cells
<1> HIDE DEF z
<1>4. Padded(s, n) = s \o z BY DEF Padded, z
<1>5. /\ s \o z \in Seq(Cells) /\ Len(s \o z) = k + m
      /\ \A i \in 1..(k + m) : (s \o z)[i] = IF i <= k THEN s[i] ELSE z[i - k]
  BY <1>1, <1>3, ConcatProperties
<1>6. PICK p : p = s \o z OBVIOUS
<1>7. p \in Seq(Cells) /\ Len(p) = n /\ \A i \in 1..k : p[i] = s[i]
  BY <1>1, <1>2, <1>5, <1>6
<1>8. /\ SubSeq(p, 1, k) \in Seq(Cells) /\ Len(SubSeq(p, 1, k)) = k
      /\ \A i \in 1..k : SubSeq(p, 1, k)[i] = p[i]
  BY <1>1, <1>2, <1>7
<1>9. SubSeq(p, 1, k) = s
  BY <1>1, <1>7, <1>8, SeqEqual
<1> QED BY <1>1, <1>4, <1>6, <1>7, <1>9

LEMMA PutHolds ==
  ASSUME NEW e \in Seq(Cells), NEW n \in 1..Len(e), NEW x \in Cells, NEW f,
         f = [e EXCEPT ![n] = x]
  PROVE  f \in Seq(Cells) /\ Len(f) = Len(e)
         /\ SubSeq(f, 1, n) = Append(SubSeq(e, 1, n - 1), x)
<1>1. /\ f \in Seq(Cells) /\ Len(f) = Len(e)
      /\ \A j \in 1..Len(e) : f[j] = IF j = n THEN x ELSE e[j]
  BY ExceptSeq
<1>2. PICK m \in Nat : m = n - 1 OBVIOUS
<1>3. PICK k \in Nat : k = n OBVIOUS
<1>4. PICK u : u = SubSeq(e, 1, m) OBVIOUS
<1>5. u \in Seq(Cells) /\ Len(u) = m /\ \A j \in 1..m : u[j] = e[j]
  BY <1>2, <1>4
<1>6. PICK w : w = SubSeq(f, 1, k) OBVIOUS
<1>7. w \in Seq(Cells) /\ Len(w) = k /\ \A j \in 1..k : w[j] = f[j]
  BY <1>1, <1>3, <1>6
<1>8. /\ Append(u, x) \in Seq(Cells) /\ Len(Append(u, x)) = k
      /\ \A j \in 1..k : Append(u, x)[j] = IF j = k THEN x ELSE u[j]
  BY <1>2, <1>3, <1>5
<1>9. \A j \in 1..k : w[j] = Append(u, x)[j]
  BY <1>1, <1>2, <1>3, <1>5, <1>7, <1>8
<1>10. w = Append(u, x)
  BY <1>7, <1>8, <1>9, SeqEqual
<1> QED BY <1>1, <1>2, <1>3, <1>4, <1>6, <1>10

(***************************************************************************)
(* A step changes one vector, which gets the record r and the contents s,  *)
(* and leaves the arrays of the others as they are.                        *)
(***************************************************************************)
OthersKept(h, g, v) ==
  \A w \in Vecs \ {v} : vec[w].data # 0 =>
    vec[w].data \in DOMAIN g /\ g[vec[w].data] = h[vec[w].data]

LEMMA OneChanges ==
  ASSUME VecInv, ~undefined, NEW v \in Vecs, NEW r, NEW s \in Seq(Elems), NEW g,
         UNCHANGED <<impl, kind>>, thrown \subseteq thrown',
         block' = g, vec' = [vec EXCEPT ![v] = r], held' = [held EXCEPT ![v] = s],
         Heap(g), OwnsIn(g, r), OthersKept(block, g, v),
         \A w \in Vecs \ {v} : r.data # 0 => r.data # vec[w].data,
         Len(s) = r.size, NowIn(g, r) # s => MayLose',
         DOMAIN g \subseteq (DOMAIN block \ {vec[v].data}) \cup {r.data} \/ MayLeak',
         impl = "basic" => AllArrays(g),
         undefined' => impl = "vec_1"
  PROVE  VecInv'
<1>1. VecTypes'
  BY DEF VecInv, VecTypes
<1>2. HeapOk(block, vec) /\ AsHeld(block, vec) /\ (Leaks(block, vec) # {} => MayLeak)
  BY DEF VecInv, VecSound
<1>3. vec \in [Vecs -> VecRecords] /\ vec' \in [Vecs -> VecRecords]
  BY <1>2 DEF HeapOk, OwnsIn
<1>4. vec'[v] = r /\ \A w \in Vecs \ {v} : vec'[w] = vec[w]
  BY <1>3
<1>5. HeapOk(g, vec')
  <2>1. \A w \in Vecs : OwnsIn(g, vec'[w])
    <3>1. ASSUME NEW w \in Vecs \ {v} PROVE OwnsIn(g, vec[w])
      BY <1>2 DEF HeapOk, OwnsIn, OthersKept
    <3> QED BY <3>1, <1>4
  <2>2. ASSUME NEW u \in Vecs, NEW w \in Vecs, u # w, vec'[u].data # 0
        PROVE  vec'[u].data # vec'[w].data
    BY <2>2, <1>2, <1>4 DEF HeapOk
  <2> QED BY <1>3, <2>1, <2>2 DEF HeapOk
<1>6. ASSUME NEW w \in Vecs
      PROVE  Len(held'[w]) = vec'[w].size /\ (NowIn(g, vec'[w]) # held'[w] => MayLose')
  <2>1. CASE w = v
    BY <2>1, <1>4 DEF VecInv, VecTypes
  <2>2. CASE w # v
    <3>1. held'[w] = held[w] /\ vec'[w] = vec[w]
      BY <2>2, <1>4 DEF VecInv, VecTypes
    <3>2. NowIn(g, vec[w]) = NowIn(block, vec[w])
      BY <2>2 DEF NowIn, OthersKept
    <3>3. MayLose => MayLose'
      BY DEF MayLose
    <3> QED BY <1>2, <3>1, <3>2, <3>3 DEF AsHeld
  <2> QED BY <2>1, <2>2
<1>7. Leaks(g, vec') # {} => MayLeak'
  <2>1. MayLeak => MayLeak'
    BY DEF MayLeak
  <2>2. ASSUME DOMAIN g \subseteq (DOMAIN block \ {vec[v].data}) \cup {r.data}
        PROVE  Leaks(g, vec') \subseteq Leaks(block, vec)
    BY <2>2, <1>4 DEF Leaks
  <2> QED BY <1>2, <2>1, <2>2
<1>8. VecSound'
  BY <1>5, <1>6, <1>7 DEF VecSound, AsHeld
<1> QED BY <1>1, <1>8 DEF VecInv

(***************************************************************************)
(* A step that changes no vector: it leaks, or hurts the elements of one.  *)
(***************************************************************************)
LEMMA NoneChanges ==
  ASSUME VecInv, ~undefined, NEW v \in Vecs, NEW g,
         UNCHANGED <<impl, kind, vec, held, undefined>>, thrown \subseteq thrown',
         block' = g, Heap(g), OthersKept(block, g, v), OwnsIn(g, vec[v]),
         NowIn(g, vec[v]) # NowIn(block, vec[v]) => MayLose',
         DOMAIN g \subseteq DOMAIN block \/ MayLeak',
         impl = "basic" => AllArrays(g)
  PROVE  VecInv'
<1>1. HeapOk(block, vec) /\ AsHeld(block, vec)
  BY DEF VecInv, VecSound
<1>2. PICK r : r = vec[v] OBVIOUS
<1>3. PICK s : s = held[v] OBVIOUS
<1>4. s \in Seq(Elems) /\ held' = [held EXCEPT ![v] = s]
  BY <1>3 DEF VecInv, VecTypes
<1>5. vec' = [vec EXCEPT ![v] = r] /\ \A w \in Vecs \ {v} : r.data # 0 => r.data # vec[w].data
  BY <1>1, <1>2 DEF HeapOk
<1>6. Len(s) = r.size /\ (NowIn(g, r) # s => MayLose')
  BY <1>1, <1>2, <1>3 DEF AsHeld, MayLose
<1>7. DOMAIN g \subseteq (DOMAIN block \ {vec[v].data}) \cup {r.data} \/ MayLeak'
  BY <1>2
<1> QED BY <1>2, <1>4, <1>5, <1>6, <1>7, OneChanges

\* A vector and the array it has.
LEMMA VecHas ==
  ASSUME VecInv, ~undefined, NEW v \in Vecs
  PROVE  /\ Heap(block) /\ OwnsIn(block, vec[v]) /\ vec \in [Vecs -> VecRecords]
         /\ \A w \in Vecs \ {v} : vec[w].data # 0 => vec[w].data # vec[v].data
         /\ \A w \in Vecs \ {v} : vec[w].data # 0 => vec[w].data \in DOMAIN block
         /\ held[v] \in Seq(Elems) /\ Len(held[v]) = vec[v].size
         /\ NowIn(block, vec[v]) # held[v] => MayLose
         /\ Now(v) = NowIn(block, vec[v])
         /\ Now(v) \in Seq(Cells) /\ Len(Now(v)) = vec[v].size
<1>1. HeapOk(block, vec) /\ AsHeld(block, vec)
  BY DEF VecInv, VecSound
<1>2. Now(v) = NowIn(block, vec[v])
  BY DEF Now, NowIn, Contents
<1>3. OwnsIn(block, vec[v]) /\ Heap(block)
  BY <1>1 DEF HeapOk
<1>4. ASSUME vec[v].data = 0 PROVE  Now(v) \in Seq(Cells) /\ Len(Now(v)) = vec[v].size
  BY <1>4, <1>3 DEF Now, EmptyVec, OwnsIn
<1>5. ASSUME vec[v].data # 0 PROVE  Now(v) \in Seq(Cells) /\ Len(Now(v)) = vec[v].size
  <2>1. PICK e : e = block[vec[v].data].els OBVIOUS
  <2>2. PICK k \in Nat : k = vec[v].size
    BY <1>3 DEF OwnsIn, VecRecords
  <2>3. e \in Seq(Cells) /\ k <= Len(e)
    BY <1>5, <1>3, <2>1, <2>2 DEF OwnsIn, Heap, Arrays, Fits, VecRecords
  <2>4. Now(v) = SubSeq(e, 1, k)
    BY <1>5, <2>1, <2>2 DEF Now, Contents
  <2>5. SubSeq(e, 1, k) \in Seq(Cells) /\ Len(SubSeq(e, 1, k)) = k
    BY <2>3
  <2> QED BY <2>2, <2>4, <2>5
<1>6. Now(v) \in Seq(Cells) /\ Len(Now(v)) = vec[v].size
  BY <1>4, <1>5
<1>7. /\ \A w \in Vecs \ {v} : vec[w].data # 0 => vec[w].data # vec[v].data
      /\ \A w \in Vecs \ {v} : vec[w].data # 0 => vec[w].data \in DOMAIN block
  BY <1>1 DEF HeapOk, OwnsIn
<1>8. held[v] \in Seq(Elems)
  BY DEF VecInv, VecTypes
<1> QED BY <1>1, <1>2, <1>3, <1>6, <1>7, <1>8 DEF AsHeld, HeapOk

(***************************************************************************)
(* The steps.                                                              *)
(***************************************************************************)
\* What is deleted is undefined only where vec_1 made one object.
LEMMA DeletesSound ==
  ASSUME VecInv, ~undefined, NEW v \in Vecs, Deletes(vec[v].data)
  PROVE  undefined' => impl = "vec_1"
<1>1. OwnsIn(block, vec[v]) /\ (impl = "basic" => AllArrays(block))
  BY VecHas DEF VecInv, VecSound
<1>2. DeleteIsUndefined(vec[v].data) => impl # "basic"
  BY <1>1 DEF OwnsIn, AllArrays, DeleteIsUndefined
<1>3. impl # "basic" => impl = "vec_1"
  BY DEF VecInv, VecTypes
<1> QED BY <1>2, <1>3 DEF Deletes

\* The array of v deleted and a new one in its place, or in none.
LEMMA Regrown ==
  ASSUME VecInv, ~undefined, NEW v \in Vecs, RoomForBlock, NEW e \in Seq(Cells), NEW g,
         g = WithBlock(WithoutBlock(block, vec[v].data), NewBlock, Array(e))
  PROVE  /\ Heap(g) /\ DOMAIN g = (DOMAIN block \ {vec[v].data}) \cup {NewBlock}
         /\ g[NewBlock] = Array(e) /\ OthersKept(block, g, v)
         /\ NewBlock \in Blocks /\ NewBlock # 0
         /\ \A w \in Vecs : NewBlock # vec[w].data
         /\ impl = "basic" => AllArrays(g)
<1>0. PICK d : d = vec[v].data OBVIOUS
<1>1. Heap(block)
  BY VecHas
<1>2. NewBlock \in Blocks /\ NewBlock \notin DOMAIN block
  BY <1>1, NewBlockIsNew
<1>3. PICK b : b = NewBlock OBVIOUS
<1>4. PICK h : h = WithoutBlock(block, d) BY <1>0
<1>5. /\ Heap(h) /\ DOMAIN h = DOMAIN block \ {d}
      /\ \A x \in DOMAIN block \ {d} : h[x] = block[x]
  BY <1>1, <1>4 DEF Heap, WithoutBlock
<1>6. PICK a \in Arrays : a = Array(e) /\ a.form = "array"
  BY DEF Array, Arrays
<1>7. b \in Blocks /\ g = WithBlock(h, b, a)
  BY <1>0, <1>2, <1>3, <1>4, <1>6
<1>8. /\ Heap(g) /\ DOMAIN g = DOMAIN h \cup {b} /\ g[b] = a
      /\ \A x \in DOMAIN h \ {b} : g[x] = h[x]
  BY <1>5, <1>7 DEF Heap, WithBlock
<1>9. OthersKept(block, g, v)
  BY <1>0, <1>2, <1>3, <1>5, <1>8, VecHas DEF OthersKept
<1>10. impl = "basic" => AllArrays(g)
  BY <1>5, <1>6, <1>8 DEF VecInv, VecSound, AllArrays
<1>11. \A w \in Vecs : vec[w].data = 0 \/ vec[w].data \in DOMAIN block
  BY VecHas DEF OwnsIn
<1> QED BY <1>0, <1>2, <1>3, <1>5, <1>6, <1>8, <1>9, <1>10, <1>11, Zero

\* An array that nobody owns.
LEMMA Strays ==
  ASSUME VecInv, ~undefined, NEW v \in Vecs, RoomForBlock, NEW h, NEW a \in Arrays, NEW g,
         Heap(h), DOMAIN h = DOMAIN block, \A x \in DOMAIN block : x # vec[v].data => h[x] = block[x],
         vec[v].data # 0 => Fits(h[vec[v].data], vec[v]),
         g = WithBlock(h, NewBlock, a),
         impl = "basic" => AllArrays(h) /\ a.form = "array"
  PROVE  /\ Heap(g) /\ OthersKept(block, g, v) /\ OwnsIn(g, vec[v])
         /\ NowIn(g, vec[v]) = NowIn(h, vec[v])
         /\ impl = "basic" => AllArrays(g)
<1>1. Heap(block) /\ OwnsIn(block, vec[v])
  BY VecHas
<1>2. NewBlock \in Blocks /\ NewBlock \notin DOMAIN block
  BY <1>1, NewBlockIsNew
<1>3. PICK b : b = NewBlock OBVIOUS
<1>4. b \in Blocks /\ g = WithBlock(h, b, a)
  BY <1>2, <1>3
<1>5. /\ Heap(g) /\ DOMAIN g = DOMAIN h \cup {b} /\ g[b] = a
      /\ \A x \in DOMAIN h \ {b} : g[x] = h[x]
  BY <1>4 DEF Heap, WithBlock
<1>6. OthersKept(block, g, v)
  BY <1>2, <1>3, <1>5, VecHas DEF OthersKept
<1>7. vec[v].data # 0 => g[vec[v].data] = h[vec[v].data] /\ vec[v].data \in DOMAIN g
  BY <1>1, <1>2, <1>3, <1>5 DEF OwnsIn
<1>8. OwnsIn(g, vec[v]) /\ NowIn(g, vec[v]) = NowIn(h, vec[v])
  BY <1>1, <1>7 DEF OwnsIn, NowIn
<1>9. impl = "basic" => AllArrays(g)
  BY <1>5 DEF AllArrays
<1> QED BY <1>5, <1>6, <1>8, <1>9

LEMMA BlockKept ==
  ASSUME VecInv, ~undefined, NEW v \in Vecs
  PROVE  OthersKept(block, block, v) /\ (impl = "basic" => AllArrays(block))
  BY VecHas DEF OthersKept, VecInv, VecSound

\* The array of v deleted: it holds nothing.
LEMMA Emptied ==
  ASSUME VecInv, ~undefined, NEW v \in Vecs, NEW g, g = WithoutBlock(block, vec[v].data)
  PROVE  /\ Heap(g) /\ DOMAIN g = DOMAIN block \ {vec[v].data} /\ OthersKept(block, g, v)
         /\ \A x \in DOMAIN g : g[x] = block[x]
         /\ impl = "basic" => AllArrays(g)
<1>1. Heap(block)
  BY VecHas
<1>2. /\ DOMAIN g = DOMAIN block \ {vec[v].data} /\ g = [x \in DOMAIN g |-> g[x]]
      /\ \A x \in DOMAIN g : g[x] = block[x]
  BY DEF WithoutBlock
<1>3. Heap(g)
  BY <1>1, <1>2 DEF Heap
<1>4. OthersKept(block, g, v)
  BY <1>2, VecHas DEF OthersKept
<1> QED BY <1>2, <1>3, <1>4 DEF VecInv, VecSound, AllArrays

LEMMA DestroySafe ==
  ASSUME VecInv, ~undefined, NEW v \in Vecs, Destroy(v)
  PROVE  VecInv'
<1>1. PICK g : g = WithoutBlock(block, vec[v].data) OBVIOUS
<1>2. PICK r : r = EmptyVec OBVIOUS
<1>3. PICK s : s = <<>> OBVIOUS
<1>4. s \in Seq(Elems) /\ Len(s) = r.size /\ NowIn(g, r) = s /\ OwnsIn(g, r) /\ r.data = 0
  BY <1>2, <1>3 DEF EmptyVec, NowIn, OwnsIn, VecRecords
<1>5. /\ Heap(g) /\ DOMAIN g = DOMAIN block \ {vec[v].data} /\ OthersKept(block, g, v)
      /\ impl = "basic" => AllArrays(g)
  BY <1>1, Emptied
<1>6. /\ UNCHANGED <<impl, kind>> /\ thrown \subseteq thrown' /\ block' = g
      /\ vec' = [vec EXCEPT ![v] = r] /\ held' = [held EXCEPT ![v] = s]
      /\ Deletes(vec[v].data)
  BY <1>1, <1>2, <1>3 DEF Destroy
<1>7. undefined' => impl = "vec_1"
  BY <1>6, DeletesSound
<1> QED BY <1>4, <1>5, <1>6, <1>7, OneChanges

\* v has a new array, of n elements at most, that begins with s.
LEMMA RegrownSafe ==
  ASSUME VecInv, ~undefined, NEW v \in Vecs, RoomForBlock, UNCHANGED <<impl, kind>>,
         thrown \subseteq thrown', Deletes(vec[v].data),
         NEW e \in Seq(Cells), NEW k \in Nat, NEW s \in Seq(Elems), Len(s) = k, k <= Len(e),
         SubSeq(e, 1, k) # s => MayLose',
         block' = WithBlock(WithoutBlock(block, vec[v].data), NewBlock, Array(e)),
         vec' = [vec EXCEPT ![v] = [data |-> NewBlock, size |-> k, cap |-> Len(e)]],
         held' = [held EXCEPT ![v] = s]
  PROVE  VecInv'
<1>1. PICK g : g = WithBlock(WithoutBlock(block, vec[v].data), NewBlock, Array(e)) OBVIOUS
<1>2. /\ Heap(g) /\ DOMAIN g = (DOMAIN block \ {vec[v].data}) \cup {NewBlock}
      /\ g[NewBlock] = Array(e) /\ OthersKept(block, g, v)
      /\ NewBlock \in Blocks /\ NewBlock # 0
      /\ \A w \in Vecs : NewBlock # vec[w].data
      /\ impl = "basic" => AllArrays(g)
  BY <1>1, Regrown
<1>3. PICK n \in Nat : n = Len(e) OBVIOUS
<1>4. PICK r : r = [data |-> NewBlock, size |-> k, cap |-> n] OBVIOUS
<1>5. OwnsIn(g, r)
  BY <1>2, <1>3, <1>4 DEF OwnsIn, VecRecords, Fits, Array
<1>6. NowIn(g, r) = SubSeq(e, 1, k)
  BY <1>2, <1>4 DEF NowIn, Array
<1>7. undefined' => impl = "vec_1"
  BY DeletesSound
<1>8. /\ block' = g /\ vec' = [vec EXCEPT ![v] = r] /\ Len(s) = r.size
      /\ NowIn(g, r) # s => MayLose'
  BY <1>1, <1>3, <1>4, <1>6
<1>9. /\ DOMAIN g \subseteq (DOMAIN block \ {vec[v].data}) \cup {r.data}
      /\ \A w \in Vecs \ {v} : r.data # 0 => r.data # vec[w].data
  BY <1>2, <1>4
<1> QED BY <1>2, <1>5, <1>7, <1>8, <1>9, OneChanges

LEMMA MayLoseStays == thrown \subseteq thrown' /\ UNCHANGED <<impl, kind>> => (MayLose => MayLose')
  BY DEF MayLose

LEMMA NoCells == Array(<<>>) \in Arrays /\ Array(<<>>).form = "array"
<1>1. PICK z \in Seq(Cells) : z = <<>>
  BY EmptySeq
<1>2. [form |-> "array", els |-> z] \in Arrays
  BY DEF Arrays
<1> QED BY <1>1, <1>2 DEF Array

LEMMA AbandonSafe ==
  ASSUME VecInv, ~undefined, RoomForBlock, NEW op, Abandon, Threw(op), UNCHANGED <<impl, kind>>
  PROVE  VecInv'
<1> USE DEF Threw
<1>1. CASE impl = "basic"
  <2>1. block' = block
    BY <1>1 DEF Abandon
  <2>2. OthersKept(block, block, "v") /\ AllArrays(block) /\ Heap(block) /\ OwnsIn(block, vec["v"])
    BY <1>1, BlockKept, VecHas DEF Vecs
  <2> QED BY <2>1, <2>2, NoneChanges DEF Vecs
<1>2. CASE impl # "basic"
  <2>1. PICK g : g = WithBlock(block, NewBlock, Array(<<>>)) OBVIOUS
  <2>2. PICK a \in Arrays : a = Array(<<>>) /\ a.form = "array"
    BY NoCells
  <2>3. /\ Heap(block) /\ OwnsIn(block, vec["v"])
    BY VecHas DEF Vecs
  <2>4. vec["v"].data # 0 => Fits(block[vec["v"].data], vec["v"])
    BY <2>3 DEF OwnsIn
  <2>5. /\ Heap(g) /\ OthersKept(block, g, "v") /\ OwnsIn(g, vec["v"])
        /\ NowIn(g, vec["v"]) = NowIn(block, vec["v"])
    BY <2>1, <2>2, <2>3, <2>4, <1>2, Strays DEF Vecs
  <2>6. MayLeak'
    BY <1>2 DEF MayLeak
  <2>7. block' = g
    BY <1>2, <2>1 DEF Abandon
  <2> QED BY <1>2, <2>5, <2>6, <2>7, NoneChanges DEF Vecs
<1> QED BY <1>1, <1>2

LEMMA CopySafe ==
  ASSUME VecInv, ~undefined, NEW v \in Vecs, NEW o \in Vecs, Copy(v, o)
  PROVE  VecInv'
<1>1. CASE Abandon /\ Threw("copy")
  BY <1>1, AbandonSafe DEF Copy
<1>2. CASE /\ block' = WithBlock(WithoutBlock(block, vec[v].data), NewBlock, Array(Padded(Now(o), vec[o].cap)))
           /\ vec' = [vec EXCEPT ![v] = [vec[o] EXCEPT !.data = NewBlock]]
           /\ held' = [held EXCEPT ![v] = held[o]]
           /\ Deletes(vec[v].data)
           /\ UNCHANGED thrown
  <2>1. /\ OwnsIn(block, vec[o]) /\ held[o] \in Seq(Elems) /\ Len(held[o]) = vec[o].size
        /\ Now(o) \in Seq(Cells) /\ Len(Now(o)) = vec[o].size
        /\ Now(o) # held[o] => MayLose
    BY VecHas
  <2>2. PICK n \in Nat, k \in Nat : n = vec[o].cap /\ k = vec[o].size /\ k <= n
    BY <2>1 DEF OwnsIn, VecRecords
  <2>3. PICK c \in Seq(Cells), s \in Seq(Elems) : c = Now(o) /\ s = held[o]
    BY <2>1
  <2>4. PICK e : e = Padded(c, n) OBVIOUS
  <2>5. e \in Seq(Cells) /\ Len(e) = n /\ SubSeq(e, 1, k) = c
    BY <2>1, <2>2, <2>3, <2>4, PaddedHolds
  <2>6. SubSeq(e, 1, k) # s => MayLose'
    BY <1>2, <2>1, <2>3, <2>5, MayLoseStays DEF Copy
  <2>7. /\ block' = WithBlock(WithoutBlock(block, vec[v].data), NewBlock, Array(e))
        /\ held' = [held EXCEPT ![v] = s] /\ Len(s) = k
    BY <1>2, <2>1, <2>2, <2>3, <2>4
  <2>8. vec' = [vec EXCEPT ![v] = [data |-> NewBlock, size |-> k, cap |-> Len(e)]]
    <3>1. [vec[o] EXCEPT !.data = NewBlock] = [data |-> NewBlock, size |-> k, cap |-> n]
      BY <2>1, <2>2 DEF OwnsIn, VecRecords
    <3> QED BY <1>2, <2>5, <3>1
  <2>9. /\ RoomForBlock /\ UNCHANGED <<impl, kind>> /\ thrown \subseteq thrown'
        /\ k <= Len(e) /\ Deletes(vec[v].data)
    BY <1>2, <2>2, <2>5 DEF Copy
  <2> QED BY <2>2, <2>3, <2>5, <2>6, <2>7, <2>8, <2>9, RegrownSafe
<1> QED BY <1>1, <1>2 DEF Copy

\* The elements before k moved from: as many as there were.
LEMMA Hurts ==
  ASSUME NEW k \in Nat, NEW e \in Seq(Cells), NEW f,
         f = [i \in DOMAIN e |-> IF i < k THEN 0 ELSE e[i]]
  PROVE  f \in Seq(Cells) /\ Len(f) = Len(e)
<1>1. PICK n \in Nat : n = Len(e) /\ DOMAIN e = 1..n
  OBVIOUS
<1>2. f = [i \in 1..n |-> IF i < k THEN 0 ELSE e[i]]
  BY <1>1
<1>3. \A i \in 1..n : f[i] \in Cells
  BY <1>1, <1>2 DEF Cells
<1>4. DOMAIN f = 1..n /\ f \in [1..n -> Cells]
  BY <1>2, <1>3
<1> QED BY <1>1, <1>4

\* An array with other elements: it is what it was, and so are the others.
WithEls(q, b, f) == [q EXCEPT ![b].els = f]
LEMMA Written ==
  ASSUME NEW q, NEW b, NEW f \in Seq(Cells), NEW h, Heap(q), b \in DOMAIN q,
         Len(f) = Len(q[b].els), h = WithEls(q, b, f)
  PROVE  /\ Heap(h) /\ DOMAIN h = DOMAIN q /\ \A x \in DOMAIN q : x # b => h[x] = q[x]
         /\ \A x \in DOMAIN q : h[x].form = q[x].form
         /\ h[b].els = f
<1>1. q[b] \in Arrays
  BY DEF Heap
<1>2. h[b] = [form |-> q[b].form, els |-> f] /\ h[b] \in Arrays
  BY <1>1 DEF Arrays, WithEls
<1>3. DOMAIN h = DOMAIN q /\ (\A x \in DOMAIN q : x # b => h[x] = q[x])
      /\ h = [x \in DOMAIN h |-> h[x]]
  BY DEF WithEls
<1>4. Heap(h)
  BY <1>2, <1>3 DEF Heap
<1>5. h[b].els = f /\ h[b].form = q[b].form
  BY <1>2
<1> QED BY <1>3, <1>4, <1>5

LEMMA ReserveThrowsSafe ==
  ASSUME VecInv, ~undefined, NEW v \in Vecs, RoomForBlock, UNCHANGED <<impl, kind>>, ReserveThrows(v)
  PROVE  VecInv'
<1>1. PICK b : b = vec[v].data OBVIOUS
<1>2. PICK k \in 1..vec[v].size :
        block' = LET hurt == IF Copies \/ k = 1 THEN block
                             ELSE [block EXCEPT ![b].els = [i \in DOMAIN @ |-> IF i < k THEN 0 ELSE @[i]]]
                 IN IF impl = "basic" THEN hurt ELSE WithBlock(hurt, NewBlock, Array(<<>>))
  BY <1>1 DEF ReserveThrows
<1>3. MayThrow /\ Threw("reserve")
  BY DEF ReserveThrows
<1>4. CASE Copies \/ k = 1
  <2>1. Abandon
    BY <1>2, <1>4 DEF Abandon
  <2> QED BY <1>3, <2>1, AbandonSafe
<1>5. CASE ~(Copies \/ k = 1)
  <2>1. OwnsIn(block, vec[v]) /\ Heap(block) /\ (impl = "basic" => AllArrays(block))
    BY VecHas, BlockKept
  <2>2. k \in Nat /\ b \in DOMAIN block /\ b # 0
    BY <1>1, <1>2, <2>1 DEF OwnsIn, VecRecords, EmptyVec
  <2>3. PICK e : e = block[b].els OBVIOUS
  <2>4. PICK f : f = [i \in DOMAIN e |-> IF i < k THEN 0 ELSE e[i]] OBVIOUS
  <2>5. PICK h : h = WithEls(block, b, f) OBVIOUS
  <2>6. h = [block EXCEPT ![b].els = [i \in DOMAIN @ |-> IF i < k THEN 0 ELSE @[i]]]
    BY <2>3, <2>4, <2>5 DEF WithEls
  <2>7. e \in Seq(Cells) /\ f \in Seq(Cells) /\ Len(f) = Len(e)
    <3>1. e \in Seq(Cells)
      BY <2>1, <2>2, <2>3 DEF Heap, Arrays
    <3> QED BY <2>2, <2>4, <3>1, Hurts
  <2>8. /\ Heap(h) /\ DOMAIN h = DOMAIN block /\ \A x \in DOMAIN block : x # b => h[x] = block[x]
        /\ \A x \in DOMAIN block : h[x].form = block[x].form
        /\ Len(h[b].els) = Len(block[b].els)
    <3>1. Len(f) = Len(block[b].els)
      BY <2>3, <2>7
    <3>2. /\ Heap(h) /\ DOMAIN h = DOMAIN block /\ \A x \in DOMAIN block : x # b => h[x] = block[x]
          /\ \A x \in DOMAIN block : h[x].form = block[x].form
          /\ h[b].els = f
      BY <2>1, <2>2, <2>5, <2>7, <3>1, Written
    <3> QED BY <3>1, <3>2
  <2>9. Fits(h[b], vec[v]) /\ OwnsIn(h, vec[v])
    BY <1>1, <2>1, <2>2, <2>8 DEF OwnsIn, Fits
  <2>10. impl = "basic" => AllArrays(h)
    BY <2>1, <2>8 DEF AllArrays
  <2>11. "reserve" \in thrown' /\ thrown \subseteq thrown' /\ UNCHANGED <<vec, held, undefined>>
    BY <1>3 DEF Threw
  <2>12. MayLose'
    BY <1>3, <1>5, <2>11 DEF MayLose, Copies, MayThrow, VecInv, VecTypes
  <2>13. ASSUME impl = "basic" PROVE VecInv'
    <3>1. block' = h
      BY <1>2, <1>5, <2>6, <2>13
    <3>2. OthersKept(block, h, v)
      BY <1>1, <2>8, VecHas DEF OthersKept
    <3> QED BY <2>8, <2>9, <2>10, <2>11, <2>12, <3>1, <3>2, NoneChanges
  <2>14. ASSUME impl # "basic" PROVE VecInv'
    <3>1. PICK g : g = WithBlock(h, NewBlock, Array(<<>>)) OBVIOUS
    <3>2. block' = g
      BY <1>2, <1>5, <2>6, <2>14, <3>1
    <3>3. PICK a \in Arrays : a = Array(<<>>) /\ a.form = "array"
      BY NoCells
    <3>4. g = WithBlock(h, NewBlock, a)
      BY <3>1, <3>3
    <3>5. Heap(g) /\ OthersKept(block, g, v) /\ OwnsIn(g, vec[v])
      BY <1>1, <2>8, <2>9, <2>10, <2>14, <3>4, Strays
    <3>6. MayLeak'
      BY <2>11, <2>14 DEF MayLeak
    <3> QED BY <2>11, <2>12, <2>14, <3>2, <3>5, <3>6, NoneChanges
  <2> QED BY <2>13, <2>14
<1> QED BY <1>4, <1>5

\* The elements of v, as they are, in a new array with room for n.
LEMMA GrownSafe ==
  ASSUME VecInv, ~undefined, NEW v \in Vecs, NEW n \in Nat, vec[v].size <= n,
         RoomForBlock, UNCHANGED <<impl, kind, held>>, thrown \subseteq thrown', Deletes(vec[v].data),
         block' = Grown(v, n),
         vec' = [vec EXCEPT ![v] = [data |-> NewBlock, size |-> vec[v].size, cap |-> n]]
  PROVE  VecInv'
<1>1. /\ OwnsIn(block, vec[v]) /\ held[v] \in Seq(Elems) /\ Len(held[v]) = vec[v].size
      /\ Now(v) \in Seq(Cells) /\ Len(Now(v)) = vec[v].size /\ (Now(v) # held[v] => MayLose)
  BY VecHas
<1>2. PICK k \in Nat : k = vec[v].size
  BY <1>1 DEF OwnsIn, VecRecords
<1>3. PICK c \in Seq(Cells), s \in Seq(Elems) : c = Now(v) /\ s = held[v]
  BY <1>1
<1>4. PICK e : e = Padded(c, n) OBVIOUS
<1>5. e \in Seq(Cells) /\ Len(e) = n /\ SubSeq(e, 1, k) = c
  BY <1>1, <1>2, <1>3, <1>4, PaddedHolds
<1>6. SubSeq(e, 1, k) # s => MayLose'
  BY <1>1, <1>3, <1>5, MayLoseStays
<1>7. block' = WithBlock(WithoutBlock(block, vec[v].data), NewBlock, Array(e))
  BY <1>3, <1>4 DEF Grown
<1>8. held' = [held EXCEPT ![v] = s] /\ Len(s) = k /\ k <= Len(e)
      /\ vec' = [vec EXCEPT ![v] = [data |-> NewBlock, size |-> k, cap |-> Len(e)]]
  BY <1>1, <1>2, <1>3, <1>5 DEF VecInv, VecTypes
<1> QED BY <1>2, <1>3, <1>5, <1>6, <1>7, <1>8, RegrownSafe

LEMMA ReserveSafe ==
  ASSUME VecInv, ~undefined, NEW v \in Vecs, NEW n \in Nat, Reserve(v, n)
  PROVE  VecInv'
<1>1. CASE ReserveThrows(v)
  BY <1>1, ReserveThrowsSafe DEF Reserve
<1>2. CASE /\ block' = Grown(v, n)
           /\ vec' = [vec EXCEPT ![v].data = NewBlock, ![v].cap = n]
           /\ Deletes(vec[v].data)
           /\ UNCHANGED <<held, thrown>>
  <2>1. OwnsIn(block, vec[v]) /\ vec \in [Vecs -> VecRecords]
    BY VecHas
  <2>2. vec[v].size <= n
    BY <2>1 DEF Reserve, Returns, OwnsIn, VecRecords
  <2>3. vec' = [vec EXCEPT ![v] = [data |-> NewBlock, size |-> vec[v].size, cap |-> n]]
    <3>1. PICK r : r = [data |-> NewBlock, size |-> vec[v].size, cap |-> n] OBVIOUS
    <3>2. PICK b : b = NewBlock OBVIOUS
    <3>3. PICK q \in VecRecords : q = vec[v]
      BY <2>1
    <3>4. [q EXCEPT !.data = b, !.cap = n] = [data |-> b, size |-> q.size, cap |-> n]
      <4>1. PICK p : p = [q EXCEPT !.data = b] OBVIOUS
      <4>2. p = [data |-> b, size |-> q.size, cap |-> q.cap]
        BY <4>1 DEF VecRecords
      <4>3. [q EXCEPT !.data = b, !.cap = n] = [p EXCEPT !.cap = n]
        BY <4>1
      <4> QED BY <4>2, <4>3
    <3>5. [vec[v] EXCEPT !.data = b, !.cap = n] = r
      BY <3>1, <3>2, <3>3, <3>4
    <3>6. vec' = [vec EXCEPT ![v] = [vec[v] EXCEPT !.data = b, !.cap = n]]
      BY <1>2, <2>1, <3>2
    <3> QED BY <3>1, <3>5, <3>6
  <2>4. RoomForBlock /\ UNCHANGED <<impl, kind, held>> /\ thrown \subseteq thrown' /\ Deletes(vec[v].data)
    BY <1>2 DEF Reserve
  <2> QED BY <1>2, <2>2, <2>3, <2>4, GrownSafe
<1> QED BY <1>1, <1>2 DEF Reserve

(***************************************************************************)
(* push_back into a new array, and into the one there is.                  *)
(***************************************************************************)
\* The value put into the array made for it.
PutIn(e, n, x) == [e EXCEPT ![n] = x]
LEMMA PutIntoNew ==
  ASSUME NEW h, NEW b, NEW e \in Seq(Cells), NEW n \in 1..Len(e), NEW x \in Cells, NEW f,
         f = PutIn(e, n, x)
  PROVE  PutAt(WithBlock(h, b, Array(e)), b, n, x) = WithBlock(h, b, Array(f))
<1>1. [Array(e) EXCEPT !.els[n] = x] = Array(f)
  BY SMTT(30) DEF Array, PutIn
<1>2. PICK g : g = WithBlock(h, b, Array(e)) OBVIOUS
<1>3. g = [y \in DOMAIN g |-> g[y]] /\ g[b] = Array(e) /\ DOMAIN g = DOMAIN h \cup {b}
      /\ \A y \in DOMAIN h \ {b} : g[y] = h[y]
  BY <1>2 DEF WithBlock
<1>4. PutAt(g, b, n, x) = [y \in DOMAIN h \cup {b} |-> IF y = b THEN [Array(e) EXCEPT !.els[n] = x] ELSE h[y]]
  BY <1>3 DEF PutAt
<1> QED BY <1>1, <1>2, <1>4 DEF WithBlock

LEMMA PushGrows ==
  ASSUME VecInv, ~undefined, NEW v \in Vecs, NEW x \in Elems, NEW n \in Nat, NEW k \in Nat,
         k = vec[v].size, k < n, RoomForBlock, Deletes(vec[v].data),
         UNCHANGED <<impl, kind, thrown>>,
         block' = PutAt(Grown(v, n), NewBlock, k + 1, x),
         vec' = [vec EXCEPT ![v] = [data |-> NewBlock, size |-> k + 1, cap |-> n]],
         held' = [held EXCEPT ![v] = Append(@, x)]
  PROVE  VecInv'
<1>1. /\ held[v] \in Seq(Elems) /\ Len(held[v]) = vec[v].size
      /\ Now(v) \in Seq(Cells) /\ Len(Now(v)) = vec[v].size /\ (Now(v) # held[v] => MayLose)
  BY VecHas
<1>2. PICK m \in Nat : m = k + 1 OBVIOUS
<1>3. PICK c \in Seq(Cells), t \in Seq(Elems) : c = Now(v) /\ t = held[v]
  BY <1>1
<1>4. PICK e : e = Padded(c, n) OBVIOUS
<1>5. e \in Seq(Cells) /\ Len(e) = n /\ SubSeq(e, 1, k) = c
  <2>1. Len(c) = k /\ k <= n
    BY <1>1, <1>3
  <2> QED BY <1>4, <2>1, PaddedHolds
<1>6. PICK f : f = [e EXCEPT ![m] = x] OBVIOUS
<1>7. m \in 1..Len(e) /\ x \in Cells /\ m - 1 = k
  BY <1>2, <1>5 DEF Cells
<1>8. f \in Seq(Cells) /\ Len(f) = n /\ SubSeq(f, 1, m) = Append(SubSeq(e, 1, m - 1), x)
  BY <1>5, <1>6, <1>7, PutHolds
<1>9. SubSeq(f, 1, m) = Append(c, x)
  BY <1>5, <1>7, <1>8
<1>10. PICK s \in Seq(Elems) : s = Append(t, x)
  BY AppendProperties
<1>11. Len(s) = m
  BY <1>1, <1>2, <1>3, <1>10
<1>12. SubSeq(f, 1, m) # s => MayLose'
  BY <1>1, <1>3, <1>9, <1>10, MayLoseStays
<1>13. block' = WithBlock(WithoutBlock(block, vec[v].data), NewBlock, Array(f))
  <2>1. PICK h : h = WithoutBlock(block, vec[v].data) OBVIOUS
  <2>2. block' = PutAt(WithBlock(h, NewBlock, Array(e)), NewBlock, m, x)
    BY <1>2, <1>3, <1>4, <2>1 DEF Grown
  <2>3. PICK b : b = NewBlock OBVIOUS
  <2>4. PutAt(WithBlock(h, b, Array(e)), b, m, x) = WithBlock(h, b, Array(f))
    <3>1. f = PutIn(e, m, x)
      BY <1>6 DEF PutIn
    <3> QED BY <1>5, <1>7, <3>1, PutIntoNew, SMTT(30)
  <2> QED BY <2>1, <2>2, <2>3, <2>4
<1>14. vec' = [vec EXCEPT ![v] = [data |-> NewBlock, size |-> m, cap |-> Len(f)]]
  BY <1>2, <1>8
<1>15. held' = [held EXCEPT ![v] = s] /\ m <= Len(f) /\ thrown \subseteq thrown'
  BY <1>3, <1>5, <1>7, <1>8, <1>10
<1> QED BY <1>8, <1>11, <1>12, <1>13, <1>14, <1>15, RegrownSafe

LEMMA PushFits ==
  ASSUME VecInv, ~undefined, NEW v \in Vecs, NEW x \in Elems, NEW k \in Nat,
         k = vec[v].size, vec[v].size # vec[v].cap,
         UNCHANGED <<impl, kind, thrown, undefined>>,
         block' = PutAt(block, vec[v].data, k + 1, x),
         vec' = [vec EXCEPT ![v] = [vec[v] EXCEPT !.size = k + 1]],
         held' = [held EXCEPT ![v] = Append(@, x)]
  PROVE  VecInv'
<1>1. /\ Heap(block) /\ OwnsIn(block, vec[v]) /\ held[v] \in Seq(Elems) /\ Len(held[v]) = k
      /\ NowIn(block, vec[v]) # held[v] => MayLose
      /\ impl = "basic" => AllArrays(block)
      /\ \A w \in Vecs \ {v} : vec[w].data # 0 => vec[w].data # vec[v].data
  BY VecHas, BlockKept
<1>2. PICK p \in VecRecords : p = vec[v]
  BY <1>1 DEF OwnsIn
<1>3. PICK d : d = p.data OBVIOUS
<1>4. d # 0 /\ d \in DOMAIN block /\ Fits(block[d], p) /\ k < p.cap
  BY <1>1, <1>2, <1>3 DEF OwnsIn, EmptyVec, VecRecords
<1>5. PICK e : e = block[d].els OBVIOUS
<1>6. e \in Seq(Cells) /\ p.cap <= Len(e)
  BY <1>1, <1>4, <1>5 DEF Heap, Arrays, Fits
<1>7. PICK m \in Nat : m = k + 1 OBVIOUS
<1>8. m \in 1..Len(e) /\ x \in Cells /\ m - 1 = k /\ m <= p.cap
  BY <1>2, <1>4, <1>6, <1>7 DEF Cells, VecRecords
<1>9. PICK f : f = [e EXCEPT ![m] = x] OBVIOUS
<1>10. f \in Seq(Cells) /\ Len(f) = Len(e) /\ SubSeq(f, 1, m) = Append(SubSeq(e, 1, m - 1), x)
  BY <1>6, <1>8, <1>9, PutHolds
<1>11. PICK g : g = WithEls(block, d, f) OBVIOUS
<1>12. Len(f) = Len(block[d].els)
  BY <1>5, <1>10
<1>13. /\ Heap(g) /\ DOMAIN g = DOMAIN block /\ \A y \in DOMAIN block : y # d => g[y] = block[y]
       /\ \A y \in DOMAIN block : g[y].form = block[y].form
       /\ g[d].els = f
  BY <1>1, <1>4, <1>10, <1>11, <1>12, Written, SMTT(30)
<1>14. block' = g
  BY <1>2, <1>3, <1>5, <1>7, <1>9, <1>11 DEF PutAt, WithEls
<1>15. PICK r : r = [data |-> d, size |-> m, cap |-> p.cap] OBVIOUS
<1>16. vec' = [vec EXCEPT ![v] = r]
  <2>1. [p EXCEPT !.size = m] = r
    BY <1>2, <1>3, <1>15 DEF VecRecords
  <2> QED BY <1>2, <1>7, <2>1
<1>17. OwnsIn(g, r)
  <2>1. d \in Blocks \cup {0} /\ p.cap \in Nat
    BY <1>2, <1>3 DEF VecRecords
  <2>2. Fits(g[d], r)
    BY <1>4, <1>5, <1>10, <1>13, <1>15 DEF Fits
  <2> QED BY <1>4, <1>8, <1>13, <1>15, <2>1, <2>2 DEF OwnsIn, VecRecords
<1>18. PICK s \in Seq(Elems) : s = Append(held[v], x)
  BY <1>1, AppendProperties
<1>19. held' = [held EXCEPT ![v] = s] /\ Len(s) = r.size
  BY <1>1, <1>7, <1>15, <1>18
<1>20. NowIn(g, r) # s => MayLose'
  <2>1. NowIn(block, vec[v]) = SubSeq(e, 1, m - 1)
    BY <1>2, <1>3, <1>4, <1>5, <1>8 DEF NowIn
  <2>2. NowIn(g, r) = Append(SubSeq(e, 1, m - 1), x)
    BY <1>4, <1>10, <1>13, <1>15 DEF NowIn
  <2> QED BY <1>1, <1>18, <2>1, <2>2, MayLoseStays
<1>21. OthersKept(block, g, v)
  BY <1>1, <1>2, <1>3, <1>13, VecHas DEF OthersKept
<1>22. impl = "basic" => AllArrays(g)
  BY <1>1, <1>13 DEF AllArrays
<1>23. /\ DOMAIN g \subseteq (DOMAIN block \ {vec[v].data}) \cup {r.data}
       /\ \A w \in Vecs \ {v} : r.data # 0 => r.data # vec[w].data
  BY <1>1, <1>2, <1>3, <1>13, <1>15
<1> QED BY <1>13, <1>14, <1>16, <1>17, <1>19, <1>20, <1>21, <1>22, <1>23, OneChanges

LEMMA PushBackSafe ==
  ASSUME VecInv, ~undefined, NEW v \in Vecs, NEW x \in Elems, PushBack(v, x)
  PROVE  VecInv'
<1>1. /\ OwnsIn(block, vec[v]) /\ vec \in [Vecs -> VecRecords] /\ Heap(block)
      /\ OthersKept(block, block, v) /\ (impl = "basic" => AllArrays(block))
  BY VecHas, BlockKept
<1>2. PICK k \in Nat, c \in Nat : k = vec[v].size /\ c = vec[v].cap
  BY <1>1 DEF OwnsIn, VecRecords
<1>3. UNCHANGED <<impl, kind>>
  BY DEF PushBack
<1>4. CASE vec[v].size = vec[v].cap
  <2>1. PICK n : n = IF c = 0 THEN 1 ELSE 2 * c OBVIOUS
  <2>2. n \in Nat /\ k < n
    BY <1>2, <1>4, <2>1
  <2>3. RoomForBlock
    BY <1>4 DEF PushBack
  <2>4. \/ /\ block' = PutAt(Grown(v, n), NewBlock, k + 1, x)
           /\ vec' = [vec EXCEPT ![v] = [[data |-> NewBlock, size |-> (k + 1) - 1, cap |-> n] EXCEPT !.size = k + 1]]
           /\ held' = [held EXCEPT ![v] = Append(@, x)]
           /\ Deletes(vec[v].data) /\ UNCHANGED thrown
        \/ ReserveThrows(v)
        \/ /\ block' = Grown(v, n)
           /\ vec' = [vec EXCEPT ![v] = [data |-> NewBlock, size |-> (k + 1) - 1, cap |-> n]]
           /\ Deletes(vec[v].data) /\ UNCHANGED <<held, thrown>>
    BY <1>2, <1>4, <2>1 DEF PushBack
  <2>5. /\ [[data |-> NewBlock, size |-> (k + 1) - 1, cap |-> n] EXCEPT !.size = k + 1] = [data |-> NewBlock, size |-> k + 1, cap |-> n]
        /\ (k + 1) - 1 = vec[v].size
    BY <1>2
  <2>6. CASE ReserveThrows(v)
    BY <1>3, <2>3, <2>6, ReserveThrowsSafe
  <2>7. CASE /\ block' = PutAt(Grown(v, n), NewBlock, k + 1, x)
             /\ vec' = [vec EXCEPT ![v] = [[data |-> NewBlock, size |-> (k + 1) - 1, cap |-> n] EXCEPT !.size = k + 1]]
             /\ held' = [held EXCEPT ![v] = Append(@, x)]
             /\ Deletes(vec[v].data) /\ UNCHANGED thrown
    <3>1. vec' = [vec EXCEPT ![v] = [data |-> NewBlock, size |-> k + 1, cap |-> n]]
      BY <2>5, <2>7
    <3> QED BY <1>2, <1>3, <2>2, <2>3, <2>7, <3>1, PushGrows
  <2>8. CASE /\ block' = Grown(v, n)
             /\ vec' = [vec EXCEPT ![v] = [data |-> NewBlock, size |-> (k + 1) - 1, cap |-> n]]
             /\ Deletes(vec[v].data) /\ UNCHANGED <<held, thrown>>
    <3>1. vec' = [vec EXCEPT ![v] = [data |-> NewBlock, size |-> vec[v].size, cap |-> n]]
      BY <2>5, <2>8
    <3>2. vec[v].size <= n /\ thrown \subseteq thrown' /\ UNCHANGED <<impl, kind, held>>
      BY <1>2, <1>3, <2>2, <2>8
    <3> QED BY <2>2, <2>3, <2>8, <3>1, <3>2, GrownSafe
  <2> QED BY <2>4, <2>6, <2>7, <2>8
<1>5. CASE vec[v].size # vec[v].cap
  <2>1. \/ /\ block' = PutAt(block, vec[v].data, k + 1, x)
           /\ vec' = [vec EXCEPT ![v] = [vec[v] EXCEPT !.size = k + 1]]
           /\ held' = [held EXCEPT ![v] = Append(@, x)]
           /\ UNCHANGED <<thrown, undefined>>
        \/ block' = block /\ vec' = [vec EXCEPT ![v] = vec[v]] /\ UNCHANGED <<held, thrown, undefined>>
    BY <1>2, <1>5 DEF PushBack
  <2>2. CASE /\ block' = PutAt(block, vec[v].data, k + 1, x)
             /\ vec' = [vec EXCEPT ![v] = [vec[v] EXCEPT !.size = k + 1]]
             /\ held' = [held EXCEPT ![v] = Append(@, x)]
             /\ UNCHANGED <<thrown, undefined>>
    <3>1. UNCHANGED <<impl, kind, thrown, undefined>>
      BY <1>3, <2>2
    <3> QED BY <1>2, <1>5, <2>2, <3>1, PushFits
  <2>3. CASE block' = block /\ vec' = [vec EXCEPT ![v] = vec[v]] /\ UNCHANGED <<held, thrown, undefined>>
    <3>1. vec' = vec
      BY <1>1, <2>3
    <3> QED BY <1>1, <1>3, <2>3, <3>1, NoneChanges
  <2> QED BY <2>1, <2>2, <2>3
<1> QED BY <1>4, <1>5

LEMMA FrontOfPrefix ==
  ASSUME NEW e \in Seq(Cells), NEW k \in 1..Len(e)
  PROVE  SubSeq(SubSeq(e, 1, k), 1, k - 1) = SubSeq(e, 1, k - 1)
<1>1. PICK m \in Nat : m = k - 1 OBVIOUS
<1>2. PICK u : u = SubSeq(e, 1, k) OBVIOUS
<1>3. u \in Seq(Cells) /\ Len(u) = k /\ \A j \in 1..k : u[j] = e[j]
  BY <1>2
<1>4. PICK t : t = SubSeq(u, 1, m) OBVIOUS
<1>5. t \in Seq(Cells) /\ Len(t) = m /\ \A j \in 1..m : t[j] = u[j]
  BY <1>1, <1>3, <1>4
<1>6. PICK w : w = SubSeq(e, 1, m) OBVIOUS
<1>7. w \in Seq(Cells) /\ Len(w) = m /\ \A j \in 1..m : w[j] = e[j]
  BY <1>1, <1>6
<1>8. \A j \in 1..m : t[j] = w[j]
  BY <1>1, <1>3, <1>5, <1>7
<1>9. t = w
  BY <1>5, <1>7, <1>8, SeqEqual
<1> QED BY <1>1, <1>2, <1>4, <1>6, <1>9

LEMMA PopBackSafe ==
  ASSUME VecInv, ~undefined, NEW v \in Vecs, PopBack(v)
  PROVE  VecInv'
<1>1. /\ Heap(block) /\ OwnsIn(block, vec[v]) /\ held[v] \in Seq(Elems) /\ Len(held[v]) = vec[v].size
      /\ NowIn(block, vec[v]) # held[v] => MayLose
      /\ impl = "basic" => AllArrays(block)
      /\ \A w \in Vecs \ {v} : vec[w].data # 0 => vec[w].data # vec[v].data
      /\ OthersKept(block, block, v)
  BY VecHas, BlockKept
<1>2. PICK p \in VecRecords : p = vec[v]
  BY <1>1 DEF OwnsIn
<1>3. PICK k \in Nat : k = p.size
  BY <1>2 DEF VecRecords
<1>4. PICK d : d = p.data OBVIOUS
<1>5. k > 0 /\ k <= p.cap /\ d # 0 /\ d \in DOMAIN block /\ Fits(block[d], p)
  BY <1>1, <1>2, <1>3, <1>4 DEF PopBack, OwnsIn, EmptyVec
<1>6. PICK m \in Nat : m = k - 1
  BY <1>5
<1>7. PICK e : e = block[d].els OBVIOUS
<1>8. e \in Seq(Cells) /\ k \in 1..Len(e) /\ m <= p.cap
  <2>1. e \in Seq(Cells) /\ p.cap <= Len(e) /\ p.cap \in Nat
    BY <1>1, <1>2, <1>5, <1>7 DEF Heap, Arrays, Fits, VecRecords
  <2> QED BY <1>5, <1>6, <2>1
<1>9. PICK r : r = [data |-> d, size |-> m, cap |-> p.cap] OBVIOUS
<1>10. vec' = [vec EXCEPT ![v] = r]
  <2>1. [p EXCEPT !.size = k - 1] = r
    BY <1>2, <1>4, <1>6, <1>9 DEF VecRecords
  <2> QED BY <1>2, <1>3, <2>1 DEF PopBack
<1>11. OwnsIn(block, r)
  <2>1. d \in Blocks \cup {0} /\ p.cap \in Nat
    BY <1>2, <1>4 DEF VecRecords
  <2>2. Fits(block[d], r)
    BY <1>5, <1>9 DEF Fits
  <2> QED BY <1>5, <1>8, <1>9, <2>1, <2>2 DEF OwnsIn, VecRecords
<1>12. PICK u \in Seq(Elems) : u = held[v] /\ Len(u) = k
  BY <1>1, <1>2, <1>3
<1>13. PICK s : s = SubSeq(u, 1, m) OBVIOUS
<1>14. s \in Seq(Elems) /\ Len(s) = m
  BY <1>6, <1>12, <1>13
<1>15. held' = [held EXCEPT ![v] = s] /\ Len(s) = r.size
  <2>1. Front(u) = s
    BY <1>6, <1>12, <1>13 DEF Front
  <2>2. held' = [held EXCEPT ![v] = Front(held[v])]
    BY DEF PopBack
  <2> QED BY <1>9, <1>12, <1>14, <2>1, <2>2
<1>16. UNCHANGED <<impl, kind, block, thrown, undefined>>
  BY DEF PopBack
<1>17. NowIn(block, r) # s => MayLose'
  <2>1. NowIn(block, p) = SubSeq(e, 1, k)
    BY <1>3, <1>4, <1>5, <1>7 DEF NowIn
  <2>2. NowIn(block, r) = SubSeq(e, 1, m)
    BY <1>5, <1>7, <1>9 DEF NowIn
  <2>3. SubSeq(SubSeq(e, 1, k), 1, m) = SubSeq(e, 1, m)
    BY <1>6, <1>8, FrontOfPrefix
  <2>4. NowIn(block, p) = u => NowIn(block, r) = s
    BY <1>13, <2>1, <2>2, <2>3
  <2> QED BY <1>1, <1>2, <1>12, <1>16, <2>4, MayLoseStays
<1>18. /\ DOMAIN block \subseteq (DOMAIN block \ {vec[v].data}) \cup {r.data}
       /\ \A w \in Vecs \ {v} : r.data # 0 => r.data # vec[w].data
  BY <1>1, <1>2, <1>4, <1>9
<1> QED BY <1>1, <1>10, <1>11, <1>14, <1>15, <1>16, <1>17, <1>18, OneChanges

LEMMA MoveSafe ==
  ASSUME VecInv, ~undefined, NEW v \in Vecs, NEW o \in Vecs, Move(v, o)
  PROVE  VecInv'
<1>1. /\ Heap(block) /\ vec \in [Vecs -> VecRecords] /\ OwnsIn(block, vec[o]) /\ v # o
      /\ vec[o].data # 0 => vec[o].data # vec[v].data
      /\ held[o] \in Seq(Elems) /\ Len(held[o]) = vec[o].size
      /\ NowIn(block, vec[o]) # held[o] => MayLose
  BY VecHas DEF Move
<1>2. PICK g : g = WithoutBlock(block, vec[v].data) OBVIOUS
<1>3. /\ Heap(g) /\ DOMAIN g = DOMAIN block \ {vec[v].data} /\ OthersKept(block, g, v)
      /\ \A x \in DOMAIN g : g[x] = block[x]
      /\ impl = "basic" => AllArrays(g)
  BY <1>2, Emptied
<1>4. Vecs = {v, o}
  BY <1>1 DEF Vecs
<1>5. block' = g /\ UNCHANGED <<impl, kind, thrown>> /\ Deletes(vec[v].data)
  BY <1>2 DEF Move
<1>6. vec'[v] = vec[o] /\ vec'[o] = EmptyVec /\ held'[v] = held[o] /\ held'[o] = <<>>
  BY <1>1 DEF Move, VecInv, VecTypes
<1>7. vec' \in [Vecs -> VecRecords] /\ held' \in [Vecs -> Seq(Elems)]
  <2>1. EmptyVec \in VecRecords
    BY DEF EmptyVec, VecRecords
  <2>2. held \in [Vecs -> Seq(Elems)]
    BY DEF VecInv, VecTypes
  <2> QED BY <1>1, <2>1, <2>2, EmptySeq DEF Move
<1>8. OwnsIn(g, vec[o]) /\ NowIn(g, vec[o]) = NowIn(block, vec[o])
  BY <1>1, <1>3 DEF OwnsIn, NowIn, OthersKept
<1>9. OwnsIn(g, EmptyVec) /\ NowIn(g, EmptyVec) = <<>> /\ EmptyVec.size = 0 /\ EmptyVec.data = 0
  BY DEF OwnsIn, NowIn, EmptyVec, VecRecords
<1>10. HeapOk(g, vec')
  BY <1>3, <1>4, <1>6, <1>7, <1>8, <1>9 DEF HeapOk
<1>11. \A w \in Vecs : Len(held'[w]) = vec'[w].size /\ (NowIn(g, vec'[w]) # held'[w] => MayLose')
  BY <1>1, <1>4, <1>5, <1>6, <1>8, <1>9, MayLoseStays
<1>12. Leaks(g, vec') # {} => MayLeak'
  <2>1. Leaks(g, vec') \subseteq Leaks(block, vec)
    BY <1>3, <1>4, <1>6 DEF Leaks
  <2> QED BY <1>5, <2>1 DEF MayLeak, VecInv, VecSound
<1>13. VecTypes'
  BY <1>5, <1>7 DEF VecInv, VecTypes
<1>14. undefined' => impl = "vec_1"
  BY <1>5, DeletesSound
<1>15. VecSound'
  BY <1>3, <1>5, <1>10, <1>11, <1>12 DEF VecSound, AsHeld
<1> QED BY <1>5, <1>13, <1>14, <1>15 DEF VecInv

\* v, which holds nothing, gets the array a with the contents s.
LEMMA Initialised ==
  ASSUME VecInv, ~undefined, NEW v \in Vecs, vec[v] = EmptyVec, RoomForBlock, UNCHANGED <<impl, kind, thrown>>,
         NEW a \in Arrays, NEW s \in Seq(Elems), NEW n \in Nat, n = Len(s),
         Fits(a, [data |-> NewBlock, size |-> n, cap |-> n]), SubSeq(a.els, 1, n) = s,
         impl = "basic" => a.form = "array",
         block' = WithBlock(block, NewBlock, a),
         vec' = [vec EXCEPT ![v] = [data |-> NewBlock, size |-> n, cap |-> n]],
         held' = [held EXCEPT ![v] = s], undefined' => impl = "vec_1"
  PROVE  VecInv'
<1>1. /\ Heap(block) /\ OthersKept(block, block, v) /\ (impl = "basic" => AllArrays(block))
      /\ \A w \in Vecs \ {v} : vec[w].data # 0 => vec[w].data \in DOMAIN block
  BY VecHas, BlockKept
<1>2. PICK b \in Blocks : b = NewBlock /\ b \notin DOMAIN block /\ b # 0
  BY <1>1, NewBlockIsNew, Zero
<1>3. PICK g : g = WithBlock(block, b, a) OBVIOUS
<1>4. /\ Heap(g) /\ DOMAIN g = DOMAIN block \cup {b} /\ g[b] = a
      /\ \A x \in DOMAIN block \ {b} : g[x] = block[x]
  BY <1>1, <1>2, <1>3 DEF Heap, WithBlock
<1>5. PICK r : r = [data |-> b, size |-> n, cap |-> n] OBVIOUS
<1>6. OwnsIn(g, r) /\ NowIn(g, r) = s /\ Len(s) = r.size
  BY <1>2, <1>4, <1>5 DEF OwnsIn, NowIn, VecRecords
<1>7. OthersKept(block, g, v) /\ (impl = "basic" => AllArrays(g))
  BY <1>1, <1>2, <1>4 DEF OthersKept, AllArrays
<1>8. /\ \A w \in Vecs \ {v} : r.data # 0 => r.data # vec[w].data
      /\ DOMAIN g \subseteq (DOMAIN block \ {vec[v].data}) \cup {r.data}
  BY <1>1, <1>2, <1>4, <1>5, Zero DEF EmptyVec, Heap
<1>9. block' = g /\ vec' = [vec EXCEPT ![v] = r]
  BY <1>2, <1>3, <1>5
<1> QED BY <1>4, <1>6, <1>7, <1>8, <1>9, OneChanges

LEMMA ArrayOf ==
  ASSUME NEW e \in Seq(Cells), NEW t \in {"array", "single"}
  PROVE  /\ [form |-> t, els |-> e] \in Arrays
         /\ [form |-> t, els |-> e].form = t /\ [form |-> t, els |-> e].els = e
  BY DEF Arrays

Literals == {<<>>} \cup {<<x>> : x \in Elems} \cup {<<x, x>> : x \in Elems}

LEMMA InitListSafe ==
  ASSUME VecInv, ~undefined, NEW v \in Vecs, NEW s \in Literals, InitList(v, s), UNCHANGED <<impl, kind>>
  PROVE  VecInv'
<1>1. s \in Seq(Elems) /\ s \in Seq(Cells)
  <2>1. <<>> \in Seq(Elems) /\ \A x \in Elems : <<x>> \in Seq(Elems) /\ <<x, x>> \in Seq(Elems)
    BY EmptySeq
  <2>2. s \in Seq(Elems)
    BY <2>1 DEF Literals
  <2> QED BY <2>2, SeqMonotonic DEF Cells
<1>2. PICK n \in Nat : n = Len(s)
  BY <1>1
<1>3. vec[v] = EmptyVec /\ RoomForBlock
  BY DEF InitList
<1>4. CASE /\ block' = WithBlock(block, NewBlock, Array(Padded(<<>>, Len(s))))
           /\ MayThrow /\ s # <<>> /\ Threw("list")
  <2>1. PICK e \in Seq(Cells) : e = Padded(<<>>, n)
    <3>1. <<>> \in Seq(Cells) /\ Len(<<>>) <= n
      BY EmptySeq
    <3> QED BY <3>1, PaddedHolds
  <2>2. PICK a \in Arrays : a = Array(e) /\ a.form = "array"
    BY ArrayOf DEF Array
  <2>3. Heap(block) /\ OwnsIn(block, vec[v]) /\ (impl = "basic" => AllArrays(block))
    BY VecHas, BlockKept
  <2>4. PICK g : g = WithBlock(block, NewBlock, a) OBVIOUS
  <2>5. vec[v].data # 0 => Fits(block[vec[v].data], vec[v])
    BY <2>3 DEF OwnsIn
  <2>6. /\ Heap(g) /\ OthersKept(block, g, v) /\ OwnsIn(g, vec[v])
        /\ NowIn(g, vec[v]) = NowIn(block, vec[v])
        /\ impl = "basic" => AllArrays(g)
    BY <1>3, <2>2, <2>3, <2>4, <2>5, Strays
  <2>7. thrown' = thrown \cup {"list"} /\ UNCHANGED <<vec, held, undefined>>
    BY <1>4 DEF Threw
  <2>8. MayLeak'
    BY <2>7 DEF MayLeak
  <2>9. block' = g
    BY <1>2, <1>4, <2>1, <2>2, <2>4
  <2> QED BY <2>6, <2>7, <2>8, <2>9, NoneChanges
<1>5. ASSUME /\ block' = WithBlock(block, NewBlock, IF impl = "basic" THEN Array(s)
                            ELSE [form |-> "single", els |-> IF s = <<>> THEN << 0 >> ELSE SubSeq(s, 1, 1)])
             /\ vec' = [vec EXCEPT ![v] = [data |-> NewBlock, size |-> Len(s), cap |-> Len(s)]]
             /\ held' = [held EXCEPT ![v] = s]
             /\ undefined' = (undefined \/ (impl = "vec_1" /\ Len(s) > 1))
             /\ UNCHANGED thrown
      PROVE  VecInv'
  <2>1. vec' = [vec EXCEPT ![v] = [data |-> NewBlock, size |-> n, cap |-> n]]
        /\ held' = [held EXCEPT ![v] = s] /\ UNCHANGED thrown
    BY <1>2, <1>5
  <2>2. (undefined' => impl = "vec_1") /\ (impl = "vec_1" /\ n > 1 => undefined')
    BY <1>2, <1>5
  <2>3. CASE impl = "basic"
    <3>1. PICK a \in Arrays : a = Array(s) /\ a.form = "array" /\ a.els = s
      BY <1>1, ArrayOf DEF Array
    <3>2. block' = WithBlock(block, NewBlock, a)
      BY <1>5, <2>3, <3>1
    <3>3. Fits(a, [data |-> NewBlock, size |-> n, cap |-> n])
      BY <1>2, <3>1 DEF Fits
    <3>4. SubSeq(a.els, 1, n) = s
      BY <1>1, <1>2, <3>1, SubSeqFull
    <3> QED BY <1>1, <1>2, <1>3, <2>1, <2>2, <3>1, <3>2, <3>3, <3>4, Initialised
  <2>4. CASE impl # "basic" /\ n <= 1
    <3>1. PICK e : e = IF s = <<>> THEN <<0>> ELSE SubSeq(s, 1, 1) OBVIOUS
    <3>2. e \in Seq(Cells) /\ Len(e) = 1 /\ SubSeq(e, 1, n) = s
      <4>1. ASSUME s = <<>> PROVE e \in Seq(Cells) /\ Len(e) = 1 /\ SubSeq(e, 1, n) = s
        <5>1. n = 0 /\ e = <<0>>
          BY <1>2, <3>1, <4>1
        <5>2. SubSeq(e, 1, 0) = <<>>
          BY SubSeqEmpty
        <5> QED BY <4>1, <5>1, <5>2 DEF Cells
      <4>2. ASSUME s # <<>> PROVE e \in Seq(Cells) /\ Len(e) = 1 /\ SubSeq(e, 1, n) = s
        <5>1. n = 1
          BY <1>1, <1>2, <2>4, <4>2, EmptySeq
        <5>2. SubSeq(s, 1, n) = s
          BY <1>1, <1>2, SubSeqFull
        <5>3. e = s
          BY <3>1, <4>2, <5>1, <5>2
        <5> QED BY <1>1, <1>2, <5>1, <5>2, <5>3
      <4> QED BY <4>1, <4>2
    <3>3. PICK a \in Arrays : a = [form |-> "single", els |-> e] /\ a.form = "single" /\ a.els = e
      BY <3>2, ArrayOf
    <3>4. block' = WithBlock(block, NewBlock, a)
      BY <1>5, <2>4, <3>1, <3>3
    <3>5. Fits(a, [data |-> NewBlock, size |-> n, cap |-> n])
      BY <2>4, <3>2, <3>3 DEF Fits
    <3>6. SubSeq(a.els, 1, n) = s
      BY <3>2, <3>3
    <3> QED BY <1>1, <1>2, <1>3, <2>1, <2>2, <2>4, <3>3, <3>4, <3>5, <3>6, Initialised
  <2>5. CASE impl # "basic" /\ n > 1
    <3>1. VecTypes'
      BY <1>1, <2>1 DEF VecInv, VecTypes
    <3>2. impl = "vec_1" /\ undefined'
      BY <2>2, <2>5 DEF VecInv, VecTypes
    <3> QED BY <3>1, <3>2 DEF VecInv
  <2> QED BY <2>3, <2>4, <2>5
<1> QED BY <1>4, <1>5 DEF InitList

(***************************************************************************)
(* Both vectors keep their contract, for any elements, throwing or not, in *)
(* arrays of any size and any number of them.                              *)
(***************************************************************************)
LEMMA VecInvInit == VectorsInit => VecInv
<1> SUFFICES ASSUME VectorsInit PROVE VecInv
  OBVIOUS
<1>1. VecTypes
  BY VectorsAssumption, EmptySeq DEF VectorsInit, VecTypes
<1>2. block = [b \in {} |-> <<>>] /\ vec = [v \in Vecs |-> EmptyVec] /\ held = [v \in Vecs |-> <<>>]
  BY DEF VectorsInit
<1>3. Heap(block) /\ DOMAIN block = {}
  BY <1>2 DEF Heap
<1>4. EmptyVec \in VecRecords /\ OwnsIn(block, EmptyVec) /\ EmptyVec.size = 0 /\ EmptyVec.data = 0
  BY DEF EmptyVec, VecRecords, OwnsIn
<1>5. HeapOk(block, vec)
  BY <1>2, <1>3, <1>4 DEF HeapOk
<1>6. AsHeld(block, vec) /\ Leaks(block, vec) = {} /\ AllArrays(block)
  BY <1>2, <1>3, <1>4 DEF AsHeld, NowIn, Leaks, AllArrays
<1> QED BY <1>1, <1>5, <1>6 DEF VecInv, VecSound, VectorsInit

LEMMA VecInvNext == VecInv /\ [VectorsNext]_vecVars => VecInv'
<1> SUFFICES ASSUME VecInv, [VectorsNext]_vecVars PROVE VecInv'
  OBVIOUS
<1>1. CASE UNCHANGED vecVars
  BY <1>1 DEF vecVars, VecInv, VecTypes, VecSound, HeapOk, AsHeld, Leaks, AllArrays, MayLeak, MayLose
<1>2. ASSUME VectorsNext PROVE VecInv'
  <2>1. ~undefined
    BY <1>2 DEF VectorsNext
  <2>2. PICK v \in Vecs :
          \/ \E s \in Literals : InitList(v, s) /\ UNCHANGED <<impl, kind>>
          \/ \E o \in Vecs : Copy(v, o) \/ Move(v, o)
          \/ Destroy(v)
          \/ \E n \in 0..MaxCap : Reserve(v, n)
          \/ \E x \in Elems : PushBack(v, x)
          \/ PopBack(v)
    BY <1>2 DEF VectorsNext, Literals
  <2>3. \A n \in 0..MaxCap : n \in Nat
    OBVIOUS
  <2> QED BY <2>1, <2>2, <2>3, InitListSafe, CopySafe, MoveSafe, DestroySafe, ReserveSafe,
             PushBackSafe, PopBackSafe
<1> QED BY <1>1, <1>2

LEMMA VecInvKeeps == VecInv => VectorsKeepContract
<1> SUFFICES ASSUME VecInv PROVE VectorsKeepContract
  OBVIOUS
<1>1. undefined => impl = "vec_1"
  BY DEF VecInv
<1>2. ASSUME ~undefined
      PROVE  /\ Owned \subseteq DOMAIN block
             /\ \A v \in Vecs :
                  /\ vec[v].size <= vec[v].cap
                  /\ vec[v].data = 0 => vec[v] = EmptyVec
                  /\ vec[v].data # 0 => vec[v].data \notin {vec[w].data : w \in Vecs \ {v}}
                  /\ vec[v].data # 0 /\ block[vec[v].data].form = "array"
                       => Len(block[vec[v].data].els) = vec[v].cap
                  /\ Len(held[v]) = vec[v].size
                  /\ Now(v) # held[v] =>
                       "reserve" \in thrown /\ (kind = "moveonly" \/ impl = "vec_1")
             /\ DOMAIN block # Owned =>
                  IF impl = "basic" THEN "list" \in thrown ELSE thrown # {}
  <2>1. HeapOk(block, vec) /\ AsHeld(block, vec) /\ (Leaks(block, vec) # {} => MayLeak)
    BY <1>2 DEF VecInv, VecSound
  <2>2. Owned \subseteq DOMAIN block
    BY <2>1 DEF HeapOk, OwnsIn, Owned
  <2>3. ASSUME NEW v \in Vecs
        PROVE  /\ vec[v].size <= vec[v].cap
               /\ vec[v].data = 0 => vec[v] = EmptyVec
               /\ vec[v].data # 0 => vec[v].data \notin {vec[w].data : w \in Vecs \ {v}}
               /\ vec[v].data # 0 /\ block[vec[v].data].form = "array"
                    => Len(block[vec[v].data].els) = vec[v].cap
    BY <2>1 DEF HeapOk, OwnsIn, Fits
  <2>4. ASSUME NEW v \in Vecs
        PROVE  /\ Len(held[v]) = vec[v].size
               /\ Now(v) # held[v] =>
                    "reserve" \in thrown /\ (kind = "moveonly" \/ impl = "vec_1")
    BY <1>2, <2>1, VecHas DEF AsHeld, MayLose
  <2>5. DOMAIN block # Owned => Leaks(block, vec) # {}
    BY <2>1, <2>2, Zero DEF Owned, Leaks, HeapOk, Heap
  <2> QED BY <2>1, <2>2, <2>3, <2>4, <2>5 DEF MayLeak
<1> QED BY <1>1, <1>2 DEF VectorsKeepContract

\* Neither vector does anything undefined but vec_1 with an initializer list,
\* each array has one owner, and each vector holds what it was given.
THEOREM VectorsKeepTheirContract == VectorsSpec => []VectorsKeepContract
  BY VecInvInit, VecInvNext, VecInvKeeps, PTL DEF VectorsSpec

------------------------------------------------------------------------------
(***************************************************************************)
(* Frames in pieces.  The receiver's buffer, the connection and what is    *)
(* still to be sent are one stream of bytes: the frames not yet erased,    *)
(* whole and in order, with the parser where one of them begins.           *)
(***************************************************************************)
FramesSpec == FramesInit /\ [][FramesNext]_frameVars

Size(f) == HeaderLen + packed[f].len
Byte == [frame : Nat, at : Nat]
Stream == (buf \o pipe) \o pending

FrameTypes ==
  /\ packed \in Seq([len : Nat, wanted : BOOLEAN])
  /\ pending \in Seq(Byte) /\ pipe \in Seq(Byte) /\ buf \in Seq(Byte)
  /\ offset \in Nat /\ taken \in Seq(Nat)

(* From any byte of a frame on the rest of it is there, and then the next. *)
Whole(s) ==
  \A i \in 1..Len(s) :
    /\ s[i].frame \in 1..Len(packed) /\ s[i].at \in 1..Size(s[i].frame)
    /\ (i - s[i].at) + Size(s[i].frame) <= Len(s)
    /\ \A k \in s[i].at..Size(s[i].frame) :
         s[(i - s[i].at) + k].frame = s[i].frame /\ s[(i - s[i].at) + k].at = k
Linked(s) ==
  \A i \in 1..(Len(s) - 1) : s[i].at = Size(s[i].frame) =>
    s[i + 1].frame = s[i].frame + 1 /\ s[i + 1].at = 1
Rising(s) == \A i, j \in 1..Len(s) : i <= j => s[i].frame <= s[j].frame
ToTheLast(s) ==
  s # <<>> =>
    /\ s[Len(s)].frame = Len(packed)
    /\ \A f \in s[1].frame..Len(packed) :
         \E i \in 1..Len(s) : s[i].frame = f /\ s[i].at = Size(f)
Chain(s) == Whole(s) /\ Linked(s) /\ Rising(s) /\ ToTheLast(s)

(* The frame the parser has come to, and what was handled before it. *)
NextIs(s, n) == n = (IF offset < Len(s) THEN s[offset + 1].frame ELSE Len(packed) + 1)
Cursor(s) ==
  /\ offset <= Len(buf) /\ (~parsing => offset = 0)
  /\ offset < Len(s) => s[offset + 1].at = 1
  /\ ~parsing /\ buf # <<>> => Len(buf) < Size(buf[1].frame)
Handled(n) ==
  /\ \A i, j \in 1..Len(taken) : i < j => taken[i] < taken[j]
  /\ \A i \in 1..Len(taken) : taken[i] \in 1..(n - 1) /\ Wanted(taken[i])
  /\ \A f \in 1..(n - 1) : Wanted(f) => \E i \in 1..Len(taken) : taken[i] = f

FramesInv ==
  /\ FrameTypes
  /\ \A s \in {Stream} :
       /\ Chain(s) /\ Cursor(s)
       /\ \E n \in 1..(Len(packed) + 1) : NextIs(s, n) /\ Handled(n)

(***************************************************************************)
(* Bytes that move from one place to the next leave the stream the same.   *)
(***************************************************************************)
LEMMA Joined ==
  ASSUME NEW a \in Seq(Byte), NEW b \in Seq(Byte)
  PROVE  /\ a \o b \in Seq(Byte) /\ Len(a \o b) = Len(a) + Len(b)
         /\ \A i \in 1..(Len(a) + Len(b)) : (a \o b)[i] = IF i <= Len(a) THEN a[i] ELSE b[i - Len(a)]
  BY ConcatProperties

LEMMA Grouped ==
  ASSUME NEW a \in Seq(Byte), NEW b \in Seq(Byte), NEW c \in Seq(Byte)
  PROVE  (a \o b) \o c = a \o (b \o c)
<1>1. a \in Seq(Byte) /\ b \in Seq(Byte) /\ c \in Seq(Byte)
  OBVIOUS
<1> QED BY ONLY <1>1, ConcatAssociative, SMTT(30)

LEMMA Moved ==
  ASSUME NEW a \in Seq(Byte), NEW b \in Seq(Byte), NEW n \in 1..Len(b)
  PROVE  /\ a \o SubSeq(b, 1, n) \in Seq(Byte) /\ SubSeq(b, n + 1, Len(b)) \in Seq(Byte)
         /\ (a \o SubSeq(b, 1, n)) \o SubSeq(b, n + 1, Len(b)) = a \o b
<1>0. PICK c, d : c = a \o SubSeq(b, 1, n) /\ d = SubSeq(b, n + 1, Len(b)) OBVIOUS
<1>1. PICK u : u = SubSeq(b, 1, n) OBVIOUS
<1>2. PICK l \in Nat : l = Len(b) OBVIOUS
<1>3. u \in Seq(Byte) /\ Len(u) = n /\ \A i \in 1..n : u[i] = b[i]
  BY <1>1
<1>4. d \in Seq(Byte) /\ Len(d) = l - n /\ \A i \in 1..(l - n) : d[i] = b[n + i]
  BY <1>0, <1>2
<1>5. u \o d = b
  <2>1. u \o d = SubSeq(b, 1, l)
    BY <1>0, <1>1, <1>2, ConcatAdjacentSubSeq
  <2> QED BY <1>2, <2>1, SubSeqFull
<1>6. c \in Seq(Byte)
  BY <1>0, <1>1, <1>3, ConcatProperties
<1>7. (a \o u) \o d = a \o (u \o d)
  <2>1. a \in Seq(Byte) /\ u \in Seq(Byte) /\ d \in Seq(Byte)
    BY <1>3, <1>4
  <2> QED BY ONLY <2>1, Grouped, Zenon
<1> QED BY <1>0, <1>1, <1>4, <1>5, <1>6, <1>7, ZenonT(30)

\* The stream, byte by byte.
LEMMA StreamIs ==
  ASSUME FrameTypes, NEW s, s = Stream
  PROVE  /\ s \in Seq(Byte) /\ Len(s) = Len(buf) + Len(pipe \o pending)
         /\ \A i \in 1..Len(buf) : s[i] = buf[i]
         /\ \A i \in 1..Len(pipe \o pending) : s[Len(buf) + i] = (pipe \o pending)[i]
<1>1. buf \in Seq(Byte) /\ pipe \in Seq(Byte) /\ pending \in Seq(Byte)
  BY DEF FrameTypes
<1>2. PICK p : p = pipe \o pending OBVIOUS
<1>3. p \in Seq(Byte)
  BY <1>1, <1>2, ConcatProperties
<1>4. s = buf \o p
  BY <1>1, <1>2, ConcatAssociative DEF Stream
<1>5. /\ s \in Seq(Byte) /\ Len(s) = Len(buf) + Len(p)
      /\ \A i \in 1..(Len(buf) + Len(p)) : s[i] = IF i <= Len(buf) THEN buf[i] ELSE p[i - Len(buf)]
  BY <1>1, <1>3, <1>4, ConcatProperties
<1>6. PICK m \in Nat, l \in Nat : m = Len(buf) /\ l = Len(p)
  BY <1>1, <1>3
<1>7. \A i \in 1..m : s[i] = buf[i]
  BY <1>5, <1>6
<1>8. \A i \in 1..l : s[m + i] = p[i]
  BY <1>5, <1>6
<1> QED BY <1>2, <1>5, <1>6, <1>7, <1>8

\* The parser erases what it is through with.
LeftOf(b, o) == SubSeq(b, o + 1, Len(b))

LEMMA Erased ==
  ASSUME NEW b \in Seq(Byte), NEW q \in Seq(Byte), NEW o \in 0..Len(b)
  PROVE  /\ LeftOf(b, o) \in Seq(Byte) /\ Len(LeftOf(b, o)) = Len(b) - o
         /\ \A i \in 1..(Len(b) - o) : LeftOf(b, o)[i] = b[o + i]
         /\ LeftOf(b, o) \o q \in Seq(Byte) /\ Len(LeftOf(b, o) \o q) = Len(b \o q) - o
         /\ \A i \in 1..(Len(b \o q) - o) : (LeftOf(b, o) \o q)[i] = (b \o q)[i + o]
<1>0. PICK s, t : s = b \o q /\ t = LeftOf(b, o) \o q OBVIOUS
<1>1. PICK u : u = LeftOf(b, o) OBVIOUS
<1>2. PICK l \in Nat, m \in Nat : l = Len(b) /\ m = Len(q) OBVIOUS
<1>3. u \in Seq(Byte) /\ Len(u) = l - o /\ \A i \in 1..(l - o) : u[i] = b[o + i]
  BY <1>1, <1>2 DEF LeftOf
<1>4. /\ s \in Seq(Byte) /\ Len(s) = l + m
      /\ \A i \in 1..(l + m) : s[i] = IF i <= l THEN b[i] ELSE q[i - l]
  BY <1>0, <1>2, ConcatProperties
<1>5. /\ t \in Seq(Byte) /\ Len(t) = (l - o) + m
      /\ \A i \in 1..((l - o) + m) : t[i] = IF i <= l - o THEN u[i] ELSE q[i - (l - o)]
  <2>1. t = u \o q BY <1>0, <1>1
  <2>2. /\ t \in Seq(Byte) /\ Len(t) = Len(u) + Len(q)
        /\ \A i \in 1..(Len(u) + Len(q)) : t[i] = IF i <= Len(u) THEN u[i] ELSE q[i - Len(u)]
    BY <1>3, <2>1, Joined
  <2> QED BY <1>2, <1>3, <2>2
<1>6. ASSUME NEW i \in 1..((l - o) + m) PROVE t[i] = s[i + o]
  <2>1. PICK j \in 1..(l + m) : j = i + o
    BY <1>2
  <2>2. CASE j <= l
    <3>1. i <= l - o /\ i \in 1..(l - o)
      BY <1>2, <2>1, <2>2
    <3>2. t[i] = u[i] /\ u[i] = b[o + i] /\ s[j] = b[j]
      BY <1>3, <1>4, <1>5, <2>2, <3>1
    <3>3. o + i = j
      BY <2>1
    <3> QED BY <2>1, <3>2, <3>3
  <2>3. CASE j > l
    <3>1. ~(i <= l - o) /\ i - (l - o) = j - l
      BY <1>2, <2>1, <2>3
    <3>2. t[i] = q[i - (l - o)] /\ s[j] = q[j - l]
      BY <1>4, <1>5, <2>3, <3>1
    <3> QED BY <2>1, <3>1, <3>2
  <2> QED BY <1>2, <2>2, <2>3
<1>7. Len(s) - o = (l - o) + m
  BY <1>2, <1>4
<1> QED BY <1>0, <1>1, <1>2, <1>3, <1>5, <1>6, <1>7

(***************************************************************************)
(* What is left of a chain where a frame begins is a chain.                *)
(***************************************************************************)
LEMMA ChainLeft ==
  ASSUME FrameTypes, NEW s \in Seq(Byte), Chain(s), NEW t \in Seq(Byte), NEW o \in 0..Len(s),
         Len(t) = Len(s) - o, \A i \in 1..Len(t) : t[i] = s[i + o],
         o < Len(s) => s[o + 1].at = 1
  PROVE  Chain(t)
<1>1. PICK n \in Nat, m \in Nat : n = Len(s) /\ m = Len(t) /\ m + o = n
  OBVIOUS
<1>2. Whole(s) /\ Linked(s) /\ Rising(s) /\ ToTheLast(s)
  BY DEF Chain
<1>3. Whole(t)
  <2> SUFFICES ASSUME NEW i \in 1..m
               PROVE  /\ t[i].frame \in 1..Len(packed) /\ t[i].at \in 1..Size(t[i].frame)
                      /\ (i - t[i].at) + Size(t[i].frame) <= m
                      /\ \A k \in t[i].at..Size(t[i].frame) :
                           t[(i - t[i].at) + k].frame = t[i].frame /\ t[(i - t[i].at) + k].at = k
    BY <1>1 DEF Whole
  <2>1. PICK f, p : f = t[i].frame /\ p = t[i].at OBVIOUS
  <2>2. PICK j \in 1..n : j = i + o BY <1>1
  <2>3. f = s[j].frame /\ p = s[j].at
    BY <1>1, <2>1, <2>2
  <2>4. /\ f \in 1..Len(packed) /\ p \in 1..Size(f) /\ (j - p) + Size(f) <= n
        /\ \A k \in p..Size(f) : s[(j - p) + k].frame = f /\ s[(j - p) + k].at = k
    BY <1>1, <1>2, <2>3 DEF Whole
  <2>5. PICK z \in Nat : z = Size(f)
    <3>1. packed[f] \in [len : Nat, wanted : BOOLEAN]
      BY <2>4, ElementOfSeq DEF FrameTypes
    <3>2. packed[f].len \in Nat /\ HeaderLen \in Nat
      BY <3>1, FramesAssumption
    <3> QED BY <3>2 DEF Size
  <2>6. (i - p) + z <= m
    BY <1>1, <2>2, <2>4, <2>5, SMTT(30)
  <2>7. ASSUME NEW k \in p..z PROVE t[(i - p) + k].frame = f /\ t[(i - p) + k].at = k
    <3>1. PICK x \in 1..m : x = (i - p) + k
      BY <2>4, <2>5, <2>6, SMTT(30)
    <3>2. t[x] = s[x + o] /\ x + o = (j - p) + k
      <4>1. p \in Nat
        BY <2>4
      <4>2. x + o = (j - p) + k
        BY <1>1, <2>2, <3>1, <4>1, SMTT(30)
      <4> QED BY <1>1, <3>1, <4>2
    <3>3. k \in p..Size(f)
      BY <2>5
    <3> QED BY <2>4, <3>1, <3>2, <3>3
  <2> QED BY <2>1, <2>4, <2>5, <2>6, <2>7
<1>4. Linked(t)
  <2> SUFFICES ASSUME NEW i \in 1..(m - 1), t[i].at = Size(t[i].frame)
               PROVE  t[i + 1].frame = t[i].frame + 1 /\ t[i + 1].at = 1
    BY <1>1 DEF Linked
  <2>1. PICK j \in 1..(n - 1) : j = i + o BY <1>1
  <2>2. t[i] = s[j] /\ t[i + 1] = s[j + 1]
    BY <1>1, <2>1
  <2> QED BY <1>1, <1>2, <2>1, <2>2 DEF Linked
<1>5. Rising(t)
  <2> SUFFICES ASSUME NEW i \in 1..m, NEW j \in 1..m, i <= j PROVE t[i].frame <= t[j].frame
    BY <1>1 DEF Rising
  <2>1. t[i] = s[i + o] /\ t[j] = s[j + o] /\ i + o \in 1..n /\ j + o \in 1..n /\ i + o <= j + o
    BY <1>1
  <2> QED BY <1>1, <1>2, <2>1 DEF Rising
<1>6. ASSUME t # <<>>
      PROVE  /\ t[m].frame = Len(packed)
             /\ \A f \in t[1].frame..Len(packed) :
                  \E i \in 1..m : t[i].frame = f /\ t[i].at = Size(f)
  <2>1. m > 0 /\ o < n
    BY <1>1, <1>6
  <2>2. t[m] = s[n] /\ t[1] = s[o + 1] /\ s # <<>>
    BY <1>1, <2>1
  <2>3. s[n].frame = Len(packed) /\ s[1].frame <= s[o + 1].frame
    BY <1>1, <1>2, <2>1, <2>2 DEF ToTheLast, Rising
  <2>4. ASSUME NEW f \in t[1].frame..Len(packed)
        PROVE  \E i \in 1..m : t[i].frame = f /\ t[i].at = Size(f)
    <3>1. PICK a \in Nat, c \in Nat : a = s[o + 1].frame /\ c = s[1].frame
      <4>1. s[o + 1] \in Byte /\ s[1] \in Byte
        BY <1>1, <2>1
      <4> QED BY <4>1 DEF Byte
    <3>2. f \in c..Len(packed) /\ a <= f
      BY <1>1, <2>2, <2>3, <3>1, SMTT(30) DEF FrameTypes
    <3>3. PICK i \in 1..n : s[i].frame = f /\ s[i].at = Size(f)
      BY <1>1, <1>2, <2>2, <3>1, <3>2 DEF ToTheLast
    <3>4. i > o
      <4> SUFFICES ASSUME i <= o PROVE FALSE
        OBVIOUS
      <4>1. i \in 1..(n - 1) /\ i + 1 \in 1..n /\ o + 1 \in 1..n /\ i + 1 <= o + 1
        BY <1>1, <2>1
      <4>2. s[i + 1].frame = f + 1
        BY <1>1, <1>2, <3>3, <4>1 DEF Linked
      <4>3. s[i + 1].frame <= s[o + 1].frame
        BY <1>1, <1>2, <4>1 DEF Rising
      <4> QED BY <3>1, <3>2, <4>2, <4>3
    <3>5. PICK x \in 1..m : x = i - o
      BY <1>1, <3>4
    <3>6. t[x] = s[i]
      BY <1>1, <3>5
    <3> QED BY <3>3, <3>5, <3>6
  <2> QED BY <2>2, <2>3, <2>4
<1>7. ToTheLast(t)
  BY <1>1, <1>6 DEF ToTheLast
<1> QED BY <1>3, <1>4, <1>5, <1>7 DEF Chain

(***************************************************************************)
(* A frame put behind the stream continues the chain.                      *)
(***************************************************************************)
Longer(s, m, p, t) ==
  packed' = Append(packed, m) /\ p = Pack(Len(packed) + 1, m.len) /\ t = s \o p

LEMMA ChainLonger ==
  ASSUME FrameTypes, NEW s \in Seq(Byte), Chain(s), NEW m \in [len : Nat, wanted : BOOLEAN],
         NEW p, NEW t, Longer(s, m, p, t)
  PROVE  /\ Chain(t)' /\ p \in Seq(Byte) /\ Len(t) > Len(s)
         /\ \A i \in 1..Len(s) : t[i] = s[i]
         /\ t[Len(s) + 1].frame = Len(packed) + 1 /\ t[Len(s) + 1].at = 1
<1>1. PICK N \in Nat : N = Len(packed)
  BY DEF FrameTypes
<1>2. PICK n \in Nat : n = Len(s)
  OBVIOUS
<1>3. PICK z \in Nat : z = HeaderLen + m.len /\ z >= 1
  BY FramesAssumption
<1>4. PICK g \in Nat : g = N + 1
  OBVIOUS
<1>5. PICK l \in Nat : l = n + z /\ l > n
  BY <1>3
<1> USE <1>5
<1>6. Len(packed') = g /\ packed'[g] = m /\ \A f \in 1..N : packed'[f] = packed[f]
  BY <1>1, <1>4, AppendProperties DEF FrameTypes, Longer
<1>7. PICK sz : sz = [f \in 1..g |-> IF f = g THEN z ELSE HeaderLen + packed[f].len] OBVIOUS
<1>8. sz[g] = z /\ \A f \in 1..N : sz[f] = Size(f) /\ sz[f] \in Nat
  <2>1. ASSUME NEW f \in 1..N PROVE HeaderLen + packed[f].len \in Nat
    <3>1. packed[f] \in [len : Nat, wanted : BOOLEAN]
      BY <1>1, ElementOfSeq DEF FrameTypes
    <3> QED BY <3>1, FramesAssumption
  <2>2. g \in 1..g /\ \A f \in 1..N : f \in 1..g /\ f # g
    BY <1>4
  <2>3. sz[g] = z /\ \A f \in 1..N : sz[f] = HeaderLen + packed[f].len
    BY <1>7, <2>2
  <2> QED BY <2>1, <2>3 DEF Size
<1>9. \A f \in 1..g : HeaderLen + packed'[f].len = sz[f]
  BY <1>3, <1>4, <1>6, <1>8 DEF Size
<1>10. p = [i \in 1..z |-> [frame |-> g, at |-> i]]
  BY <1>1, <1>3, <1>4 DEF Pack, Longer
<1>11. p \in Seq(Byte) /\ Len(p) = z /\ \A i \in 1..z : p[i].frame = g /\ p[i].at = i
  <2>1. \A i \in 1..z : p[i] = [frame |-> g, at |-> i] /\ p[i] \in Byte
    BY <1>10 DEF Byte
  <2>2. DOMAIN p = 1..z /\ p \in [1..z -> Byte]
    BY <1>10, <2>1
  <2> QED BY <2>1, <2>2
<1>12. t \in Seq(Byte) /\ Len(t) = l /\ \A i \in 1..n : t[i] = s[i]
  <2>1. Len(t) = Len(s) + Len(p) /\ t \in Seq(Byte)
        /\ \A i \in 1..(Len(s) + Len(p)) : t[i] = IF i <= Len(s) THEN s[i] ELSE p[i - Len(s)]
    BY <1>11, Joined DEF Longer
  <2> QED BY <1>2, <1>11, <2>1
<1>13. \A i \in 1..z : t[n + i].frame = g /\ t[n + i].at = i
  <2>1. \A i \in 1..(Len(s) + Len(p)) : t[i] = IF i <= Len(s) THEN s[i] ELSE p[i - Len(s)]
    BY <1>11, Joined DEF Longer
  <2>2. \A i \in 1..z : t[n + i] = p[i]
    BY <1>2, <1>11, <2>1
  <2> QED BY <1>11, <2>2
<1>14. ASSUME NEW i \in 1..l, i > n
       PROVE  t[i].frame = g /\ t[i].at = i - n
  <2>1. PICK j \in 1..z : j = i - n
    BY <1>14
  <2>2. i = n + j
    BY <2>1
  <2> QED BY <1>13, <2>1, <2>2
<1>15. ASSUME NEW i \in 1..n
       PROVE  /\ t[i].frame \in 1..N /\ t[i].at \in 1..sz[t[i].frame]
              /\ (i - t[i].at) + sz[t[i].frame] <= n
              /\ \A k \in t[i].at..sz[t[i].frame] :
                   t[(i - t[i].at) + k].frame = t[i].frame /\ t[(i - t[i].at) + k].at = k
  <2>1. PICK f, a : f = t[i].frame /\ a = t[i].at OBVIOUS
  <2>2. f = s[i].frame /\ a = s[i].at
    BY <1>12, <2>1
  <2>3. /\ f \in 1..N /\ a \in 1..Size(f) /\ (i - a) + Size(f) <= n
        /\ \A k \in a..Size(f) : s[(i - a) + k].frame = f /\ s[(i - a) + k].at = k
    BY <1>1, <1>2, <2>2 DEF Chain, Whole
  <2>4. PICK x \in Nat : x = Size(f) /\ x = sz[f]
    BY <1>8, <2>3
  <2>5. ASSUME NEW k \in a..x PROVE t[(i - a) + k].frame = f /\ t[(i - a) + k].at = k
    <3>1. PICK j \in 1..n : j = (i - a) + k
      BY <2>3, <2>4
    <3>2. s[j].frame = f /\ s[j].at = k
      BY <2>3, <2>4, <3>1
    <3> QED BY <1>12, <3>1, <3>2
  <2> QED BY <2>1, <2>3, <2>4, <2>5
<1>16. ASSUME NEW i \in 1..l
       PROVE  /\ t[i].frame \in 1..g /\ t[i].at \in 1..sz[t[i].frame]
              /\ (i - t[i].at) + sz[t[i].frame] <= l
              /\ \A k \in t[i].at..sz[t[i].frame] :
                   t[(i - t[i].at) + k].frame = t[i].frame /\ t[(i - t[i].at) + k].at = k
  <2>1. CASE i <= n
    <3>1. PICK f, a : f = t[i].frame /\ a = t[i].at OBVIOUS
    <3>2. /\ f \in 1..N /\ a \in 1..sz[f] /\ (i - a) + sz[f] <= n
          /\ \A k \in a..sz[f] : t[(i - a) + k].frame = f /\ t[(i - a) + k].at = k
      BY <1>15, <2>1, <3>1, SMTT(30)
    <3>3. f \in 1..g /\ (i - a) + sz[f] <= l
      BY <1>4, <1>8, <3>2
    <3> QED BY <3>1, <3>2, <3>3
  <2>2. CASE i > n
    <3>1. PICK a \in 1..z : a = i - n
      BY <2>2
    <3>2. t[i].frame = g /\ t[i].at = a
      BY <1>14, <2>2, <3>1
    <3>3. ASSUME NEW k \in a..z PROVE t[(i - a) + k].frame = g /\ t[(i - a) + k].at = k
      <4>1. (i - a) + k = n + k /\ k \in 1..z
        BY <3>1
      <4> QED BY <1>13, <4>1
    <3>4. a \in 1..z /\ (i - a) + z <= l /\ g \in 1..g
      BY <1>4, <3>1
    <3> QED BY <1>8, <3>2, <3>3, <3>4
  <2> QED BY <2>1, <2>2
<1>17. ASSUME NEW i \in 1..(l - 1), t[i].at = sz[t[i].frame]
       PROVE  t[i + 1].frame = t[i].frame + 1 /\ t[i + 1].at = 1
  <2>1. CASE i < n
    <3>1. i \in 1..(n - 1) /\ i \in 1..n /\ i + 1 \in 1..n
      BY <2>1
    <3>2. t[i] = s[i] /\ t[i + 1] = s[i + 1]
      BY <1>12, <3>1
    <3>3. s[i].at = Size(s[i].frame)
      BY <1>8, <1>15, <1>17, <3>1, <3>2
    <3> QED BY <1>2, <3>1, <3>2, <3>3 DEF Chain, Linked
  <2>2. CASE i = n
    <3>1. s # <<>> /\ s[n].frame = N
      BY <1>1, <1>2, <2>2 DEF Chain, ToTheLast
    <3>2. t[i].frame = N
      BY <1>12, <2>2, <3>1
    <3>3. t[i + 1].frame = g /\ t[i + 1].at = 1
      BY <1>3, <1>13, <2>2
    <3> QED BY <1>4, <3>2, <3>3
  <2>3. CASE i > n
    <3>1. t[i].frame = g /\ t[i].at = i - n /\ i - n < z
      BY <1>14, <2>3
    <3> QED BY <1>8, <1>17, <3>1
  <2> QED BY <2>1, <2>2, <2>3
<1>18. ASSUME NEW i \in 1..l, NEW j \in 1..l, i <= j
       PROVE  t[i].frame <= t[j].frame
  <2>1. CASE j <= n
    BY <1>2, <1>12, <1>18, <2>1 DEF Chain, Rising
  <2>2. CASE j > n
    <3>1. t[j].frame = g /\ t[i].frame \in 1..g
      BY <1>14, <1>16, <2>2
    <3> QED BY <3>1
  <2> QED BY <2>1, <2>2
<1>19. t[l].frame = g /\ t[l].at = z
  BY <1>3, <1>13
<1>20. ASSUME NEW f \in t[1].frame..g
       PROVE  \E i \in 1..l : t[i].frame = f /\ t[i].at = sz[f]
  <2>1. t[1].frame \in 1..g
    BY <1>3, <1>16
  <2>2. CASE f = g
    BY <1>3, <1>8, <1>19, <2>2
  <2>3. CASE f # g
    <3>1. f \in 1..N
      BY <1>4, <2>1, <2>3
    <3>2. n > 0
      BY <1>4, <1>13, <1>3, <3>1
    <3>3. t[1] = s[1] /\ s # <<>>
      BY <1>2, <1>12, <3>2
    <3>4. f \in s[1].frame..N
      BY <2>1, <3>1, <3>3
    <3>5. PICK i \in 1..n : s[i].frame = f /\ s[i].at = Size(f)
      BY <1>1, <1>2, <3>3, <3>4 DEF Chain, ToTheLast
    <3> QED BY <1>8, <1>12, <3>1, <3>5
  <2> QED BY <2>2, <2>3
<1>21. Whole(t)'
  BY <1>6, <1>9, <1>12, <1>16, ZenonT(60) DEF Whole, Size
<1>22. Linked(t)'
  <2>1. \A i \in 1..(l - 1) : t[i].frame \in 1..g
    BY <1>16
  <2> QED BY <1>9, <1>12, <1>17, <2>1 DEF Linked, Size
<1>23. Rising(t)'
  BY <1>12, <1>18 DEF Rising
<1>24. ToTheLast(t)'
  <2>1. t[1].frame \in 1..g
    BY <1>3, <1>16
  <2>2. \A f \in t[1].frame..g : HeaderLen + packed'[f].len = sz[f]
    BY <1>9, <2>1
  <2> QED BY <1>6, <1>12, <1>19, <1>20, <2>2 DEF ToTheLast, Size
<1>25. Len(t) > Len(s) /\ t[n + 1].frame = g /\ t[n + 1].at = 1
  BY <1>2, <1>3, <1>12, <1>13
<1> QED BY <1>1, <1>2, <1>4, <1>11, <1>12, <1>21, <1>22, <1>23, <1>24, <1>25 DEF Chain

(***************************************************************************)
(* Every step keeps it.                                                    *)
(***************************************************************************)
LEMMA Sizes ==
  ASSUME FrameTypes, NEW f \in 1..Len(packed)
  PROVE  packed[f].len \in Nat /\ HeaderLen \in Nat \ {0} /\ Size(f) \in Nat \ {0}
<1>1. packed[f] \in [len : Nat, wanted : BOOLEAN]
  BY ElementOfSeq DEF FrameTypes
<1>2. packed[f].len \in Nat /\ HeaderLen \in Nat \ {0}
  BY <1>1, FramesAssumption
<1> QED BY <1>2 DEF Size

\* A frame that begins at a byte of the stream is there to its end.
LEMMA FrameThere ==
  ASSUME FrameTypes, NEW s \in Seq(Byte), Chain(s), NEW o \in Nat, o < Len(s), s[o + 1].at = 1,
         NEW f, f = s[o + 1].frame, NEW z, z = Size(f)
  PROVE  /\ f \in 1..Len(packed) /\ z \in Nat \ {0} /\ o + z <= Len(s)
         /\ \A k \in 1..z : s[o + k].frame = f /\ s[o + k].at = k
<1>1. PICK i \in 1..Len(s) : i = o + 1 OBVIOUS
<1>2. /\ f \in 1..Len(packed) /\ (i - 1) + Size(f) <= Len(s)
      /\ \A k \in 1..Size(f) : s[(i - 1) + k].frame = f /\ s[(i - 1) + k].at = k
  <2>1. s[i].frame = f /\ s[i].at = 1
    BY <1>1
  <2>2. Whole(s)
    BY DEF Chain
  <2>3. /\ s[i].frame \in 1..Len(packed) /\ (i - s[i].at) + Size(s[i].frame) <= Len(s)
        /\ \A k \in s[i].at..Size(s[i].frame) :
             s[(i - s[i].at) + k].frame = s[i].frame /\ s[(i - s[i].at) + k].at = k
    BY <2>2 DEF Whole
  <2> QED BY <2>1, <2>3
<1>3. z \in Nat \ {0}
  BY <1>2, Sizes
<1>4. i - 1 = o
  BY <1>1
<1> QED BY <1>2, <1>3, <1>4

LEMMA SendKeepsThem ==
  ASSUME FramesInv, NEW len \in PayloadLens, NEW wanted \in BOOLEAN, Send(len, wanted)
  PROVE  FramesInv'
<1>1. FrameTypes BY DEF FramesInv
<1>2. PICK s : s = Stream OBVIOUS
<1>3. PICK t : t = Stream' OBVIOUS
<1>4. PICK p : p = pending' OBVIOUS
<1>5. PICK m : m = [len |-> len, wanted |-> wanted] OBVIOUS
<1>6. PICK N \in Nat : N = Len(packed) BY <1>1 DEF FrameTypes
<1>7. Chain(s) /\ Cursor(s) BY <1>2 DEF FramesInv
<1>8. PICK n \in 1..(N + 1) : NextIs(s, n) /\ Handled(n) BY <1>2, <1>6 DEF FramesInv
<1>9. m \in [len : Nat, wanted : BOOLEAN] /\ m.len = len BY <1>5, FramesAssumption
<1>10. Longer(s, m, p, t)
  <2>1. packed' = Append(packed, m) /\ p = Pack(Len(packed) + 1, m.len)
    BY <1>4, <1>5, <1>9 DEF Send
  <2>2. pending = <<>> /\ buf' = buf /\ pipe' = pipe
    BY DEF Send
  <2>3. buf \o pipe \in Seq(Byte)
    BY <1>1, ConcatProperties DEF FrameTypes
  <2>4. s = buf \o pipe
    BY <1>2, <2>2, <2>3, ConcatEmptySeq DEF Stream
  <2>5. t = (buf \o pipe) \o p
    BY <1>3, <1>4, <2>2 DEF Stream
  <2> QED BY <2>1, <2>4, <2>5 DEF Longer
<1>11. s \in Seq(Byte) /\ Len(buf) <= Len(s) /\ Len(buf) \in Nat /\ Len(s) \in Nat
       /\ \A i \in 1..Len(buf) : s[i] = buf[i]
  <2>1. pipe \o pending \in Seq(Byte) /\ buf \in Seq(Byte)
    BY <1>1, ConcatProperties DEF FrameTypes
  <2>2. /\ s \in Seq(Byte) /\ Len(s) = Len(buf) + Len(pipe \o pending)
        /\ \A i \in 1..Len(buf) : s[i] = buf[i]
    BY <1>1, <1>2, StreamIs
  <2> QED BY <2>1, <2>2
<1>12. /\ Chain(t)' /\ p \in Seq(Byte) /\ Len(t) > Len(s)
       /\ \A i \in 1..Len(s) : t[i] = s[i]
       /\ t[Len(s) + 1].frame = N + 1 /\ t[Len(s) + 1].at = 1
  BY <1>1, <1>6, <1>7, <1>9, <1>10, <1>11, ChainLonger
<1>13. /\ packed' \in Seq([len : Nat, wanted : BOOLEAN]) /\ Len(packed') = N + 1
       /\ \A f \in 1..N : packed'[f] = packed[f]
  BY <1>1, <1>6, <1>9, <1>10, AppendProperties DEF FrameTypes, Longer
<1>14. UNCHANGED <<pipe, buf, offset, parsing, taken>>
  BY DEF Send
<1>15. FrameTypes'
  BY <1>1, <1>4, <1>12, <1>13, <1>14 DEF FrameTypes
<1>16. offset \in Nat /\ offset <= Len(s)
  BY <1>1, <1>7, <1>11 DEF FrameTypes, Cursor
<1>17. Cursor(t)'
  <2>1. ASSUME offset < Len(t) PROVE t[offset + 1].at = 1
    <3>1. CASE offset < Len(s)
      BY <1>7, <1>11, <1>12, <1>16, <3>1, SMTT(30) DEF Cursor
    <3>2. CASE offset = Len(s)
      BY <1>12, <3>2
    <3> QED BY <1>11, <1>16, <3>1, <3>2
  <2>2. ASSUME ~parsing, buf # <<>> PROVE Len(buf) < HeaderLen + packed'[buf[1].frame].len
    <3>1. Len(buf) < Size(buf[1].frame)
      BY <1>7, <2>2 DEF Cursor
    <3>2. 1 \in 1..Len(buf)
      BY <1>1, <1>11, <2>2 DEF FrameTypes
    <3>3. buf[1].frame \in 1..N
      <4>1. 1 \in 1..Len(s) /\ s[1] = buf[1]
        BY <1>11, <3>2
      <4> QED BY <1>6, <1>7, <4>1 DEF Chain, Whole
    <3> QED BY <1>13, <3>1, <3>3 DEF Size
  <2> QED BY <1>7, <1>14, <2>1, <2>2 DEF Cursor, Size
<1>18. NextIs(t, n)'
  <2>1. CASE offset < Len(s)
    <3>1. offset < Len(t) /\ t[offset + 1] = s[offset + 1] /\ n = s[offset + 1].frame
      <4>1. offset + 1 \in 1..Len(s)
        BY <1>11, <1>16, <2>1
      <4>2. t \in Seq(Byte) /\ Len(t) \in Nat
        <5>1. t = s \o p
          BY <1>10 DEF Longer
        <5> QED BY <1>11, <1>12, <5>1, ConcatProperties
      <4> QED BY <1>8, <1>11, <1>12, <1>16, <2>1, <4>1, <4>2 DEF NextIs
    <3> QED BY <1>14, <3>1 DEF NextIs
  <2>2. CASE offset = Len(s)
    <3>1. n = N + 1 /\ offset < Len(t) /\ t[offset + 1].frame = N + 1
      BY <1>6, <1>8, <1>11, <1>12, <2>2 DEF NextIs
    <3> QED BY <1>14, <3>1 DEF NextIs
  <2> QED BY <1>11, <1>16, <2>1, <2>2
<1>19. Handled(n)'
  <2>1. \A f \in 1..(n - 1) : packed'[f] = packed[f]
    BY <1>13
  <2>2. \A f \in 1..(n - 1) : Wanted(f)' <=> Wanted(f)
    BY <2>1 DEF Wanted
  <2> QED BY <1>8, <1>14, <2>2 DEF Handled
<1>20. n \in 1..(Len(packed') + 1)
  BY <1>13
<1> QED BY <1>3, <1>12, <1>15, <1>17, <1>18, <1>19, <1>20 DEF FramesInv

\* A piece moves: the stream is the same.
LEMMA SameStream ==
  ASSUME FramesInv, FrameTypes', NEW s, s = Stream, Stream' = s, UNCHANGED <<packed, taken>>,
         \A n \in 1..(Len(packed) + 1) : NextIs(s, n) => NextIs(s, n)',
         Cursor(s)'
  PROVE  FramesInv'
<1>1. Chain(s) BY DEF FramesInv
<1>2. PICK n \in 1..(Len(packed) + 1) : NextIs(s, n) /\ Handled(n) BY DEF FramesInv
<1>3. Chain(s)' BY <1>1 DEF Chain, Whole, Linked, Rising, ToTheLast, Size
<1>4. Handled(n)' BY <1>2 DEF Handled, Wanted
<1> QED BY <1>2, <1>3, <1>4 DEF FramesInv

LEMMA SendPieceKeepsThem ==
  ASSUME FramesInv, NEW n \in 1..MaxPiece, SendPiece(n)
  PROVE  FramesInv'
<1>1. FrameTypes BY DEF FramesInv
<1>2. PICK s : s = Stream OBVIOUS
<1>3. PICK c, d : c = pipe' /\ d = pending' OBVIOUS
<1>4. c \in Seq(Byte) /\ d \in Seq(Byte) /\ c \o d = pipe \o pending
  <2>1. n \in 1..Len(pending) /\ c = pipe \o SubSeq(pending, 1, n) /\ d = SubSeq(pending, n + 1, Len(pending))
    BY <1>3 DEF SendPiece
  <2>2. pipe \in Seq(Byte) /\ pending \in Seq(Byte)
    BY <1>1 DEF FrameTypes
  <2> QED BY <2>1, <2>2, Moved
<1>5. UNCHANGED <<packed, buf, offset, parsing, taken>>
  BY DEF SendPiece
<1>6. FrameTypes'
  BY <1>1, <1>3, <1>4, <1>5 DEF FrameTypes
<1>7. Stream' = s
  <2>1. buf \in Seq(Byte) /\ pipe \in Seq(Byte) /\ pending \in Seq(Byte)
    BY <1>1 DEF FrameTypes
  <2>2. (buf \o c) \o d = buf \o (c \o d)
    BY ONLY <1>4, <2>1, Grouped, ZenonT(60)
  <2>3. s = buf \o (pipe \o pending)
    BY <1>2, <2>1, Grouped DEF Stream
  <2> QED BY <1>3, <1>4, <1>5, <2>2, <2>3 DEF Stream
<1>8. Cursor(s) BY <1>2 DEF FramesInv
<1>9. Cursor(s)' BY <1>5, <1>8 DEF Cursor, Size
<1>10. \A m \in 1..(Len(packed) + 1) : NextIs(s, m) => NextIs(s, m)'
  BY <1>5 DEF NextIs
<1> QED BY <1>2, <1>5, <1>6, <1>7, <1>9, <1>10, SameStream

LEMMA RecvPieceKeepsThem ==
  ASSUME FramesInv, NEW n \in 1..MaxPiece, RecvPiece(n)
  PROVE  FramesInv'
<1>1. FrameTypes BY DEF FramesInv
<1>2. PICK s : s = Stream OBVIOUS
<1>3. PICK c, d : c = buf' /\ d = pipe' OBVIOUS
<1>4. c \in Seq(Byte) /\ d \in Seq(Byte) /\ c \o d = buf \o pipe
  <2>1. n \in 1..Len(pipe) /\ c = buf \o SubSeq(pipe, 1, n) /\ d = SubSeq(pipe, n + 1, Len(pipe))
    BY <1>3 DEF RecvPiece
  <2>2. pipe \in Seq(Byte) /\ buf \in Seq(Byte)
    BY <1>1 DEF FrameTypes
  <2> QED BY <2>1, <2>2, Moved
<1>5. UNCHANGED <<packed, pending, taken>> /\ ~parsing /\ parsing' = TRUE /\ offset' = 0
  BY DEF RecvPiece
<1>6. FrameTypes'
  BY <1>1, <1>3, <1>4, <1>5 DEF FrameTypes
<1>7. Stream' = s
  BY <1>2, <1>3, <1>4, <1>5 DEF Stream
<1>8. Cursor(s) /\ offset = 0 BY <1>2, <1>5 DEF FramesInv, Cursor
<1>9. Cursor(s)'
  <2>1. Len(c) \in Nat
    BY <1>4
  <2> QED BY <1>3, <1>5, <1>8, <2>1 DEF Cursor
<1>10. \A m \in 1..(Len(packed) + 1) : NextIs(s, m) => NextIs(s, m)'
  BY <1>5, <1>8 DEF NextIs
<1> QED BY <1>2, <1>5, <1>6, <1>7, <1>9, <1>10, SameStream

LEMMA ParseFrameKeepsThem ==
  ASSUME FramesInv, ParseFrame
  PROVE  FramesInv'
<1>1. FrameTypes BY DEF FramesInv
<1>2. PICK s : s = Stream OBVIOUS
<1>3. PICK N \in Nat : N = Len(packed) BY <1>1 DEF FrameTypes
<1>4. Chain(s) /\ Cursor(s) BY <1>2 DEF FramesInv
<1>5. PICK n \in 1..(N + 1) : NextIs(s, n) /\ Handled(n) BY <1>2, <1>3 DEF FramesInv
<1>6. PICK o \in Nat : o = offset BY <1>1 DEF FrameTypes
<1>7. PICK B \in Nat : B = Len(buf) BY <1>1 DEF FrameTypes
<1>8. s \in Seq(Byte) /\ B <= Len(s) /\ \A i \in 1..B : s[i] = buf[i]
  <2>1. pipe \o pending \in Seq(Byte)
    BY <1>1, ConcatProperties DEF FrameTypes
  <2>2. /\ s \in Seq(Byte) /\ Len(s) = Len(buf) + Len(pipe \o pending)
        /\ \A i \in 1..Len(buf) : s[i] = buf[i]
    BY <1>1, <1>2, StreamIs
  <2> QED BY <1>7, <2>1, <2>2
<1>9. PICK S \in Nat : S = Len(s) BY <1>8
<1>10. o + HeaderLen <= B /\ o + HeaderLen + LengthAt <= B
  BY <1>6, <1>7 DEF ParseFrame, FrameHere
<1>11. o < B /\ o < S
  BY <1>8, <1>9, <1>10, FramesAssumption
<1>12. PICK f : f = s[o + 1].frame OBVIOUS
<1>13. s[o + 1] = buf[o + 1] /\ s[o + 1].at = 1
  BY <1>4, <1>6, <1>8, <1>9, <1>11 DEF Cursor
<1>14. PICK z : z = Size(f) OBVIOUS
<1>15. /\ f \in 1..N /\ z \in Nat \ {0} /\ o + z <= S
       /\ \A k \in 1..z : s[o + k].frame = f /\ s[o + k].at = k
  <2>1. o < Len(s) /\ s[o + 1].at = 1
    BY <1>9, <1>11, <1>13
  <2>2. o \in Nat
    OBVIOUS
  <2>3. /\ f \in 1..Len(packed) /\ z \in Nat \ {0} /\ o + z <= Len(s)
        /\ \A k \in 1..z : s[o + k].frame = f /\ s[o + k].at = k
    BY ONLY <1>1, <1>4, <1>8, <1>12, <1>14, <2>1, <2>2, FrameThere
  <2> QED BY <1>3, <1>9, <2>3
<1>16. LengthAt = packed[f].len
  BY <1>6, <1>12, <1>13 DEF LengthAt
<1>17. offset' = o + z /\ o + z <= B
  <2>1. packed[f].len \in Nat /\ HeaderLen \in Nat
    BY <1>1, <1>3, <1>15, Sizes
  <2>2. PICK l \in Nat, h \in Nat : l = packed[f].len /\ h = HeaderLen
    BY <2>1
  <2>3. z = h + l
    BY <1>14, <2>2 DEF Size
  <2>4. offset' = o + h + l /\ o + h + l <= B
    BY <1>6, <1>10, <1>16, <2>2 DEF ParseFrame
  <2> QED BY <2>3, <2>4, <1>15
<1>18. UNCHANGED <<packed, pending, pipe, buf, parsing>> /\ parsing
  BY DEF ParseFrame
<1>19. n = f
  BY <1>5, <1>6, <1>9, <1>11, <1>12 DEF NextIs
<1>20. PICK e \in Nat : e = o + z /\ e <= B /\ e <= S /\ e >= 1
  BY <1>15, <1>17
<1>21. s[e].frame = f /\ s[e].at = z
  BY <1>15, <1>20
<1>22. e < S => s[e + 1].frame = f + 1 /\ s[e + 1].at = 1
  <2>1. ASSUME e < S PROVE e \in 1..(Len(s) - 1)
    BY <1>9, <1>20, <2>1
  <2> QED BY <1>4, <1>14, <1>21, <2>1 DEF Chain, Linked
<1>23. e = S => f = N
  BY <1>3, <1>4, <1>8, <1>9, <1>20, <1>21 DEF Chain, ToTheLast
<1>24. NextIs(s, f + 1)'
  BY <1>3, <1>9, <1>17, <1>18, <1>20, <1>22, <1>23 DEF NextIs
<1>25. Cursor(s)'
  BY <1>7, <1>9, <1>17, <1>18, <1>20, <1>22 DEF Cursor
<1>26. taken' = IF Wanted(f) THEN Append(taken, f) ELSE taken
  BY <1>6, <1>12, <1>13 DEF ParseFrame
<1>27. \A g : Wanted(g)' <=> Wanted(g)
  BY <1>18 DEF Wanted
<1>28. PICK T \in Nat : T = Len(taken) BY <1>1 DEF FrameTypes
<1>29. /\ \A i, j \in 1..T : i < j => taken[i] < taken[j]
       /\ \A i \in 1..T : taken[i] \in 1..(f - 1) /\ Wanted(taken[i])
       /\ \A g \in 1..(f - 1) : Wanted(g) => \E i \in 1..T : taken[i] = g
  BY <1>5, <1>19, <1>28 DEF Handled
<1>30. taken' \in Seq(Nat) /\ Handled(f + 1)'
  <2>1. CASE Wanted(f)
    <3>1. PICK q : q = taken' OBVIOUS
    <3>2. /\ q \in Seq(Nat) /\ Len(q) = T + 1 /\ q[T + 1] = f
          /\ \A i \in 1..T : q[i] = taken[i]
      BY <1>1, <1>15, <1>26, <1>28, <2>1, <3>1, AppendProperties DEF FrameTypes
    <3>3. ASSUME NEW i \in 1..(T + 1), NEW j \in 1..(T + 1), i < j PROVE q[i] < q[j]
      <4>1. i \in 1..T /\ taken[i] \in 1..(f - 1)
        BY <1>29, <3>3
      <4>2. CASE j = T + 1
        <5>1. PICK x \in 1..(f - 1) : x = taken[i]
          BY <4>1
        <5>2. q[i] = x /\ q[j] = f
          BY <3>2, <4>1, <4>2, <5>1
        <5> QED BY <1>15, <5>1, <5>2
      <4>3. CASE j # T + 1
        <5>1. j \in 1..T
          BY <4>3
        <5> QED BY <1>29, <3>2, <3>3, <4>1, <5>1
      <4> QED BY <4>2, <4>3
    <3>4. ASSUME NEW i \in 1..(T + 1) PROVE q[i] \in 1..f /\ Wanted(q[i])
      <4>1. CASE i = T + 1
        BY <1>15, <2>1, <3>2, <4>1
      <4>2. CASE i # T + 1
        <5>1. i \in 1..T
          BY <4>2
        <5>2. q[i] = taken[i] /\ taken[i] \in 1..(f - 1)
          BY <1>29, <3>2, <5>1
        <5> QED BY <1>15, <1>29, <5>1, <5>2
      <4> QED BY <4>1, <4>2
    <3>5. ASSUME NEW g \in 1..f, Wanted(g) PROVE \E i \in 1..(T + 1) : q[i] = g
      <4>1. CASE g = f
        BY <3>2, <4>1
      <4>2. CASE g # f
        <5>1. g \in 1..(f - 1)
          BY <1>15, <4>2
        <5>2. PICK i \in 1..T : taken[i] = g
          BY <1>29, <3>5, <5>1
        <5>3. i \in 1..(T + 1) /\ q[i] = g
          BY <3>2, <5>2
        <5> QED BY <5>3
      <4> QED BY <4>1, <4>2
    <3>6. (f + 1) - 1 = f
      BY <1>15
    <3> QED BY <1>27, <3>1, <3>2, <3>3, <3>4, <3>5, <3>6 DEF Handled
  <2>2. CASE ~Wanted(f)
    <3>1. taken' = taken
      BY <1>26, <2>2
    <3>2. \A i \in 1..T : taken[i] \in 1..f
      BY <1>15, <1>29
    <3>3. ASSUME NEW g \in 1..f, Wanted(g) PROVE \E i \in 1..T : taken[i] = g
      <4>1. g \in 1..(f - 1)
        BY <1>15, <2>2, <3>3
      <4> QED BY <1>29, <3>3, <4>1
    <3>4. (f + 1) - 1 = f
      BY <1>15
    <3> QED BY <1>1, <1>27, <1>28, <1>29, <3>1, <3>2, <3>3, <3>4 DEF Handled, FrameTypes
  <2> QED BY <2>1, <2>2
<1>31. FrameTypes'
  BY <1>1, <1>17, <1>18, <1>20, <1>30 DEF FrameTypes
<1>32. Chain(s)' BY <1>4, <1>18 DEF Chain, Whole, Linked, Rising, ToTheLast, Size
<1>33. Stream' = s BY <1>2, <1>18 DEF Stream
<1>34. f + 1 \in 1..(Len(packed') + 1) BY <1>3, <1>15, <1>18
<1> QED BY <1>24, <1>25, <1>30, <1>31, <1>32, <1>33, <1>34 DEF FramesInv

LEMMA ParseEndsKeepsThem ==
  ASSUME FramesInv, ParseEnds
  PROVE  FramesInv'
<1>1. FrameTypes BY DEF FramesInv
<1>2. PICK s, t : s = Stream /\ t = Stream' OBVIOUS
<1>3. PICK N \in Nat : N = Len(packed) BY <1>1 DEF FrameTypes
<1>4. Chain(s) /\ Cursor(s) BY <1>2 DEF FramesInv
<1>5. PICK n \in 1..(N + 1) : NextIs(s, n) /\ Handled(n) BY <1>2, <1>3 DEF FramesInv
<1>6. PICK o \in Nat : o = offset BY <1>1 DEF FrameTypes
<1>7. PICK B \in Nat : B = Len(buf) BY <1>1 DEF FrameTypes
<1>8. PICK q : q = pipe \o pending OBVIOUS
<1>9. q \in Seq(Byte) /\ buf \in Seq(Byte) /\ pipe \in Seq(Byte) /\ pending \in Seq(Byte)
  BY <1>1, <1>8, ConcatProperties DEF FrameTypes
<1>10. s = buf \o q
  BY <1>2, <1>8, <1>9, Grouped DEF Stream
<1>11. s \in Seq(Byte) /\ B <= Len(s) /\ \A i \in 1..B : s[i] = buf[i]
  <2>1. /\ s \in Seq(Byte) /\ Len(s) = Len(buf) + Len(pipe \o pending)
        /\ \A i \in 1..Len(buf) : s[i] = buf[i]
    BY <1>1, <1>2, StreamIs
  <2> QED BY <1>7, <1>8, <1>9, <2>1
<1>12. PICK S \in Nat : S = Len(s) BY <1>11
<1>13. o <= B /\ B <= S BY <1>4, <1>6, <1>7, <1>11, <1>12 DEF Cursor
<1>14. PICK b : b = buf' OBVIOUS
<1>15. b = LeftOf(buf, o) BY <1>6, <1>14 DEF ParseEnds, LeftOf
<1>16. b \in Seq(Byte) /\ Len(b) = B - o /\ \A i \in 1..(B - o) : b[i] = buf[o + i]
  <2>1. o \in 0..Len(buf)
    BY <1>7, <1>13
  <2>2. /\ LeftOf(buf, o) \in Seq(Byte) /\ Len(LeftOf(buf, o)) = Len(buf) - o
        /\ \A i \in 1..(Len(buf) - o) : LeftOf(buf, o)[i] = buf[o + i]
        /\ LeftOf(buf, o) \o q \in Seq(Byte) /\ Len(LeftOf(buf, o) \o q) = Len(buf \o q) - o
        /\ \A i \in 1..(Len(buf \o q) - o) : (LeftOf(buf, o) \o q)[i] = (buf \o q)[i + o]
    BY ONLY <1>9, <2>1, Erased, ZenonT(40)
  <2> QED BY <1>7, <1>15, <2>2
<1>17. UNCHANGED <<packed, pending, pipe, taken>> /\ offset' = 0 /\ parsing' = FALSE /\ parsing
  BY DEF ParseEnds
<1>18. t = b \o q
  <2>1. t = (b \o pipe) \o pending BY <1>2, <1>14, <1>17 DEF Stream
  <2>2. (b \o pipe) \o pending = b \o (pipe \o pending)
    <3>1. b \in Seq(Byte) /\ pipe \in Seq(Byte) /\ pending \in Seq(Byte) BY <1>9, <1>16
    <3> QED BY ONLY <3>1, Grouped, ZenonT(60)
  <2> QED BY <1>8, <2>1, <2>2
<1>19. t \in Seq(Byte) /\ Len(t) = S - o /\ \A i \in 1..(S - o) : t[i] = s[i + o]
  <2>1. o \in 0..Len(buf)
    BY <1>7, <1>13
  <2>2. /\ LeftOf(buf, o) \o q \in Seq(Byte) /\ Len(LeftOf(buf, o) \o q) = Len(buf \o q) - o
        /\ \A i \in 1..(Len(buf \o q) - o) : (LeftOf(buf, o) \o q)[i] = (buf \o q)[i + o]
    BY <1>9, <2>1, Erased
  <2> QED BY <1>10, <1>12, <1>15, <1>18, <2>2
<1>20. o < S => s[o + 1].at = 1 BY <1>4, <1>6, <1>12 DEF Cursor
<1>21. Chain(t)
  <2>1. o \in 0..Len(s) /\ Len(t) = Len(s) - o /\ \A i \in 1..Len(t) : t[i] = s[i + o]
    BY <1>12, <1>13, <1>19
  <2> QED BY <1>1, <1>4, <1>11, <1>12, <1>19, <1>20, <2>1, ChainLeft
<1>22. Chain(t)' BY <1>17, <1>21 DEF Chain, Whole, Linked, Rising, ToTheLast, Size
<1>23. o < S => t[1] = s[o + 1] /\ Len(t) > 0
  BY <1>13, <1>19
<1>24. o = S => Len(t) = 0
  BY <1>19
<1>25. NextIs(t, n)'
  BY <1>3, <1>5, <1>6, <1>12, <1>13, <1>17, <1>19, <1>23, <1>24 DEF NextIs
<1>26. ASSUME b # <<>> PROVE Len(b) < Size(b[1].frame)
  <2>1. o < B
    BY <1>13, <1>16, <1>26
  <2>2. PICK f : f = s[o + 1].frame OBVIOUS
  <2>3. b[1].frame = f /\ buf[o + 1].frame = f /\ buf[o + 1].at = 1
    BY <1>11, <1>13, <1>16, <1>20, <2>1, <2>2
  <2>4. f \in 1..N
    BY <1>3, <1>4, <1>11, <1>12, <1>13, <2>1, <2>2 DEF Chain, Whole
  <2>5. packed[f].len \in Nat /\ HeaderLen \in Nat
    BY <1>1, <1>3, <2>4, Sizes
  <2>6. PICK l \in Nat, h \in Nat : l = packed[f].len /\ h = HeaderLen
    BY <2>5
  <2>7. LengthAt = l
    BY <1>6, <2>3, <2>6 DEF LengthAt
  <2>8. ~(o + h <= B /\ o + h + l <= B)
    BY <1>6, <1>7, <2>6, <2>7 DEF ParseEnds, FrameHere
  <2>9. B - o < h + l
    BY <2>8
  <2> QED BY <1>16, <2>3, <2>6, <2>9 DEF Size
<1>27. Cursor(t)'
  <2>1. 0 < Len(t) => t[1].at = 1
    BY <1>13, <1>20, <1>23, <1>24, <1>12
  <2>2. 0 <= Len(b)
    BY <1>13, <1>16
  <2> QED BY <1>14, <1>17, <1>26, <2>1, <2>2 DEF Cursor, Size
<1>28. Handled(n)' BY <1>5, <1>17 DEF Handled, Wanted
<1>29. FrameTypes' BY <1>1, <1>14, <1>16, <1>17 DEF FrameTypes
<1>30. n \in 1..(Len(packed') + 1) BY <1>3, <1>17
<1> QED BY <1>2, <1>22, <1>25, <1>27, <1>28, <1>29, <1>30 DEF FramesInv

(***************************************************************************)
(* It says what FramesIntact says.                                         *)
(***************************************************************************)
LEMMA FramesInvIsEnough ==
  ASSUME FramesInv
  PROVE  FramesIntact
<1>1. FrameTypes BY DEF FramesInv
<1>2. PICK s : s = Stream OBVIOUS
<1>3. PICK N \in Nat : N = Len(packed) BY <1>1 DEF FrameTypes
<1>4. Chain(s) /\ Cursor(s) BY <1>2 DEF FramesInv
<1>5. PICK n \in 1..(N + 1) : NextIs(s, n) /\ Handled(n) BY <1>2, <1>3 DEF FramesInv
<1>6. PICK o \in Nat : o = offset BY <1>1 DEF FrameTypes
<1>7. PICK B \in Nat : B = Len(buf) BY <1>1 DEF FrameTypes
<1>8. PICK q : q = pipe \o pending OBVIOUS
<1>9. q \in Seq(Byte) BY <1>1, <1>8, ConcatProperties DEF FrameTypes
<1>10. PICK Q \in Nat : Q = Len(q) BY <1>9
<1>11. /\ s \in Seq(Byte) /\ Len(s) = B + Q
       /\ \A i \in 1..B : s[i] = buf[i]
       /\ \A i \in 1..Q : s[B + i] = q[i]
  <2>1. /\ s \in Seq(Byte) /\ Len(s) = Len(buf) + Len(pipe \o pending)
        /\ \A i \in 1..Len(buf) : s[i] = buf[i]
        /\ \A i \in 1..Len(pipe \o pending) : s[Len(buf) + i] = (pipe \o pending)[i]
    BY <1>1, <1>2, StreamIs
  <2> QED BY <1>7, <1>8, <1>10, <2>1
<1>12. PICK S \in Nat : S = B + Q /\ S = Len(s) BY <1>11
<1>13. o <= B BY <1>4, <1>6, <1>7 DEF Cursor
<1>14. \A f : f \in Complete <=> f \in 1..N /\ \A i \in 1..Q : q[i].frame # f
  BY <1>3, <1>8, <1>10 DEF Complete
<1>15. /\ \A i, j \in 1..Len(taken) : i < j => taken[i] < taken[j]
       /\ \A i \in 1..Len(taken) : taken[i] \in 1..(n - 1) /\ Wanted(taken[i])
       /\ \A f \in 1..(n - 1) : Wanted(f) => \E i \in 1..Len(taken) : taken[i] = f
  BY <1>5 DEF Handled
<1>16. ASSUME NEW f \in 1..(n - 1) PROVE f \in Complete
  <2>1. ASSUME NEW i \in 1..Q PROVE q[i].frame # f
    <3>1. PICK j \in 1..S : j = B + i BY <1>12
    <3>2. q[i] = s[j] BY <1>11, <3>1
    <3>3. o < S /\ o + 1 \in 1..S /\ o + 1 <= j BY <1>12, <1>13, <3>1
    <3>4. s[o + 1].frame <= s[j].frame BY <1>4, <1>12, <3>3 DEF Chain, Rising
    <3>5. n = s[o + 1].frame BY <1>5, <1>6, <1>12, <3>3 DEF NextIs
    <3> QED BY <3>2, <3>4, <3>5
  <2> QED BY <1>14, <2>1
<1>17. ASSUME ~parsing
       PROVE  /\ \A f \in Complete : f \in 1..(n - 1)
              /\ \A i \in 1..B : buf[i].frame \notin Complete
              /\ buf # <<>> => buf[1].at = 1 /\ B < HeaderLen + packed[buf[1].frame].len
  <2>1. o = 0 /\ (buf # <<>> => B < Size(buf[1].frame))
    BY <1>4, <1>6, <1>7, <1>17 DEF Cursor
  <2>2. CASE S = 0
    <3>1. n = N + 1 /\ B = 0 /\ Q = 0
      BY <1>3, <1>5, <1>6, <1>12, <2>1, <2>2 DEF NextIs
    <3>2. buf = <<>>
      BY <1>1, <1>7, <3>1, EmptySeq DEF FrameTypes
    <3> QED BY <1>14, <3>1, <3>2
  <2>3. CASE S > 0
    <3>1. PICK z : z = Size(n) OBVIOUS
    <3>2. n = s[0 + 1].frame /\ s[0 + 1].at = 1 /\ 0 < Len(s)
      BY <1>4, <1>5, <1>6, <1>12, <2>1, <2>3 DEF NextIs, Cursor
    <3>3. /\ n \in 1..N /\ z \in Nat \ {0} /\ 0 + z <= Len(s)
          /\ \A k \in 1..z : s[0 + k].frame = n /\ s[0 + k].at = k
      BY <1>1, <1>3, <1>4, <1>11, <3>1, <3>2, FrameThere
    <3>4. z <= S /\ \A k \in 1..z : s[k].frame = n /\ s[k].at = k
      BY <1>12, <3>3
    <3>5. B > 0 => B < z /\ buf[1].at = 1 /\ buf[1].frame = n
      <4> SUFFICES ASSUME B > 0 PROVE B < z /\ buf[1].at = 1 /\ buf[1].frame = n
        OBVIOUS
      <4>1. buf # <<>> /\ buf[1] = s[1]
        BY <1>1, <1>7, <1>11 DEF FrameTypes
      <4> QED BY <2>1, <3>1, <3>3, <3>4, <4>1
    <3>6. ASSUME NEW f \in Complete PROVE f \in 1..(n - 1)
      <4>1. f \in 1..N /\ \A i \in 1..Q : q[i].frame # f
        BY <1>14
      <4> SUFFICES ASSUME f >= n PROVE FALSE
        BY <4>1
      <4>2. f \in s[1].frame..N /\ s # <<>>
        BY <1>12, <2>3, <3>2, <4>1
      <4>3. PICK i \in 1..S : s[i].frame = f /\ s[i].at = Size(f)
        BY <1>3, <1>4, <1>12, <4>2 DEF Chain, ToTheLast
      <4>4. CASE i > B
        <5>1. PICK j \in 1..Q : j = i - B BY <1>12, <4>4
        <5>2. q[j] = s[i] BY <1>11, <5>1
        <5> QED BY <4>1, <4>3, <5>2
      <4>5. CASE i <= B
        <5>1. i \in 1..z /\ i < z BY <3>3, <3>5, <4>5
        <5>2. f = n /\ s[i].at = i BY <3>4, <4>3, <5>1
        <5> QED BY <3>1, <4>3, <5>1, <5>2
      <4> QED BY <4>4, <4>5
    <3>7. ASSUME NEW i \in 1..B PROVE buf[i].frame \notin Complete
      <4>1. i \in 1..z /\ B < z BY <3>3, <3>5
      <4>2. buf[i].frame = n BY <1>11, <3>4, <4>1
      <4>3. PICK j \in 1..Q : B + j = z BY <1>12, <3>3, <3>4, <4>1
      <4>4. q[j].frame = n BY <1>11, <3>3, <3>4, <4>3
      <4> QED BY <1>14, <4>2, <4>4
    <3>8. buf # <<>> => buf[1].at = 1 /\ B < HeaderLen + packed[buf[1].frame].len
      <4>1. buf # <<>> => B > 0 BY <1>1, <1>7 DEF FrameTypes
      <4> QED BY <3>1, <3>5, <4>1 DEF Size
    <3> QED BY <3>6, <3>7, <3>8
  <2> QED BY <2>2, <2>3
<1> QED BY <1>7, <1>15, <1>16, <1>17 DEF FramesIntact

\* However the bytes are cut up, messages are handled in the order they were
\* sent, none before its last byte is there and none passed over, and what
\* unpack_frame leaves in the buffer is the beginning of the next.
THEOREM FramesStayIntact == FramesSpec => []FramesIntact
<1>1. FramesInit => FramesInv
  <2> SUFFICES ASSUME FramesInit PROVE FramesInv
    OBVIOUS
  <2>1. packed = <<>> /\ pending = <<>> /\ pipe = <<>> /\ buf = <<>> /\ taken = <<>> /\ offset = 0 /\ ~parsing
    BY DEF FramesInit
  <2>2. <<>> \in Seq([len : Nat, wanted : BOOLEAN]) /\ <<>> \in Seq(Byte) /\ <<>> \in Seq(Nat)
    BY EmptySeq
  <2>3. FrameTypes
    BY <2>1, <2>2 DEF FrameTypes
  <2>4. Stream = <<>> /\ Len(<<>>) = 0
    BY <2>1, <2>2, ConcatEmptySeq, EmptySeq DEF Stream
  <2>5. Chain(<<>>)
    BY <2>4 DEF Chain, Whole, Linked, Rising, ToTheLast
  <2>6. Cursor(<<>>) /\ NextIs(<<>>, 1) /\ Handled(1) /\ 1 \in 1..(Len(packed) + 1)
    BY <2>1, <2>4 DEF Cursor, NextIs, Handled
  <2> QED BY <2>3, <2>4, <2>5, <2>6 DEF FramesInv
<1>2. FramesInv /\ [FramesNext]_frameVars => FramesInv'
  <2> SUFFICES ASSUME FramesInv, [FramesNext]_frameVars PROVE FramesInv'
    OBVIOUS
  <2>1. ASSUME NEW len \in PayloadLens, NEW wanted \in BOOLEAN, Send(len, wanted) PROVE FramesInv'
    BY <2>1, SendKeepsThem
  <2>2. ASSUME NEW n \in 1..MaxPiece, SendPiece(n) PROVE FramesInv'
    BY <2>2, SendPieceKeepsThem
  <2>3. ASSUME NEW n \in 1..MaxPiece, RecvPiece(n) PROVE FramesInv'
    BY <2>3, RecvPieceKeepsThem
  <2>4. CASE ParseFrame
    BY <2>4, ParseFrameKeepsThem
  <2>5. CASE ParseEnds
    BY <2>5, ParseEndsKeepsThem
  <2>6. CASE UNCHANGED frameVars
    <3>1. UNCHANGED <<packed, pending, pipe, buf, offset, parsing, taken>>
      BY <2>6 DEF frameVars
    <3>2. PICK s : s = Stream OBVIOUS
    <3>3. Stream' = s /\ FrameTypes'
      BY <3>1, <3>2 DEF FramesInv, Stream, FrameTypes
    <3>4. Cursor(s) BY <3>2 DEF FramesInv
    <3>5. Cursor(s)' BY <3>1, <3>4 DEF Cursor, Size
    <3>6. \A n \in 1..(Len(packed) + 1) : NextIs(s, n) => NextIs(s, n)'
      BY <3>1 DEF NextIs
    <3> QED BY <3>1, <3>2, <3>3, <3>5, <3>6, SameStream
  <2> QED BY <2>1, <2>2, <2>3, <2>4, <2>5, <2>6 DEF FramesNext
<1>3. FramesInv => FramesIntact
  BY FramesInvIsEnough
<1> QED BY <1>1, <1>2, <1>3, PTL DEF FramesSpec

------------------------------------------------------------------------------
(***************************************************************************)
(* rdtsc: statistics in words that wrap.  The sums are recursive           *)
(* functions: that they exist, and what they are, is an induction, which   *)
(* UpTo makes of the least counterexample.                                 *)
(***************************************************************************)
CycleSpec == CycleInit /\ [][CycleNext]_cycVars

LEMMA UpTo ==
  ASSUME NEW n \in Nat, NEW G, 0 \in G, \A k \in 1..n : k - 1 \in G => k \in G
  PROVE  \A k \in 0..n : k \in G
<1>0. PICK B : B = {k \in 0..n : k \notin G} OBVIOUS
<1>1. SUFFICES ASSUME B # {} PROVE FALSE
  BY <1>0
<1>2. PICK k \in B : \A m \in B : k <= m
  <2>1. B \in SUBSET Nat
    BY <1>0
  <2> QED BY ONLY <1>1, <2>1, LeastNumber
<1>3. k \in 1..n /\ k \notin G
  BY <1>0, <1>2
<1>4. k - 1 \in 0..n /\ k - 1 < k
  BY <1>3
<1>5. k - 1 \in G
  BY <1>0, <1>2, <1>3, <1>4
<1> QED BY <1>3, <1>5

\* A value for 0 and a step give a function on 0..n.
Follows(g, n, b, S) == g[0] = b /\ \A k \in 1..n : g[k] = S[<<g[k - 1], k - 1>>]

LEMMA Recursion ==
  ASSUME NEW n \in Nat, NEW V, NEW b \in V, NEW S \in [V \X (0..n - 1) -> V]
  PROVE  \E g \in [0..n -> V] : Follows(g, n, b, S)
<1> DEFINE G == {m \in 0..n : \E g \in [0..m -> V] : Follows(g, m, b, S)}
<1>1. 0 \in G
  <2>1. PICK g : g = [k \in 0..0 |-> b] OBVIOUS
  <2>2. g \in [0..0 -> V] /\ g[0] = b
    BY <2>1
  <2>3. Follows(g, 0, b, S)
    BY <2>2 DEF Follows
  <2> QED BY <2>2, <2>3
<1>2. ASSUME NEW m \in 1..n, m - 1 \in G PROVE m \in G
  <2>1. PICK l \in 0..n : l = m - 1 BY <1>2
  <2>2. PICK g \in [0..l -> V] : Follows(g, l, b, S) BY <1>2, <2>1
  <2>3. PICK v \in V : v = S[<<g[l], l>>]
    <3>1. g[l] \in V /\ l \in 0..n - 1
      BY <2>1, <2>2
    <3> QED BY <3>1
  <2>4. PICK h : h = [k \in 0..m |-> IF k = m THEN v ELSE g[k]] OBVIOUS
  <2>5. h[m] = v /\ \A k \in 0..l : h[k] = g[k]
    BY <2>1, <2>4
  <2>6. h \in [0..m -> V]
    <3>1. ASSUME NEW k \in 0..m, k # m PROVE g[k] \in V
      BY <2>1, <2>2, <3>1
    <3> QED BY <2>3, <2>4, <3>1
  <2>7. h[0] = b
    BY <2>1, <2>2, <2>5 DEF Follows
  <2>8. ASSUME NEW k \in 1..m PROVE h[k] = S[<<h[k - 1], k - 1>>]
    <3>1. CASE k = m
      <4>1. k - 1 = l /\ l \in 0..l
        BY <2>1, <3>1
      <4> QED BY <2>3, <2>5, <3>1, <4>1
    <3>2. CASE k # m
      <4>1. k \in 1..l /\ k \in 0..l /\ k - 1 \in 0..l
        BY <2>1, <3>2
      <4> QED BY <2>2, <2>5, <4>1 DEF Follows
    <3> QED BY <3>1, <3>2
  <2> QED BY <2>6, <2>7, <2>8 DEF Follows
<1>3. \A m \in 0..n : m \in G
  <2> HIDE DEF G
  <2> QED BY <1>1, <1>2, UpTo
<1>4. n \in 0..n
  OBVIOUS
<1> QED BY <1>3, <1>4

(***************************************************************************)
(* Sums as they are, sums in words.                                        *)
(***************************************************************************)
Words == 0..Word - 1

LEMMA Sizes2 ==
  /\ Word \in Nat /\ Word > 22 /\ 0 \in Words /\ Words \subseteq Nat
  /\ Stats \in Nat \ {0} /\ Loops \in Nat \ {0} /\ Deltas \subseteq Int
  BY CycleStatsAssumption DEF Words

LEMMA InWords ==
  ASSUME NEW d \in Int
  PROVE  /\ d % Word \in Words /\ (d \in Words => d % Word = d)
         /\ (d - Word \in Words => d % Word = d - Word)
  BY Sizes2 DEF Words

Adds(T, f) ==
  /\ T \in [0..Stats -> Nat] /\ T[0] = 0
  /\ \A k \in 1..Stats : T[k] = T[k - 1] + f[k - 1]

LEMMA TotalsAdd ==
  ASSUME NEW f \in [StatIds -> Nat]
  PROVE  Adds(Totals(f), f)
<1> DEFINE R(g) == [k \in 0..Stats |-> IF k = 0 THEN 0 ELSE g[k - 1] + f[k - 1]]
           V == Nat \X (0..Stats - 1)
<1>1. PICK S : S = [p \in V |-> p[1] + f[p[2]]] OBVIOUS
<1>2. S \in [V -> Nat] /\ \A v \in Nat, k \in 0..Stats - 1 : S[<<v, k>>] = v + f[k]
  BY <1>1 DEF StatIds
<1>3. PICK g \in [0..Stats -> Nat] : Follows(g, Stats, 0, S)
  <2> HIDE DEF V
  <2>1. Stats \in Nat /\ 0 \in Nat BY Sizes2
  <2>2. S \in [Nat \X (0..Stats - 1) -> Nat] BY <1>2 DEF V
  <2> QED BY <2>1, <2>2, Recursion
<1>4. \A k \in 1..Stats : g[k] = g[k - 1] + f[k - 1]
  <2>1. ASSUME NEW k \in 1..Stats PROVE g[k] = g[k - 1] + f[k - 1]
    <3>1. k - 1 \in 0..Stats - 1 /\ k - 1 \in 0..Stats /\ g[k] = S[<<g[k - 1], k - 1>>]
      BY <1>3, Sizes2 DEF Follows
    <3> QED BY <1>2, <3>1
  <2> QED BY <2>1
<1>5. g = R(g)
  <2>1. \A k \in 0..Stats : g[k] = IF k = 0 THEN 0 ELSE g[k - 1] + f[k - 1]
    BY <1>3, <1>4, Sizes2 DEF Follows
  <2> QED BY <2>1
<1>6. Totals(f) = CHOOSE h : h = R(h)
  BY DEF Totals
<1>7. PICK T : T = Totals(f) OBVIOUS
<1>8. T = R(T)
  <2> HIDE DEF R
  <2> QED BY <1>5, <1>6, <1>7
<1>9. T[0] = 0 /\ \A k \in 1..Stats : T[k] = T[k - 1] + f[k - 1]
  BY <1>8, Sizes2
<1>10. \A k \in 0..Stats : T[k] \in Nat
  <2>1. PICK G : G = {k \in 0..Stats : T[k] \in Nat} OBVIOUS
  <2>2. ASSUME NEW k \in 1..Stats, k - 1 \in G PROVE k \in G
    <3>1. f[k - 1] \in Nat
      BY Sizes2 DEF StatIds
    <3> QED BY <1>9, <2>1, <2>2, <3>1
  <2>3. 0 \in G
    BY <1>9, <2>1, Sizes2
  <2>4. \A k \in 0..Stats : k \in G
    BY <2>2, <2>3, Sizes2, UpTo
  <2> QED BY <2>1, <2>4
<1>11. T \in [0..Stats -> Nat]
  BY <1>8, <1>10
<1> QED BY <1>7, <1>9, <1>11 DEF Adds

AddsInWords(T, f) ==
  /\ T \in [0..Stats -> Words] /\ T[0] = 0
  /\ \A k \in 1..Stats : T[k] = (T[k - 1] + f[k - 1]) % Word

LEMMA SumsFollow ==
  ASSUME NEW f \in [StatIds -> Nat]
  PROVE  AddsInWords(Sums(f, Stats), f)
<1> DEFINE R(g) == [k \in 0..Stats |-> IF k = 0 THEN 0 ELSE (g[k - 1] + f[k - 1]) % Word]
           V == Words \X (0..Stats - 1)
<1>1. PICK S : S = [p \in V |-> (p[1] + f[p[2]]) % Word] OBVIOUS
<1>2. S \in [V -> Words] /\ \A v \in Words, k \in 0..Stats - 1 : S[<<v, k>>] = (v + f[k]) % Word
  <2>1. ASSUME NEW v \in Words, NEW k \in 0..Stats - 1
        PROVE  <<v, k>> \in V /\ (v + f[k]) % Word \in Words
    <3>1. v + f[k] \in Int
      BY Sizes2 DEF StatIds
    <3> QED BY <3>1, InWords
  <2>2. \A p \in V : p[1] \in Words /\ p[2] \in 0..Stats - 1 /\ p = <<p[1], p[2]>>
    OBVIOUS
  <2> HIDE DEF V
  <2>3. \A p \in V : (p[1] + f[p[2]]) % Word \in Words
    BY <2>1, <2>2
  <2> QED BY <1>1, <2>1, <2>3
<1>3. PICK g \in [0..Stats -> Words] : Follows(g, Stats, 0, S)
  <2> HIDE DEF V
  <2>1. Stats \in Nat /\ 0 \in Words BY Sizes2
  <2>2. S \in [Words \X (0..Stats - 1) -> Words] BY <1>2 DEF V
  <2> QED BY <2>1, <2>2, Recursion
<1>4. ASSUME NEW k \in 1..Stats PROVE g[k] = (g[k - 1] + f[k - 1]) % Word
  <2>1. k - 1 \in 0..Stats - 1 /\ k - 1 \in 0..Stats /\ g[k] = S[<<g[k - 1], k - 1>>]
    BY <1>3, Sizes2 DEF Follows
  <2> QED BY <1>2, <2>1
<1>5. g = R(g)
  <2>1. \A k \in 0..Stats : g[k] = IF k = 0 THEN 0 ELSE (g[k - 1] + f[k - 1]) % Word
    BY <1>3, <1>4, Sizes2 DEF Follows
  <2> QED BY <2>1
<1>6. Sums(f, Stats) = CHOOSE h : h = R(h)
  BY DEF Sums
<1>7. PICK T : T = Sums(f, Stats) OBVIOUS
<1>8. T = R(T)
  <2> HIDE DEF R
  <2> QED BY <1>5, <1>6, <1>7
<1>9. T[0] = 0 /\ \A k \in 1..Stats : T[k] = (T[k - 1] + f[k - 1]) % Word
  BY <1>8, Sizes2
<1>10. \A k \in 0..Stats : T[k] \in Words
  <2>1. PICK G : G = {k \in 0..Stats : T[k] \in Words} OBVIOUS
  <2>2. ASSUME NEW k \in 1..Stats, k - 1 \in G PROVE k \in G
    <3>1. T[k - 1] \in Nat
      BY <2>1, <2>2, Sizes2
    <3>2. f[k - 1] \in Nat
      BY Sizes2 DEF StatIds
    <3>3. T[k - 1] + f[k - 1] \in Int
      BY <3>1, <3>2
    <3>4. T[k] \in Words
      BY <1>9, <3>3, InWords
    <3> QED BY <2>1, <3>4
  <2>3. 0 \in G
    BY <1>9, <2>1, Sizes2
  <2>4. \A k \in 0..Stats : k \in G
    BY <2>2, <2>3, Sizes2, UpTo
  <2> QED BY <2>1, <2>4
<1>11. T \in [0..Stats -> Words]
  BY <1>8, <1>10
<1> QED BY <1>9, <1>11, <1>7 DEF AddsInWords

\* A sum grows, and no summand exceeds it.
LEMMA SumsGrow ==
  ASSUME NEW f \in [StatIds -> Nat], NEW T, Adds(T, f)
  PROVE  /\ \A k \in 0..Stats, i \in 0..Stats : i <= k => T[i] <= T[k]
         /\ \A i \in StatIds : f[i] <= T[Stats]
<1>1. PICK G : G = {k \in 0..Stats : \A i \in 0..Stats : i <= k => T[i] <= T[k]} OBVIOUS
<1>2. ASSUME NEW k \in 1..Stats, k - 1 \in G PROVE k \in G
  <2>1. k \in 0..Stats /\ k - 1 \in 0..Stats /\ k - 1 \in StatIds
    BY Sizes2 DEF StatIds
  <2>2. PICK a \in Nat, b \in Nat, x \in Nat : a = T[k - 1] /\ b = T[k] /\ x = f[k - 1] /\ b = a + x
    BY <2>1 DEF Adds
  <2>3. ASSUME NEW i \in 0..Stats, i <= k PROVE T[i] <= T[k]
    <3>1. CASE i = k
      <4>1. T[i] = b
        BY <2>2, <3>1
      <4> QED BY <2>2, <4>1
    <3>2. CASE i # k
      <4>1. i <= k - 1
        BY <2>3, <3>2
      <4>2. T[i] \in Nat /\ T[i] <= a
        BY <1>1, <1>2, <2>2, <4>1 DEF Adds
      <4> QED BY <2>2, <4>2
    <3> QED BY <3>1, <3>2
  <2> QED BY <1>1, <2>1, <2>3
<1>3. 0 \in G
  BY <1>1, Sizes2 DEF Adds
<1>4. \A k \in 0..Stats : k \in G
  BY <1>2, <1>3, Sizes2, UpTo
<1>5. ASSUME NEW i \in StatIds PROVE f[i] <= T[Stats]
  <2>1. PICK k \in 1..Stats : k - 1 = i /\ k \in 0..Stats /\ Stats \in 0..Stats
    <3>1. i + 1 \in 1..Stats /\ (i + 1) - 1 = i /\ i + 1 \in 0..Stats /\ Stats \in 0..Stats
      BY Sizes2 DEF StatIds
    <3> QED BY <3>1
  <2>2. T[k] = T[i] + f[i] /\ T[i] \in Nat /\ T[k] \in Nat /\ T[Stats] \in Nat /\ f[i] \in Nat
    <3>1. i \in 0..Stats
      BY Sizes2 DEF StatIds
    <3> QED BY <2>1, <3>1 DEF Adds
  <2>3. T[k] <= T[Stats]
    <3>1. Stats \in G /\ k <= Stats
      BY <1>4, <2>1
    <3> QED BY <1>1, <2>1, <3>1
  <2> QED BY <2>2, <2>3
<1> QED BY <1>1, <1>4, <1>5

\* Up to a sum that fits in a word the sums in words are the same, and the first
\* that does not fit is less than the one before.
LEMMA SumsAgree ==
  ASSUME NEW f \in [StatIds -> Words], NEW T, Adds(T, f), NEW A, AddsInWords(A, f)
  PROVE  \A k \in 0..Stats : T[k] < Word => A[k] = T[k]
<1>0. f \in [StatIds -> Nat]
  BY Sizes2
<1>1. PICK G : G = {k \in 0..Stats : T[k] < Word => A[k] = T[k]} OBVIOUS
<1>2. ASSUME NEW k \in 1..Stats, k - 1 \in G PROVE k \in G
  <2>1. k \in 0..Stats /\ k - 1 \in 0..Stats /\ k - 1 \in StatIds
    BY Sizes2 DEF StatIds
  <2>2. PICK a \in Nat, b \in Nat, x \in Nat : a = T[k - 1] /\ b = T[k] /\ x = f[k - 1] /\ b = a + x
    BY <1>0, <2>1 DEF Adds
  <2>3. ASSUME b < Word PROVE A[k] = b
    <3>1. a < Word
      BY <2>2, <2>3, Sizes2
    <3>2. A[k - 1] = a
      BY <1>1, <1>2, <2>2, <3>1
    <3>3. A[k] = (a + x) % Word
      BY <2>2, <3>2 DEF AddsInWords
    <3>4. b \in Words /\ b \in Int
      BY <2>3, Sizes2 DEF Words
    <3> QED BY <2>2, <3>3, <3>4, InWords
  <2> QED BY <1>1, <2>1, <2>2, <2>3
<1>3. 0 \in G
  BY <1>1, Sizes2 DEF Adds, AddsInWords
<1>4. \A k \in 0..Stats : k \in G
  BY <1>2, <1>3, Sizes2, UpTo
<1> QED BY <1>1, <1>4

(***************************************************************************)
(* The variance is not negative: (sum x)^2 <= n sum x^2.                   *)
(***************************************************************************)
LEMMA SquareOfDifference ==
  ASSUME NEW x \in Nat, NEW y \in Nat
  PROVE  2 * (x * y) <= x * x + y * y
<1>1. PICK d \in Int : d = x - y OBVIOUS
<1>2. d * d >= 0 OBVIOUS
<1>3. d * d = (x * x + y * y) - 2 * (x * y)
  BY <1>1
<1> QED BY <1>2, <1>3

LEMMA Crossed ==
  ASSUME NEW f \in [StatIds -> Nat], NEW T, Adds(T, f), NEW Q, Adds(Q, Squared(f)), NEW y \in Nat
  PROVE  \A k \in 0..Stats : 2 * (T[k] * y) <= Q[k] + k * (y * y)
<1>1. PICK G : G = {k \in 0..Stats : 2 * (T[k] * y) <= Q[k] + k * (y * y)} OBVIOUS
<1>2. ASSUME NEW k \in 1..Stats, k - 1 \in G PROVE k \in G
  <2>1. PICK m \in Nat : m = k - 1 /\ m \in 0..Stats /\ k \in 0..Stats /\ m \in StatIds /\ k = m + 1
    <3>1. k - 1 \in Nat /\ k - 1 \in 0..Stats /\ k \in 0..Stats /\ k - 1 \in StatIds /\ k = (k - 1) + 1
      BY Sizes2 DEF StatIds
    <3> QED BY <3>1
  <2>2. PICK t \in Nat, u \in Nat, x \in Nat : t = T[m] /\ u = T[k] /\ x = f[m] /\ u = t + x
    BY <2>1 DEF Adds
  <2>3. PICK q \in Nat, p \in Nat : q = Q[m] /\ p = Q[k] /\ p = q + x * x
    <3>1. Squared(f)[m] = x * x
      BY <2>1, <2>2 DEF Squared
    <3>2. Q[m] \in Nat /\ Q[k] \in Nat /\ Q[k] = Q[m] + Squared(f)[m]
      BY <2>1 DEF Adds
    <3> QED BY <3>1, <3>2
  <2>4. 2 * (t * y) <= q + m * (y * y)
    BY <1>1, <1>2, <2>1, <2>2, <2>3
  <2>5. 2 * (x * y) <= x * x + y * y
    BY SquareOfDifference
  <2>6. (t + x) * y = t * y + x * y /\ (m + 1) * (y * y) = m * (y * y) + y * y
    OBVIOUS
  <2>7. PICK a \in Int, b \in Int, c \in Int, d \in Int, e \in Int :
          a = t * y /\ b = x * y /\ c = m * (y * y) /\ d = y * y /\ e = x * x
    OBVIOUS
  <2>8. 2 * a <= q + c /\ 2 * b <= e + d
    BY <2>4, <2>5, <2>7
  <2>9. 2 * (a + b) <= (q + e) + (c + d)
    BY <2>8
  <2>10. u * y = a + b /\ k * (y * y) = c + d /\ p = q + e
    BY <2>1, <2>2, <2>3, <2>6, <2>7
  <2> QED BY <1>1, <2>1, <2>2, <2>3, <2>9, <2>10
<1>3. 0 \in G
  <2>1. T[0] = 0 /\ Q[0] = 0
    BY DEF Adds
  <2>2. 2 * (0 * y) <= 0 + 0 * (y * y)
    OBVIOUS
  <2> QED BY <1>1, <2>1, <2>2, Sizes2
<1>4. \A k \in 0..Stats : k \in G
  BY <1>2, <1>3, Sizes2, UpTo
<1> QED BY <1>1, <1>4

LEMMA CauchySchwarz ==
  ASSUME NEW f \in [StatIds -> Nat], NEW T, Adds(T, f), NEW Q, Adds(Q, Squared(f))
  PROVE  \A k \in 0..Stats : T[k] * T[k] <= k * Q[k]
<1>1. PICK G : G = {k \in 0..Stats : T[k] * T[k] <= k * Q[k]} OBVIOUS
<1>2. ASSUME NEW k \in 1..Stats, k - 1 \in G PROVE k \in G
  <2>1. PICK m \in Nat : m = k - 1 /\ m \in 0..Stats /\ k \in 0..Stats /\ m \in StatIds /\ k = m + 1
    <3>1. k - 1 \in Nat /\ k - 1 \in 0..Stats /\ k \in 0..Stats /\ k - 1 \in StatIds /\ k = (k - 1) + 1
      BY Sizes2 DEF StatIds
    <3> QED BY <3>1
  <2>2. PICK t \in Nat, u \in Nat, x \in Nat : t = T[m] /\ u = T[k] /\ x = f[m] /\ u = t + x
    BY <2>1 DEF Adds
  <2>3. PICK q \in Nat, p \in Nat : q = Q[m] /\ p = Q[k] /\ p = q + x * x
    <3>1. Squared(f)[m] = x * x
      BY <2>1, <2>2 DEF Squared
    <3>2. Q[m] \in Nat /\ Q[k] \in Nat /\ Q[k] = Q[m] + Squared(f)[m]
      BY <2>1 DEF Adds
    <3> QED BY <3>1, <3>2
  <2>4. t * t <= m * q
    BY <1>1, <1>2, <2>1, <2>2, <2>3
  <2>5. 2 * (t * x) <= q + m * (x * x)
    <3>1. \A j \in 0..Stats : 2 * (T[j] * x) <= Q[j] + j * (x * x)
      BY Crossed
    <3> QED BY <2>1, <2>2, <2>3, <3>1
  <2>6. /\ (t + x) * (t + x) = (t * t + 2 * (t * x)) + x * x
        /\ (m + 1) * (q + x * x) = ((m * q + q) + m * (x * x)) + x * x
    OBVIOUS
  <2>7. PICK a \in Int, b \in Int, c \in Int, d \in Int, e \in Int :
          a = t * t /\ b = t * x /\ c = m * (x * x) /\ d = m * q /\ e = x * x
    OBVIOUS
  <2>8. a <= d /\ 2 * b <= q + c
    BY <2>4, <2>5, <2>7
  <2>9. (a + 2 * b) + e <= ((d + q) + c) + e
    BY <2>8
  <2>10. u * u = (a + 2 * b) + e /\ k * p = ((d + q) + c) + e
    BY <2>1, <2>2, <2>3, <2>6, <2>7
  <2> QED BY <1>1, <2>1, <2>2, <2>3, <2>9, <2>10
<1>3. 0 \in G
  <2>1. T[0] = 0 /\ Q[0] = 0
    BY DEF Adds
  <2> QED BY <1>1, <2>1, Sizes2
<1>4. \A k \in 0..Stats : k \in G
  BY <1>2, <1>3, Sizes2, UpTo
<1> QED BY <1>1, <1>4

\* var_calc: exact where the sums fit, and a sum that wrapped in time is seen.
LEMMA FittingVariance ==
  ASSUME NEW x \in [StatIds -> Words], NEW T, Adds(T, x), NEW Q, Adds(Q, Squared(x)),
         Stats * Q[Stats] < Word
  PROVE  VarCalc(x, Stats) = (Stats * Q[Stats] - T[Stats] * T[Stats]) \div (Stats * Stats)
<1>1. PICK N \in Nat \ {0} : N = Stats BY Sizes2
<1>2. PICK w \in Nat : w = Word BY Sizes2
<1>3. N \in 0..Stats /\ N - 1 \in 0..Stats BY <1>1
<1>4. PICK q \in Nat, t \in Nat : q = Q[N] /\ t = T[N] BY <1>1, <1>3 DEF Adds
<1>5. N * q < w BY <1>1, <1>2, <1>4
<1>6. q <= N * q
  <2>1. PICK d \in Nat : N = d + 1
    <3>1. N - 1 \in Nat /\ N = (N - 1) + 1 BY <1>1
    <3> QED BY <3>1
  <2>2. N * q = d * q + q /\ d * q >= 0 BY <2>1
  <2> QED BY <2>2
<1>7. x \in [StatIds -> Nat] /\ Squared(x) \in [StatIds -> Nat]
  <2>1. x \in [StatIds -> Nat] BY Sizes2
  <2>2. \A i \in StatIds : x[i] * x[i] \in Nat
    <3>1. ASSUME NEW i \in StatIds PROVE x[i] * x[i] \in Nat
      <4>1. PICK y \in Nat : y = x[i] BY <2>1
      <4> QED BY <4>1
    <3> QED BY <3>1
  <2> QED BY <2>1, <2>2 DEF Squared
<1>8. t * t <= N * q
  BY <1>1, <1>3, <1>4, <1>7, CauchySchwarz
<1>9. t <= t * t
  <2>1. CASE t = 0 BY <2>1
  <2>2. CASE t # 0
    <3>1. PICK d \in Nat : t = d + 1
      <4>1. t - 1 \in Nat /\ t = (t - 1) + 1 BY <2>2
      <4> QED BY <4>1
    <3>2. t * t = d * t + t /\ d * t >= 0 BY <3>1
    <3> QED BY <3>2
  <2> QED BY <2>1, <2>2
<1>10. /\ \A k \in 0..Stats, i \in 0..Stats : i <= k => T[i] <= T[k]
       /\ \A k \in 0..Stats, i \in 0..Stats : i <= k => Q[i] <= Q[k]
       /\ \A i \in StatIds : Squared(x)[i] <= Q[Stats]
  BY <1>7, SumsGrow
<1>11. \A k \in 0..Stats : T[k] \in Nat /\ Q[k] \in Nat
  BY DEF Adds
<1>12. \A k \in 0..Stats : T[k] <= t /\ T[k] < Word /\ Q[k] <= q /\ Q[k] < Word
  <2>1. ASSUME NEW k \in 0..Stats PROVE T[k] <= t /\ Q[k] <= q
    BY <1>1, <1>3, <1>4, <1>10
  <2> QED BY <1>2, <1>5, <1>6, <1>8, <1>9, <1>11, <2>1
<1>13. PICK A : A = Sums(x, Stats) OBVIOUS
<1>14. \A k \in 0..Stats : A[k] = T[k]
  <2>1. AddsInWords(A, x) BY <1>7, <1>13, SumsFollow
  <2> QED BY <1>12, <2>1, SumsAgree
<1>15. PICK h : h = [i \in 0..Stats - 1 |-> (x[i] * x[i]) % Word] OBVIOUS
<1>16. h = Squared(x) /\ h \in [StatIds -> Words]
  <2>1. ASSUME NEW i \in StatIds PROVE h[i] = x[i] * x[i] /\ x[i] * x[i] \in Words
    <3>1. PICK y \in Nat : y = x[i] BY <1>7
    <3>2. PICK z \in Nat : z = y * y OBVIOUS
    <3>3. Squared(x)[i] = z BY <3>1, <3>2 DEF Squared
    <3>4. z <= q BY <1>1, <1>4, <1>10, <3>3
    <3>5. z \in Words /\ z \in Int BY <1>2, <1>5, <1>6, <3>4 DEF Words
    <3>6. z % Word = z BY <3>5, InWords
    <3>7. h[i] = z % Word BY <1>15, <3>1, <3>2 DEF StatIds
    <3> QED BY <3>1, <3>2, <3>5, <3>6, <3>7
  <2>2. h = [i \in StatIds |-> h[i]] BY <1>15 DEF StatIds
  <2> QED BY <2>1, <2>2 DEF Squared
<1>17. PICK B : B = Sums(h, Stats) OBVIOUS
<1>18. \A k \in 0..Stats : B[k] = Q[k]
  <2>1. AddsInWords(B, h)
    <3>1. h \in [StatIds -> Nat] BY <1>16, Sizes2
    <3> QED BY <1>17, <3>1, SumsFollow
  <2>2. Adds(Q, h) BY <1>16
  <2> QED BY <1>12, <1>16, <2>1, <2>2, SumsAgree
<1>19. A[Stats] = t /\ B[Stats] = q /\ A[Stats - 1] <= t /\ B[Stats - 1] <= q
  BY <1>1, <1>3, <1>4, <1>12, <1>14, <1>18
<1>20. ~Wraps(A, Stats) /\ ~Wraps(B, Stats)
  <2>1. ASSUME NEW k \in 1..Stats - 1 PROVE ~(A[k] < A[k - 1]) /\ ~(B[k] < B[k - 1])
    <3>1. k \in 0..Stats /\ k - 1 \in 0..Stats /\ k - 1 <= k BY Sizes2
    <3>2. T[k - 1] <= T[k] /\ Q[k - 1] <= Q[k] BY <1>10, <3>1
    <3> QED BY <1>11, <1>14, <1>18, <3>1, <3>2
  <2> QED BY <2>1 DEF Wraps
<1>21. (t * t) % Word = t * t /\ (q * Stats) % Word = N * q
  <2>1. PICK a \in Nat, b \in Nat : a = t * t /\ b = N * q OBVIOUS
  <2>2. a \in Words /\ b \in Words BY <1>2, <1>5, <1>8, <2>1 DEF Words
  <2>3. q * Stats = b BY <1>1, <2>1
  <2> QED BY <2>1, <2>2, <2>3, InWords
<1>22. PICK e \in Nat : e = N * q - t * t
  <2>1. PICK a \in Nat, b \in Nat : a = t * t /\ b = N * q OBVIOUS
  <2>2. b - a \in Nat BY <1>8, <2>1
  <2> QED BY <2>1, <2>2
<1>23. e % Word = e
  <2>1. PICK a \in Nat, b \in Nat : a = t * t /\ b = N * q OBVIOUS
  <2>2. e \in Words BY <1>2, <1>5, <1>22, <2>1 DEF Words
  <2> QED BY <2>2, InWords
<1>24. ~((t * t) % Word < A[Stats - 1]) /\ ~((q * Stats) % Word < B[Stats - 1])
  <2>1. A[Stats - 1] \in Nat /\ B[Stats - 1] \in Nat BY <1>1, <1>3, <1>11, <1>14, <1>18
  <2>2. PICK a \in Nat, b \in Nat : a = t * t /\ b = N * q OBVIOUS
  <2> QED BY <1>6, <1>9, <1>19, <1>21, <2>1, <2>2
<1>25. VarCalc(x, Stats) =
         IF \/ Wraps(A, Stats) \/ (A[Stats] * A[Stats]) % Word < A[Stats - 1]
            \/ Wraps(B, Stats) \/ (B[Stats] * Stats) % Word < B[Stats - 1]
         THEN Overflow
         ELSE ((((B[Stats] * Stats) % Word) - ((A[Stats] * A[Stats]) % Word)) % Word) \div (Stats * Stats)
  <2>1. VarCalc(x, Stats) =
          IF \/ Wraps(Sums(x, Stats), Stats) \/ (Sums(x, Stats)[Stats] * Sums(x, Stats)[Stats]) % Word < Sums(x, Stats)[Stats - 1]
             \/ Wraps(Sums([i \in 0..Stats - 1 |-> (x[i] * x[i]) % Word], Stats), Stats)
             \/ (Sums([i \in 0..Stats - 1 |-> (x[i] * x[i]) % Word], Stats)[Stats] * Stats) % Word
                  < Sums([i \in 0..Stats - 1 |-> (x[i] * x[i]) % Word], Stats)[Stats - 1]
          THEN Overflow
          ELSE ((((Sums([i \in 0..Stats - 1 |-> (x[i] * x[i]) % Word], Stats)[Stats] * Stats) % Word)
                 - ((Sums(x, Stats)[Stats] * Sums(x, Stats)[Stats]) % Word)) % Word) \div (Stats * Stats)
    BY Zenon DEF VarCalc
  <2> QED BY <1>13, <1>15, <1>17, <2>1, Zenon
<1>26. VarCalc(x, Stats) = ((N * q - t * t) % Word) \div (Stats * Stats)
  <2>1. ~((A[Stats] * A[Stats]) % Word < A[Stats - 1]) /\ ~((B[Stats] * Stats) % Word < B[Stats - 1])
    BY <1>19, <1>24, Zenon
  <2>2. VarCalc(x, Stats) =
          ((((B[Stats] * Stats) % Word) - ((A[Stats] * A[Stats]) % Word)) % Word) \div (Stats * Stats)
    BY <1>20, <1>25, <2>1, Zenon
  <2> QED BY <1>19, <1>21, <2>2, Zenon
<1> QED BY <1>1, <1>4, <1>22, <1>23, <1>26

LEMMA WrappedVariance ==
  ASSUME NEW x \in [StatIds -> Words], NEW T, Adds(T, x), T[Stats - 1] >= Word
  PROVE  VarCalc(x, Stats) = Overflow
<1>1. PICK w \in Nat : w = Word BY Sizes2
<1>2. Stats - 1 \in 0..Stats /\ Stats \in Nat BY Sizes2
<1>3. PICK L : L = {k \in 0..Stats : T[k] >= Word} OBVIOUS
<1>4. PICK k \in L : \A m \in L : k <= m
  <2>1. L \in SUBSET Nat /\ L # {}
    BY <1>2, <1>3
  <2> QED BY ONLY <2>1, LeastNumber
<1>5. k \in 0..Stats /\ T[k] >= Word /\ k <= Stats - 1
  BY <1>2, <1>3, <1>4
<1>6. k # 0
  BY <1>1, <1>5, Sizes2 DEF Adds
<1>7. PICK l \in Nat : l = k - 1 /\ l \in 0..Stats /\ l \in StatIds /\ k \in 1..Stats - 1 /\ k \in 1..Stats
  <2>1. k - 1 \in Nat /\ k - 1 \in 0..Stats /\ k - 1 \in StatIds /\ k \in 1..Stats - 1 /\ k \in 1..Stats
    BY <1>2, <1>5, <1>6 DEF StatIds
  <2> QED BY <2>1
<1>8. PICK a \in Nat, b \in Nat, y \in Nat : a = T[l] /\ b = T[k] /\ y = x[l] /\ y < w /\ b = a + y
  <2>1. T[l] \in Nat /\ T[k] \in Nat /\ T[k] = T[l] + x[l]
    BY <1>5, <1>7 DEF Adds
  <2>2. x[l] \in Nat /\ x[l] < w
    BY <1>1, <1>7, Sizes2 DEF Words
  <2> QED BY <2>1, <2>2
<1>9. a < w
  <2>1. l \notin L BY <1>4, <1>5, <1>7
  <2> QED BY <1>1, <1>3, <1>7, <1>8, <2>1
<1>10. PICK A : A = Sums(x, Stats) OBVIOUS
<1>11. AddsInWords(A, x)
  <2>1. x \in [StatIds -> Nat] BY Sizes2
  <2> QED BY <1>10, <2>1, SumsFollow
<1>12. A[l] = a
  BY <1>1, <1>7, <1>8, <1>9, <1>11, SumsAgree
<1>13. A[k] = b % Word
  BY <1>7, <1>8, <1>11, <1>12 DEF AddsInWords
<1>14. b % Word = b - w /\ b - w < a
  <2>1. b - w \in Words /\ b - w < a
    BY <1>1, <1>5, <1>8, <1>9 DEF Words
  <2> QED BY <1>1, <2>1, InWords
<1>15. Wraps(A, Stats)
  BY <1>7, <1>12, <1>13, <1>14 DEF Wraps
<1> QED BY <1>10, <1>15 DEF VarCalc

(***************************************************************************)
(* Minima and maxima of a loop.                                            *)
(***************************************************************************)
\* The least sample and the greatest are among the samples.
LEMMA Bounds ==
  ASSUME NEW x \in [StatIds -> Words]
  PROVE  /\ Min(Values(x)) \in Words /\ Max(Values(x)) \in Words
         /\ \A i \in StatIds : Min(Values(x)) <= x[i] /\ x[i] <= Max(Values(x))
<1>1. PICK S : S = Values(x) OBVIOUS
<1>2. S \in SUBSET Words /\ S # {} /\ S \in SUBSET Nat /\ S \in SUBSET Int
  <2>1. 0 \in StatIds BY Sizes2 DEF StatIds
  <2>2. S \in SUBSET Words /\ S # {} BY <1>1, <2>1 DEF Values
  <2> QED BY <2>2, Sizes2
<1>3. PICK m \in S : \A v \in S : m <= v
  BY <1>2, LeastNumber
<1>4. Min(S) = m
  <2>1. \A v \in S : v >= m BY <1>2, <1>3
  <2> QED BY <1>2, <2>1, MinIs
<1>5. PICK R : R = {Word - v : v \in S} OBVIOUS
<1>6. PICK r \in R : \A z \in R : r <= z
  <2>1. R \in SUBSET Nat /\ R # {}
    <3>1. \A v \in S : Word - v \in Nat BY <1>2, Sizes2 DEF Words
    <3> QED BY <1>2, <1>5, <3>1
  <2> QED BY <2>1, LeastNumber
<1>7. PICK g \in S : r = Word - g
  BY <1>5
<1>8. ASSUME NEW v \in S PROVE v <= g
  <2>1. Word - v \in R BY <1>5
  <2>2. Word - g <= Word - v BY <1>6, <1>7, <2>1
  <2> QED BY <1>2, <2>2, Sizes2
<1>9. Max(S) = g
  BY <1>2, <1>8, MaxIs
<1>10. \A i \in StatIds : x[i] \in S
  BY <1>1 DEF Values
<1> QED BY <1>1, <1>2, <1>3, <1>4, <1>8, <1>9, <1>10

\* The search: from the first sample in the program, from "none yet" in the
\* modules, where a 0 is taken for that.
Smaller(m, y) == IF (bench # "user" /\ m = 0) \/ m > y THEN y ELSE m
First(x) == IF bench = "user" THEN x[0] ELSE 0
Searches(M, x) ==
  /\ DOMAIN M = 0..Stats /\ M[0] = First(x)
  /\ \A k \in 1..Stats : M[k] = Smaller(M[k - 1], x[k - 1])

LEMMA MinTimeSearches ==
  ASSUME NEW x \in [StatIds -> Words]
  PROVE  \E M \in [0..Stats -> Words] : Searches(M, x) /\ MinTime(x) = M[Stats]
<1> DEFINE R(g) == [k \in 0..Stats |-> IF k = 0 THEN (IF bench = "user" THEN x[0] ELSE 0)
                      ELSE IF (bench # "user" /\ g[k - 1] = 0) \/ g[k - 1] > x[k - 1] THEN x[k - 1]
                      ELSE g[k - 1]]
           V == Words \X (0..Stats - 1)
<1>1. PICK S : S = [p \in V |-> Smaller(p[1], x[p[2]])] OBVIOUS
<1>2. S \in [V -> Words] /\ \A v \in Words, k \in 0..Stats - 1 : S[<<v, k>>] = Smaller(v, x[k])
  <2>1. ASSUME NEW v \in Words, NEW k \in 0..Stats - 1
        PROVE  <<v, k>> \in V /\ Smaller(v, x[k]) \in Words
    <3>1. x[k] \in Words BY DEF StatIds
    <3> QED BY <3>1 DEF Smaller
  <2>2. \A p \in V : p[1] \in Words /\ p[2] \in 0..Stats - 1 /\ p = <<p[1], p[2]>>
    OBVIOUS
  <2> HIDE DEF V
  <2>3. \A p \in V : Smaller(p[1], x[p[2]]) \in Words
    BY <2>1, <2>2
  <2> QED BY <1>1, <2>1, <2>3
<1>3. First(x) \in Words
  <2>1. 0 \in StatIds BY Sizes2 DEF StatIds
  <2> QED BY <2>1, Sizes2 DEF First
<1>4. PICK g \in [0..Stats -> Words] : Follows(g, Stats, First(x), S)
  <2> HIDE DEF V
  <2>1. Stats \in Nat BY Sizes2
  <2>2. S \in [Words \X (0..Stats - 1) -> Words] BY <1>2 DEF V
  <2> QED BY <1>3, <2>1, <2>2, Recursion
<1>5. ASSUME NEW k \in 1..Stats PROVE g[k] = Smaller(g[k - 1], x[k - 1])
  <2>1. k - 1 \in 0..Stats - 1 /\ k - 1 \in 0..Stats /\ g[k] = S[<<g[k - 1], k - 1>>]
    BY <1>4, Sizes2 DEF Follows
  <2> QED BY <1>2, <2>1
<1>6. g = R(g)
  <2>1. \A k \in 0..Stats : g[k] = IF k = 0 THEN First(x) ELSE Smaller(g[k - 1], x[k - 1])
    BY <1>4, <1>5, Sizes2 DEF Follows
  <2> QED BY <2>1 DEF First, Smaller
<1>7. PICK M : M = CHOOSE h : h = R(h) OBVIOUS
<1>8. M = R(M)
  <2> HIDE DEF R
  <2> QED BY <1>6, <1>7
<1>9. MinTime(x) = M[Stats]
  BY <1>7, Zenon DEF MinTime
<1>10. Searches(M, x)
  <2>1. DOMAIN M = 0..Stats BY <1>8
  <2>2. M[0] = First(x) BY <1>8, Sizes2 DEF First
  <2>3. ASSUME NEW k \in 1..Stats PROVE M[k] = Smaller(M[k - 1], x[k - 1])
    <3>1. k \in 0..Stats /\ k # 0 BY Sizes2
    <3> QED BY <1>8, <3>1 DEF Smaller
  <2> QED BY <2>1, <2>2, <2>3 DEF Searches
<1>11. \A k \in 0..Stats : M[k] \in Words
  <2>1. PICK G : G = {k \in 0..Stats : M[k] \in Words} OBVIOUS
  <2>2. ASSUME NEW k \in 1..Stats, k - 1 \in G PROVE k \in G
    <3>1. x[k - 1] \in Words BY Sizes2 DEF StatIds
    <3>2. k \in 0..Stats BY Sizes2
    <3> QED BY <1>10, <2>1, <2>2, <3>1, <3>2 DEF Searches, Smaller
  <2>3. 0 \in G
    BY <1>3, <1>10, <2>1, Sizes2 DEF Searches
  <2>4. \A k \in 0..Stats : k \in G
    BY <2>2, <2>3, Sizes2, UpTo
  <2> QED BY <2>1, <2>4
<1>12. M \in [0..Stats -> Words]
  BY <1>8, <1>11
<1> QED BY <1>9, <1>10, <1>12

\* It finds the least sample, if no 0 has misled it.
LEMMA MinTimeIsLeast ==
  ASSUME NEW x \in [StatIds -> Words], bench = "user" \/ 0 \notin Values(x)
  PROVE  MinTime(x) = Min(Values(x))
<1>1. PICK M \in [0..Stats -> Words] : Searches(M, x) /\ MinTime(x) = M[Stats] BY MinTimeSearches
<1>2. PICK G : G = {k \in 0..Stats : k >= 1 =>
                      /\ \E i \in 0..k - 1 : M[k] = x[i]
                      /\ \A i \in 0..k - 1 : M[k] <= x[i]} OBVIOUS
<1>3. 0 \in G BY <1>2, Sizes2
<1>4. ASSUME NEW k \in 1..Stats, k - 1 \in G PROVE k \in G
  <2>1. PICK l \in StatIds : l = k - 1 /\ k \in 0..Stats /\ l \in Nat
    <3>1. k - 1 \in StatIds /\ k \in 0..Stats /\ k - 1 \in Nat BY Sizes2 DEF StatIds
    <3> QED BY <3>1
  <2>2. PICK y \in Nat : y = x[l] /\ (bench = "user" \/ y # 0)
    <3>1. x[l] \in Nat BY Sizes2
    <3>2. x[l] \in Values(x) BY DEF Values
    <3> QED BY <3>1, <3>2
  <2>3. M[k] = Smaller(M[l], y)
    BY <1>1, <2>1, <2>2 DEF Searches
  <2>4. CASE l = 0
    <3>1. M[k] = y
      <4>1. M[0] = First(x) BY <1>1 DEF Searches
      <4>2. M[0] = (IF bench = "user" THEN y ELSE 0) BY <2>2, <2>4, <4>1 DEF First
      <4> QED BY <2>2, <2>3, <2>4, <4>2 DEF Smaller
    <3>2. \A i \in 0..k - 1 : i = l BY <2>1, <2>4
    <3>3. l \in 0..k - 1 BY <2>1
    <3> QED BY <1>2, <2>1, <2>2, <3>1, <3>2, <3>3
  <2>5. CASE l # 0
    <3>1. PICK i \in 0..l - 1 : M[l] = x[i]
      BY <1>2, <1>4, <2>1, <2>5
    <3>2. \A j \in 0..l - 1 : M[l] <= x[j]
      BY <1>2, <1>4, <2>1, <2>5
    <3>3. i \in StatIds BY <2>1, Sizes2 DEF StatIds
    <3>4. PICK m \in Nat : m = M[l] /\ (bench = "user" \/ m # 0)
      <4>1. x[i] \in Nat BY <3>3, Sizes2
      <4>2. x[i] \in Values(x) BY <3>3 DEF Values
      <4> QED BY <3>1, <4>1, <4>2
    <3>5. M[k] = IF m > y THEN y ELSE m
      BY <2>3, <3>4 DEF Smaller
    <3>6. \E j \in 0..k - 1 : M[k] = x[j]
      <4>1. l \in 0..k - 1 /\ i \in 0..k - 1 BY <2>1
      <4> QED BY <2>2, <3>1, <3>4, <3>5, <4>1
    <3>7. ASSUME NEW j \in 0..k - 1 PROVE M[k] <= x[j]
      <4>1. CASE j = l
        BY <2>2, <3>4, <3>5, <4>1
      <4>2. CASE j # l
        <5>1. j \in 0..l - 1 /\ j \in StatIds BY <2>1, <4>2, Sizes2 DEF StatIds
        <5>2. m <= x[j] /\ x[j] \in Nat BY <3>2, <3>4, <5>1, Sizes2
        <5> QED BY <3>5, <5>2
      <4> QED BY <4>1, <4>2
    <3> QED BY <1>2, <2>1, <3>6, <3>7
  <2> QED BY <2>4, <2>5
<1>5. Stats \in G
  <2>1. \A k \in 0..Stats : k \in G BY <1>3, <1>4, Sizes2, UpTo
  <2> QED BY <2>1, Sizes2
<1>6. (\E i \in StatIds : M[Stats] = x[i]) /\ \A i \in StatIds : M[Stats] <= x[i]
  BY <1>2, <1>5, Sizes2 DEF StatIds
<1>7. Values(x) \in SUBSET Int /\ M[Stats] \in Values(x) /\ \A v \in Values(x) : v >= M[Stats]
  <2>1. \A i \in StatIds : x[i] \in Nat BY Sizes2
  <2>2. M[Stats] \in Values(x) /\ Values(x) \in SUBSET Int BY <1>6, <2>1 DEF Values
  <2>3. M[Stats] \in Int BY <2>2
  <2>4. ASSUME NEW v \in Values(x) PROVE v >= M[Stats]
    <3>1. PICK i \in StatIds : v = x[i] BY DEF Values
    <3> QED BY <1>6, <2>1, <2>3, <3>1
  <2> QED BY <2>2, <2>4
<1> QED BY <1>1, <1>7, MinIs

LEMMA FiguresAreNumbers ==
  ASSUME NEW x \in [StatIds -> Words]
  PROVE  MinTime(x) \in Words /\ VarCalc(x, Stats) \in Int
<1>1. MinTime(x) \in Words
  <2>1. PICK M \in [0..Stats -> Words] : MinTime(x) = M[Stats] BY MinTimeSearches
  <2> QED BY <2>1, Sizes2
<1>2. VarCalc(x, Stats) \in Int
  <2>1. PICK A : A = Sums(x, Stats) OBVIOUS
  <2>2. PICK B : B = Sums([i \in 0..Stats - 1 |-> (x[i] * x[i]) % Word], Stats) OBVIOUS
  <2>3. x \in [StatIds -> Nat] /\ [i \in 0..Stats - 1 |-> (x[i] * x[i]) % Word] \in [StatIds -> Nat]
    <3>1. x \in [StatIds -> Nat] BY Sizes2
    <3>2. ASSUME NEW i \in StatIds PROVE (x[i] * x[i]) % Word \in Nat
      <4>1. PICK y \in Nat : y = x[i] BY <3>1
      <4>2. PICK z \in Int : z = y * y OBVIOUS
      <4>3. z % Word \in Nat BY InWords, Sizes2
      <4> QED BY <4>1, <4>2, <4>3
    <3> QED BY <3>1, <3>2 DEF StatIds
  <2>4. A[Stats] \in Int /\ B[Stats] \in Int
    <3>1. AddsInWords(A, x) BY <2>1, <2>3, SumsFollow
    <3>2. AddsInWords(B, [i \in 0..Stats - 1 |-> (x[i] * x[i]) % Word]) BY <2>2, <2>3, SumsFollow
    <3>3. A \in [0..Stats -> Words] /\ B \in [0..Stats -> Words]
      BY <3>1, <3>2, Zenon DEF AddsInWords
    <3>4. Stats \in 0..Stats /\ \A y \in Words : y \in Int BY Sizes2 DEF Words
    <3>5. A[Stats] \in Words /\ B[Stats] \in Words BY <3>3, <3>4, Zenon
    <3> QED BY <3>4, <3>5
  <2>5. PICK d : d = (((B[Stats] * Stats) % Word) - ((A[Stats] * A[Stats]) % Word)) % Word OBVIOUS
  <2>6. d \in Nat
    <3>1. PICK a \in Int, b \in Int, n \in Nat : a = A[Stats] /\ b = B[Stats] /\ n = Stats BY <2>4, Sizes2
    <3>2. PICK u \in Int, v \in Int : u = b * n /\ v = a * a OBVIOUS
    <3>3. u % Word \in Words /\ v % Word \in Words BY InWords
    <3>4. (u % Word) - (v % Word) \in Int BY <3>3, Sizes2
    <3>5. ((u % Word) - (v % Word)) % Word \in Nat BY <3>4, InWords, Sizes2
    <3> QED BY <2>5, <3>1, <3>2, <3>5
  <2>7. d \div (Stats * Stats) \in Int
    <3>1. PICK e \in Nat \ {0} : e = Stats * Stats
      <4>1. Stats * Stats \in Nat \ {0}
        <5>1. PICK c \in Nat : Stats = c + 1
          <6>1. Stats - 1 \in Nat /\ Stats = (Stats - 1) + 1 BY Sizes2
          <6> QED BY <6>1
        <5>2. (c + 1) * (c + 1) = (c * c + 2 * c) + 1 /\ c * c >= 0 OBVIOUS
        <5> QED BY <5>1, <5>2
      <4> QED BY <4>1
    <3>2. d \div e \in Int BY <2>6
    <3> QED BY <3>1, <3>2
  <2>8. Overflow \in Int BY Sizes2 DEF Overflow
  <2>9. VarCalc(x, Stats) = Overflow \/ VarCalc(x, Stats) = d \div (Stats * Stats)
    BY <2>1, <2>2, <2>5, Zenon DEF VarCalc
  <2> QED BY <2>7, <2>8, <2>9
<1> QED BY <1>1, <1>2

LEMMA VarianceRight ==
  ASSUME NEW x \in [StatIds -> Words]
  PROVE  VarianceIsRight(x, VarCalc(x, Stats))
<1>1. PICK T : T = Totals(x) OBVIOUS
<1>2. PICK Q : Q = Totals(Squared(x)) OBVIOUS
<1>3. Adds(T, x) /\ Adds(Q, Squared(x))
  <2>1. x \in [StatIds -> Nat] BY Sizes2
  <2>2. \A i \in StatIds : x[i] * x[i] \in Nat
    <3>1. ASSUME NEW i \in StatIds PROVE x[i] * x[i] \in Nat
      <4>1. PICK y \in Nat : y = x[i] BY <2>1
      <4> QED BY <4>1
    <3> QED BY <3>1
  <2>3. Squared(x) \in [StatIds -> Nat] BY <2>2 DEF Squared
  <2> QED BY <1>1, <1>2, <2>1, <2>3, TotalsAdd
<1>4. Stats * Q[Stats] < Word =>
        VarCalc(x, Stats) = (Stats * Q[Stats] - T[Stats] * T[Stats]) \div (Stats * Stats)
  BY <1>3, FittingVariance
<1>5. T[Stats - 1] >= Word => VarCalc(x, Stats) = Overflow
  BY <1>3, WrappedVariance
<1> QED BY <1>1, <1>2, <1>4, <1>5, Zenon DEF VarianceIsRight

(***************************************************************************)
(* The program: all loops are measured before the first is analysed.       *)
(***************************************************************************)
CycTypes ==
  /\ stage \in {"allocate", "measure", "analyse", "over"}
  /\ times \in Seq(Words) /\ mins \in Seq(Words) /\ variances \in Seq(Int)
  /\ Len(mins) = Len(variances) /\ Len(mins) <= Loops
  /\ (stage = "analyse" \/ mins # <<>>) => Len(times) = Loops * Stats
  /\ stage \in {"allocate", "measure"} => mins = <<>>
  /\ mins = <<>> => maxDev = 0 /\ spurious = 0

FiguresRight ==
  \A j \in 1..Len(mins) :
    VarianceIsRight(Row(j), variances[j]) /\ (Clean(j) => mins[j] = LeastSample(j))

Deviations == {0} \cup {Deviation(j) : j \in 1..Len(mins)}
MinimaDrops == {j \in 2..Len(mins) : LeastSample(j - 1) > LeastSample(j)}
SummaryRight ==
  (\A j \in 1..Len(mins) : Clean(j)) =>
    /\ maxDev \in Deviations /\ \A d \in Deviations : d <= maxDev
    /\ spurious = Cardinality(MinimaDrops)

NothingLeaks == stage = "over" /\ alive # {} => bench # "user" /\ failed

CycInv == CycTypes /\ FiguresRight /\ SummaryRight /\ NothingLeaks

LEMMA RowsAre ==
  ASSUME CycTypes, Len(times) = Loops * Stats, NEW j \in 1..Loops
  PROVE  Row(j) \in [StatIds -> Words]
<1>1. PICK n \in Nat, m \in Nat \ {0}, a \in Nat, b \in Nat : n = Stats /\ m = Loops /\ a = j - 1 /\ b = m - j
  <2>1. j - 1 \in Nat /\ Loops - j \in Nat BY Sizes2
  <2> QED BY <2>1, Sizes2
<1>2. m * n = (a * n + n) + b * n /\ b * n >= 0 /\ a * n >= 0
  <2>1. m = (a + 1) + b BY <1>1
  <2>2. ((a + 1) + b) * n = (a * n + n) + b * n OBVIOUS
  <2> QED BY <2>1, <2>2
<1>3. ASSUME NEW i \in StatIds PROVE times[(j - 1) * Stats + i + 1] \in Words
  <2>1. PICK k \in Nat : k = a * n /\ k + n <= m * n BY <1>1, <1>2
  <2>2. i \in Nat /\ i < n BY <1>1, Sizes2 DEF StatIds
  <2>3. (k + i) + 1 \in 1..Len(times)
    <3>1. PICK l \in Nat : l = m * n BY <1>1
    <3>2. (k + i) + 1 \in 1..l BY <2>1, <2>2, <3>1
    <3> QED BY <1>1, <3>1, <3>2
  <2>4. times[(k + i) + 1] \in Words BY <2>3, ElementOfSeq DEF CycTypes
  <2>5. (j - 1) * Stats + i + 1 = (k + i) + 1 BY <1>1, <2>1, <2>2
  <2> QED BY <2>4, <2>5
<1> QED BY <1>3 DEF Row

LEMMA CycInvIsEnough ==
  ASSUME CycInv
  PROVE  StatsAreSound
<1>1. CycTypes /\ FiguresRight /\ SummaryRight /\ NothingLeaks BY DEF CycInv
<1>2. ASSUME \A j \in 1..Len(mins) : Clean(j)
      PROVE  maxDev = Max(Deviations) /\ spurious = Cardinality(MinimaDrops)
  <2>1. maxDev \in Deviations /\ \A d \in Deviations : d <= maxDev
    BY <1>1, <1>2 DEF SummaryRight
  <2>2. Deviations \in SUBSET Int
    <3>1. ASSUME NEW j \in 1..Len(mins) PROVE Deviation(j) \in Int
      <4>1. j \in 1..Loops /\ Len(times) = Loops * Stats
        BY <1>1, Sizes2, EmptySeq DEF CycTypes
      <4>2. Row(j) \in [StatIds -> Words] BY <1>1, <4>1, RowsAre
      <4>3. PICK x \in [StatIds -> Words] : x = Row(j) BY <4>2
      <4>4. Min(Values(x)) \in Words /\ Max(Values(x)) \in Words BY Bounds
      <4>5. PICK a \in Words, b \in Words : a = Min(Values(x)) /\ b = Max(Values(x)) BY <4>4, Zenon
      <4>6. Deviation(j) = b - a BY <4>3, <4>5 DEF Deviation, LeastSample
      <4>7. a \in Int /\ b \in Int BY Sizes2 DEF Words
      <4> QED BY <4>6, <4>7
    <3> QED BY <3>1 DEF Deviations
  <2>3. maxDev = Max(Deviations) BY <2>1, <2>2, MaxIs
  <2> QED BY <1>1, <1>2, <2>3 DEF SummaryRight
<1> QED BY <1>1, <1>2, Zenon DEF StatsAreSound, FiguresRight, NothingLeaks, Deviations, MinimaDrops

\* With no loop analysed yet there is nothing to be wrong about.
LEMMA NothingYet ==
  ASSUME CycTypes, mins = <<>>
  PROVE  FiguresRight /\ SummaryRight
<1>1. Len(mins) = 0 /\ maxDev = 0 /\ spurious = 0
  BY EmptySeq DEF CycTypes
<1>2. Deviations = {0} /\ MinimaDrops = {}
  BY <1>1 DEF Deviations, MinimaDrops
<1> QED BY <1>1, <1>2, FS_EmptySet DEF FiguresRight, SummaryRight

LEMMA StatsInit ==
  ASSUME CycleInit
  PROVE  CycInv
<1>1. CycTypes
  <2>1. <<>> \in Seq(Words) /\ <<>> \in Seq(Int) /\ Len(<<>>) = 0 BY EmptySeq
  <2>2. stage = "allocate" /\ times = <<>> /\ mins = <<>> /\ variances = <<>> /\ spurious = 0 /\ maxDev = 0
    BY DEF CycleInit
  <2>3. 0 <= Loops BY Sizes2
  <2>4. Len(times) = 0 /\ Len(mins) = 0 /\ Len(variances) = 0 BY <2>1, <2>2
  <2> QED BY <2>1, <2>2, <2>3, <2>4 DEF CycTypes
<1>2. NothingLeaks BY DEF CycleInit, NothingLeaks
<1>3. mins = <<>> BY DEF CycleInit
<1> QED BY <1>1, <1>2, <1>3, NothingYet DEF CycInv

\* A step that analyses nothing leaves what was found.
LEMMA SameFigures ==
  ASSUME CycInv, UNCHANGED <<bench, times, mins, variances, spurious, maxDev>>
  PROVE  FiguresRight' /\ SummaryRight'
<1>1. FiguresRight /\ SummaryRight BY DEF CycInv
<1>2. \A j : /\ Row(j)' = Row(j) /\ (Clean(j)' <=> Clean(j)) /\ LeastSample(j)' = LeastSample(j)
             /\ Deviation(j)' = Deviation(j)
  BY DEF Row, Clean, LeastSample, Deviation
<1>3. Deviations' = Deviations /\ MinimaDrops' = MinimaDrops
  BY <1>2 DEF Deviations, MinimaDrops
<1>4. FiguresRight'
  BY <1>1 DEF FiguresRight, VarianceIsRight, Overflow, Row, Clean, LeastSample
<1>5. SummaryRight'
  BY <1>1, <1>2, <1>3 DEF SummaryRight
<1> QED BY <1>4, <1>5

LEMMA AllocateKeeps == ASSUME CycInv, Allocate PROVE CycInv'
<1>1. CycTypes /\ NothingLeaks BY DEF CycInv
<1>2. UNCHANGED <<bench, times, mins, variances, spurious, totVar, maxDev>> /\ stage = "allocate"
  BY DEF Allocate
<1>3. stage' \in {"allocate", "measure", "over"}
  BY <1>2 DEF Allocate
<1>4. CycTypes'
  BY <1>1, <1>2, <1>3 DEF CycTypes
<1>5. NothingLeaks'
  <2>1. CASE stage' # "over" BY <2>1 DEF NothingLeaks
  <2>2. CASE stage' = "over"
    <3>1. failed' = TRUE /\ alive' = alive \ Freed BY <1>2, <2>2 DEF Allocate
    <3>2. bench = "user" => alive' = {} BY <3>1 DEF Freed
    <3> QED BY <1>2, <3>1, <3>2 DEF NothingLeaks
  <2> QED BY <2>1, <2>2
<1>6. FiguresRight' /\ SummaryRight' BY <1>2, SameFigures
<1> QED BY <1>4, <1>5, <1>6 DEF CycInv

LEMMA MeasureKeeps == ASSUME CycInv, Measure PROVE CycInv'
<1>1. CycTypes /\ NothingLeaks BY DEF CycInv
<1>2. UNCHANGED <<bench, alive, failed, mins, variances, spurious, totVar, maxDev>> /\ stage = "measure"
  BY DEF Measure
<1>3. stage' = IF Len(times) + 1 = Loops * Stats THEN "analyse" ELSE stage
  BY DEF Measure
<1>4. PICK y \in Words : times' = Append(times, y)
  <2>1. PICK d \in Deltas : times' = Append(times, Sample(d)) BY DEF Measure
  <2>2. d % Word \in Words
    <3>1. d \in Int BY Sizes2
    <3> QED BY <3>1, InWords
  <2> QED BY <2>1, <2>2 DEF Sample
<1>5. times' \in Seq(Words) /\ Len(times') = Len(times) + 1
  BY <1>1, <1>4, AppendProperties DEF CycTypes
<1>6. mins = <<>> BY <1>1, <1>2 DEF CycTypes
<1>7. CycTypes'
  BY <1>1, <1>2, <1>3, <1>5, <1>6 DEF CycTypes
<1>8. NothingLeaks'
  BY <1>2, <1>3 DEF NothingLeaks
<1>9. FiguresRight' /\ SummaryRight'
  <2>1. mins' = <<>> BY <1>2, <1>6
  <2>2. Len(mins') = 0 /\ maxDev' = 0 /\ spurious' = 0
    BY <1>7, <2>1, EmptySeq DEF CycTypes
  <2>3. Deviations' = {0} /\ MinimaDrops' = {}
    BY <2>2 DEF Deviations, MinimaDrops
  <2> QED BY <2>2, <2>3, FS_EmptySet DEF FiguresRight, SummaryRight
<1> QED BY <1>7, <1>8, <1>9 DEF CycInv

LEMMA FinishKeeps == ASSUME CycInv, Finish PROVE CycInv'
<1>1. CycTypes BY DEF CycInv
<1>2. UNCHANGED <<bench, failed, times, mins, variances, spurious, totVar, maxDev>>
      /\ stage = "analyse" /\ alive' = {} /\ stage' = "over"
  BY DEF Finish
<1>3. CycTypes' BY <1>1, <1>2 DEF CycTypes
<1>4. NothingLeaks' BY <1>2 DEF NothingLeaks
<1>5. FiguresRight' /\ SummaryRight' BY <1>2, SameFigures
<1> QED BY <1>3, <1>4, <1>5 DEF CycInv

LEMMA AnalyseKeeps == ASSUME CycInv, Analyse PROVE CycInv'
<1>1. CycTypes /\ FiguresRight /\ SummaryRight /\ NothingLeaks BY DEF CycInv
<1>2. UNCHANGED <<bench, stage, alive, failed, times>> /\ stage = "analyse"
  BY DEF Analyse
<1>3. PICK n \in Nat : n = Len(mins) BY <1>1 DEF CycTypes
<1>4. PICK j \in Nat : j = n + 1 OBVIOUS
<1>5. PICK x : x = Row(j) OBVIOUS
<1>6. PICK m, v : m = MinTime(x) /\ v = VarCalc(x, Stats) OBVIOUS
<1>7. PICK p : p = (IF j = 1 THEN 0 ELSE mins[j - 1]) OBVIOUS
<1>8. /\ j \in 1..Loops
      /\ mins' = Append(mins, m) /\ variances' = Append(variances, v)
      /\ spurious' = spurious + (IF p # 0 /\ p > m THEN 1 ELSE 0)
      /\ maxDev' = Max({maxDev, MaxTime(x) - m})
  <2>1. j <= Loops BY <1>3, <1>4 DEF Analyse
  <2>2. j \in 1..Loops BY <1>4, <2>1, Sizes2
  <2>3. mins' = Append(mins, m) /\ variances' = Append(variances, v)
    BY <1>3, <1>4, <1>5, <1>6 DEF Analyse
  <2>4. spurious' = spurious + (IF p # 0 /\ p > m THEN 1 ELSE 0)
    BY <1>3, <1>4, <1>5, <1>6, <1>7, Zenon DEF Analyse
  <2>5. maxDev' = Max({maxDev, MaxTime(x) - m})
    BY <1>3, <1>4, <1>5, <1>6 DEF Analyse
  <2> QED BY <2>2, <2>3, <2>4, <2>5
<1>9. Len(times) = Loops * Stats BY <1>1, <1>2 DEF CycTypes
<1>10. \A k \in 1..j : Row(k) \in [StatIds -> Words]
  <2>1. \A k \in 1..j : k \in 1..Loops BY <1>8, Sizes2
  <2> QED BY <1>1, <1>9, <2>1, RowsAre
<1>11. x \in [StatIds -> Words] /\ j \in 1..j BY <1>4, <1>5, <1>10
<1>12. m \in Words /\ v \in Int BY <1>6, <1>11, FiguresAreNumbers
<1>13. /\ mins' \in Seq(Words) /\ Len(mins') = j /\ mins'[j] = m
       /\ \A k \in 1..n : mins'[k] = mins[k]
  BY <1>1, <1>3, <1>4, <1>8, <1>12, AppendProperties DEF CycTypes
<1>14. /\ variances' \in Seq(Int) /\ Len(variances') = j /\ variances'[j] = v
       /\ \A k \in 1..n : variances'[k] = variances[k]
  BY <1>1, <1>3, <1>4, <1>8, <1>12, AppendProperties DEF CycTypes
<1>15. CycTypes'
  <2>1. mins' # <<>> BY <1>4, <1>13, EmptySeq
  <2>2. Len(mins') <= Loops BY <1>8, <1>13, Sizes2
  <2> QED BY <1>1, <1>2, <1>9, <1>13, <1>14, <2>1, <2>2 DEF CycTypes
<1>16. NothingLeaks' BY <1>1, <1>2 DEF NothingLeaks
<1>17. \A k : /\ Row(k)' = Row(k) /\ (Clean(k)' <=> Clean(k)) /\ LeastSample(k)' = LeastSample(k)
              /\ Deviation(k)' = Deviation(k)
  BY <1>2 DEF Row, Clean, LeastSample, Deviation
<1>18. Clean(j) => m = LeastSample(j)
  <2>1. Clean(j) => (bench = "user" \/ 0 \notin Values(x)) BY <1>5 DEF Clean
  <2> QED BY <1>5, <1>6, <1>11, <2>1, MinTimeIsLeast DEF LeastSample
<1>19. FiguresRight'
  <2>1. ASSUME NEW k \in 1..j
        PROVE  VarianceIsRight(Row(k), variances'[k]) /\ (Clean(k) => mins'[k] = LeastSample(k))
    <3>1. CASE k = j
      BY <1>5, <1>6, <1>11, <1>13, <1>14, <1>18, <3>1, VarianceRight
    <3>2. CASE k # j
      <4>1. k \in 1..n BY <1>4, <3>2
      <4> QED BY <1>1, <1>3, <1>13, <1>14, <4>1 DEF FiguresRight
    <3> QED BY <3>1, <3>2
  <2>2. Overflow' = Overflow BY <1>2 DEF Overflow
  <2> QED BY <1>13, <1>17, <2>1, <2>2 DEF FiguresRight, VarianceIsRight
<1>20. SummaryRight'
  <2> SUFFICES ASSUME \A k \in 1..j : Clean(k)
               PROVE  /\ maxDev' \in Deviations' /\ \A d \in Deviations' : d <= maxDev'
                      /\ spurious' = Cardinality(MinimaDrops')
    BY <1>13, <1>17 DEF SummaryRight
  <2>1. \A k \in 1..n : Clean(k) BY <1>4
  <2>2. /\ maxDev \in Deviations /\ \A d \in Deviations : d <= maxDev
        /\ spurious = Cardinality(MinimaDrops)
    BY <1>1, <1>3, <2>1 DEF SummaryRight
  <2>3. m = LeastSample(j) BY <1>11, <1>18
  <2>4. \A k \in 1..j : Deviation(k) \in Int /\ LeastSample(k) \in Nat
    <3>1. ASSUME NEW k \in 1..j PROVE Deviation(k) \in Int /\ LeastSample(k) \in Nat
      <4>1. Min(Values(Row(k))) \in Nat /\ Max(Values(Row(k))) \in Nat
        BY <1>10, Bounds, Sizes2
      <4> QED BY <4>1 DEF Deviation, LeastSample
    <3> QED BY <3>1
  <2>5. PICK e \in Int : e = Deviation(j) /\ e = MaxTime(x) - m
    <3>1. MaxTime(x) - m = Deviation(j) BY <1>5, <2>3 DEF MaxTime, Values, Deviation
    <3> QED BY <1>11, <2>4, <3>1
  <2>6. Deviations' = Deviations \cup {e}
    <3>1. Deviations' = {0} \cup {Deviation(k) : k \in 1..j}
      BY <1>13, <1>17 DEF Deviations
    <3>2. Deviations = {0} \cup {Deviation(k) : k \in 1..n}
      BY <1>3 DEF Deviations
    <3>3. \A k : k \in 1..j <=> (k \in 1..n \/ k = j) BY <1>4
    <3> QED BY <2>5, <3>1, <3>2, <3>3
  <2>7. Deviations \in SUBSET Int /\ maxDev \in Int
    <3>1. \A k \in 1..n : Deviation(k) \in Int BY <1>4, <2>4
    <3> QED BY <1>3, <2>2, <3>1 DEF Deviations
  <2>8. maxDev' \in Deviations' /\ \A d \in Deviations' : d <= maxDev'
    <3>1. PICK b \in Int : b = maxDev BY <2>7
    <3>2. maxDev' = Max({b, e}) BY <1>8, <2>5, <3>1
    <3>3. CASE b >= e
      <4>1. Max({b, e}) = b BY <3>3, MaxIs
      <4> QED BY <2>2, <2>6, <2>7, <3>1, <3>2, <3>3, <4>1
    <3>4. CASE b < e
      <4>1. Max({b, e}) = e BY <3>4, MaxIs
      <4> QED BY <2>2, <2>6, <2>7, <3>1, <3>2, <3>4, <4>1
    <3> QED BY <3>3, <3>4
  <2>9. MinimaDrops = {k \in 2..n : LeastSample(k - 1) > LeastSample(k)}
    BY <1>3 DEF MinimaDrops
  <2>10. MinimaDrops' = {k \in 2..j : LeastSample(k - 1) > LeastSample(k)}
    BY <1>13, <1>17 DEF MinimaDrops
  <2>11. IsFiniteSet(MinimaDrops) /\ Cardinality(MinimaDrops) \in Nat
    <3>1. IsFiniteSet(2..n) BY FS_Interval
    <3>2. MinimaDrops \subseteq 2..n BY <2>9
    <3> QED BY <3>1, <3>2, FS_Subset, FS_CardinalityType
  <2>12. CASE j = 1
    <3>1. MinimaDrops = {} /\ MinimaDrops' = {} BY <1>4, <2>9, <2>10, <2>12
    <3>2. p = 0 BY <1>7, <2>12
    <3>3. spurious' = spurious + 0 BY <1>8, <3>2
    <3>4. spurious \in Nat BY <2>2, <2>11
    <3>5. spurious' = Cardinality(MinimaDrops') BY <2>2, <3>1, <3>3, <3>4
    <3> QED BY <2>8, <3>5
  <2>13. CASE j # 1
    <3>1. PICK i \in 1..n : i = j - 1 /\ i = n /\ j \in 2..j
      <4>1. j - 1 \in 1..n /\ j - 1 = n /\ j \in 2..j BY <1>4, <2>13
      <4> QED BY <4>1
    <3>2. p = LeastSample(i)
      <4>1. mins[i] = LeastSample(i) BY <1>1, <1>3, <2>1 DEF FiguresRight
      <4> QED BY <1>7, <2>13, <3>1, <4>1
    <3>3. p \in Nat /\ m \in Nat
      <4>1. i \in 1..j /\ j \in 1..j BY <1>4
      <4> QED BY <2>3, <2>4, <3>2, <4>1
    <3>4. \A k : k \in 2..j <=> (k \in 2..n \/ k = j) BY <1>4, <3>1
    <3>5. CASE p > m
      <4>1. MinimaDrops' = MinimaDrops \cup {j} BY <2>3, <2>9, <2>10, <3>1, <3>2, <3>4, <3>5
      <4>2. j \notin MinimaDrops BY <1>4, <2>9
      <4>3. Cardinality(MinimaDrops') = Cardinality(MinimaDrops) + 1 BY <2>11, <4>1, <4>2, FS_AddElement
      <4>4. p # 0 BY <3>3, <3>5
      <4>5. spurious' = spurious + 1 BY <1>8, <3>5, <4>4
      <4> QED BY <2>2, <2>8, <4>3, <4>5
    <3>6. CASE ~(p > m)
      <4>1. MinimaDrops' = MinimaDrops BY <2>3, <2>9, <2>10, <3>1, <3>2, <3>4, <3>6
      <4>2. spurious' = spurious + 0 BY <1>8, <3>6
      <4> QED BY <2>2, <2>8, <2>11, <4>1, <4>2
    <3> QED BY <3>5, <3>6
  <2> QED BY <2>12, <2>13
<1> QED BY <1>15, <1>16, <1>19, <1>20 DEF CycInv

\* The five programs report a variance that is the variance, or that there was
\* no room for it, minima that are the least samples and deviations from them,
\* for any samples, any numbers of loops and samples, and words of any width.
THEOREM FiguresAreSound == CycleSpec => []StatsAreSound
<1>1. CycInv /\ [CycleNext]_cycVars => CycInv'
  <2> SUFFICES ASSUME CycInv, [CycleNext]_cycVars PROVE CycInv'
    OBVIOUS
  <2>1. CASE Steps
    <3>1. CASE Allocate BY <3>1, AllocateKeeps
    <3>2. CASE Measure BY <3>2, MeasureKeeps
    <3>3. CASE Analyse BY <3>3, AnalyseKeeps
    <3>4. CASE Finish BY <3>4, FinishKeeps
    <3> QED BY <2>1, <3>1, <3>2, <3>3, <3>4 DEF Steps
  <2>2. CASE UNCHANGED cycVars
    <3>1. UNCHANGED <<bench, stage, alive, failed, times, mins, variances, spurious, totVar, maxDev>>
      BY <2>2 DEF cycVars
    <3>2. CycTypes' /\ NothingLeaks' BY <3>1 DEF CycInv, CycTypes, NothingLeaks
    <3>3. FiguresRight' /\ SummaryRight' BY <3>1, SameFigures
    <3> QED BY <3>2, <3>3 DEF CycInv
  <2> QED BY <2>1, <2>2 DEF CycleNext, Rdtsc, Rdtscp, AltCr0, RealWork, UserMode
<1> QED BY <1>1, StatsInit, CycInvIsEnough, PTL DEF CycleSpec

------------------------------------------------------------------------------
(***************************************************************************)
(* treap: a call takes the tree apart on its way down and puts it together *)
(* on its way back.  F are the nodes that are in trees; t gives each of    *)
(* them the nodes of its tree.                                             *)
(***************************************************************************)
TreapSpec == TreapInit /\ [][TreapNext]_treapVars

Below(t, n) == IF n = 0 THEN {} ELSE t[n]
OnSide(nd, s, x, n) == IF s = "left" THEN nd[x].key < nd[n].key ELSE nd[x].key > nd[n].key
Under(nd, x, n) == nd[x].prio <= nd[n].prio

TreeAt(nd, lk, t, F, n) ==
  /\ nd[n].key \in Int /\ nd[n].prio \in Int
  /\ \A s \in Sides : lk[n][s] \in F \cup {0}
  /\ t[n] = {n} \cup Below(t, lk[n]["left"]) \cup Below(t, lk[n]["right"])
  /\ t[n] \subseteq F
  /\ \A x \in t[n] : t[x] \subseteq t[n]
  /\ \A s \in Sides : \A x \in Below(t, lk[n][s]) : OnSide(nd, s, x, n) /\ Under(nd, x, n)

Forest(nd, lk, t, F) == 0 \notin F /\ \A n \in F : TreeAt(nd, lk, t, F, n)

\* Trees that nothing else hangs on can be taken away.
LEMMA Uproot ==
  ASSUME NEW nd, NEW lk, NEW t, NEW F, NEW X, Forest(nd, lk, t, F),
         \A n \in F \ X : t[n] \cap X = {}
  PROVE  Forest(nd, lk, t, F \ X)
<1> SUFFICES ASSUME NEW n \in F \ X PROVE TreeAt(nd, lk, t, F \ X, n)
  BY DEF Forest
<1>1. TreeAt(nd, lk, t, F, n) /\ t[n] \cap X = {} BY DEF Forest
<1>2. t[n] \subseteq F \ X BY <1>1 DEF TreeAt
<1>3. ASSUME NEW s \in Sides PROVE lk[n][s] \in (F \ X) \cup {0}
  <2>1. lk[n][s] \in F \cup {0} BY <1>1 DEF TreeAt
  <2>2. CASE lk[n][s] # 0
    <3>1. PICK c \in F : c = lk[n][s] /\ c # 0 BY <2>1, <2>2
    <3>2. c \in t[c] BY <3>1 DEF Forest, TreeAt
    <3>3. t[c] \subseteq t[n] BY <1>1, <3>1 DEF TreeAt, Below, Sides
    <3> QED BY <1>2, <3>1, <3>2, <3>3
  <2> QED BY <2>2
<1> QED BY <1>1, <1>2, <1>3 DEF TreeAt

\* Only what is in trees matters.
LEMMA SameForest ==
  ASSUME NEW nd, NEW lk, NEW t, NEW F, Forest(nd, lk, t, F), NEW nd2, NEW lk2, NEW t2,
         \A n \in F : /\ nd2[n].key = nd[n].key /\ nd2[n].prio = nd[n].prio
                      /\ lk2[n] = lk[n] /\ t2[n] = t[n]
  PROVE  Forest(nd2, lk2, t2, F)
<1> SUFFICES ASSUME NEW n \in F PROVE TreeAt(nd2, lk2, t2, F, n)
  BY DEF Forest
<1>1. TreeAt(nd, lk, t, F, n) /\ lk2[n] = lk[n] /\ t2[n] = t[n] BY DEF Forest
<1>2. \A x \in t[n] : x \in F /\ t2[x] = t[x] /\ nd2[x].key = nd[x].key /\ nd2[x].prio = nd[x].prio
  BY <1>1 DEF TreeAt
<1>3. ASSUME NEW s \in Sides PROVE Below(t2, lk[n][s]) = Below(t, lk[n][s]) /\ Below(t, lk[n][s]) \subseteq t[n]
  <2>1. lk[n][s] \in F \cup {0} BY <1>1 DEF TreeAt
  <2>2. Below(t2, lk[n][s]) = Below(t, lk[n][s]) BY <2>1 DEF Below
  <2>3. Below(t, lk[n][s]) \subseteq t[n] BY <1>1 DEF TreeAt, Sides
  <2> QED BY <2>2, <2>3
<1>4. ASSUME NEW s \in Sides, NEW x \in Below(t2, lk[n][s])
      PROVE  OnSide(nd2, s, x, n) /\ Under(nd2, x, n)
  <2>1. x \in Below(t, lk[n][s]) /\ x \in t[n] BY <1>3, <1>4
  <2>2. OnSide(nd, s, x, n) /\ Under(nd, x, n) BY <1>1, <2>1 DEF TreeAt
  <2> QED BY <1>2, <2>1, <2>2 DEF OnSide, Under
<1>5. Below(t2, lk[n]["left"]) = Below(t, lk[n]["left"]) /\ Below(t2, lk[n]["right"]) = Below(t, lk[n]["right"])
  BY <1>3 DEF Sides
<1>6. nd2[n].key \in Int /\ nd2[n].prio \in Int BY <1>1 DEF TreeAt
<1> QED BY <1>1, <1>2, <1>4, <1>5, <1>6 DEF TreeAt

\* A node over two trees that belong there makes a tree.
LEMMA Plant ==
  ASSUME NEW nd, NEW lk, NEW t, NEW F, Forest(nd, lk, t, F),
         NEW n, n \notin F, n # 0, nd[n].key \in Int, nd[n].prio \in Int,
         NEW lk2, NEW t2, \A x \in F : lk2[x] = lk[x] /\ t2[x] = t[x],
         t2[n] = {n} \cup Below(t, lk2[n]["left"]) \cup Below(t, lk2[n]["right"]),
         \A s \in Sides : /\ lk2[n][s] \in F \cup {0}
                          /\ \A x \in Below(t, lk2[n][s]) : OnSide(nd, s, x, n) /\ Under(nd, x, n)
  PROVE  Forest(nd, lk2, t2, F \cup {n})
<1>1. Forest(nd, lk2, t2, F) BY SameForest
<1>2. ASSUME NEW x \in F PROVE TreeAt(nd, lk2, t2, F \cup {n}, x)
  <2>1. TreeAt(nd, lk2, t2, F, x) BY <1>1 DEF Forest
  <2> QED BY <2>1 DEF TreeAt
<1>3. ASSUME NEW s \in Sides
      PROVE  /\ Below(t2, lk2[n][s]) = Below(t, lk2[n][s]) /\ Below(t, lk2[n][s]) \subseteq F
             /\ \A x \in Below(t, lk2[n][s]) : t2[x] \subseteq Below(t, lk2[n][s])
  <2>1. PICK c \in F \cup {0} : c = lk2[n][s] OBVIOUS
  <2>2. CASE c = 0 BY <2>1, <2>2 DEF Below
  <2>3. CASE c # 0
    <3>1. c \in F /\ TreeAt(nd, lk, t, F, c) BY <2>3 DEF Forest
    <3>2. t[c] \subseteq F /\ \A x \in t[c] : t[x] \subseteq t[c] BY <3>1 DEF TreeAt
    <3>3. t2[c] = t[c] /\ \A x \in t[c] : t2[x] = t[x] BY <3>1, <3>2
    <3> QED BY <2>1, <2>3, <3>2, <3>3 DEF Below
  <2> QED BY <2>2, <2>3
<1>4. TreeAt(nd, lk2, t2, F \cup {n}, n)
  <2>1. PICK L, R : /\ L = Below(t, lk2[n]["left"]) /\ R = Below(t, lk2[n]["right"])
                    /\ L = Below(t2, lk2[n]["left"]) /\ R = Below(t2, lk2[n]["right"])
                    /\ L \subseteq F /\ R \subseteq F
                    /\ \A x \in L : t2[x] \subseteq L
                    /\ \A x \in R : t2[x] \subseteq R
    BY <1>3 DEF Sides
  <2>2. t2[n] = {n} \cup L \cup R BY <2>1
  <2>3. \A x \in t2[n] : t2[x] \subseteq t2[n] BY <2>1, <2>2
  <2>4. t2[n] \subseteq F \cup {n} BY <2>1, <2>2
  <2>5. \A s \in Sides : \A x \in Below(t2, lk2[n][s]) : OnSide(nd, s, x, n) /\ Under(nd, x, n)
    BY <1>3
  <2>6. \A s \in Sides : lk2[n][s] \in (F \cup {n}) \cup {0} OBVIOUS
  <2> QED BY <2>1, <2>2, <2>3, <2>4, <2>5, <2>6 DEF TreeAt
<1> QED BY <1>1, <1>2, <1>4 DEF Forest

\* What is in a tree is in that tree whole.
LEMMA Inside ==
  ASSUME NEW nd, NEW lk, NEW t, NEW F, Forest(nd, lk, t, F), NEW n \in F \cup {0}, NEW x \in Below(t, n)
  PROVE  x \in F /\ x \in t[x] /\ t[x] \subseteq Below(t, n)
<1>1. n # 0 /\ n \in F /\ x \in t[n] BY DEF Below
<1>2. TreeAt(nd, lk, t, F, n) BY <1>1 DEF Forest
<1>3. x \in F /\ t[x] \subseteq t[n] BY <1>1, <1>2 DEF TreeAt
<1>4. x \in t[x] BY <1>3 DEF Forest, TreeAt
<1> QED BY <1>1, <1>3, <1>4 DEF Below

LEMMA RootIn ==
  ASSUME NEW nd, NEW lk, NEW t, NEW F, Forest(nd, lk, t, F), NEW n \in F
  PROVE  n \in t[n] /\ n # 0 /\ Below(t, n) = t[n]
BY DEF Forest, TreeAt, Below

\* A tree without its root: two trees, which the root is in neither of.
LEMMA KidsOf ==
  ASSUME NEW nd, NEW lk, NEW t, NEW F, Forest(nd, lk, t, F), NEW n \in F, NEW s \in Sides
  PROVE  /\ lk[n][s] \in F \cup {0} /\ Below(t, lk[n][s]) \subseteq t[n] \ {n}
         /\ lk[n][s] # n
         /\ t[n] = {n} \cup Below(t, lk[n][s]) \cup Below(t, lk[n][Opposite(s)])
         /\ \A x \in Below(t, lk[n][s]) : OnSide(nd, s, x, n) /\ Under(nd, x, n)
<1>1. TreeAt(nd, lk, t, F, n) BY DEF Forest
<1>2. \A x \in Below(t, lk[n][s]) : OnSide(nd, s, x, n) BY <1>1 DEF TreeAt
<1>3. n \notin Below(t, lk[n][s])
  <2>1. ~OnSide(nd, s, n, n) BY <1>1 DEF TreeAt, OnSide
  <2> QED BY <1>2, <2>1
<1>4. t[n] = {n} \cup Below(t, lk[n][s]) \cup Below(t, lk[n][Opposite(s)])
  BY <1>1 DEF TreeAt, Opposite, Sides
<1>5. lk[n][s] # n BY <1>3, RootIn
<1> QED BY <1>1, <1>3, <1>4, <1>5 DEF TreeAt

(***************************************************************************)
(* An activation that waits keeps its node and the tree on the other side. *)
(* What is still in hand (X) belongs on the side it waits for, and, but    *)
(* for a node just inserted (its key in K), below it.                      *)
(***************************************************************************)
Frag(lk, t, f) == {f.at} \cup IF f.on = "delete" THEN {} ELSE Below(t, lk[f.at][Opposite(f.on)])

Hangs(nd, lk, t, f, x, K) ==
  /\ nd[x].key # nd[f.at].key
  /\ f.on # "delete" => /\ \A y \in Frag(lk, t, f) : OnSide(nd, f.on, x, y)
                        /\ Under(nd, x, f.at) \/ nd[x].key \in K

FrameOK(nd, lk, t, F, f) ==
  /\ f.at \notin F /\ f.at # 0 /\ nd[f.at].key \in Int /\ nd[f.at].prio \in Int
  /\ f.on \in Sides \cup {"delete"}
  /\ f.on # "delete" =>
       /\ lk[f.at][Opposite(f.on)] \in F \cup {0}
       /\ \A x \in Below(t, lk[f.at][Opposite(f.on)]) :
            OnSide(nd, Opposite(f.on), x, f.at) /\ Under(nd, x, f.at)

Stacked(nd, lk, t, F, w, X, K) ==
  /\ \A i \in 1..Len(w) : FrameOK(nd, lk, t, F, w[i]) /\ \A x \in X : Hangs(nd, lk, t, w[i], x, K)
  /\ \A i, j \in 1..Len(w) : i < j => \A x \in Frag(lk, t, w[j]) : Hangs(nd, lk, t, w[i], x, K)

Frags(lk, t, w) == UNION {Frag(lk, t, w[i]) : i \in 1..Len(w)}
Ats(w) == {w[i].at : i \in 1..Len(w)}

\* The heap: what is in hand, what waits, and the maps nobody works on (O).
Layout(nd, lk, t, F, w, X, K, O) ==
  /\ Forest(nd, lk, t, F) /\ Stacked(nd, lk, t, F, w, X, K)
  /\ F = DOMAIN nd \ Ats(w) /\ X \subseteq F /\ O \subseteq F
  /\ DOMAIN nd = X \cup O \cup Frags(lk, t, w)
  /\ O \cap (X \cup Frags(lk, t, w)) = {}
  /\ \A x \in O : t[x] \subseteq O

LEMMA FragIn ==
  ASSUME NEW nd, NEW lk, NEW t, NEW F, NEW f, Forest(nd, lk, t, F), FrameOK(nd, lk, t, F, f)
  PROVE  /\ \A x \in Frag(lk, t, f) : nd[x].key \in Int /\ nd[x].prio \in Int /\ (x # f.at => x \in F)
         /\ \A x \in Frag(lk, t, f) \ {f.at} : t[x] \subseteq Frag(lk, t, f)
         /\ f.on # "delete" => /\ lk[f.at][Opposite(f.on)] # 0 => lk[f.at][Opposite(f.on)] \in Frag(lk, t, f)
                               /\ Frag(lk, t, f) = {f.at} \cup Below(t, lk[f.at][Opposite(f.on)])
<1>1. CASE f.on = "delete" BY <1>1 DEF Frag, FrameOK
<1>2. CASE f.on # "delete"
  <2>1. PICK q \in F \cup {0} : q = lk[f.at][Opposite(f.on)] BY <1>2 DEF FrameOK
  <2>2. Frag(lk, t, f) = {f.at} \cup Below(t, q) BY <1>2, <2>1 DEF Frag
  <2>3. \A x \in Below(t, q) : x \in F /\ t[x] \subseteq Below(t, q) BY Inside
  <2>4. \A x \in F : nd[x].key \in Int /\ nd[x].prio \in Int BY DEF Forest, TreeAt
  <2>5. q # 0 => q \in Below(t, q) BY RootIn
  <2>6. nd[f.at].key \in Int /\ nd[f.at].prio \in Int BY DEF FrameOK
  <2> QED BY <2>1, <2>2, <2>3, <2>4, <2>5, <2>6
<1> QED BY <1>1, <1>2

LEMMA FitsOut ==
  ASSUME NEW nd, NEW lk, NEW t, NEW f, NEW x, NEW K, Hangs(nd, lk, t, f, x, K), nd[x].key \in Int,
         f.on \in Sides \cup {"delete"}
  PROVE  x \notin Frag(lk, t, f)
<1>1. CASE f.on = "delete" BY <1>1 DEF Hangs, Frag
<1>2. CASE f.on # "delete"
  <2>1. ~OnSide(nd, f.on, x, x) BY DEF OnSide
  <2> QED BY <1>2, <2>1 DEF Hangs
<1> QED BY <1>1, <1>2

LEMMA Separate ==
  ASSUME NEW nd, NEW lk, NEW t, NEW F, NEW w, NEW X, NEW K, NEW O,
         Layout(nd, lk, t, F, w, X, K, O), NEW i \in 1..Len(w)
  PROVE  /\ X \cap Frag(lk, t, w[i]) = {}
         /\ \A j \in 1..Len(w) : i < j => Frag(lk, t, w[j]) \cap Frag(lk, t, w[i]) = {}
<1>1. Forest(nd, lk, t, F) /\ FrameOK(nd, lk, t, F, w[i]) /\ w[i].on \in Sides \cup {"delete"}
  BY DEF Layout, Stacked, FrameOK
<1>2. ASSUME NEW x \in X PROVE x \notin Frag(lk, t, w[i])
  <2>1. nd[x].key \in Int BY DEF Layout, Forest, TreeAt
  <2>2. Hangs(nd, lk, t, w[i], x, K) BY DEF Layout, Stacked
  <2> QED BY <1>1, <2>1, <2>2, FitsOut
<1>3. ASSUME NEW j \in 1..Len(w), i < j, NEW x \in Frag(lk, t, w[j]) PROVE x \notin Frag(lk, t, w[i])
  <2>1. FrameOK(nd, lk, t, F, w[j]) BY DEF Layout, Stacked
  <2>2. nd[x].key \in Int BY <1>1, <1>3, <2>1, FragIn
  <2>3. Hangs(nd, lk, t, w[i], x, K) BY <1>3 DEF Layout, Stacked
  <2> QED BY <1>1, <2>2, <2>3, FitsOut
<1> QED BY <1>2, <1>3

\* A root of what is in hand hangs on nothing.
LEMMA NoneAbove ==
  ASSUME NEW nd, NEW lk, NEW t, NEW F, NEW w, NEW X, NEW K, NEW O,
         Layout(nd, lk, t, F, w, X, K, O), NEW n \in X, \A x \in X \ {n} : n \notin t[x],
         NEW x \in F \ {n}
  PROVE  n \notin t[x]
<1>1. CASE x \in X BY <1>1
<1>2. CASE x \in O BY <1>2 DEF Layout
<1>3. CASE x \in Frags(lk, t, w)
  <2>1. PICK i \in 1..Len(w) : x \in Frag(lk, t, w[i]) BY <1>3 DEF Frags
  <2>2. FrameOK(nd, lk, t, F, w[i]) /\ Forest(nd, lk, t, F) BY DEF Layout, Stacked
  <2>3. x # w[i].at BY <2>2 DEF FrameOK
  <2>4. t[x] \subseteq Frag(lk, t, w[i]) BY <2>1, <2>2, <2>3, FragIn
  <2> QED BY <2>4, Separate
<1> QED BY <1>1, <1>2, <1>3 DEF Layout

\* A call: a root of what is in hand waits, and the callee gets the rest.
LEMMA Pushed ==
  ASSUME NEW nd, NEW lk, NEW t, NEW F, NEW w, NEW X, NEW K, NEW O,
         Layout(nd, lk, t, F, w, X, K, O), NEW n \in X, \A x \in X \ {n} : n \notin t[x],
         NEW f, f.at = n, f.on \in Sides \cup {"delete"},
         NEW X2, X = Frag(lk, t, f) \cup X2, n \notin X2,
         \A x \in X2 : Hangs(nd, lk, t, f, x, K),
         NEW S, w \in Seq(S), f \in S
  PROVE  Layout(nd, lk, t, F \ {n}, Append(w, f), X2, K, O)
<1>1. /\ Forest(nd, lk, t, F) /\ Stacked(nd, lk, t, F, w, X, K)
      /\ F = DOMAIN nd \ Ats(w) /\ X \subseteq F /\ O \subseteq F
      /\ DOMAIN nd = X \cup O \cup Frags(lk, t, w) /\ O \cap (X \cup Frags(lk, t, w)) = {}
      /\ \A x \in O : t[x] \subseteq O
  BY DEF Layout
<1>2. Forest(nd, lk, t, F \ {n})
  <2>1. ASSUME NEW x \in F \ {n} PROVE n \notin t[x]
    <3>1. Layout(nd, lk, t, F, w, X, K, O) /\ n \in X /\ \A y \in X \ {n} : n \notin t[y] OBVIOUS
    <3> QED BY ONLY <2>1, <3>1, NoneAbove
  <2>2. \A x \in F \ {n} : t[x] \cap {n} = {} BY <2>1
  <2> QED BY ONLY <1>1, <2>2, Uproot
<1>3. PICK l \in Nat : l = Len(w)
  <2>1. Len(w) \in Nat OBVIOUS
  <2> QED BY <2>1
<1>4. PICK v : v = Append(w, f) OBVIOUS
<1>5. /\ Len(v) = l + 1 /\ v[l + 1] = f
      /\ \A i \in 1..l : v[i] = w[i]
      /\ \A i : i \in 1..Len(v) <=> i \in 1..l \/ i = l + 1
  BY <1>3, <1>4, AppendProperties
<1>6. FrameOK(nd, lk, t, F \ {n}, f)
  <2>1. n \in F /\ n # 0 /\ nd[n].key \in Int /\ nd[n].prio \in Int BY <1>1 DEF Forest, TreeAt
  <2>2. CASE f.on = "delete" BY <2>1, <2>2 DEF FrameOK
  <2>3. CASE f.on # "delete"
    <3>1. Opposite(f.on) \in Sides BY DEF Opposite, Sides
    <3>2. /\ lk[n][Opposite(f.on)] \in F \cup {0} /\ lk[n][Opposite(f.on)] # n
          /\ \A x \in Below(t, lk[n][Opposite(f.on)]) : OnSide(nd, Opposite(f.on), x, n) /\ Under(nd, x, n)
      BY <1>1, <2>1, <3>1, KidsOf
    <3> QED BY <2>1, <3>2 DEF FrameOK
  <2> QED BY <2>2, <2>3
<1>7. ASSUME NEW i \in 1..l PROVE FrameOK(nd, lk, t, F \ {n}, w[i])
  <2>1. FrameOK(nd, lk, t, F, w[i]) BY <1>1, <1>3 DEF Stacked
  <2>2. n \notin Frag(lk, t, w[i]) BY <1>3, Separate
  <2>3. w[i].on # "delete" => lk[w[i].at][Opposite(w[i].on)] # n
    BY <1>1, <2>1, <2>2, FragIn, RootIn
  <2> QED BY <2>1, <2>3 DEF FrameOK
<1>8. Stacked(nd, lk, t, F \ {n}, v, X2, K)
  <2>1. ASSUME NEW i \in 1..Len(v)
        PROVE  FrameOK(nd, lk, t, F \ {n}, v[i]) /\ \A x \in X2 : Hangs(nd, lk, t, v[i], x, K)
    <3>1. CASE i = l + 1 BY <1>5, <1>6, <3>1
    <3>2. CASE i \in 1..l BY <1>1, <1>3, <1>5, <1>7, <3>2 DEF Stacked
    <3> QED BY <1>5, <3>1, <3>2
  <2>2. ASSUME NEW i \in 1..Len(v), NEW j \in 1..Len(v), i < j, NEW x \in Frag(lk, t, v[j])
        PROVE  Hangs(nd, lk, t, v[i], x, K)
    <3>1. i \in 1..l /\ i \in 1..Len(w) BY <1>3, <1>5, <2>2
    <3>2. CASE j = l + 1
      <4>1. x \in X BY <1>5, <2>2, <3>2
      <4> QED BY <1>1, <1>5, <3>1, <4>1 DEF Stacked
    <3>3. CASE j \in 1..l BY <1>1, <1>3, <1>5, <2>2, <3>1, <3>3 DEF Stacked
    <3> QED BY <1>5, <3>2, <3>3
  <2> QED BY <2>1, <2>2 DEF Stacked
<1>9. Frags(lk, t, v) = Frags(lk, t, w) \cup Frag(lk, t, f) /\ Ats(v) = Ats(w) \cup {n}
  BY <1>3, <1>5 DEF Frags, Ats
<1>10. X2 \subseteq F \ {n} /\ O \subseteq F \ {n} /\ n \notin O BY <1>1
<1>11. DOMAIN nd = X2 \cup O \cup Frags(lk, t, v) /\ O \cap (X2 \cup Frags(lk, t, v)) = {}
  BY <1>1, <1>9
<1>12. F \ {n} = DOMAIN nd \ Ats(v) BY <1>1, <1>9
<1> QED BY <1>1, <1>2, <1>4, <1>8, <1>10, <1>11, <1>12 DEF Layout

\* A return: the last activation is done, and what it waited with is in hand,
\* or deleted.
LEMMA Popped ==
  ASSUME NEW nd, NEW lk, NEW t, NEW F, NEW w, NEW X, NEW K, NEW O,
         Layout(nd, lk, t, F, w, X, K, O), NEW S, w \in Seq(S), w # <<>>,
         NEW f, f = w[Len(w)],
         NEW nd2, NEW lk2, NEW t2, NEW F2, NEW X2, Forest(nd2, lk2, t2, F2),
         F \subseteq F2, F2 \subseteq F \cup {f.at}, X2 \subseteq F2,
         \A x \in DOMAIN nd \ {f.at} : x \in DOMAIN nd2 /\ nd2[x] = nd[x],
         DOMAIN nd2 \subseteq DOMAIN nd,
         f.at \in DOMAIN nd2 => f.at \in F2 /\ nd2[f.at] = nd[f.at],
         f.at \in F2 => f.at \in DOMAIN nd2,
         \A x \in F \ X : t2[x] = t[x],
         \A x \in Ats(w) \ {f.at} : lk2[x] = lk[x],
         X2 \cup (IF f.at \in DOMAIN nd2 THEN {} ELSE {f.at}) = X \cup Frag(lk, t, f),
         f.at \in DOMAIN nd2 \/ f.at \notin X2
  PROVE  Layout(nd2, lk2, t2, F2, SubSeq(w, 1, Len(w) - 1), X2, K, O)
<1>1. /\ Forest(nd, lk, t, F) /\ Stacked(nd, lk, t, F, w, X, K)
      /\ F = DOMAIN nd \ Ats(w) /\ X \subseteq F /\ O \subseteq F
      /\ DOMAIN nd = X \cup O \cup Frags(lk, t, w) /\ O \cap (X \cup Frags(lk, t, w)) = {}
      /\ \A x \in O : t[x] \subseteq O
  <2>1. Layout(nd, lk, t, F, w, X, K, O) BY ZenonT(40)
  <2> QED BY ONLY <2>1 DEF Layout
<1>2. PICK l \in Nat : Len(w) = l + 1
  <2>1. Len(w) \in Nat /\ Len(w) # 0 BY EmptySeq
  <2>2. Len(w) - 1 \in Nat /\ Len(w) = (Len(w) - 1) + 1 BY <2>1
  <2> QED BY <2>2
<1>3. PICK v : v = SubSeq(w, 1, Len(w) - 1) OBVIOUS
<1>4. Len(v) = l /\ \A i \in 1..l : v[i] = w[i]
  <2>1. Len(w) - 1 = l /\ \A i \in 1..l : i \in 1..Len(w) BY <1>2
  <2>2. v = [i \in 1..l |-> w[i]] BY <1>2, <1>3, <2>1
  <2> QED BY <2>2
<1>5. \A i : i \in 1..Len(w) <=> i \in 1..l \/ i = l + 1 BY <1>2
<1>6. PICK p : p = f.at OBVIOUS
<1>7. ASSUME NEW i \in 1..l
      PROVE  /\ w[i].at # p /\ w[i].at \in DOMAIN nd /\ p \notin Frag(lk, t, w[i])
             /\ Frag(lk, t, w[i]) \cap Frag(lk, t, f) = {}
             /\ X \cap Frag(lk, t, w[i]) = {}
             /\ lk2[w[i].at] = lk[w[i].at] /\ Frag(lk2, t2, w[i]) = Frag(lk, t, w[i])
  <2>1. i \in 1..Len(w) /\ l + 1 \in 1..Len(w) /\ i < l + 1 /\ f = w[l + 1] BY <1>2, <1>5
  <2>2. Frag(lk, t, w[i]) \cap Frag(lk, t, f) = {} BY <2>1, Separate
  <2>3. X \cap Frag(lk, t, w[i]) = {} BY <2>1, Separate
  <2>4. w[i].at \in Frag(lk, t, w[i]) /\ p \in Frag(lk, t, f) BY <1>6 DEF Frag
  <2>5. w[i].at \in Ats(w) BY <2>1 DEF Ats
  <2>6. lk2[w[i].at] = lk[w[i].at] BY <1>6, <2>2, <2>4, <2>5
  <2>7. FrameOK(nd, lk, t, F, w[i]) BY <1>1, <2>1 DEF Stacked
  <2>8. Frag(lk2, t2, w[i]) = Frag(lk, t, w[i])
    <3>1. CASE w[i].on = "delete" BY <3>1 DEF Frag
    <3>2. CASE w[i].on # "delete"
      <4>1. PICK q \in F \cup {0} : q = lk[w[i].at][Opposite(w[i].on)] BY <2>7, <3>2 DEF FrameOK
      <4>2. q # 0 => q \in Frag(lk, t, w[i]) BY <1>1, <2>7, <3>2, <4>1, FragIn
      <4>3. q # 0 => q \in F \ X BY <2>3, <4>2
      <4>4. Below(t2, q) = Below(t, q) BY <4>3 DEF Below
      <4> QED BY <2>6, <3>2, <4>1, <4>4 DEF Frag
    <3> QED BY <3>1, <3>2
  <2>9. w[i].at \in DOMAIN nd BY <1>1, <2>1, <2>4 DEF Frags
  <2> QED BY <2>2, <2>3, <2>4, <2>6, <2>8, <2>9
<1>8. ASSUME NEW i \in 1..l PROVE FrameOK(nd2, lk2, t2, F2, w[i])
  <2>1. FrameOK(nd, lk, t, F, w[i]) BY <1>1, <1>5 DEF Stacked
  <2>2. nd2[w[i].at] = nd[w[i].at] /\ w[i].at \notin F2
    BY <1>6, <1>7, <2>1 DEF FrameOK
  <2>3. CASE w[i].on = "delete" BY <2>1, <2>2, <2>3 DEF FrameOK
  <2>4. CASE w[i].on # "delete"
    <3>1. PICK q \in F \cup {0} : /\ q = lk[w[i].at][Opposite(w[i].on)] /\ q = lk2[w[i].at][Opposite(w[i].on)]
                                  /\ \A x \in Below(t, q) : OnSide(nd, Opposite(w[i].on), x, w[i].at) /\ Under(nd, x, w[i].at)
      BY <1>7, <2>1, <2>4 DEF FrameOK
    <3>2. q # 0 => q \in Frag(lk, t, w[i])
      <4>1. lk[w[i].at][Opposite(w[i].on)] # 0 => lk[w[i].at][Opposite(w[i].on)] \in Frag(lk, t, w[i])
        BY <1>1, <2>1, <2>4, FragIn
      <4> QED BY <3>1, <4>1
    <3>3. Below(t2, q) = Below(t, q)
      <4>1. q # 0 => q \in F \ X BY <1>7, <3>2
      <4> QED BY <4>1 DEF Below
    <3>4. \A x \in Below(t, q) : nd2[x] = nd[x]
      <4>1. ASSUME NEW x \in Below(t, q) PROVE x \in F /\ x # p
        <5>1. x \in Frag(lk, t, w[i]) BY <2>4, <3>1 DEF Frag
        <5> QED BY <1>1, <1>7, <5>1, Inside
      <4> QED BY <1>1, <1>6, <4>1
    <3>5. \A x \in Below(t2, q) : OnSide(nd2, Opposite(w[i].on), x, w[i].at) /\ Under(nd2, x, w[i].at)
      BY <2>2, <3>1, <3>3, <3>4 DEF OnSide, Under
    <3> QED BY <2>1, <2>2, <3>1, <3>5 DEF FrameOK
  <2> QED BY <2>3, <2>4
<1>9. ASSUME NEW i \in 1..l, NEW x, Hangs(nd, lk, t, w[i], x, K), x \in DOMAIN nd2
      PROVE  Hangs(nd2, lk2, t2, w[i], x, K)
  <2>1. \A y \in DOMAIN nd2 : nd2[y] = nd[y] BY <1>6
  <2>2. Frag(lk, t, w[i]) \subseteq DOMAIN nd2
    <3>1. Frag(lk, t, w[i]) \subseteq DOMAIN nd BY <1>1, <1>5 DEF Frags
    <3> QED BY <1>6, <1>7, <3>1
  <2>3. nd2[x] = nd[x] /\ nd2[w[i].at] = nd[w[i].at] /\ \A y \in Frag(lk, t, w[i]) : nd2[y] = nd[y]
    BY <1>6, <1>7, <1>9, <2>1, <2>2
  <2> QED BY <1>7, <1>9, <2>3 DEF Hangs, OnSide, Under
<1>10. X2 \subseteq X \cup Frag(lk, t, f) /\ X2 \subseteq DOMAIN nd2
  <2>1. F2 \subseteq DOMAIN nd2
    BY <1>1, <1>2, <1>5, <1>6 DEF Ats
  <2> QED BY <2>1
<1>11. Stacked(nd2, lk2, t2, F2, v, X2, K)
  <2>1. ASSUME NEW i \in 1..l, NEW x \in X2 PROVE Hangs(nd2, lk2, t2, w[i], x, K)
    <3>1. Hangs(nd, lk, t, w[i], x, K)
      <4>1. CASE x \in X BY <1>1, <1>5, <4>1 DEF Stacked
      <4>2. CASE x \in Frag(lk, t, f)
        <5>1. i \in 1..Len(w) /\ l + 1 \in 1..Len(w) /\ i < l + 1 /\ f = w[l + 1] BY <1>2, <1>5
        <5> QED BY <1>1, <4>2, <5>1 DEF Stacked
      <4> QED BY <1>10, <4>1, <4>2
    <3> QED BY <1>9, <1>10, <3>1
  <2>2. ASSUME NEW i \in 1..l, NEW j \in 1..l, i < j, NEW x \in Frag(lk2, t2, w[j])
        PROVE  Hangs(nd2, lk2, t2, w[i], x, K)
    <3>1. x \in Frag(lk, t, w[j]) BY <1>7, <2>2
    <3>2. i \in 1..Len(w) /\ j \in 1..Len(w) BY <1>5
    <3>3. Hangs(nd, lk, t, w[i], x, K) BY <1>1, <2>2, <3>1, <3>2 DEF Stacked
    <3>4. x \in DOMAIN nd /\ x # p BY <1>1, <1>7, <3>1, <3>2 DEF Frags
    <3> QED BY <1>6, <1>9, <3>3, <3>4
  <2> QED BY <1>4, <1>8, <2>1, <2>2 DEF Stacked
<1>12. PICK G : G = Frags(lk2, t2, v) /\ Frags(lk, t, w) = G \cup Frag(lk, t, f) /\ p \notin G
               /\ G \cap X = {} /\ G \cap Frag(lk, t, f) = {}
  <2>1. PICK G : G = Frags(lk2, t2, v) OBVIOUS
  <2>2. \A x : x \in G <=> \E i \in 1..l : x \in Frag(lk, t, w[i]) BY <1>4, <1>7, <2>1 DEF Frags
  <2>3. \A x : x \in Frags(lk, t, w) <=> \E i \in 1..Len(w) : x \in Frag(lk, t, w[i]) BY DEF Frags
  <2>4. f = w[l + 1] BY <1>2
  <2>5. \A x : x \in Frags(lk, t, w) <=> x \in G \/ x \in Frag(lk, t, f)
    BY <1>5, <2>2, <2>3, <2>4
  <2>6. p \notin G /\ G \cap X = {} /\ G \cap Frag(lk, t, f) = {} BY <1>7, <2>2
  <2> QED BY <2>1, <2>5, <2>6
<1>13. p \in Frag(lk, t, f) /\ p \notin O /\ p \notin X
  BY <1>1, <1>2, <1>5, <1>6, <1>12 DEF Frag, Ats
<1>14. Ats(w) = Ats(v) \cup {p} /\ p \notin Ats(v)
  BY <1>2, <1>4, <1>5, <1>6, <1>7 DEF Ats
<1>15. DOMAIN nd2 = X2 \cup O \cup G
  <2>1. CASE p \in DOMAIN nd2
    <3>1. X2 = X \cup Frag(lk, t, f) BY <1>6, <2>1
    <3>2. DOMAIN nd2 = DOMAIN nd BY <1>6, <2>1
    <3> QED BY <1>1, <1>12, <3>1, <3>2
  <2>2. CASE p \notin DOMAIN nd2
    <3>1. X2 = (X \cup Frag(lk, t, f)) \ {p} BY <1>6, <2>2
    <3>2. DOMAIN nd2 = DOMAIN nd \ {p} BY <1>6, <2>2
    <3> QED BY <1>1, <1>12, <1>13, <3>1, <3>2
  <2> QED BY <2>1, <2>2
<1>16. O \cap (X2 \cup G) = {} BY <1>1, <1>10, <1>12
<1>17. F2 = DOMAIN nd2 \ Ats(v)
  <2>1. CASE p \in DOMAIN nd2
    <3>1. F2 = F \cup {p} /\ DOMAIN nd2 = DOMAIN nd BY <1>6, <2>1
    <3>2. p \in DOMAIN nd BY <2>1
    <3> QED BY <1>1, <1>14, <3>1, <3>2
  <2>2. CASE p \notin DOMAIN nd2
    <3>1. p \notin F2 /\ F \subseteq F2 /\ F2 \subseteq F \cup {p} BY <1>6, <2>2
    <3>2. \A x \in DOMAIN nd \ {p} : x \in DOMAIN nd2 BY <1>6
    <3>3. DOMAIN nd2 \subseteq DOMAIN nd BY <1>6
    <3>4. F2 = F BY ONLY <3>1
    <3>5. DOMAIN nd2 = DOMAIN nd \ {p} BY ONLY <2>2, <3>2, <3>3
    <3>6. F = DOMAIN nd \ Ats(w) BY <1>1
    <3> QED BY ONLY <1>14, <3>4, <3>5, <3>6
  <2> QED BY <2>1, <2>2
<1>18. O \subseteq F2 /\ \A x \in O : t2[x] \subseteq O BY <1>1
<1> QED BY <1>3, <1>11, <1>12, <1>15, <1>16, <1>17, <1>18 DEF Layout

LEMMA Mirror ==
  ASSUME NEW nd, NEW s \in Sides, NEW x, NEW y
  PROVE  /\ Opposite(s) \in Sides /\ Opposite(s) # s /\ Opposite(Opposite(s)) = s
         /\ \A r \in Sides : r = s \/ r = Opposite(s)
         /\ nd[x].key \in Int /\ nd[y].key \in Int /\ OnSide(nd, s, x, y) => OnSide(nd, Opposite(s), y, x)
<1>1. s = "left" \/ s = "right" BY DEF Sides
<1>2. /\ Opposite(s) \in Sides /\ Opposite(s) # s /\ Opposite(Opposite(s)) = s
      /\ \A r \in Sides : r = s \/ r = Opposite(s)
  BY <1>1 DEF Opposite, Sides
<1>3. ASSUME nd[x].key \in Int, nd[y].key \in Int, OnSide(nd, s, x, y) PROVE OnSide(nd, Opposite(s), y, x)
  <2>1. CASE s = "left" BY <1>3, <2>1 DEF OnSide, Opposite
  <2>2. CASE s = "right" BY <1>3, <2>2 DEF OnSide, Opposite
  <2> QED BY <1>1, <2>1, <2>2
<1> QED BY <1>2, <1>3

\* The result goes where the activation waited for it.
LEMMA Attached ==
  ASSUME NEW nd, NEW lk, NEW t, NEW F, Forest(nd, lk, t, F),
         NEW f, FrameOK(nd, lk, t, F, f), f.on # "delete", NEW c \in F \cup {0},
         \A x \in Below(t, c) : Under(nd, x, f.at) /\ \A y \in Frag(lk, t, f) : OnSide(nd, f.on, x, y),
         NEW lk2, lk2[f.at][f.on] = c, lk2[f.at][Opposite(f.on)] = lk[f.at][Opposite(f.on)],
         \A x \in F : lk2[x] = lk[x]
  PROVE  \E t2 : /\ Forest(nd, lk2, t2, F \cup {f.at})
                 /\ \A x \in F : t2[x] = t[x]
                 /\ t2[f.at] = Below(t, c) \cup Frag(lk, t, f)
<1>1. PICK p, s, q : p = f.at /\ s = f.on /\ q = lk[p][Opposite(s)] OBVIOUS
<1>2. /\ p \notin F /\ p # 0 /\ nd[p].key \in Int /\ nd[p].prio \in Int
      /\ s \in Sides /\ q \in F \cup {0}
      /\ \A x \in Below(t, q) : OnSide(nd, Opposite(s), x, p) /\ Under(nd, x, p)
  BY <1>1 DEF FrameOK
<1>3. Frag(lk, t, f) = {p} \cup Below(t, q) BY <1>1 DEF Frag
<1>4. \A x \in Below(t, c) : OnSide(nd, s, x, p) /\ Under(nd, x, p) BY <1>1, <1>3
<1>5. PICK t2 : t2 = [x \in F \cup {p} |-> IF x = p THEN {p} \cup Below(t, c) \cup Below(t, q) ELSE t[x]]
  OBVIOUS
<1>6. t2[p] = {p} \cup Below(t, c) \cup Below(t, q) /\ \A x \in F : t2[x] = t[x] BY <1>2, <1>5
<1>7. lk2[p][s] = c /\ lk2[p][Opposite(s)] = q BY <1>1
<1>8. \A r \in Sides : r = s \/ r = Opposite(s) BY <1>2, Mirror
<1>9. t2[p] = {p} \cup Below(t, lk2[p]["left"]) \cup Below(t, lk2[p]["right"])
  <2>1. s = "left" \/ s = "right" BY <1>2 DEF Sides
  <2> QED BY <1>6, <1>7, <2>1 DEF Opposite
<1>10. ASSUME NEW r \in Sides
       PROVE  lk2[p][r] \in F \cup {0} /\ \A x \in Below(t, lk2[p][r]) : OnSide(nd, r, x, p) /\ Under(nd, x, p)
  BY <1>2, <1>4, <1>7, <1>8
<1>11. Forest(nd, lk2, t2, F \cup {p}) BY <1>2, <1>6, <1>9, <1>10, Plant
<1> QED BY <1>1, <1>3, <1>6, <1>11

\* A result above the node that waits takes its place.
LEMMA Rotated ==
  ASSUME NEW nd, NEW lk, NEW t, NEW F, Forest(nd, lk, t, F),
         NEW f, FrameOK(nd, lk, t, F, f), f.on # "delete", NEW c \in F,
         \A x \in Below(t, c) : /\ x # c => Under(nd, x, f.at)
                                /\ \A y \in Frag(lk, t, f) : OnSide(nd, f.on, x, y),
         ~Under(nd, c, f.at), \A x \in F \ {c} : c \notin t[x],
         NEW lk2, lk2[f.at][f.on] = lk[c][Opposite(f.on)],
         lk2[f.at][Opposite(f.on)] = lk[f.at][Opposite(f.on)],
         lk2[c][Opposite(f.on)] = f.at, lk2[c][f.on] = lk[c][f.on],
         \A x \in F \ {c} : lk2[x] = lk[x]
  PROVE  \E t2 : /\ Forest(nd, lk2, t2, F \cup {f.at})
                 /\ \A x \in F \ {c} : t2[x] = t[x]
                 /\ t2[c] = Below(t, c) \cup Frag(lk, t, f)
<1>1. PICK p, s, o : p = f.at /\ s = f.on /\ o = Opposite(s) OBVIOUS
<1>2. PICK q, d, e : q = lk[p][o] /\ d = lk[c][o] /\ e = lk[c][s] OBVIOUS
<1>3. /\ p \notin F /\ p # 0 /\ nd[p].key \in Int /\ nd[p].prio \in Int
      /\ s \in Sides /\ q \in F \cup {0}
      /\ \A x \in Below(t, q) : OnSide(nd, o, x, p) /\ Under(nd, x, p)
  BY <1>1, <1>2 DEF FrameOK
<1>4. o \in Sides /\ o # s /\ Opposite(o) = s /\ \A r \in Sides : r = s \/ r = o
  BY <1>1, <1>3, Mirror
<1>5. Frag(lk, t, f) = {p} \cup Below(t, q) BY <1>1, <1>2 DEF Frag
<1>6. /\ c # 0 /\ c \in t[c] /\ Below(t, c) = t[c] /\ nd[c].key \in Int /\ nd[c].prio \in Int /\ c # p
  <2>1. TreeAt(nd, lk, t, F, c) BY DEF Forest
  <2>2. c # 0 /\ c \in t[c] /\ Below(t, c) = t[c] BY RootIn
  <2> QED BY <1>3, <2>1, <2>2 DEF TreeAt
<1>7. /\ d \in F \cup {0} /\ d # c /\ Below(t, d) \subseteq t[c] \ {c}
      /\ e \in F \cup {0} /\ e # c /\ Below(t, e) \subseteq t[c] \ {c}
      /\ t[c] = {c} \cup Below(t, d) \cup Below(t, e)
      /\ \A x \in Below(t, d) : OnSide(nd, o, x, c) /\ Under(nd, x, c)
      /\ \A x \in Below(t, e) : OnSide(nd, s, x, c) /\ Under(nd, x, c)
  <2>1. /\ d \in F \cup {0} /\ d # c /\ Below(t, d) \subseteq t[c] \ {c}
        /\ \A x \in Below(t, d) : OnSide(nd, o, x, c) /\ Under(nd, x, c)
        /\ t[c] = {c} \cup Below(t, d) \cup Below(t, lk[c][Opposite(o)])
    BY <1>2, <1>4, KidsOf
  <2>2. /\ e \in F \cup {0} /\ e # c /\ Below(t, e) \subseteq t[c] \ {c}
        /\ \A x \in Below(t, e) : OnSide(nd, s, x, c) /\ Under(nd, x, c)
    BY <1>2, <1>3, KidsOf
  <2> QED BY <1>2, <1>4, <2>1, <2>2
<1>8. \A y \in {p} \cup Below(t, q) : OnSide(nd, s, c, y)
  BY <1>1, <1>5, <1>6
<1>9. q # c
  <2>1. ~OnSide(nd, s, c, c) BY <1>6 DEF OnSide
  <2> QED BY <1>6, <1>8, <2>1 DEF Below
<1>10. PICK F1 : F1 = F \ {c} OBVIOUS
<1>11. Forest(nd, lk, t, F1)
  <2>1. \A x \in F \ {c} : t[x] \cap {c} = {} OBVIOUS
  <2> QED BY <1>10, <2>1, Uproot
<1>12. d \in F1 \cup {0} /\ e \in F1 \cup {0} /\ q \in F1 \cup {0} /\ p \notin F1
  BY <1>3, <1>7, <1>9, <1>10
\* First the node that waited, over the inner tree and its own.
<1>13. PICK t1 : t1 = [x \in F1 \cup {p} |-> IF x = p THEN {p} \cup Below(t, d) \cup Below(t, q) ELSE t[x]]
  OBVIOUS
<1>14. t1[p] = {p} \cup Below(t, d) \cup Below(t, q) /\ \A x \in F1 : t1[x] = t[x] BY <1>12, <1>13
<1>15. lk2[p][s] = d /\ lk2[p][o] = q /\ lk2[c][s] = e /\ lk2[c][o] = p /\ \A x \in F1 : lk2[x] = lk[x]
  BY <1>1, <1>2, <1>10
<1>16. Forest(nd, lk2, t1, F1 \cup {p})
  <2>1. t1[p] = {p} \cup Below(t, lk2[p]["left"]) \cup Below(t, lk2[p]["right"])
    <3>1. s = "left" \/ s = "right" BY <1>3 DEF Sides
    <3> QED BY <1>1, <1>14, <1>15, <3>1 DEF Opposite
  <2>2. \A x \in Below(t, d) : OnSide(nd, s, x, p) /\ Under(nd, x, p)
    <3>1. ASSUME NEW x \in Below(t, d) PROVE OnSide(nd, s, x, p) /\ Under(nd, x, p)
      <4>1. x \in Below(t, c) /\ x # c BY <1>6, <1>7
      <4> QED BY <1>1, <1>5, <4>1
    <3> QED BY <3>1
  <2>3. ASSUME NEW r \in Sides
        PROVE  lk2[p][r] \in F1 \cup {0} /\ \A x \in Below(t, lk2[p][r]) : OnSide(nd, r, x, p) /\ Under(nd, x, p)
    BY <1>3, <1>4, <1>12, <1>15, <2>2
  <2>4. \A x \in F1 : lk2[x] = lk[x] /\ t1[x] = t[x] BY <1>14, <1>15
  <2>5. p # 0 /\ p \notin F1 /\ nd[p].key \in Int /\ nd[p].prio \in Int BY <1>3, <1>12
  <2> QED BY ONLY <1>11, <2>1, <2>3, <2>4, <2>5, Plant
\* Then the result over its outer tree and that.
<1>17. PICK F2 : F2 = F1 \cup {p} OBVIOUS
<1>18. PICK t2 : t2 = [x \in F2 \cup {c} |-> IF x = c THEN {c} \cup Below(t1, e) \cup Below(t1, p) ELSE t1[x]]
  OBVIOUS
<1>19. c \notin F2 /\ t2[c] = {c} \cup Below(t1, e) \cup Below(t1, p) /\ \A x \in F2 : t2[x] = t1[x]
  BY <1>6, <1>10, <1>17, <1>18
<1>20. Below(t1, e) = Below(t, e) /\ Below(t1, p) = {p} \cup Below(t, d) \cup Below(t, q)
  BY <1>3, <1>12, <1>14 DEF Below
<1>21. Forest(nd, lk2, t2, F2 \cup {c})
  <2>1. t2[c] = {c} \cup Below(t1, lk2[c]["left"]) \cup Below(t1, lk2[c]["right"])
    <3>1. s = "left" \/ s = "right" BY <1>3 DEF Sides
    <3> QED BY <1>1, <1>15, <1>19, <3>1 DEF Opposite
  <2>2. ASSUME NEW x \in Below(t1, p) PROVE OnSide(nd, o, x, c) /\ Under(nd, x, c)
    <3>1. nd[p].prio < nd[c].prio BY <1>1, <1>3, <1>6 DEF Under
    <3>2. CASE x = p
      <4>1. OnSide(nd, s, c, p) BY <1>8
      <4>2. OnSide(nd, o, p, c) BY <1>1, <1>3, <1>6, <4>1, Mirror
      <4> QED BY <1>3, <1>6, <3>1, <3>2, <4>2 DEF Under
    <3>3. CASE x \in Below(t, d) BY <1>7, <3>3
    <3>4. CASE x \in Below(t, q)
      <4>1. nd[x].key \in Int /\ nd[x].prio \in Int
        <5>1. x \in F BY <1>3, <3>4, Inside
        <5> QED BY <5>1 DEF Forest, TreeAt
      <4>2. OnSide(nd, s, c, x) BY <1>8, <3>4
      <4>3. OnSide(nd, o, x, c) BY <1>1, <1>3, <1>6, <4>1, <4>2, Mirror
      <4>4. Under(nd, x, p) BY <1>3, <3>4
      <4> QED BY <1>3, <1>6, <3>1, <4>1, <4>3, <4>4 DEF Under
    <3> QED BY <1>20, <2>2, <3>2, <3>3, <3>4
  <2>3. \A x \in Below(t1, e) : OnSide(nd, s, x, c) /\ Under(nd, x, c) BY <1>7, <1>20
  <2>4. ASSUME NEW r \in Sides
        PROVE  lk2[c][r] \in F2 \cup {0} /\ \A x \in Below(t1, lk2[c][r]) : OnSide(nd, r, x, c) /\ Under(nd, x, c)
    BY <1>4, <1>12, <1>15, <1>17, <2>2, <2>3
  <2>5. Forest(nd, lk2, t1, F2) BY <1>16, <1>17
  <2> QED BY <1>6, <1>19, <2>1, <2>4, <2>5, Plant
<1>22. F2 \cup {c} = F \cup {p} BY <1>10, <1>17
<1>23. t2[c] = Below(t, c) \cup Frag(lk, t, f) BY <1>5, <1>6, <1>7, <1>19, <1>20
<1>24. \A x \in F \ {c} : t2[x] = t[x] BY <1>10, <1>14, <1>17, <1>19
<1> QED BY <1>1, <1>21, <1>22, <1>23, <1>24

(***************************************************************************)
(* The invariant: between calls every map is a tree over its own nodes;    *)
(* during one, what is in hand and what waits are the rest of the heap,    *)
(* and hold what the call has made of its map so far.                      *)
(***************************************************************************)
TreapValues == {e[2] : e \in Entries}
TreapNodes == [key : Keys, value : TreapValues, prio : Prios]
Activations == [at : Addresses, on : Sides \cup {"delete"}]
Nullable == Addresses \cup {0}

TreapType ==
  /\ DOMAIN node \subseteq Addresses
  /\ node \in [DOMAIN node -> TreapNodes]
  /\ link \in [DOMAIN node -> [Sides -> Nullable]]
  /\ root \in [Maps -> Nullable] /\ size \in [Maps -> Int]
  /\ DOMAIN content = Maps
  /\ \A m \in Maps : IsFiniteSet(DOMAIN content[m]) /\ size[m] = Cardinality(DOMAIN content[m])
  /\ doing \in {"ready", "descend", "merge", "return"}
  /\ waiting \in Seq(Activations)
  /\ tree \in Nullable /\ mate \in Nullable /\ delta \in {-1, 0, 1}

Dead(w) == {x \in Ats(w) : \E i \in 1..Len(w) : w[i].at = x /\ w[i].on = "delete"}

JobType ==
  /\ doing # "merge" => mate = 0
  /\ doing = "ready" => tree = 0 /\ delta = 0 /\ waiting = <<>>
  /\ doing # "ready" => /\ job.map \in Maps /\ job.key \in Keys /\ job.op \in {"insert", "erase"}
                        /\ job.op = "insert" => job.value \in TreapValues
  /\ doing = "descend" => /\ delta = 0 /\ Dead(waiting) = {}
                          /\ job.op = "insert" => Addresses \ DOMAIN node # {}
  /\ doing = "merge" => delta = -1
  /\ delta = 1 => job.op = "insert"

Idle == IF doing = "ready" THEN Maps ELSE Maps \ {job.map}
InMaps(t, M) == UNION {Below(t, root[m]) : m \in M}
InHand(t) == Below(t, tree) \cup Below(t, mate)
Loose == DOMAIN node \ Ats(waiting)
Added == IF delta = 1 THEN {job.key} ELSE {}

\* The nodes of S hold what a map is to hold.
Holds(nd, c, S) ==
  /\ DOMAIN c = {nd[x].key : x \in S}
  /\ \A x \in S : c[nd[x].key] = nd[x].value
  /\ \A x, y \in S : nd[x].key = nd[y].key => x = y

BySide(k, s, j) == IF s = "left" THEN k < j ELSE k > j

IdleMaps(t) ==
  /\ \A m \in Idle : root[m] \in Loose \cup {0} /\ Holds(node, content[m], Below(t, root[m]))
  /\ \A m, o \in Idle : m # o => Below(t, root[m]) \cap Below(t, root[o]) = {}

Working(t) ==
  /\ tree \in Loose \cup {0} /\ mate \in Loose \cup {0}
  /\ doing = "descend" =>
       /\ Holds(node, content[job.map], DOMAIN node \ InMaps(t, Idle))
       /\ \A i \in 1..Len(waiting) : \A x \in Frag(link, t, waiting[i]) :
            BySide(job.key, waiting[i].on, node[x].key)
  /\ doing = "merge" =>
       \A x \in Below(t, tree), y \in Below(t, mate) : node[x].key < node[y].key
  /\ doing \in {"merge", "return"} =>
       /\ Holds(node, Outcome(content[job.map]), (DOMAIN node \ InMaps(t, Idle)) \ Dead(waiting))
       /\ Cardinality(DOMAIN Outcome(content[job.map])) = size[job.map] + delta

Shape(t) ==
  /\ Layout(node, link, t, Loose, waiting, InHand(t), Added, InMaps(t, Idle))
  /\ IdleMaps(t) /\ Working(t)

TreapInv == TreapType /\ JobType /\ \E t : Shape(t)

LEMMA HeapFacts ==
  ASSUME TreapType
  PROVE  /\ \A x \in DOMAIN node : /\ node[x].key \in Keys /\ node[x].key \in Int
                                   /\ node[x].prio \in Int /\ x # 0
         /\ \A x \in DOMAIN node, s \in Sides : link[x][s] \in Nullable
         /\ Keys \subseteq Int
<1>1. Keys \subseteq Int /\ Prios \subseteq Int /\ 0 \notin Addresses BY TreapAssumption DEF Keys
<1>2. \A x \in DOMAIN node : node[x] \in TreapNodes BY DEF TreapType
<1>3. \A x \in DOMAIN node : node[x].key \in Keys /\ node[x].prio \in Prios BY <1>2 DEF TreapNodes
<1>4. \A x \in DOMAIN node, s \in Sides : link[x][s] \in Nullable BY DEF TreapType
<1> QED BY <1>1, <1>3, <1>4 DEF TreapType

\* A root hangs on nothing of its tree.
LEMMA TopIs ==
  ASSUME NEW nd, NEW lk, NEW t, NEW F, Forest(nd, lk, t, F), NEW n \in F, NEW x \in t[n] \ {n}
  PROVE  n \notin t[x]
<1>1. /\ t[n] = {n} \cup Below(t, lk[n]["left"]) \cup Below(t, lk[n]["right"])
      /\ \A s \in Sides : lk[n][s] \in F \cup {0}
  BY DEF Forest, TreeAt
<1>2. PICK s \in Sides : x \in Below(t, lk[n][s]) BY <1>1 DEF Sides
<1>3. PICK c \in F \cup {0} : c = lk[n][s] BY <1>1
<1>4. t[x] \subseteq Below(t, c) BY <1>2, <1>3, Inside
<1>5. Below(t, c) \subseteq t[n] \ {n} BY <1>3, KidsOf
<1> QED BY <1>4, <1>5

LEMMA NobodyWaits ==
  ASSUME waiting = <<>>
  PROVE  Len(waiting) = 0 /\ Ats(waiting) = {} /\ Dead(waiting) = {} /\ Loose = DOMAIN node
         /\ \A lk, t : Frags(lk, t, waiting) = {}
<1>1. Len(waiting) = 0 /\ 1..Len(waiting) = {} BY EmptySeq
<1> QED BY <1>1 DEF Ats, Dead, Loose, Frags

LEMMA NothingWaits ==
  ASSUME waiting = <<>>, NEW t, NEW X, NEW K, NEW O
  PROVE  Layout(node, link, t, Loose, waiting, X, K, O) <=>
           /\ Forest(node, link, t, DOMAIN node) /\ DOMAIN node = X \cup O /\ X \cap O = {}
           /\ \A x \in O : t[x] \subseteq O
<1>1. /\ Len(waiting) = 0 /\ Ats(waiting) = {} /\ Loose = DOMAIN node
      /\ Frags(link, t, waiting) = {} /\ 1..Len(waiting) = {}
  BY NobodyWaits
<1>2. Stacked(node, link, t, Loose, waiting, X, K) BY <1>1 DEF Stacked
<1> QED BY <1>1, <1>2 DEF Layout

LEMMA TreapBegins == ASSUME TreapInit PROVE TreapInv
<1>1. DOMAIN node = {} /\ DOMAIN link = {} /\ waiting = <<>> /\ tree = 0 /\ mate = 0 /\ doing = "ready"
  BY DEF TreapInit
<1>2. TreapType
  <2>1. node \in [DOMAIN node -> TreapNodes] /\ link \in [DOMAIN node -> [Sides -> Nullable]]
    BY DEF TreapInit
  <2>2. root \in [Maps -> Nullable] /\ size \in [Maps -> Int] BY DEF TreapInit, Nullable
  <2>3. \A m \in Maps : DOMAIN content[m] = {} /\ size[m] = 0 BY DEF TreapInit, NoKeys
  <2>4. DOMAIN content = Maps BY DEF TreapInit
  <2>5. waiting \in Seq(Activations) BY <1>1, EmptySeq
  <2> QED BY <1>1, <2>1, <2>2, <2>3, <2>4, <2>5, FS_EmptySet DEF TreapType, TreapInit, Nullable
<1>3. JobType BY <1>1 DEF JobType, TreapInit
<1>4. ASSUME NEW t PROVE Shape(t)
  <2>1. \A m \in Maps : root[m] = 0 /\ content[m] = NoKeys BY DEF TreapInit
  <2>2. \A m \in Maps : Below(t, root[m]) = {} BY <2>1 DEF Below
  <2>3. InHand(t) = {} /\ InMaps(t, Idle) = {} /\ Idle = Maps BY <1>1, <2>2 DEF InHand, InMaps, Idle, Below
  <2>4. Layout(node, link, t, Loose, waiting, InHand(t), Added, InMaps(t, Idle))
    <3>1. Forest(node, link, t, DOMAIN node) BY <1>1 DEF Forest
    <3> QED BY <1>1, <2>3, <3>1, NothingWaits
  <2>5. IdleMaps(t) BY <2>1, <2>2, <2>3 DEF IdleMaps, Holds, NoKeys
  <2>6. Working(t) BY <1>1 DEF Working
  <2> QED BY <2>4, <2>5, <2>6 DEF Shape
<1> QED BY <1>2, <1>3, <1>4 DEF TreapInv

LEMMA StartKeeps ==
  ASSUME TreapInv, NEW op \in {"insert", "erase"}, NEW m \in Maps, NEW k \in Keys, NEW v, NEW assign,
         op = "insert" => v \in TreapValues /\ Addresses \ DOMAIN node # {}, Start(op, m, k, v, assign)
  PROVE  TreapInv'
<1>1. TreapType /\ JobType BY DEF TreapInv
<1>2. /\ doing = "ready" /\ doing' = "descend" /\ tree' = root[m] /\ tree = 0 /\ mate = 0 /\ delta = 0
      /\ waiting = <<>> /\ UNCHANGED <<node, link, root, size, content, waiting, mate, delta>>
      /\ job' = [op |-> op, map |-> m, key |-> k, value |-> v, assign |-> assign]
  BY <1>1 DEF Start, JobType, heapVars, mapVars
<1>3. TreapType'
  <2>1. root[m] \in Nullable BY <1>1 DEF TreapType
  <2> QED BY <1>1, <1>2, <2>1 DEF TreapType
<1>4. Dead(waiting) = {} BY <1>2, NobodyWaits
<1>5. job'.op = op /\ job'.map = m /\ job'.key = k /\ job'.value = v BY <1>2
<1>6. JobType' BY <1>2, <1>4, <1>5 DEF JobType
<1>7. PICK t : Shape(t) BY DEF TreapInv
<1>8. Idle = Maps /\ InHand(t) = {} BY <1>2 DEF Idle, InHand, Below
<1>9. /\ Forest(node, link, t, DOMAIN node) /\ DOMAIN node = InMaps(t, Maps) /\ Loose = DOMAIN node
      /\ \A x \in InMaps(t, Maps) : t[x] \subseteq InMaps(t, Maps)
  <2>1. Layout(node, link, t, Loose, waiting, {}, Added, InMaps(t, Maps)) BY <1>7, <1>8 DEF Shape
  <2>2. Loose = DOMAIN node BY <1>2, NobodyWaits
  <2>3. /\ Forest(node, link, t, DOMAIN node) /\ DOMAIN node = {} \cup InMaps(t, Maps)
        /\ \A x \in InMaps(t, Maps) : t[x] \subseteq InMaps(t, Maps)
    <3>1. PICK X, K, O : X = {} /\ K = Added /\ O = InMaps(t, Maps) OBVIOUS
    <3>2. Layout(node, link, t, Loose, waiting, X, K, O) BY <2>1, <3>1
    <3>3. Forest(node, link, t, DOMAIN node) /\ DOMAIN node = X \cup O /\ \A x \in O : t[x] \subseteq O
      BY <1>2, <3>2, NothingWaits
    <3> QED BY <3>1, <3>3
  <2> QED BY <2>2, <2>3
<1>10. /\ \A o \in Maps : root[o] \in DOMAIN node \cup {0} /\ Holds(node, content[o], Below(t, root[o]))
       /\ \A o, p \in Maps : o # p => Below(t, root[o]) \cap Below(t, root[p]) = {}
  BY <1>7, <1>8, <1>9 DEF Shape, IdleMaps
<1>11. PICK X, O : X = Below(t, root[m]) /\ O = InMaps(t, Maps \ {m}) OBVIOUS
<1>12. DOMAIN node = X \cup O /\ X \cap O = {} BY <1>9, <1>10, <1>11 DEF InMaps
<1>13. \A x \in O : t[x] \subseteq O
  <2>1. ASSUME NEW x \in O PROVE t[x] \subseteq O
    <3>1. PICK o \in Maps \ {m} : x \in Below(t, root[o]) BY <1>11, <2>1 DEF InMaps
    <3>2. t[x] \subseteq Below(t, root[o]) BY <1>9, <1>10, <3>1, Inside
    <3> QED BY <1>11, <3>1, <3>2 DEF InMaps
  <2> QED BY <2>1
<1>14. Idle' = Maps \ {m} /\ Loose' = Loose /\ InHand(t)' = X /\ InMaps(t, Idle)' = O
  BY <1>2, <1>5, <1>11 DEF Idle, Loose, InHand, InMaps, Below
<1>15. Layout(node, link, t, Loose, waiting, X, Added', O)
  BY <1>2, <1>9, <1>12, <1>13, NothingWaits
<1>16. Working(t)'
  <2>1. Holds(node, content[m], DOMAIN node \ O)
    <3>1. DOMAIN node \ O = X BY <1>12
    <3> QED BY <1>10, <1>11, <3>1
  <2>2. 1..Len(waiting) = {} BY <1>2, NobodyWaits
  <2>3. root[m] \in Loose' \cup {0} /\ 0 \in Loose' \cup {0} BY <1>9, <1>10, <1>14
  <2> QED BY <1>2, <1>5, <1>14, <2>1, <2>2, <2>3 DEF Working
<1>17. IdleMaps(t)' BY <1>2, <1>9, <1>10, <1>14 DEF IdleMaps
<1>18. Shape(t)' BY <1>2, <1>14, <1>15, <1>16, <1>17 DEF Shape
<1> QED BY <1>3, <1>6, <1>18 DEF TreapInv

\* The heap in the middle of a call.
LEMMA MidCall ==
  ASSUME TreapType, JobType, NEW t, Shape(t), doing # "ready"
  PROVE  /\ Idle = Maps \ {job.map} /\ job.map \in Maps /\ job.key \in Int /\ job.key \in Keys
         /\ Forest(node, link, t, Loose) /\ Loose \subseteq DOMAIN node
         /\ InHand(t) \subseteq Loose /\ InMaps(t, Idle) \subseteq Loose
         /\ DOMAIN node = InHand(t) \cup InMaps(t, Idle) \cup Frags(link, t, waiting)
         /\ InHand(t) \cap InMaps(t, Idle) = {}
         /\ tree \in Loose \cup {0} /\ mate \in Loose \cup {0}
         /\ \A x \in Loose : node[x].key \in Int /\ node[x].prio \in Int
<1>1. Layout(node, link, t, Loose, waiting, InHand(t), Added, InMaps(t, Idle)) BY DEF Shape
<1>2. /\ Forest(node, link, t, Loose) /\ Loose \subseteq DOMAIN node
      /\ InHand(t) \subseteq Loose /\ InMaps(t, Idle) \subseteq Loose
      /\ DOMAIN node = InHand(t) \cup InMaps(t, Idle) \cup Frags(link, t, waiting)
      /\ InHand(t) \cap InMaps(t, Idle) = {}
  BY <1>1 DEF Layout
<1>3. Idle = Maps \ {job.map} /\ job.map \in Maps /\ job.key \in Keys BY DEF Idle, JobType
<1>4. tree \in Loose \cup {0} /\ mate \in Loose \cup {0} BY DEF Shape, Working
<1>5. \A x \in Loose : node[x].key \in Int /\ node[x].prio \in Int BY <1>2, HeapFacts
<1> QED BY <1>2, <1>3, <1>4, <1>5, HeapFacts

\* The other maps notice nothing of a step within a call.
LEMMA IdleKeeps ==
  ASSUME TreapType, JobType, NEW t, Shape(t), doing # "ready", doing' # "ready",
         UNCHANGED <<root, content, job>>,
         NEW t2, \A x \in InMaps(t, Idle) : t2[x] = t[x] /\ x \in Loose' /\ node'[x] = node[x]
  PROVE  Idle' = Idle /\ InMaps(t2, Idle)' = InMaps(t, Idle) /\ IdleMaps(t2)'
<1>1. Idle' = Idle BY DEF Idle
<1>2. ASSUME NEW m \in Idle
      PROVE  /\ Below(t2, root[m]) = Below(t, root[m]) /\ root[m] \in Loose' \cup {0}
             /\ \A x \in Below(t, root[m]) : node'[x] = node[x]
             /\ Holds(node, content[m], Below(t, root[m]))
  <2>1. root[m] \in Loose \cup {0} /\ Holds(node, content[m], Below(t, root[m])) BY DEF Shape, IdleMaps
  <2>2. Below(t, root[m]) \subseteq InMaps(t, Idle) BY DEF InMaps
  <2>3. root[m] # 0 => root[m] \in Below(t, root[m])
    <3>1. Forest(node, link, t, Loose) BY MidCall
    <3> QED BY <2>1, <3>1, RootIn
  <2>4. Below(t2, root[m]) = Below(t, root[m]) BY <2>2, <2>3 DEF Below
  <2> QED BY <2>1, <2>2, <2>3, <2>4
<1>3. ASSUME NEW m \in Idle PROVE Holds(node', content[m], Below(t2, root[m]))
  BY <1>2 DEF Holds
<1>4. \A m, o \in Idle : m # o => Below(t, root[m]) \cap Below(t, root[o]) = {} BY DEF Shape, IdleMaps
<1>5. \A m \in Idle : root'[m] = root[m] /\ content'[m] = content[m] OBVIOUS
<1>6. IdleMaps(t2)' BY <1>1, <1>2, <1>3, <1>4, <1>5 DEF IdleMaps
<1>7. InMaps(t2, Idle)' = InMaps(t, Idle)
  <2>1. \A x : x \in InMaps(t2, Idle)' <=> x \in InMaps(t, Idle) BY <1>1, <1>2, <1>5 DEF InMaps
  <2> QED BY <2>1
<1> QED BY <1>1, <1>6, <1>7

LEMMA Appended ==
  ASSUME NEW w \in Seq(Activations), NEW f \in Activations
  PROVE  /\ Len(Append(w, f)) = Len(w) + 1 /\ Append(w, f)[Len(w) + 1] = f
         /\ \A i \in 1..Len(w) : Append(w, f)[i] = w[i]
         /\ \A i : i \in 1..Len(Append(w, f)) <=> i \in 1..Len(w) \/ i = Len(w) + 1
         /\ Append(w, f) \in Seq(Activations)
         /\ f.on = "delete" => Dead(Append(w, f)) = Dead(w) \cup {f.at}
         /\ f.on # "delete" => Dead(Append(w, f)) = Dead(w)
<1>1. PICK v, l : v = Append(w, f) /\ l = Len(w) OBVIOUS
<1>2. /\ l \in Nat /\ Len(v) = l + 1 /\ v[l + 1] = f /\ \A i \in 1..l : v[i] = w[i]
      /\ v \in Seq(Activations)
  BY <1>1, AppendProperties
<1>3. \A i : i \in 1..Len(v) <=> i \in 1..l \/ i = l + 1 BY <1>2
<1>4. \A x : x \in Dead(v) <=> x \in Dead(w) \/ (x = f.at /\ f.on = "delete")
  <2>1. \A x : x \in Dead(v) <=> \E i \in 1..Len(v) : v[i].at = x /\ v[i].on = "delete" BY DEF Dead, Ats
  <2>2. \A x : x \in Dead(w) <=> \E i \in 1..l : w[i].at = x /\ w[i].on = "delete" BY <1>1 DEF Dead, Ats
  <2> QED BY <1>2, <1>3, <2>1, <2>2
<1>5. /\ f.on = "delete" => Dead(v) = Dead(w) \cup {f.at}
      /\ f.on # "delete" => Dead(v) = Dead(w)
  BY <1>4
<1> QED BY <1>1, <1>2, <1>3, <1>5

\* A child's tree fits where its parent waits for it.
LEMMA KidFits ==
  ASSUME NEW nd, NEW lk, NEW t, NEW F, Forest(nd, lk, t, F), NEW n \in F, NEW s \in Sides,
         NEW f, f.at = n, f.on = s, NEW K
  PROVE  /\ \A x \in Below(t, lk[n][s]) : Hangs(nd, lk, t, f, x, K)
         /\ Frag(lk, t, f) = {n} \cup Below(t, lk[n][Opposite(s)])
         /\ t[n] = Frag(lk, t, f) \cup Below(t, lk[n][s])
<1>1. Opposite(s) \in Sides /\ f.on # "delete" /\ (s = "left" \/ s = "right") BY Mirror DEF Sides
<1>2. Frag(lk, t, f) = {n} \cup Below(t, lk[n][Opposite(s)]) BY <1>1 DEF Frag
<1>3. /\ t[n] = {n} \cup Below(t, lk[n][s]) \cup Below(t, lk[n][Opposite(s)])
      /\ \A x \in Below(t, lk[n][s]) : OnSide(nd, s, x, n) /\ Under(nd, x, n)
      /\ Below(t, lk[n][s]) \subseteq t[n]
  BY KidsOf
<1>4. /\ \A y \in Below(t, lk[n][Opposite(s)]) : OnSide(nd, Opposite(s), y, n)
      /\ Below(t, lk[n][Opposite(s)]) \subseteq t[n]
  BY <1>1, KidsOf
<1>5. t[n] \subseteq F /\ nd[n].key \in Int BY DEF Forest, TreeAt
<1>6. \A x \in F : nd[x].key \in Int BY DEF Forest, TreeAt
<1>7. ASSUME NEW x \in Below(t, lk[n][s]) PROVE Hangs(nd, lk, t, f, x, K)
  <2>1. nd[x].key \in Int /\ OnSide(nd, s, x, n) /\ Under(nd, x, n) BY <1>3, <1>5, <1>6
  <2>2. ASSUME NEW y \in Below(t, lk[n][Opposite(s)]) PROVE OnSide(nd, s, x, y)
    <3>1. nd[y].key \in Int /\ OnSide(nd, Opposite(s), y, n) BY <1>4, <1>5, <1>6
    <3> QED BY <1>1, <1>5, <2>1, <3>1 DEF OnSide, Opposite
  <2>3. nd[x].key # nd[n].key BY <1>5, <2>1 DEF OnSide
  <2> QED BY <1>2, <2>1, <2>2, <2>3 DEF Hangs
<1> QED BY <1>2, <1>3, <1>7

LEMMA DescendKeeps == ASSUME TreapInv, Descend PROVE TreapInv'
<1>1. TreapType /\ JobType BY DEF TreapInv
<1>2. PICK t : Shape(t) BY DEF TreapInv
<1>3. PICK s, f, n : /\ s = (IF job.key < node[tree].key THEN "left" ELSE "right") /\ n = tree
                     /\ f = [at |-> tree, on |-> s]
  OBVIOUS
<1>4. /\ doing = "descend" /\ n # 0 /\ job.key # node[n].key /\ tree' = link[n][s]
      /\ waiting' = Append(waiting, f)
      /\ UNCHANGED <<node, link, root, size, content, job, doing, mate, delta>>
  BY <1>3 DEF Descend, Call, heapVars, mapVars
<1>5. n \in Loose /\ n \in DOMAIN node /\ mate = 0 /\ delta = 0 BY <1>1, <1>2, <1>3, <1>4, MidCall DEF JobType
<1>6. s \in Sides BY <1>3 DEF Sides
<1>7. waiting \in Seq(Activations) /\ f \in Activations
  BY <1>1, <1>3, <1>5, <1>6 DEF TreapType, Activations
<1>8. TreapType'
  <2>1. link[n][s] \in Nullable BY <1>1, <1>5, <1>6, HeapFacts
  <2>2. waiting' \in Seq(Activations) BY <1>4, <1>7, Appended
  <2> QED BY <1>1, <1>4, <2>1, <2>2 DEF TreapType
<1>9. f.at = n /\ f.on = s /\ f.on # "delete" BY <1>3, <1>6 DEF Sides
<1>10. Dead(waiting') = Dead(waiting) BY <1>4, <1>7, <1>9, Appended
<1>11. JobType' BY <1>1, <1>4, <1>10 DEF JobType
<1>12. PICK X2, O : X2 = Below(t, link[n][s]) /\ O = InMaps(t, Idle) OBVIOUS
<1>13. Forest(node, link, t, Loose) BY <1>1, <1>2, <1>4, MidCall
<1>14. InHand(t) = t[n] /\ InHand(t)' = X2 /\ n \in t[n]
  BY <1>3, <1>4, <1>5, <1>12, <1>13, RootIn DEF InHand, Below
<1>15. /\ Frag(link, t, f) = {n} \cup Below(t, link[n][Opposite(s)])
       /\ t[n] = Frag(link, t, f) \cup X2 /\ \A x \in X2 : Hangs(node, link, t, f, x, Added)
  BY <1>5, <1>6, <1>9, <1>12, <1>13, KidFits
<1>16. link[n][s] \in Loose \cup {0} /\ X2 \subseteq t[n] \ {n} /\ link[n][s] # n
  <2>1. PICK nd, lk, F : nd = node /\ lk = link /\ F = Loose OBVIOUS
  <2>2. Forest(nd, lk, t, F) /\ n \in F /\ s \in Sides BY <1>5, <1>6, <1>13, <2>1
  <2>3. lk[n][s] \in F \cup {0} /\ Below(t, lk[n][s]) \subseteq t[n] \ {n} /\ lk[n][s] # n
    BY ONLY <2>2, KidsOf
  <2> QED BY ONLY <1>12, <2>1, <2>3
<1>17. Layout(node, link, t, Loose \ {n}, waiting', X2, Added, O)
  <2>1. Layout(node, link, t, Loose, waiting, t[n], Added, O) BY <1>2, <1>12, <1>14 DEF Shape
  <2>2. \A x \in t[n] \ {n} : n \notin t[x] BY <1>5, <1>13, TopIs
  <2> QED BY <1>4, <1>6, <1>7, <1>9, <1>14, <1>15, <1>16, <2>1, <2>2, Pushed
<1>18. Loose' = Loose \ {n} BY <1>4, <1>17 DEF Layout, Loose
<1>19. Idle' = Idle /\ InMaps(t, Idle)' = O /\ IdleMaps(t)'
  <2>1. O \subseteq Loose \ {n} BY <1>17 DEF Layout
  <2> QED BY <1>1, <1>2, <1>4, <1>12, <1>18, <2>1, IdleKeeps
<1>20. ASSUME NEW x \in Frag(link, t, f) PROVE BySide(job.key, s, node[x].key)
  <2>1. job.key \in Int /\ node[n].key \in Int BY <1>1, <1>2, <1>4, <1>5, MidCall
  <2>2. BySide(job.key, s, node[n].key) BY <1>3, <1>4, <2>1 DEF BySide
  <2>3. CASE x = n BY <2>2, <2>3
  <2>4. CASE x \in Below(t, link[n][Opposite(s)])
    <3>1. Opposite(s) \in Sides BY <1>6, Mirror
    <3>2. OnSide(node, Opposite(s), x, n) /\ x \in t[n] BY <1>5, <1>13, <2>4, <3>1, KidsOf
    <3>3. node[x].key \in Int BY <1>1, <1>2, <1>4, <1>14, <3>2, MidCall
    <3> QED BY <1>6, <2>1, <2>2, <3>2, <3>3 DEF BySide, OnSide, Opposite, Sides
  <2> QED BY <1>15, <2>3, <2>4
<1>21. Working(t)'
  <2>1. tree' \in Loose' \cup {0} /\ mate' \in Loose' \cup {0} BY <1>4, <1>5, <1>16, <1>18
  <2>2. Holds(node, content[job.map], DOMAIN node \ O) BY <1>2, <1>4, <1>12 DEF Shape, Working
  <2>3. ASSUME NEW i \in 1..Len(waiting'), NEW x \in Frag(link, t, waiting'[i])
        PROVE  BySide(job.key, waiting'[i].on, node[x].key)
    <3>1. CASE i \in 1..Len(waiting)
      <4>1. waiting'[i] = waiting[i] BY <1>4, <1>7, <3>1, Appended
      <4> QED BY <1>2, <1>4, <2>3, <3>1, <4>1 DEF Shape, Working
    <3>2. CASE i = Len(waiting) + 1
      <4>1. waiting'[i] = f BY <1>4, <1>7, <3>2, Appended
      <4> QED BY <1>9, <1>20, <2>3, <4>1
    <3> QED BY <1>4, <1>7, <3>1, <3>2, Appended
  <2> QED BY <1>4, <1>19, <2>1, <2>2, <2>3 DEF Working
<1>22. Shape(t)'
  <2>1. Layout(node', link', t, Loose', waiting', InHand(t)', Added', InMaps(t, Idle)')
    <3>1. Added' = Added BY <1>4 DEF Added
    <3> QED BY <1>4, <1>14, <1>17, <1>18, <1>19, <3>1
  <2> QED BY <1>19, <1>21, <2>1 DEF Shape
<1> QED BY <1>8, <1>11, <1>22 DEF TreapInv

\* A waiting activation is as it was when its node and its tree are.
LEMMA SameFrame ==
  ASSUME NEW nd, NEW lk, NEW t, NEW F, NEW f, Forest(nd, lk, t, F), FrameOK(nd, lk, t, F, f),
         NEW nd2, NEW lk2, NEW t2, NEW F2, F \subseteq F2, f.at \notin F2,
         \A x \in F \cup {f.at} : /\ nd2[x].key = nd[x].key /\ nd2[x].prio = nd[x].prio
                                  /\ lk2[x] = lk[x],
         \A x \in F : t2[x] = t[x]
  PROVE  FrameOK(nd2, lk2, t2, F2, f) /\ Frag(lk2, t2, f) = Frag(lk, t, f)
<1>1. CASE f.on = "delete" BY <1>1 DEF FrameOK, Frag
<1>2. CASE f.on # "delete"
  <2>1. PICK q \in F \cup {0} : /\ q = lk[f.at][Opposite(f.on)] /\ q = lk2[f.at][Opposite(f.on)]
                                /\ \A x \in Below(t, q) : OnSide(nd, Opposite(f.on), x, f.at) /\ Under(nd, x, f.at)
    BY <1>2 DEF FrameOK
  <2>2. Below(t2, q) = Below(t, q) BY DEF Below
  <2>3. \A x \in Below(t, q) : x \in F BY Inside
  <2>4. \A x \in Below(t2, q) : OnSide(nd2, Opposite(f.on), x, f.at) /\ Under(nd2, x, f.at)
    BY <2>1, <2>2, <2>3 DEF OnSide, Under
  <2>5. Frag(lk2, t2, f) = Frag(lk, t, f) BY <1>2, <2>1, <2>2 DEF Frag
  <2> QED BY <1>2, <2>1, <2>4, <2>5 DEF FrameOK
<1> QED BY <1>1, <1>2

\* More may come into the hand, if it fits.
LEMMA Taken ==
  ASSUME NEW nd, NEW lk, NEW t, NEW F, NEW w, NEW X, NEW K, NEW O,
         Layout(nd, lk, t, F, w, X, K, O),
         NEW nd2, NEW lk2, NEW t2, NEW F2, NEW X2, NEW K2, Forest(nd2, lk2, t2, F2),
         \A x \in DOMAIN nd : /\ nd2[x].key = nd[x].key /\ nd2[x].prio = nd[x].prio
                              /\ lk2[x] = lk[x],
         \A x \in F : t2[x] = t[x],
         F \subseteq F2, \A x : x \in F2 <=> x \in DOMAIN nd2 /\ x \notin Ats(w),
         \A x : x \in DOMAIN nd2 <=> x \in DOMAIN nd \/ x \in X2,
         X \subseteq X2, X2 \subseteq F2, \A x \in X2 : x \in DOMAIN nd => x \in X, K \subseteq K2,
         \A i \in 1..Len(w) : \A x \in X2 : Hangs(nd2, lk, t, w[i], x, K2)
  PROVE  Layout(nd2, lk2, t2, F2, w, X2, K2, O)
<1>1. /\ Forest(nd, lk, t, F) /\ Stacked(nd, lk, t, F, w, X, K)
      /\ F = DOMAIN nd \ Ats(w) /\ X \subseteq F /\ O \subseteq F
      /\ DOMAIN nd = X \cup O \cup Frags(lk, t, w) /\ O \cap (X \cup Frags(lk, t, w)) = {}
      /\ \A x \in O : t[x] \subseteq O
  BY DEF Layout
<1>2. ASSUME NEW i \in 1..Len(w)
      PROVE  /\ FrameOK(nd2, lk2, t2, F2, w[i]) /\ Frag(lk2, t2, w[i]) = Frag(lk, t, w[i])
             /\ Frag(lk, t, w[i]) \subseteq DOMAIN nd /\ w[i].at \in Frag(lk, t, w[i])
  <2>1. w[i].at \in Frag(lk, t, w[i]) BY DEF Frag
  <2>2. Frag(lk, t, w[i]) \subseteq DOMAIN nd BY <1>1 DEF Frags
  <2>3. w[i].at \notin F2 BY DEF Ats
  <2>4. FrameOK(nd, lk, t, F, w[i]) BY <1>1 DEF Stacked
  <2>5. F \subseteq DOMAIN nd BY <1>1
  <2>6. \A x \in F \cup {w[i].at} : /\ nd2[x].key = nd[x].key /\ nd2[x].prio = nd[x].prio
                                    /\ lk2[x] = lk[x]
    BY <2>1, <2>2, <2>5
  <2>7. FrameOK(nd2, lk2, t2, F2, w[i]) /\ Frag(lk2, t2, w[i]) = Frag(lk, t, w[i])
    BY <1>1, <2>3, <2>4, <2>6, SameFrame
  <2> QED BY <2>1, <2>2, <2>7
<1>3. ASSUME NEW i \in 1..Len(w), NEW x \in X2 PROVE Hangs(nd2, lk2, t2, w[i], x, K2)
  BY <1>2 DEF Hangs
<1>4. ASSUME NEW i \in 1..Len(w), NEW j \in 1..Len(w), i < j, NEW x \in Frag(lk2, t2, w[j])
      PROVE  Hangs(nd2, lk2, t2, w[i], x, K2)
  <2>1. Hangs(nd, lk, t, w[i], x, K) BY <1>1, <1>2, <1>4 DEF Stacked
  <2>2. x \in DOMAIN nd /\ w[i].at \in DOMAIN nd BY <1>2, <1>4
  <2>3. ASSUME NEW y \in Frag(lk2, t2, w[i]), OnSide(nd, w[i].on, x, y) PROVE OnSide(nd2, w[i].on, x, y)
    BY <1>2, <2>2, <2>3 DEF OnSide
  <2> QED BY <1>2, <2>1, <2>2, <2>3 DEF Hangs, Under
<1>5. Stacked(nd2, lk2, t2, F2, w, X2, K2) BY <1>2, <1>3, <1>4 DEF Stacked
<1>6. Frags(lk2, t2, w) = Frags(lk, t, w)
  <2>1. \A x : x \in Frags(lk2, t2, w) <=> x \in Frags(lk, t, w) BY <1>2 DEF Frags
  <2> QED BY <2>1
<1>7. Frags(lk, t, w) \subseteq DOMAIN nd BY <1>1
<1>8. DOMAIN nd2 = X2 \cup O \cup Frags(lk2, t2, w) /\ O \cap (X2 \cup Frags(lk2, t2, w)) = {}
  BY <1>1, <1>6, <1>7
<1>9. O \subseteq F2 /\ (\A x \in O : t2[x] \subseteq O) /\ F2 = DOMAIN nd2 \ Ats(w) BY <1>1
<1> QED BY <1>5, <1>8, <1>9 DEF Layout

\* A key that was searched for to the end is nowhere in the map.
LEMMA NowhereElse ==
  ASSUME TreapType, JobType, NEW t, Shape(t), doing = "descend", tree = 0
  PROVE  /\ InHand(t) = {} /\ \A x \in DOMAIN node \ InMaps(t, Idle) : node[x].key # job.key
         /\ job.key \notin DOMAIN content[job.map]
         /\ \A i \in 1..Len(waiting) : \A x \in Frag(link, t, waiting[i]) :
              BySide(job.key, waiting[i].on, node[x].key)
<1>1. mate = 0 /\ InHand(t) = {} BY DEF JobType, InHand, Below
<1>2. DOMAIN node = InHand(t) \cup InMaps(t, Idle) \cup Frags(link, t, waiting) BY MidCall
<1>3. \A i \in 1..Len(waiting) : \A x \in Frag(link, t, waiting[i]) :
        BySide(job.key, waiting[i].on, node[x].key)
  BY DEF Shape, Working
<1>4. ASSUME NEW x \in DOMAIN node \ InMaps(t, Idle) PROVE node[x].key # job.key
  <2>1. PICK i \in 1..Len(waiting) : x \in Frag(link, t, waiting[i]) BY <1>1, <1>2, <1>4 DEF Frags
  <2>2. BySide(job.key, waiting[i].on, node[x].key) BY <1>3, <2>1
  <2>3. job.key \in Int /\ node[x].key \in Int BY HeapFacts, MidCall
  <2> QED BY <2>2, <2>3 DEF BySide
<1>5. Holds(node, content[job.map], DOMAIN node \ InMaps(t, Idle)) BY DEF Shape, Working
<1> QED BY <1>1, <1>3, <1>4, <1>5 DEF Holds

LEMMA ContentFacts ==
  ASSUME TreapType, JobType, doing # "ready"
  PROVE  /\ IsFiniteSet(DOMAIN content[job.map]) /\ size[job.map] \in Int
         /\ size[job.map] = Cardinality(DOMAIN content[job.map])
<1>1. job.map \in Maps BY DEF JobType
<1> QED BY <1>1 DEF TreapType

\* The call that found nothing to erase changes nothing.
LEMMA NotFoundKeeps == ASSUME TreapInv, NotFound PROVE TreapInv'
<1>1. TreapType /\ JobType BY DEF TreapInv
<1>2. PICK t : Shape(t) BY DEF TreapInv
<1>3. /\ doing = "descend" /\ doing' = "return" /\ tree = 0 /\ job.op = "erase" /\ delta = 0
      /\ UNCHANGED <<node, link, root, size, content, job, waiting, tree, mate, delta>>
  BY <1>1 DEF NotFound, heapVars, mapVars, JobType
<1>4. TreapType' BY <1>1, <1>3 DEF TreapType
<1>5. JobType' BY <1>1, <1>3 DEF JobType
<1>6. PICK c : c = content[job.map] OBVIOUS
<1>7. job.key \notin DOMAIN c BY <1>1, <1>2, <1>3, <1>6, NowhereElse
<1>8. DOMAIN Outcome(c) = DOMAIN c /\ \A k \in DOMAIN c : Outcome(c)[k] = c[k]
  BY <1>3, <1>7 DEF Outcome, Without
<1>9. Layout(node, link, t, Loose, waiting, InHand(t), Added, InMaps(t, Idle)) BY <1>2 DEF Shape
<1>10. /\ Loose' = Loose /\ InHand(t)' = InHand(t) /\ Added' = Added
       /\ Idle' = Idle /\ InMaps(t, Idle)' = InMaps(t, Idle)
  BY <1>3 DEF Loose, InHand, Added, InMaps, Idle
<1>11. Layout(node, link, t, Loose, waiting, InHand(t), Added, InMaps(t, Idle))' BY <1>3, <1>9, <1>10
<1>12. IdleMaps(t)' BY <1>2, <1>3, <1>10 DEF Shape, IdleMaps
<1>13. Working(t)'
  <2>1. Dead(waiting) = {} BY <1>1, <1>3 DEF JobType
  <2>2. Holds(node, c, DOMAIN node \ InMaps(t, Idle)) BY <1>2, <1>3, <1>6 DEF Shape, Working
  <2>3. Holds(node, Outcome(c), DOMAIN node \ InMaps(t, Idle)) BY <1>8, <2>2 DEF Holds
  <2>4. Cardinality(DOMAIN Outcome(c)) = size[job.map] + delta BY <1>1, <1>3, <1>6, <1>8, ContentFacts
  <2>5. Outcome(c)' = Outcome(c) BY <1>3 DEF Outcome
  <2>6. (DOMAIN node \ InMaps(t, Idle)) \ Dead(waiting) = DOMAIN node \ InMaps(t, Idle) BY <2>1
  <2>7. tree \in Loose \cup {0} /\ mate \in Loose \cup {0} BY <1>2 DEF Shape, Working
  <2>8. Outcome(content[job.map])' = Outcome(c) BY <1>3, <1>6, <2>5 DEF Outcome
  <2>9. Holds(node, Outcome(content[job.map]), (DOMAIN node \ InMaps(t, Idle)) \ Dead(waiting))'
    BY <1>3, <1>10, <2>3, <2>6, <2>8
  <2>10. (Cardinality(DOMAIN Outcome(content[job.map])) = size[job.map] + delta)'
    BY <1>3, <2>4, <2>8
  <2> QED BY <1>3, <1>10, <2>7, <2>9, <2>10 DEF Working
<1>14. Shape(t)' BY <1>11, <1>12, <1>13 DEF Shape
<1> QED BY <1>4, <1>5, <1>14 DEF TreapInv

\* An insertion that found its key.
LEMMA MatchKeeps == ASSUME TreapInv, Match PROVE TreapInv'
<1>1. TreapType /\ JobType BY DEF TreapInv
<1>2. PICK t : Shape(t) BY DEF TreapInv
<1>3. PICK n, c, O : n = tree /\ c = content[job.map] /\ O = InMaps(t, Idle) OBVIOUS
<1>4. /\ doing = "descend" /\ doing' = "return" /\ n # 0 /\ job.op = "insert" /\ delta = 0
      /\ node[n].key = job.key
      /\ node' = (IF job.assign THEN [node EXCEPT ![n].value = job.value] ELSE node)
      /\ UNCHANGED <<link, root, size, content, job, waiting, tree, mate, delta>>
  BY <1>1, <1>3 DEF Match, mapVars, JobType
<1>5. Forest(node, link, t, Loose) /\ n \in Loose /\ n \in DOMAIN node /\ Loose \subseteq DOMAIN node
  BY <1>1, <1>2, <1>3, <1>4, MidCall
<1>6. /\ DOMAIN node' = DOMAIN node /\ \A x \in DOMAIN node : node'[x] \in TreapNodes
      /\ \A x \in DOMAIN node : node'[x].key = node[x].key /\ node'[x].prio = node[x].prio
      /\ \A x \in DOMAIN node \ {n} : node'[x] = node[x]
      /\ node'[n].value = IF job.assign THEN job.value ELSE node[n].value
      /\ node' = [x \in DOMAIN node |-> node'[x]]
  <2>1. \A x \in DOMAIN node : node[x] \in TreapNodes BY <1>1 DEF TreapType
  <2>2. CASE job.assign
    <3>1. job.value \in TreapValues BY <1>1, <1>4 DEF JobType
    <3> QED BY <1>1, <1>4, <1>5, <2>1, <2>2, <3>1 DEF TreapType, TreapNodes
  <2>3. CASE ~job.assign BY <1>1, <1>4, <2>1, <2>3 DEF TreapType
  <2> QED BY <2>2, <2>3
<1>7. TreapType'
  <2>1. node' \in [DOMAIN node' -> TreapNodes] BY <1>6
  <2> QED BY <1>1, <1>4, <1>6, <2>1 DEF TreapType
<1>8. JobType' BY <1>1, <1>4 DEF JobType
<1>9. Layout(node, link, t, Loose, waiting, InHand(t), Added, O) BY <1>2, <1>3 DEF Shape
<1>10. Loose' = Loose /\ InHand(t)' = InHand(t) /\ Added' = Added
  BY <1>4, <1>6 DEF Loose, InHand, Added
<1>11. Layout(node', link, t, Loose, waiting, InHand(t), Added, O)
  <2>1. Forest(node', link, t, Loose) BY <1>5, <1>6, SameForest
  <2>2. ASSUME NEW i \in 1..Len(waiting), NEW x \in InHand(t)
        PROVE  Hangs(node', link, t, waiting[i], x, Added)
    <3>1. Hangs(node, link, t, waiting[i], x, Added) BY <1>9 DEF Layout, Stacked
    <3>2. x \in DOMAIN node /\ Frag(link, t, waiting[i]) \subseteq DOMAIN node BY <1>9 DEF Layout, Frags
    <3>3. waiting[i].at \in Frag(link, t, waiting[i]) BY DEF Frag
    <3> QED BY <1>6, <3>1, <3>2, <3>3 DEF Hangs, OnSide, Under
  <2>3. InHand(t) \subseteq Loose /\ InHand(t) \subseteq DOMAIN node BY <1>1, <1>2, <1>4, MidCall
  <2>4. Loose = DOMAIN node' \ Ats(waiting) BY <1>6 DEF Loose
  <2>5. DOMAIN node' = DOMAIN node \cup InHand(t) /\ InHand(t) \cap DOMAIN node = InHand(t)
    BY <1>6, <2>3
  <2>6. \A x \in DOMAIN node : /\ node'[x].key = node[x].key /\ node'[x].prio = node[x].prio
                               /\ link[x] = link[x]
    BY <1>6
  <2> QED BY <1>9, <2>1, <2>2, <2>3, <2>4, <2>5, <2>6, Taken
<1>12. n \in DOMAIN node \ O
  <2>1. n \in InHand(t) BY <1>3, <1>4, <1>5, RootIn DEF InHand
  <2> QED BY <1>1, <1>2, <1>3, <1>4, <1>5, <2>1, MidCall
<1>13. Idle' = Idle /\ InMaps(t, Idle)' = O /\ IdleMaps(t)'
  <2>1. O \subseteq Loose BY <1>9 DEF Layout
  <2> QED BY <1>1, <1>2, <1>3, <1>4, <1>5, <1>6, <1>10, <1>12, <2>1, IdleKeeps
<1>14. Holds(node, c, DOMAIN node \ O) BY <1>2, <1>3, <1>4 DEF Shape, Working
<1>15. job.key \in DOMAIN c BY <1>4, <1>12, <1>14 DEF Holds
<1>16. DOMAIN Outcome(c) = DOMAIN c /\ Holds(node', Outcome(c), DOMAIN node \ O)
  <2>1. CASE job.assign
    <3>1. Outcome(c) = With(c, job.key, job.value) BY <1>4, <2>1 DEF Outcome
    <3>2. /\ DOMAIN Outcome(c) = DOMAIN c /\ Outcome(c)[job.key] = job.value
          /\ \A k \in DOMAIN c \ {job.key} : Outcome(c)[k] = c[k]
      BY <1>15, <3>1 DEF With
    <3>3. ASSUME NEW x \in DOMAIN node \ O PROVE Outcome(c)[node'[x].key] = node'[x].value
      <4>1. CASE x = n BY <1>4, <1>6, <1>12, <2>1, <3>2, <4>1
      <4>2. CASE x # n
        <5>1. node[x].key # job.key /\ node[x].key \in DOMAIN c BY <1>4, <1>12, <1>14, <4>2 DEF Holds
        <5> QED BY <1>6, <1>14, <3>2, <4>2, <5>1 DEF Holds
      <4> QED BY <4>1, <4>2
    <3> QED BY <1>6, <1>14, <3>2, <3>3 DEF Holds
  <2>2. CASE ~job.assign
    <3>1. Outcome(c) = c BY <1>4, <1>15, <2>2 DEF Outcome
    <3> QED BY <1>4, <1>14, <2>2, <3>1
  <2> QED BY <2>1, <2>2
<1>17. Working(t)'
  <2>1. Dead(waiting) = {} BY <1>1, <1>4 DEF JobType
  <2>2. Cardinality(DOMAIN Outcome(c)) = size[job.map] + delta
    BY <1>1, <1>3, <1>4, <1>16, ContentFacts
  <2>3. (DOMAIN node \ O) \ Dead(waiting) = DOMAIN node \ O BY <2>1
  <2>4. tree \in Loose \cup {0} /\ mate \in Loose \cup {0} BY <1>2 DEF Shape, Working
  <2>5. Outcome(content[job.map])' = Outcome(c) BY <1>3, <1>4 DEF Outcome
  <2>6. Holds(node, Outcome(content[job.map]), (DOMAIN node \ InMaps(t, Idle)) \ Dead(waiting))'
    BY <1>4, <1>6, <1>13, <1>16, <2>3, <2>5
  <2>7. (Cardinality(DOMAIN Outcome(content[job.map])) = size[job.map] + delta)'
    BY <1>4, <2>2, <2>5
  <2> QED BY <1>4, <1>10, <2>4, <2>6, <2>7 DEF Working
<1>18. Shape(t)'
  <2>1. Layout(node', link', t, Loose', waiting', InHand(t)', Added', InMaps(t, Idle)')
    BY <1>4, <1>10, <1>11, <1>13
  <2> QED BY <1>13, <1>17, <2>1 DEF Shape
<1> QED BY <1>7, <1>8, <1>18 DEF TreapInv

\* An insertion that did not: the new node is in hand, and its priority may
\* be above that of every node that waits.
LEMMA NewNodeKeeps == ASSUME TreapInv, NewNode PROVE TreapInv'
<1>1. TreapType /\ JobType BY DEF TreapInv
<1>2. PICK t : Shape(t) BY DEF TreapInv
<1>3. PICK n, c, O : n = Malloc(Addresses \ DOMAIN node, job.key) /\ c = content[job.map] /\ O = InMaps(t, Idle)
  OBVIOUS
<1>4. /\ doing = "descend" /\ doing' = "return" /\ tree = 0 /\ job.op = "insert" /\ delta = 0 /\ mate = 0
      /\ link' = With(link, n, [side \in Sides |-> 0]) /\ tree' = n /\ delta' = 1
      /\ UNCHANGED <<root, size, content, job, waiting, mate>>
  BY <1>1, <1>3 DEF NewNode, mapVars, JobType
<1>5. PICK p \in Prios : node' = With(node, n, [key |-> job.key, value |-> job.value, prio |-> p])
  BY <1>3 DEF NewNode
<1>6. /\ job.key \in Keys /\ job.value \in TreapValues /\ Addresses \ DOMAIN node # {}
      /\ waiting \in Seq(Activations) /\ job.key \in Int /\ p \in Int
  BY <1>1, <1>4, HeapFacts, TreapAssumption DEF JobType, TreapType
<1>7. n \in Addresses /\ n \notin DOMAIN node /\ n # 0
  BY <1>3, <1>6, TreapAssumption
<1>8. PICK cell : cell = [key |-> job.key, value |-> job.value, prio |-> p] OBVIOUS
<1>9. /\ DOMAIN node' = DOMAIN node \cup {n} /\ node'[n] = cell /\ \A x \in DOMAIN node : node'[x] = node[x]
      /\ DOMAIN link' = DOMAIN node \cup {n} /\ \A x \in DOMAIN node : link'[x] = link[x]
      /\ \A s \in Sides : link'[n][s] = 0
  <2>1. DOMAIN link = DOMAIN node BY <1>1 DEF TreapType
  <2> QED BY <1>4, <1>5, <1>7, <1>8, <2>1 DEF With
<1>10. cell \in TreapNodes /\ cell.key = job.key /\ cell.value = job.value /\ cell.prio = p
  BY <1>6, <1>8 DEF TreapNodes
<1>11. TreapType'
  <2>1. \A x \in DOMAIN node' : node'[x] \in TreapNodes BY <1>1, <1>9, <1>10 DEF TreapType
  <2>2. node' \in [DOMAIN node' -> TreapNodes] BY <1>5, <2>1 DEF With
  <2>3. [side \in Sides |-> 0] \in [Sides -> Nullable] BY DEF Nullable
  <2>4. \A x \in DOMAIN node : link[x] \in [Sides -> Nullable] BY <1>1 DEF TreapType
  <2>5. link' \in [DOMAIN node' -> [Sides -> Nullable]] BY <1>4, <1>7, <1>9, <2>3, <2>4 DEF With
  <2> QED BY <1>1, <1>4, <1>7, <1>9, <2>2, <2>5 DEF TreapType, Nullable
<1>12. JobType' BY <1>1, <1>4 DEF JobType
<1>13. Layout(node, link, t, Loose, waiting, {}, Added, O)
  BY <1>1, <1>2, <1>3, <1>4, NowhereElse DEF Shape
<1>14. Forest(node, link, t, Loose) /\ Loose \subseteq DOMAIN node BY <1>1, <1>2, <1>4, MidCall
<1>15. PICK t2 : t2 = [x \in Loose \cup {n} |-> IF x = n THEN {n} ELSE t[x]] OBVIOUS
<1>16. t2[n] = {n} /\ \A x \in Loose : t2[x] = t[x] BY <1>7, <1>14, <1>15
<1>17. Ats(waiting) \subseteq DOMAIN node /\ n \notin Ats(waiting)
  <2>1. Frags(link, t, waiting) \subseteq DOMAIN node BY <1>13 DEF Layout
  <2>2. Ats(waiting) \subseteq Frags(link, t, waiting) BY DEF Ats, Frags, Frag
  <2> QED BY <1>7, <2>1, <2>2
<1>18. Loose' = Loose \cup {n} /\ n \notin Loose BY <1>4, <1>7, <1>9, <1>14, <1>17 DEF Loose
<1>19. Forest(node', link', t2, Loose')
  <2>1. Forest(node', link', t2, Loose) BY <1>9, <1>14, <1>16, SameForest
  <2>2. node'[n].key \in Int /\ node'[n].prio \in Int BY <1>6, <1>9, <1>10
  <2>3. \A s \in Sides : Below(t2, link'[n][s]) = {} BY <1>9 DEF Below
  <2>4. t2[n] = {n} \cup Below(t2, link'[n]["left"]) \cup Below(t2, link'[n]["right"])
    BY <1>16, <2>3 DEF Sides
  <2>5. \A s \in Sides : /\ link'[n][s] \in Loose \cup {0}
                         /\ \A x \in Below(t2, link'[n][s]) : OnSide(node', s, x, n) /\ Under(node', x, n)
    BY <1>9, <2>3
  <2> QED BY <1>7, <1>18, <2>1, <2>2, <2>4, <2>5, Plant
<1>20. Added' = {job.key} /\ Added = {} BY <1>4 DEF Added
<1>21. ASSUME NEW i \in 1..Len(waiting) PROVE Hangs(node', link, t, waiting[i], n, Added')
  <2>1. \A x \in Frag(link, t, waiting[i]) : BySide(job.key, waiting[i].on, node[x].key)
    BY <1>1, <1>2, <1>4, NowhereElse
  <2>2. Frag(link, t, waiting[i]) \subseteq DOMAIN node BY <1>13 DEF Layout, Frags
  <2>3. waiting[i].at \in Frag(link, t, waiting[i]) BY DEF Frag
  <2>4. \A x \in Frag(link, t, waiting[i]) : OnSide(node', waiting[i].on, n, x)
    BY <1>9, <1>10, <2>1, <2>2 DEF BySide, OnSide
  <2>5. node'[n].key # node'[waiting[i].at].key
    <3>1. BySide(job.key, waiting[i].on, node[waiting[i].at].key) /\ node[waiting[i].at].key \in Int
      BY <1>1, <2>1, <2>2, <2>3, HeapFacts
    <3> QED BY <1>6, <1>9, <1>10, <2>2, <2>3, <3>1 DEF BySide
  <2>6. node'[n].key \in Added' BY <1>9, <1>10, <1>20
  <2> QED BY <2>4, <2>5, <2>6 DEF Hangs
<1>22. Layout(node', link', t2, Loose', waiting, {n}, Added', O)
  <2>1. Loose' = DOMAIN node' \ Ats(waiting) BY <1>4 DEF Loose
  <2>2. PICK X, Y : X = {n} /\ Y = {} OBVIOUS
  <2>3. /\ DOMAIN node' = DOMAIN node \cup X /\ X \cap DOMAIN node = Y /\ Y \subseteq X
        /\ Layout(node, link, t, Loose, waiting, Y, Added, O)
        /\ X \subseteq Loose' /\ Loose \subseteq Loose' /\ Added \subseteq Added'
    BY <1>7, <1>9, <1>13, <1>18, <1>20, <2>2
  <2>4. \A x \in DOMAIN node : /\ node'[x].key = node[x].key /\ node'[x].prio = node[x].prio
                               /\ link'[x] = link[x]
    BY <1>9
  <2>5. \A i \in 1..Len(waiting) : \A x \in X : Hangs(node', link, t, waiting[i], x, Added')
    BY <1>21, <2>2
  <2>6. Layout(node', link', t2, Loose', waiting, X, Added', O)
    <3>1. PICK nd2, lk2, F2, K, K2 : /\ nd2 = node' /\ lk2 = link' /\ F2 = Loose' /\ K = Added /\ K2 = Added'
      OBVIOUS
    <3>2. /\ Layout(node, link, t, Loose, waiting, Y, K, O) /\ Forest(nd2, lk2, t2, F2)
          /\ \A x \in DOMAIN node : /\ nd2[x].key = node[x].key /\ nd2[x].prio = node[x].prio
                                     /\ lk2[x] = link[x]
          /\ \A x \in Loose : t2[x] = t[x]
          /\ Loose \subseteq F2 /\ \A x : x \in F2 <=> x \in DOMAIN nd2 /\ x \notin Ats(waiting)
          /\ \A x : x \in DOMAIN nd2 <=> x \in DOMAIN node \/ x \in X
          /\ Y \subseteq X /\ X \subseteq F2 /\ (\A x \in X : x \in DOMAIN node => x \in Y)
          /\ K \subseteq K2
          /\ \A i \in 1..Len(waiting) : \A x \in X : Hangs(nd2, link, t, waiting[i], x, K2)
      BY <1>16, <1>19, <2>1, <2>3, <2>4, <2>5, <3>1
    <3>3. Layout(nd2, lk2, t2, F2, waiting, X, K2, O) BY ONLY <3>2, Taken
    <3> QED BY <3>1, <3>3
  <2> QED BY <2>2, <2>6
<1>23. Idle' = Idle /\ InMaps(t2, Idle)' = O /\ IdleMaps(t2)'
  <2>1. O \subseteq Loose BY <1>13 DEF Layout
  <2> QED BY <1>1, <1>2, <1>3, <1>4, <1>9, <1>14, <1>16, <1>18, <2>1, IdleKeeps
<1>24. InHand(t2)' = {n} BY <1>4, <1>7, <1>16 DEF InHand, Below
<1>25. Working(t2)'
  <2>1. Dead(waiting) = {} BY <1>1, <1>4 DEF JobType
  <2>2. job.key \notin DOMAIN c /\ \A x \in DOMAIN node \ O : node[x].key # job.key
    BY <1>1, <1>2, <1>3, <1>4, NowhereElse
  <2>3. Outcome(c) = With(c, job.key, job.value) BY <1>4, <2>2 DEF Outcome
  <2>4. /\ DOMAIN Outcome(c) = DOMAIN c \cup {job.key} /\ Outcome(c)[job.key] = job.value
        /\ \A k \in DOMAIN c : Outcome(c)[k] = c[k]
    BY <2>2, <2>3 DEF With
  <2>5. IsFiniteSet(DOMAIN c) /\ size[job.map] = Cardinality(DOMAIN c) BY <1>1, <1>3, <1>4, ContentFacts
  <2>6. Cardinality(DOMAIN Outcome(c)) = size[job.map] + 1 BY <2>2, <2>4, <2>5, FS_AddElement
  <2>7. Holds(node, c, DOMAIN node \ O) BY <1>2, <1>3, <1>4 DEF Shape, Working
  <2>8. n \notin O /\ (DOMAIN node' \ O) \ Dead(waiting) = (DOMAIN node \ O) \cup {n}
    BY <1>7, <1>9, <1>13, <2>1 DEF Layout
  <2>9. Holds(node', Outcome(c), (DOMAIN node \ O) \cup {n})
    BY <1>9, <1>10, <2>2, <2>4, <2>7 DEF Holds
  <2>10. tree' \in Loose' \cup {0} /\ mate' \in Loose' \cup {0} BY <1>4, <1>18
  <2>11. Outcome(content[job.map])' = Outcome(c) BY <1>3, <1>4 DEF Outcome
  <2>12. Holds(node, Outcome(content[job.map]), (DOMAIN node \ InMaps(t2, Idle)) \ Dead(waiting))'
    BY <1>4, <1>23, <2>8, <2>9, <2>11
  <2>13. (Cardinality(DOMAIN Outcome(content[job.map])) = size[job.map] + delta)'
    BY <1>4, <2>6, <2>11
  <2> QED BY <1>4, <2>10, <2>12, <2>13 DEF Working
<1>26. Shape(t2)'
  <2>1. Layout(node', link', t2, Loose', waiting', InHand(t2)', Added', InMaps(t2, Idle)')
    BY <1>4, <1>22, <1>23, <1>24
  <2> QED BY <1>23, <1>25, <2>1 DEF Shape
<1> QED BY <1>11, <1>12, <1>26 DEF TreapInv

\* What the call makes of the map stays the same while it goes on.
LEMMA OutcomeStays ==
  ASSUME UNCHANGED <<content, job>>
  PROVE  Outcome(content[job.map])' = Outcome(content[job.map])
BY DEF Outcome

\* An erasure that found its key: the node waits to be deleted, its trees
\* are in hand.
LEMMA FoundKeeps == ASSUME TreapInv, Found PROVE TreapInv'
<1>1. TreapType /\ JobType BY DEF TreapInv
<1>2. PICK t : Shape(t) BY DEF TreapInv
<1>3. PICK n, f, c, O, l, r : /\ n = tree /\ f = [at |-> tree, on |-> "delete"] /\ c = content[job.map]
                              /\ O = InMaps(t, Idle) /\ l = link[tree]["left"] /\ r = link[tree]["right"]
  OBVIOUS
<1>4. /\ doing = "descend" /\ doing' = "merge" /\ n # 0 /\ job.op = "erase" /\ delta = 0 /\ delta' = -1
      /\ node[n].key = job.key /\ waiting' = Append(waiting, f) /\ tree' = l /\ mate' = r /\ mate = 0
      /\ UNCHANGED <<node, link, root, size, content, job>>
  BY <1>1, <1>3 DEF Found, Call, heapVars, mapVars, JobType
<1>5. /\ Forest(node, link, t, Loose) /\ n \in Loose /\ n \in DOMAIN node /\ Loose \subseteq DOMAIN node
      /\ \A x \in Loose : node[x].key \in Int
  BY <1>1, <1>2, <1>3, <1>4, MidCall
<1>6. waiting \in Seq(Activations) /\ f \in Activations
  BY <1>1, <1>3, <1>5 DEF TreapType, Activations
<1>7. TreapType'
  <2>1. l \in Nullable /\ r \in Nullable BY <1>1, <1>3, <1>5, HeapFacts DEF Sides
  <2>2. waiting' \in Seq(Activations) BY <1>4, <1>6, Appended
  <2> QED BY <1>1, <1>4, <2>1, <2>2 DEF TreapType
<1>8. f.at = n /\ f.on = "delete" BY <1>3
<1>9. Dead(waiting') = {n}
  <2>1. Dead(waiting) = {} BY <1>1, <1>4 DEF JobType
  <2> QED BY <1>4, <1>6, <1>8, <2>1, Appended
<1>10. JobType' BY <1>1, <1>4 DEF JobType
<1>11. /\ l \in Loose \cup {0} /\ l # n /\ Below(t, l) \subseteq t[n] \ {n}
       /\ \A x \in Below(t, l) : node[x].key < node[n].key
       /\ r \in Loose \cup {0} /\ r # n /\ Below(t, r) \subseteq t[n] \ {n}
       /\ \A x \in Below(t, r) : node[x].key > node[n].key
       /\ t[n] = {n} \cup Below(t, l) \cup Below(t, r)
  <2>1. "left" \in Sides /\ "right" \in Sides BY DEF Sides
  <2>2. /\ link[n]["left"] \in Loose \cup {0} /\ link[n]["left"] # n
        /\ Below(t, link[n]["left"]) \subseteq t[n] \ {n}
        /\ \A x \in Below(t, link[n]["left"]) : OnSide(node, "left", x, n)
    BY <1>5, <2>1, KidsOf
  <2>3. /\ link[n]["right"] \in Loose \cup {0} /\ link[n]["right"] # n
        /\ Below(t, link[n]["right"]) \subseteq t[n] \ {n}
        /\ \A x \in Below(t, link[n]["right"]) : OnSide(node, "right", x, n)
    BY <1>5, <2>1, KidsOf
  <2>4. t[n] = {n} \cup Below(t, link[n]["left"]) \cup Below(t, link[n]["right"])
    BY <1>5 DEF Forest, TreeAt
  <2> QED BY <1>3, <2>2, <2>3, <2>4 DEF OnSide
<1>12. t[n] \subseteq Loose /\ n \in t[n] BY <1>5, RootIn DEF Forest, TreeAt
<1>13. InHand(t) = t[n] BY <1>3, <1>4 DEF InHand, Below
<1>14. PICK X, X2 : X = t[n] /\ X2 = Below(t, l) \cup Below(t, r) OBVIOUS
<1>15. InHand(t)' = X2 BY <1>4, <1>14 DEF InHand
<1>16. Added = {} /\ Added' = {} BY <1>4 DEF Added
<1>17. Layout(node, link, t, Loose \ {n}, waiting', X2, Added, O)
  <2>1. Layout(node, link, t, Loose, waiting, X, Added, O) BY <1>2, <1>3, <1>13, <1>14 DEF Shape
  <2>2. \A x \in X \ {n} : n \notin t[x] BY <1>5, <1>14, TopIs
  <2>3. Frag(link, t, f) = {n} BY <1>8 DEF Frag
  <2>4. X = Frag(link, t, f) \cup X2 /\ n \notin X2 BY <1>11, <1>14, <2>3
  <2>5. \A x \in X2 : Hangs(node, link, t, f, x, Added)
    <3>1. ASSUME NEW x \in X2 PROVE node[x].key # node[n].key
      <4>1. x \in Loose BY <1>11, <1>12, <1>14
      <4> QED BY <1>5, <1>11, <1>14, <4>1
    <3> QED BY <1>8, <3>1 DEF Hangs
  <2> QED BY <1>4, <1>6, <1>8, <1>12, <1>14, <2>1, <2>2, <2>4, <2>5, Pushed
<1>18. Loose' = Loose \ {n} BY <1>4, <1>17 DEF Layout, Loose
<1>19. Idle' = Idle /\ InMaps(t, Idle)' = O /\ IdleMaps(t)'
  <2>1. O \subseteq Loose \ {n} BY <1>17 DEF Layout
  <2> QED BY <1>1, <1>2, <1>3, <1>4, <1>18, <2>1, IdleKeeps
<1>20. n \in DOMAIN node \ O BY <1>1, <1>2, <1>3, <1>4, <1>5, <1>12, <1>13, MidCall
<1>21. Holds(node, c, DOMAIN node \ O) BY <1>2, <1>3, <1>4 DEF Shape, Working
<1>22. DOMAIN Outcome(c) = DOMAIN c \ {job.key} /\ \A k \in DOMAIN c \ {job.key} : Outcome(c)[k] = c[k]
  BY <1>4 DEF Outcome, Without
<1>23. Working(t)'
  <2>1. Holds(node, Outcome(c), (DOMAIN node \ O) \ {n}) BY <1>4, <1>20, <1>21, <1>22 DEF Holds
  <2>2. Cardinality(DOMAIN Outcome(c)) = size[job.map] - 1
    <3>1. IsFiniteSet(DOMAIN c) /\ size[job.map] = Cardinality(DOMAIN c) BY <1>1, <1>3, <1>4, ContentFacts
    <3>2. job.key \in DOMAIN c BY <1>4, <1>20, <1>21 DEF Holds
    <3> QED BY <1>22, <3>1, <3>2, FS_RemoveElement
  <2>3. tree' \in Loose' \cup {0} /\ mate' \in Loose' \cup {0} BY <1>4, <1>11, <1>18
  <2>4. ASSUME NEW x \in Below(t, l), NEW y \in Below(t, r) PROVE node[x].key < node[y].key
    <3>1. x \in Loose /\ y \in Loose BY <1>11, <1>12
    <3> QED BY <1>5, <1>11, <3>1
  <2>5. Outcome(content[job.map])' = Outcome(c) BY <1>3, <1>4, OutcomeStays
  <2>6. Holds(node, Outcome(content[job.map]), (DOMAIN node \ InMaps(t, Idle)) \ Dead(waiting))'
    BY <1>4, <1>9, <1>19, <2>1, <2>5
  <2>7. (Cardinality(DOMAIN Outcome(content[job.map])) = size[job.map] + delta)'
    <3>1. size[job.map] \in Int BY <1>1, <1>4, ContentFacts
    <3>2. Cardinality(DOMAIN Outcome(c)) = size[job.map] + delta' BY <1>4, <2>2, <3>1
    <3> QED BY <1>4, <2>5, <3>2
  <2> QED BY <1>4, <2>3, <2>4, <2>6, <2>7 DEF Working
<1>24. Shape(t)'
  <2>1. Layout(node', link', t, Loose', waiting', InHand(t)', Added', InMaps(t, Idle)')
    BY <1>4, <1>15, <1>16, <1>17, <1>18, <1>19
  <2> QED BY <1>19, <1>23, <2>1 DEF Shape
<1> QED BY <1>7, <1>10, <1>24 DEF TreapInv

\* A root has the highest priority of its tree.
LEMMA Highest ==
  ASSUME NEW nd, NEW lk, NEW t, NEW F, Forest(nd, lk, t, F), NEW n \in F, NEW x \in t[n]
  PROVE  nd[x].prio <= nd[n].prio /\ nd[x].prio \in Int
<1>1. TreeAt(nd, lk, t, F, n) BY DEF Forest
<1>2. x \in F /\ nd[n].prio \in Int BY <1>1 DEF TreeAt
<1>3. nd[x].prio \in Int BY <1>2 DEF Forest, TreeAt
<1>4. CASE x = n BY <1>2, <1>4
<1>5. CASE x # n
  <2>1. PICK s \in Sides : x \in Below(t, lk[n][s]) BY <1>1, <1>5 DEF TreeAt, Sides
  <2>2. Under(nd, x, n) BY <1>1, <2>1 DEF TreeAt
  <2> QED BY <1>3, <2>2 DEF Under
<1> QED BY <1>3, <1>4, <1>5

\* merge calls itself with a child of the higher root, and the other root.
LEMMA MergeCalls ==
  ASSUME TreapType, JobType, NEW t, Shape(t), doing = "merge",
         NEW n \in Loose, NEW o \in Loose, NEW s \in Sides, InHand(t) = t[n] \cup t[o],
         \A x \in t[o], y \in t[n] : OnSide(node, s, x, y), node[o].prio <= node[n].prio,
         NEW f, f.at = n, f.on = s
  PROVE  /\ Layout(node, link, t, Loose \ {n}, Append(waiting, f), Below(t, link[n][s]) \cup t[o], Added, InMaps(t, Idle))
         /\ link[n][s] \in (Loose \ {n}) \cup {0} /\ Below(t, link[n][s]) \subseteq t[n] /\ o # n
<1>1. /\ Forest(node, link, t, Loose) /\ InHand(t) \subseteq Loose
      /\ \A x \in Loose : node[x].key \in Int /\ node[x].prio \in Int
  BY MidCall
<1>2. n \in t[n] /\ o \in t[o] /\ s # "delete" BY <1>1, RootIn DEF Sides
<1>3. \A x \in t[o] : x \in Loose /\ x \notin t[n]
  <2>1. ASSUME NEW x \in t[o], x \in t[n] PROVE FALSE
    <3>1. OnSide(node, s, x, x) /\ x \in Loose BY <1>1, <2>1
    <3> QED BY <1>1, <3>1 DEF OnSide
  <2> QED BY <1>1, <2>1
<1>4. PICK k, X, X2 : k = link[n][s] /\ X = t[n] \cup t[o] /\ X2 = Below(t, k) \cup t[o] OBVIOUS
<1>5. /\ k \in Loose \cup {0} /\ Below(t, k) \subseteq t[n] \ {n} /\ k # n
      /\ Frag(link, t, f) = {n} \cup Below(t, link[n][Opposite(s)])
      /\ t[n] = Frag(link, t, f) \cup Below(t, k)
      /\ \A x \in Below(t, k) : Hangs(node, link, t, f, x, Added)
  <2>1. /\ link[n][s] \in Loose \cup {0} /\ Below(t, link[n][s]) \subseteq t[n] \ {n} /\ link[n][s] # n
    BY <1>1, KidsOf
  <2>2. /\ Frag(link, t, f) = {n} \cup Below(t, link[n][Opposite(s)])
        /\ t[n] = Frag(link, t, f) \cup Below(t, link[n][s])
        /\ \A x \in Below(t, link[n][s]) : Hangs(node, link, t, f, x, Added)
    <3>1. PICK nd, lk, F, K : nd = node /\ lk = link /\ F = Loose /\ K = Added OBVIOUS
    <3>2. Forest(nd, lk, t, F) /\ n \in F /\ s \in Sides /\ f.at = n /\ f.on = s BY <1>1, <3>1
    <3>3. /\ Frag(lk, t, f) = {n} \cup Below(t, lk[n][Opposite(s)])
          /\ t[n] = Frag(lk, t, f) \cup Below(t, lk[n][s])
          /\ \A x \in Below(t, lk[n][s]) : Hangs(nd, lk, t, f, x, K)
      BY ONLY <3>2, KidFits
    <3> QED BY ONLY <3>1, <3>3
  <2> QED BY <1>4, <2>1, <2>2
<1>6. ASSUME NEW x \in t[o] PROVE Hangs(node, link, t, f, x, Added)
  <2>1. \A y \in Frag(link, t, f) : OnSide(node, s, x, y) BY <1>5
  <2>2. node[x].key # node[n].key
    <3>1. OnSide(node, s, x, n) BY <1>2
    <3> QED BY <1>1, <1>3, <3>1 DEF OnSide
  <2>3. Under(node, x, n)
    <3>1. node[x].prio <= node[o].prio /\ node[x].prio \in Int BY <1>1, Highest
    <3> QED BY <1>1, <3>1 DEF Under
  <2> QED BY <1>2, <2>1, <2>2, <2>3 DEF Hangs
<1>7. ASSUME NEW x \in X \ {n} PROVE n \notin t[x]
  <2>1. CASE x \in t[n] BY <1>1, <1>7, <2>1, TopIs
  <2>2. CASE x \in t[o]
    <3>1. o \in Loose \cup {0} /\ Below(t, o) = t[o] BY <1>1, RootIn
    <3>2. t[x] \subseteq t[o] BY <1>1, <2>2, <3>1, Inside
    <3> QED BY <1>2, <1>3, <3>2
  <2> QED BY <1>4, <1>7, <2>1, <2>2
<1>8. Layout(node, link, t, Loose \ {n}, Append(waiting, f), X2, Added, InMaps(t, Idle))
  <2>1. Layout(node, link, t, Loose, waiting, X, Added, InMaps(t, Idle)) BY <1>4 DEF Shape
  <2>2. X = Frag(link, t, f) \cup X2 /\ n \notin X2 /\ n \in X BY <1>2, <1>3, <1>4, <1>5
  <2>3. \A x \in X2 : Hangs(node, link, t, f, x, Added) BY <1>4, <1>5, <1>6
  <2>4. PICK S : S = Activations \cup {f} OBVIOUS
  <2>5. waiting \in Seq(S) /\ f \in S BY <2>4 DEF TreapType
  <2> QED BY <1>7, <2>1, <2>2, <2>3, <2>5, Pushed
<1> QED BY <1>2, <1>3, <1>4, <1>5, <1>8

LEMMA MergeKeeps == ASSUME TreapInv, Merge PROVE TreapInv'
<1>1. TreapType /\ JobType BY DEF TreapInv
<1>2. PICK t : Shape(t) BY DEF TreapInv
<1>3. /\ doing = "merge" /\ tree # 0 /\ mate # 0 /\ delta = -1
      /\ UNCHANGED <<node, link, root, size, content, job, doing, delta>>
  BY <1>1 DEF Merge, heapVars, mapVars, JobType
<1>4. /\ Forest(node, link, t, Loose) /\ Loose \subseteq DOMAIN node
      /\ tree \in Loose /\ mate \in Loose
      /\ \A x \in Loose : node[x].key \in Int /\ node[x].prio \in Int
  BY <1>1, <1>2, <1>3, MidCall
<1>5. Below(t, tree) = t[tree] /\ Below(t, mate) = t[mate] /\ InHand(t) = t[tree] \cup t[mate]
  BY <1>3 DEF InHand, Below
<1>6. \A x \in t[tree], y \in t[mate] : node[x].key < node[y].key
  BY <1>2, <1>3, <1>5 DEF Shape, Working
<1>7. PICK n \in Loose, o \in Loose, s \in Sides :
        /\ waiting' = Append(waiting, [at |-> n, on |-> s]) /\ node[o].prio <= node[n].prio
        /\ \/ n = tree /\ o = mate /\ s = "right" /\ tree' = link[n][s] /\ mate' = o
           \/ n = mate /\ o = tree /\ s = "left" /\ tree' = o /\ mate' = link[n][s]
  <2>1. "left" \in Sides /\ "right" \in Sides BY DEF Sides
  <2>2. CASE node[tree].prio > node[mate].prio
    <3>1. /\ waiting' = Append(waiting, [at |-> tree, on |-> "right"])
          /\ tree' = link[tree]["right"] /\ mate' = mate /\ node[mate].prio <= node[tree].prio
      BY <1>4, <2>2 DEF Merge, Call
    <3> QED BY <1>4, <2>1, <3>1
  <2>3. CASE ~(node[tree].prio > node[mate].prio)
    <3>1. /\ waiting' = Append(waiting, [at |-> mate, on |-> "left"])
          /\ mate' = link[mate]["left"] /\ tree' = tree /\ node[tree].prio <= node[mate].prio
      BY <1>4, <2>3 DEF Merge, Call
    <3> QED BY <1>4, <2>1, <3>1
  <2> QED BY <2>2, <2>3
<1>8. PICK f, O, X2 : f = [at |-> n, on |-> s] /\ O = InMaps(t, Idle) /\ X2 = Below(t, link[n][s]) \cup t[o]
  OBVIOUS
<1>9. f.at = n /\ f.on = s /\ f.on # "delete" BY <1>8 DEF Sides
<1>10. waiting \in Seq(Activations) /\ f \in Activations
  BY <1>1, <1>4, <1>8 DEF TreapType, Activations
<1>11. TreapType'
  <2>1. link[n][s] \in Nullable /\ o \in Nullable BY <1>1, <1>4, HeapFacts DEF TreapType, Nullable
  <2>2. waiting' \in Seq(Activations) BY <1>7, <1>8, <1>10, Appended
  <2>3. tree' \in Nullable /\ mate' \in Nullable BY <1>7, <2>1
  <2> QED BY <1>1, <1>3, <2>2, <2>3 DEF TreapType
<1>12. Dead(waiting') = Dead(waiting) BY <1>7, <1>8, <1>9, <1>10, Appended
<1>13. JobType' BY <1>1, <1>3 DEF JobType
<1>14. /\ Layout(node, link, t, Loose \ {n}, waiting', X2, Added, O)
       /\ link[n][s] \in (Loose \ {n}) \cup {0} /\ Below(t, link[n][s]) \subseteq t[n] /\ o # n
  <2>1. InHand(t) = t[n] \cup t[o] BY <1>5, <1>7
  <2>2. \A x \in t[o], y \in t[n] : OnSide(node, s, x, y)
    <3>1. CASE s = "right" BY <1>6, <1>7, <3>1 DEF OnSide
    <3>2. CASE s = "left" BY <1>6, <1>7, <3>2 DEF OnSide
    <3> QED BY <3>1, <3>2 DEF Sides
  <2>3. /\ Layout(node, link, t, Loose \ {n}, Append(waiting, f), Below(t, link[n][s]) \cup t[o], Added, InMaps(t, Idle))
        /\ link[n][s] \in (Loose \ {n}) \cup {0} /\ Below(t, link[n][s]) \subseteq t[n] /\ o # n
    BY <1>1, <1>2, <1>3, <1>7, <1>9, <2>1, <2>2, MergeCalls
  <2> QED BY <1>7, <1>8, <2>3
<1>15. Loose' = Loose \ {n} BY <1>3, <1>14 DEF Layout, Loose
<1>16. o # 0 /\ n # 0 BY <1>3, <1>7
<1>17. InHand(t)' = X2
  <2>1. Below(t, o) = t[o] BY <1>16 DEF Below
  <2>2. Below(t, tree') \cup Below(t, mate') = X2 BY <1>7, <1>8, <2>1
  <2> QED BY <2>2 DEF InHand
<1>18. Idle' = Idle /\ InMaps(t, Idle)' = O /\ IdleMaps(t)'
  <2>1. O \subseteq Loose \ {n} BY <1>14 DEF Layout
  <2> QED BY <1>1, <1>2, <1>3, <1>8, <1>15, <2>1, IdleKeeps
<1>19. Working(t)'
  <2>1. tree' \in Loose' \cup {0} /\ mate' \in Loose' \cup {0} BY <1>7, <1>14, <1>15
  <2>2. Below(t, tree') \subseteq t[tree] /\ Below(t, mate') \subseteq t[mate]
    <3>1. Below(t, o) = t[o] BY <1>16 DEF Below
    <3> QED BY <1>7, <1>14, <3>1
  <2>3. \A x \in Below(t, tree'), y \in Below(t, mate') : node[x].key < node[y].key BY <1>6, <2>2
  <2>4. /\ Holds(node, Outcome(content[job.map]), (DOMAIN node \ O) \ Dead(waiting))
        /\ Cardinality(DOMAIN Outcome(content[job.map])) = size[job.map] + delta
    BY <1>2, <1>3, <1>8 DEF Shape, Working
  <2>5. Outcome(content[job.map])' = Outcome(content[job.map]) BY <1>3, OutcomeStays
  <2>6. Holds(node, Outcome(content[job.map]), (DOMAIN node \ InMaps(t, Idle)) \ Dead(waiting))'
    BY <1>3, <1>12, <1>18, <2>4, <2>5
  <2>7. (Cardinality(DOMAIN Outcome(content[job.map])) = size[job.map] + delta)'
    BY <1>3, <2>4, <2>5
  <2> QED BY <1>3, <2>1, <2>3, <2>6, <2>7 DEF Working
<1>20. Shape(t)'
  <2>1. Added' = Added BY <1>3 DEF Added
  <2>2. Layout(node', link', t, Loose', waiting', InHand(t)', Added', InMaps(t, Idle)')
    BY <1>3, <1>14, <1>15, <1>17, <1>18, <2>1
  <2> QED BY <1>18, <1>19, <2>2 DEF Shape
<1> QED BY <1>11, <1>13, <1>20 DEF TreapInv

LEMMA MergeEndsKeeps == ASSUME TreapInv, MergeEnds PROVE TreapInv'
<1>1. TreapType /\ JobType BY DEF TreapInv
<1>2. PICK t : Shape(t) BY DEF TreapInv
<1>3. /\ doing = "merge" /\ doing' = "return" /\ delta = -1 /\ (tree = 0 \/ mate = 0)
      /\ tree' = (IF tree = 0 THEN mate ELSE tree) /\ mate' = 0
      /\ UNCHANGED <<node, link, root, size, content, job, waiting, delta>>
  BY <1>1 DEF MergeEnds, heapVars, mapVars, JobType
<1>4. TreapType' BY <1>1, <1>3 DEF TreapType, Nullable
<1>5. JobType' BY <1>1, <1>3 DEF JobType
<1>6. InHand(t)' = InHand(t) BY <1>3 DEF InHand, Below
<1>7. /\ Loose' = Loose /\ Added' = Added /\ Idle' = Idle /\ InMaps(t, Idle)' = InMaps(t, Idle)
      /\ Dead(waiting)' = Dead(waiting)
  BY <1>3 DEF Loose, Added, InMaps, Idle
<1>8. Layout(node, link, t, Loose, waiting, InHand(t), Added, InMaps(t, Idle)) BY <1>2 DEF Shape
<1>9. Layout(node', link', t, Loose', waiting', InHand(t)', Added', InMaps(t, Idle)')
  BY <1>3, <1>6, <1>7, <1>8
<1>10. IdleMaps(t)' BY <1>2, <1>3, <1>7 DEF Shape, IdleMaps
<1>11. Working(t)'
  <2>1. tree' \in Loose \cup {0} /\ mate' \in Loose \cup {0} BY <1>2, <1>3 DEF Shape, Working
  <2>2. /\ Holds(node, Outcome(content[job.map]), (DOMAIN node \ InMaps(t, Idle)) \ Dead(waiting))
        /\ Cardinality(DOMAIN Outcome(content[job.map])) = size[job.map] + delta
    BY <1>2, <1>3 DEF Shape, Working
  <2>3. Outcome(content[job.map])' = Outcome(content[job.map]) BY <1>3, OutcomeStays
  <2>4. Holds(node, Outcome(content[job.map]), (DOMAIN node \ InMaps(t, Idle)) \ Dead(waiting))'
    BY <1>3, <1>7, <2>2, <2>3
  <2>5. (Cardinality(DOMAIN Outcome(content[job.map])) = size[job.map] + delta)'
    BY <1>3, <2>2, <2>3
  <2> QED BY <1>3, <1>7, <2>1, <2>4, <2>5 DEF Working
<1>12. Shape(t)' BY <1>9, <1>10, <1>11 DEF Shape
<1> QED BY <1>4, <1>5, <1>12 DEF TreapInv

LEMMA Shortened ==
  ASSUME NEW w \in Seq(Activations), w # <<>>
  PROVE  /\ w[Len(w)] \in Activations /\ Len(w) \in 1..Len(w)
         /\ SubSeq(w, 1, Len(w) - 1) \in Seq(Activations)
         /\ w[Len(w)].on = "delete" => Dead(w) = Dead(SubSeq(w, 1, Len(w) - 1)) \cup {w[Len(w)].at}
         /\ w[Len(w)].on # "delete" => Dead(w) = Dead(SubSeq(w, 1, Len(w) - 1))
<1>0. PICK f, v : f = w[Len(w)] /\ v = SubSeq(w, 1, Len(w) - 1) OBVIOUS
<1>1. PICK l \in Nat : Len(w) = l + 1
  <2>1. Len(w) \in Nat /\ Len(w) # 0 BY EmptySeq
  <2>2. Len(w) - 1 \in Nat /\ Len(w) = (Len(w) - 1) + 1 BY <2>1
  <2> QED BY <2>2
<1>2. l + 1 \in 1..Len(w) /\ f = w[l + 1] /\ f \in Activations BY <1>0, <1>1, ElementOfSeq
<1>3. \A i \in 1..l : i \in 1..Len(w) /\ w[i] \in Activations BY <1>1, ElementOfSeq
<1>4. v = [i \in 1..l |-> w[i]]
  <2>1. Len(w) - 1 = l BY <1>1
  <2> QED BY <1>0, <1>3, <2>1
<1>5. v \in Seq(Activations) /\ Len(v) = l /\ \A i \in 1..l : v[i] = w[i] BY <1>3, <1>4
<1>6. \A i : i \in 1..Len(w) <=> i \in 1..l \/ i = l + 1 BY <1>1
<1>7. \A x : x \in Dead(w) <=> x \in Dead(v) \/ (x = f.at /\ f.on = "delete")
  <2>1. \A x : x \in Dead(w) <=> \E i \in 1..Len(w) : w[i].at = x /\ w[i].on = "delete" BY DEF Dead, Ats
  <2>2. \A x : x \in Dead(v) <=> \E i \in 1..l : w[i].at = x /\ w[i].on = "delete" BY <1>5 DEF Dead, Ats
  <2> QED BY <1>2, <1>6, <2>1, <2>2
<1>8. /\ f.on = "delete" => Dead(w) = Dead(v) \cup {f.at}
      /\ f.on # "delete" => Dead(w) = Dead(v)
  BY <1>7
<1>9. Len(w) \in 1..Len(w) BY <1>1
<1> QED BY <1>0, <1>2, <1>5, <1>8, <1>9

\* What a return finds.
LEMMA ReturnFacts ==
  ASSUME TreapType, JobType, NEW t, Shape(t), doing = "return", waiting # <<>>,
         NEW f, f = waiting[Len(waiting)]
  PROVE  /\ f \in Activations /\ mate = 0 /\ InHand(t) = Below(t, tree)
         /\ Layout(node, link, t, Loose, waiting, Below(t, tree), Added, InMaps(t, Idle))
         /\ FrameOK(node, link, t, Loose, f) /\ f.at \in DOMAIN node
         /\ \A x \in Below(t, tree) : Hangs(node, link, t, f, x, Added)
<1>1. mate = 0 /\ InHand(t) = Below(t, tree) BY DEF JobType, InHand, Below
<1>2. Layout(node, link, t, Loose, waiting, Below(t, tree), Added, InMaps(t, Idle)) BY <1>1 DEF Shape
<1>3. PICK w : w = waiting OBVIOUS
<1>4. w \in Seq(Activations) /\ w # <<>> /\ f = w[Len(w)] BY <1>3 DEF TreapType
<1>5. f \in Activations /\ Len(w) \in 1..Len(w) BY <1>4, Shortened
<1>6. /\ FrameOK(node, link, t, Loose, w[Len(w)])
      /\ \A x \in Below(t, tree) : Hangs(node, link, t, w[Len(w)], x, Added)
  BY <1>2, <1>3, <1>5 DEF Layout, Stacked
<1>7. f.at \in DOMAIN node
  <2>1. f.at \in Frag(link, t, w[Len(w)]) BY <1>4 DEF Frag
  <2> QED BY <1>2, <1>3, <1>5, <2>1 DEF Layout, Frags
<1> QED BY <1>1, <1>2, <1>4, <1>5, <1>6, <1>7

\* The rest of a return, whatever becomes of the node that waited.
LEMMA Returned ==
  ASSUME TreapType, JobType, NEW t, Shape(t), doing = "return", waiting # <<>>,
         NEW f, f = waiting[Len(waiting)], waiting' = SubSeq(waiting, 1, Len(waiting) - 1),
         UNCHANGED <<root, size, content, job, doing, mate, delta>>,
         node' \in [DOMAIN node' -> TreapNodes], link' \in [DOMAIN node' -> [Sides -> Nullable]],
         tree' \in Nullable, DOMAIN node' \subseteq DOMAIN node,
         NEW t2,
         Layout(node', link', t2, Loose', waiting', Below(t2, tree'), Added, InMaps(t, Idle)),
         tree' \in Loose' \cup {0}, \A x \in Loose \ Below(t, tree) : t2[x] = t[x],
         \A x \in DOMAIN node' : node'[x] = node[x],
         f.on = "delete" => DOMAIN node' = DOMAIN node \ {f.at},
         f.on # "delete" => DOMAIN node' = DOMAIN node
  PROVE  TreapInv'
<1>1. PICK w, v, O : w = waiting /\ v = waiting' /\ O = InMaps(t, Idle) OBVIOUS
<1>2. w \in Seq(Activations) /\ w # <<>> /\ f = w[Len(w)] /\ v = SubSeq(w, 1, Len(w) - 1)
  BY <1>1 DEF TreapType
<1>3. /\ v \in Seq(Activations)
      /\ f.on = "delete" => Dead(w) = Dead(v) \cup {f.at}
      /\ f.on # "delete" => Dead(w) = Dead(v)
  <2>1. /\ SubSeq(w, 1, Len(w) - 1) \in Seq(Activations)
        /\ w[Len(w)].on = "delete" => Dead(w) = Dead(SubSeq(w, 1, Len(w) - 1)) \cup {w[Len(w)].at}
        /\ w[Len(w)].on # "delete" => Dead(w) = Dead(SubSeq(w, 1, Len(w) - 1))
    BY <1>2, Shortened
  <2> QED BY <1>2, <2>1
<1>4. TreapType' BY <1>1, <1>3 DEF TreapType
<1>5. JobType' BY DEF JobType
<1>6. Layout(node, link, t, Loose, waiting, Below(t, tree), Added, O) /\ mate = 0
  BY <1>1, ReturnFacts
<1>7. O \subseteq Loose' /\ O \subseteq DOMAIN node' /\ O \subseteq Loose \ Below(t, tree)
  <2>1. O \subseteq Loose' /\ Loose' \subseteq DOMAIN node' BY <1>1 DEF Layout
  <2>2. O \subseteq Loose \ Below(t, tree) BY <1>6 DEF Layout
  <2> QED BY <2>1, <2>2
<1>8. Idle' = Idle /\ InMaps(t2, Idle)' = O /\ IdleMaps(t2)' BY <1>1, <1>7, IdleKeeps
<1>9. InHand(t2)' = Below(t2, tree') BY <1>6 DEF InHand, Below
<1>10. Working(t2)'
  <2>1. PICK c : c = Outcome(content[job.map]) OBVIOUS
  <2>2. Holds(node, c, (DOMAIN node \ O) \ Dead(w)) /\ Cardinality(DOMAIN c) = size[job.map] + delta
    BY <1>1, <2>1 DEF Shape, Working
  <2>3. (DOMAIN node' \ O) \ Dead(v) = (DOMAIN node \ O) \ Dead(w)
    <3>1. CASE f.on = "delete" BY <1>3, <3>1
    <3>2. CASE f.on # "delete" BY <1>3, <3>2
    <3> QED BY <3>1, <3>2
  <2>4. Holds(node', c, (DOMAIN node' \ O) \ Dead(v)) BY <2>2, <2>3 DEF Holds
  <2>5. Outcome(content[job.map])' = c BY <2>1, OutcomeStays
  <2>6. Holds(node, Outcome(content[job.map]), (DOMAIN node \ InMaps(t2, Idle)) \ Dead(waiting))'
    BY <1>1, <1>8, <2>4, <2>5
  <2>7. (Cardinality(DOMAIN Outcome(content[job.map])) = size[job.map] + delta)'
    BY <2>2, <2>5
  <2> QED BY <1>6, <2>6, <2>7 DEF Working
<1>11. Shape(t2)'
  <2>1. Added' = Added BY DEF Added
  <2>2. Layout(node', link', t2, Loose', waiting', InHand(t2)', Added', InMaps(t2, Idle)')
    BY <1>1, <1>8, <1>9, <2>1
  <2> QED BY <1>8, <1>10, <2>2 DEF Shape
<1> QED BY <1>4, <1>5, <1>11 DEF TreapInv

\* The node of an erased key is deleted; the merged tree goes on up.
LEMMA DeleteKeeps ==
  ASSUME TreapInv, doing = "return", waiting # <<>>,
         waiting' = SubSeq(waiting, 1, Len(waiting) - 1),
         waiting[Len(waiting)].on = "delete",
         node' = Without(node, {waiting[Len(waiting)].at}),
         link' = Without(link, {waiting[Len(waiting)].at}),
         UNCHANGED <<tree, root, size, content, job, doing, mate, delta>>
  PROVE  TreapInv'
<1>1. TreapType /\ JobType BY DEF TreapInv
<1>2. PICK t : Shape(t) BY DEF TreapInv
<1>3. PICK f, p, O, X : f = waiting[Len(waiting)] /\ p = f.at /\ O = InMaps(t, Idle) /\ X = Below(t, tree)
  OBVIOUS
<1>4. /\ f \in Activations /\ Layout(node, link, t, Loose, waiting, X, Added, O)
      /\ FrameOK(node, link, t, Loose, f) /\ p \in DOMAIN node
  BY <1>1, <1>2, <1>3, ReturnFacts
<1>5. p \notin Loose /\ Forest(node, link, t, Loose) /\ Loose \subseteq DOMAIN node /\ X \subseteq Loose
  BY <1>3, <1>4 DEF FrameOK, Layout
<1>6. /\ DOMAIN node' = DOMAIN node \ {p} /\ \A x \in DOMAIN node \ {p} : node'[x] = node[x]
      /\ \A x \in DOMAIN node \ {p} : link'[x] = link[x]
      /\ node' \in [DOMAIN node' -> TreapNodes] /\ link' \in [DOMAIN node' -> [Sides -> Nullable]]
  <2>1. /\ \A x \in DOMAIN node : node[x] \in TreapNodes /\ link[x] \in [Sides -> Nullable]
        /\ DOMAIN link = DOMAIN node
    BY <1>1 DEF TreapType
  <2> QED BY <1>3, <2>1 DEF Without
<1>7. Forest(node', link', t, Loose)
  <2>1. PICK nd2, lk2, F, t2 : nd2 = node' /\ lk2 = link' /\ F = Loose /\ t2 = t OBVIOUS
  <2>2. /\ Forest(node, link, t, F)
        /\ \A x \in F : /\ nd2[x].key = node[x].key /\ nd2[x].prio = node[x].prio
                        /\ lk2[x] = link[x] /\ t2[x] = t[x]
    BY <1>5, <1>6, <2>1
  <2>3. Forest(nd2, lk2, t2, F) BY ONLY <2>2, SameForest
  <2> QED BY <2>1, <2>3
<1>8. Layout(node', link', t, Loose, waiting', X, Added, O)
  <2>1. PICK w, nd2, lk2, F, K : w = waiting /\ nd2 = node' /\ lk2 = link' /\ F = Loose /\ K = Added OBVIOUS
  <2>2. Ats(w) \subseteq DOMAIN node
    <3>1. Ats(w) \subseteq Frags(link, t, w) BY DEF Ats, Frags, Frag
    <3> QED BY <1>4, <2>1, <3>1 DEF Layout
  <2>3. Frag(link, t, f) = {p} BY <1>3 DEF Frag
  <2>4. /\ Layout(node, link, t, F, w, X, K, O) /\ w \in Seq(Activations) /\ w # <<>>
        /\ f = w[Len(w)] /\ Forest(nd2, lk2, t, F)
        /\ F \subseteq F /\ F \subseteq F \cup {f.at} /\ X \subseteq F
    BY <1>1, <1>3, <1>4, <1>5, <1>7, <2>1 DEF TreapType
  <2>5. /\ \A x \in DOMAIN node \ {f.at} : x \in DOMAIN nd2 /\ nd2[x] = node[x]
        /\ DOMAIN nd2 \subseteq DOMAIN node /\ f.at \notin DOMAIN nd2 /\ f.at \notin F /\ f.at \notin X
        /\ \A x \in F \ X : t[x] = t[x]
        /\ \A x \in Ats(w) \ {f.at} : lk2[x] = link[x]
    BY <1>3, <1>5, <1>6, <2>1, <2>2
  <2>6. X \cup (IF f.at \in DOMAIN nd2 THEN {} ELSE {f.at}) = X \cup Frag(link, t, f)
    BY <1>3, <2>3, <2>5
  <2>7. Layout(nd2, lk2, t, F, SubSeq(w, 1, Len(w) - 1), X, K, O)
    BY ONLY <2>4, <2>5, <2>6, Popped
  <2> QED BY <2>1, <2>7
<1>9. Loose' = Loose BY <1>8 DEF Layout, Loose
<1>10. tree' = tree /\ tree \in Nullable /\ tree \in Loose \cup {0} BY <1>1, <1>2 DEF TreapType, Shape, Working
<1>11. Layout(node', link', t, Loose', waiting', Below(t, tree'), Added, InMaps(t, Idle))
  BY <1>3, <1>8, <1>9, <1>10
<1> QED BY <1>1, <1>2, <1>3, <1>6, <1>9, <1>10, <1>11, Returned

\* Only a node just inserted may have a priority above the node that waits.
LEMMA OthersUnder ==
  ASSUME TreapType, JobType, NEW t, Shape(t), doing = "return", waiting # <<>>,
         NEW f, f = waiting[Len(waiting)], f.on # "delete", tree # 0
  PROVE  /\ ~Under(node, tree, f.at) => \A x \in t[tree] : x # tree => Under(node, x, f.at)
         /\ Under(node, tree, f.at) => \A x \in t[tree] : Under(node, x, f.at)
         /\ ~Under(node, tree, f.at) => job.op = "insert"
         /\ Under(node, tree, f.at) <=> ~(node[tree].prio > node[f.at].prio)
<1>1. PICK p, O : p = f.at /\ O = InMaps(t, Idle) OBVIOUS
<1>2. /\ Layout(node, link, t, Loose, waiting, Below(t, tree), Added, O) /\ p \in DOMAIN node
      /\ \A x \in Below(t, tree) : Hangs(node, link, t, f, x, Added)
  BY <1>1, ReturnFacts
<1>3. /\ Forest(node, link, t, Loose) /\ tree \in Loose /\ Loose \subseteq DOMAIN node
      /\ \A x \in Loose : node[x].key \in Int /\ node[x].prio \in Int
  BY MidCall
<1>4. Below(t, tree) = t[tree] /\ tree \in t[tree] BY <1>3, RootIn DEF Below
<1>5. node[p].prio \in Int BY <1>2, HeapFacts
<1>6. \A x \in t[tree] : x \in Loose /\ (Under(node, x, p) \/ node[x].key \in Added)
  BY <1>1, <1>2, <1>4 DEF Hangs, Layout
<1>7. \A x, y \in t[tree] : node[x].key = node[y].key => x = y
  <2>1. Holds(node, Outcome(content[job.map]), (DOMAIN node \ O) \ Dead(waiting))
    BY <1>1 DEF Shape, Working
  <2>2. t[tree] \subseteq (DOMAIN node \ O) \ Dead(waiting)
    BY <1>2, <1>4 DEF Layout, Dead
  <2> QED BY <2>1, <2>2 DEF Holds
<1>8. ASSUME ~Under(node, tree, p)
      PROVE  job.op = "insert" /\ \A x \in t[tree] : x # tree => Under(node, x, p)
  <2>1. node[tree].key \in Added BY <1>4, <1>6, <1>8
  <2>2. delta = 1 /\ node[tree].key = job.key BY <2>1 DEF Added
  <2>3. job.op = "insert" BY <2>2 DEF JobType
  <2>4. ASSUME NEW x \in t[tree], x # tree PROVE Under(node, x, p)
    <3>1. node[x].key # job.key BY <1>4, <1>7, <2>2, <2>4
    <3>2. node[x].key \notin Added BY <3>1 DEF Added
    <3> QED BY <1>6, <3>2
  <2> QED BY <2>3, <2>4
<1>9. ASSUME Under(node, tree, p), NEW x \in t[tree] PROVE Under(node, x, p)
  <2>1. node[x].prio <= node[tree].prio /\ node[x].prio \in Int BY <1>3, Highest
  <2> QED BY <1>3, <1>5, <1>9, <2>1 DEF Under
<1>10. Under(node, tree, p) <=> ~(node[tree].prio > node[p].prio) BY <1>3, <1>5 DEF Under
<1> QED BY <1>1, <1>8, <1>9, <1>10

\* The result becomes the child of the node that waited.
LEMMA JoinKeeps ==
  ASSUME TreapInv, doing = "return", waiting # <<>>,
         waiting' = SubSeq(waiting, 1, Len(waiting) - 1),
         NEW f, f = waiting[Len(waiting)], f.on # "delete", ~Above(f.at),
         link' = [link EXCEPT ![f.at][f.on] = tree], tree' = f.at,
         UNCHANGED <<node, root, size, content, job, doing, mate, delta>>
  PROVE  TreapInv'
<1>1. TreapType /\ JobType BY DEF TreapInv
<1>2. PICK t : Shape(t) BY DEF TreapInv
<1>3. PICK p, s, c, O, X : /\ p = f.at /\ s = f.on /\ c = tree /\ O = InMaps(t, Idle)
                           /\ X = Below(t, tree)
  OBVIOUS
<1>4. /\ f \in Activations /\ Layout(node, link, t, Loose, waiting, X, Added, O)
      /\ FrameOK(node, link, t, Loose, f) /\ p \in DOMAIN node /\ p \in Addresses
      /\ \A x \in X : Hangs(node, link, t, f, x, Added)
  <2>1. /\ f \in Activations /\ Layout(node, link, t, Loose, waiting, X, Added, O)
        /\ FrameOK(node, link, t, Loose, f) /\ p \in DOMAIN node
        /\ \A x \in X : Hangs(node, link, t, f, x, Added)
    BY <1>1, <1>2, <1>3, ReturnFacts
  <2> QED BY <1>1, <2>1 DEF TreapType
<1>5. /\ p \notin Loose /\ Forest(node, link, t, Loose) /\ Loose \subseteq DOMAIN node /\ X \subseteq Loose
      /\ s \in Sides /\ c \in Loose \cup {0} /\ c \in Nullable
  BY <1>1, <1>2, <1>3, <1>4 DEF FrameOK, Layout, Shape, Working, TreapType
<1>6. Opposite(s) \in Sides /\ Opposite(s) # s BY <1>5, Mirror
<1>7. /\ link'[p][s] = c /\ link'[p][Opposite(s)] = link[p][Opposite(s)]
      /\ \A x \in DOMAIN node \ {p} : link'[x] = link[x]
      /\ link' \in [DOMAIN node -> [Sides -> Nullable]]
  <2>1. link \in [DOMAIN node -> [Sides -> Nullable]] BY <1>1 DEF TreapType
  <2> QED BY <1>3, <1>4, <1>5, <1>6, <2>1
<1>8. \A x \in X : Under(node, x, p)
  <2>1. CASE c = 0 BY <1>3, <2>1 DEF Below
  <2>2. CASE c # 0
    <3>1. X = t[c] BY <1>3, <2>2 DEF Below
    <3>2. /\ ~Under(node, c, p) => job.op = "insert"
          /\ Under(node, c, p) => \A x \in t[c] : Under(node, x, p)
          /\ Under(node, c, p) <=> ~(node[c].prio > node[p].prio)
      BY <1>1, <1>2, <1>3, <2>2, OthersUnder
    <3>3. Under(node, c, p) BY <1>3, <2>2, <3>2 DEF Above
    <3> QED BY <3>1, <3>2, <3>3
  <2> QED BY <2>1, <2>2
<1>9. PICK t2 : /\ Forest(node, link', t2, Loose \cup {p})
                /\ \A x \in Loose : t2[x] = t[x]
                /\ t2[p] = X \cup Frag(link, t, f)
  <2>1. \A x \in Loose : link'[x] = link[x] BY <1>5, <1>7
  <2>2. \A x \in Below(t, c) : Under(node, x, p) /\ \A y \in Frag(link, t, f) : OnSide(node, f.on, x, y)
    BY <1>3, <1>4, <1>8 DEF Hangs
  <2>3. link'[f.at][f.on] = c /\ link'[f.at][Opposite(f.on)] = link[f.at][Opposite(f.on)]
    BY <1>3, <1>7
  <2>4. \E t2 : /\ Forest(node, link', t2, Loose \cup {f.at})
                /\ \A x \in Loose : t2[x] = t[x]
                /\ t2[f.at] = Below(t, c) \cup Frag(link, t, f)
    <3>1. PICK lk2, F : lk2 = link' /\ F = Loose OBVIOUS
    <3>2. /\ Forest(node, link, t, F) /\ FrameOK(node, link, t, F, f) /\ f.on # "delete" /\ c \in F \cup {0}
          /\ \A x \in Below(t, c) : Under(node, x, f.at) /\ \A y \in Frag(link, t, f) : OnSide(node, f.on, x, y)
          /\ lk2[f.at][f.on] = c /\ lk2[f.at][Opposite(f.on)] = link[f.at][Opposite(f.on)]
          /\ \A x \in F : lk2[x] = link[x]
      BY <1>3, <1>4, <1>5, <2>1, <2>2, <2>3, <3>1
    <3>3. \E t2 : /\ Forest(node, lk2, t2, F \cup {f.at})
                  /\ \A x \in F : t2[x] = t[x]
                  /\ t2[f.at] = Below(t, c) \cup Frag(link, t, f)
      BY ONLY <3>2, Attached
    <3> QED BY <3>1, <3>3
  <2> QED BY <1>3, <2>4
<1>10. Layout(node, link', t2, Loose \cup {p}, waiting', t2[p], Added, O)
  <2>1. PICK w, lk2, F, F2, K, X2 : /\ w = waiting /\ lk2 = link' /\ F = Loose /\ F2 = Loose \cup {p}
                                    /\ K = Added /\ X2 = t2[p]
    OBVIOUS
  <2>2. Ats(w) \subseteq DOMAIN node
    <3>1. Ats(w) \subseteq Frags(link, t, w) BY DEF Ats, Frags, Frag
    <3> QED BY <1>4, <2>1, <3>1 DEF Layout
  <2>3. X2 \subseteq F2 BY <1>9, <2>1 DEF Forest, TreeAt
  <2>4. /\ Layout(node, link, t, F, w, X, K, O) /\ w \in Seq(Activations) /\ w # <<>>
        /\ f = w[Len(w)] /\ Forest(node, lk2, t2, F2)
        /\ F \subseteq F2 /\ F2 \subseteq F \cup {f.at} /\ X2 \subseteq F2
    BY <1>1, <1>3, <1>4, <1>9, <2>1, <2>3 DEF TreapType
  <2>5. /\ \A x \in DOMAIN node \ {f.at} : x \in DOMAIN node /\ node[x] = node[x]
        /\ DOMAIN node \subseteq DOMAIN node /\ f.at \in DOMAIN node /\ f.at \in F2
        /\ \A x \in F \ X : t2[x] = t[x]
        /\ \A x \in Ats(w) \ {f.at} : lk2[x] = link[x]
    BY <1>3, <1>4, <1>7, <1>9, <2>1, <2>2
  <2>6. X2 \cup (IF f.at \in DOMAIN node THEN {} ELSE {f.at}) = X \cup Frag(link, t, f)
    BY <1>9, <2>1, <2>5
  <2>7. Layout(node, lk2, t2, F2, SubSeq(w, 1, Len(w) - 1), X2, K, O)
    <3>1. PICK nd2 : nd2 = node OBVIOUS
    <3>2. /\ \A x \in DOMAIN node \ {f.at} : x \in DOMAIN nd2 /\ nd2[x] = node[x]
          /\ DOMAIN nd2 \subseteq DOMAIN node /\ f.at \in DOMAIN nd2 /\ nd2[f.at] = node[f.at]
          /\ X2 \cup (IF f.at \in DOMAIN nd2 THEN {} ELSE {f.at}) = X \cup Frag(link, t, f)
          /\ Forest(nd2, lk2, t2, F2)
      BY <2>4, <2>5, <2>6, <3>1
    <3>3. Layout(nd2, lk2, t2, F2, SubSeq(w, 1, Len(w) - 1), X2, K, O)
      BY ONLY <2>4, <2>5, <3>2, Popped
    <3> QED BY <3>1, <3>3
  <2> QED BY <2>1, <2>7
<1>11. Loose' = Loose \cup {p} BY <1>10 DEF Layout, Loose
<1>12. tree' = p /\ p \in Nullable /\ Below(t2, p) = t2[p]
  <2>1. p # 0 BY <1>1, <1>4, HeapFacts
  <2> QED BY <1>3, <1>4, <2>1 DEF Nullable, Below
<1>13. Layout(node', link', t2, Loose', waiting', Below(t2, tree'), Added, InMaps(t, Idle))
  BY <1>3, <1>10, <1>11, <1>12
<1>14. \A x \in Loose \ Below(t, tree) : t2[x] = t[x] BY <1>9
<1>15. node' \in [DOMAIN node' -> TreapNodes] /\ link' \in [DOMAIN node' -> [Sides -> Nullable]]
  BY <1>1, <1>7 DEF TreapType
<1>16. tree' \in Nullable /\ tree' \in Loose' \cup {0} BY <1>11, <1>12
<1>17. /\ DOMAIN node' \subseteq DOMAIN node /\ DOMAIN node' = DOMAIN node
       /\ \A x \in DOMAIN node' : node'[x] = node[x]
       /\ f.on = "delete" => DOMAIN node' = DOMAIN node \ {f.at}
  OBVIOUS
<1>18. /\ TreapType /\ JobType /\ Shape(t) /\ doing = "return" /\ waiting # <<>>
       /\ f = waiting[Len(waiting)] /\ waiting' = SubSeq(waiting, 1, Len(waiting) - 1)
       /\ UNCHANGED <<root, size, content, job, doing, mate, delta>>
       /\ f.on # "delete" => DOMAIN node' = DOMAIN node
  BY <1>1, <1>2
<1> QED BY ONLY <1>13, <1>14, <1>15, <1>16, <1>17, <1>18, Returned

\* A result above the node that waited takes its place.
LEMMA RotateKeeps ==
  ASSUME TreapInv, doing = "return", waiting # <<>>,
         waiting' = SubSeq(waiting, 1, Len(waiting) - 1),
         NEW f, f = waiting[Len(waiting)], f.on # "delete", Above(f.at),
         link' = Rotate([link EXCEPT ![f.at][f.on] = tree], f.at, f.on),
         UNCHANGED <<node, tree, root, size, content, job, doing, mate, delta>>
  PROVE  TreapInv'
<1>1. TreapType /\ JobType BY DEF TreapInv
<1>2. PICK t : Shape(t) BY DEF TreapInv
<1>3. PICK p, s, o, c, O, X : /\ p = f.at /\ s = f.on /\ o = Opposite(s) /\ c = tree /\ O = InMaps(t, Idle)
                              /\ X = Below(t, tree)
  OBVIOUS
<1>4. /\ f \in Activations /\ Layout(node, link, t, Loose, waiting, X, Added, O)
      /\ FrameOK(node, link, t, Loose, f) /\ p \in DOMAIN node /\ p \in Addresses
      /\ \A x \in X : Hangs(node, link, t, f, x, Added)
  <2>1. /\ f \in Activations /\ Layout(node, link, t, Loose, waiting, X, Added, O)
        /\ FrameOK(node, link, t, Loose, f) /\ p \in DOMAIN node
        /\ \A x \in X : Hangs(node, link, t, f, x, Added)
    BY <1>1, <1>2, <1>3, ReturnFacts
  <2> QED BY <1>1, <2>1 DEF TreapType
<1>5. tree # 0 /\ node[c].prio > node[p].prio BY <1>3 DEF Above
<1>6. /\ p \notin Loose /\ Forest(node, link, t, Loose) /\ Loose \subseteq DOMAIN node /\ X \subseteq Loose
      /\ s \in Sides /\ c \in Loose /\ c \in Nullable
  BY <1>1, <1>2, <1>3, <1>4, <1>5 DEF FrameOK, Layout, Shape, Working, TreapType
<1>7. o \in Sides /\ o # s BY <1>3, <1>6, Mirror
<1>8. c # p /\ c \in DOMAIN node BY <1>6
<1>9. /\ link'[p][s] = link[c][o] /\ link'[p][o] = link[p][o]
      /\ link'[c][o] = p /\ link'[c][s] = link[c][s]
      /\ \A x \in DOMAIN node \ {p, c} : link'[x] = link[x]
      /\ link' \in [DOMAIN node -> [Sides -> Nullable]]
  <2>1. link \in [DOMAIN node -> [Sides -> Nullable]] BY <1>1 DEF TreapType
  <2>2. PICK l : l = [link EXCEPT ![p][s] = c] OBVIOUS
  <2>3. /\ l \in [DOMAIN node -> [Sides -> Nullable]] /\ l[p][s] = c /\ l[p][o] = link[p][o]
        /\ \A x \in DOMAIN node \ {p} : l[x] = link[x]
    BY <1>4, <1>6, <1>7, <2>1, <2>2
  <2>4. PICK d : d = l[c][o] OBVIOUS
  <2>5. d \in Nullable /\ d = link[c][o] /\ p \in Nullable
    <3>1. l[c] \in [Sides -> Nullable] BY ONLY <1>8, <2>3
    <3> QED BY <1>4, <1>7, <1>8, <2>3, <2>4, <3>1 DEF Nullable
  <2>6. link' = [l EXCEPT ![p][s] = d, ![c][o] = p]
    <3>1. link' = Rotate(l, p, s) BY <1>3, <2>2
    <3>2. o = Opposite(s) BY <1>3
    <3> QED BY ONLY <2>3, <2>4, <3>1, <3>2 DEF Rotate
  <2>7. PICK g : g = [l EXCEPT ![p][s] = d] OBVIOUS
  <2>8. /\ g \in [DOMAIN node -> [Sides -> Nullable]] /\ g[p][s] = d /\ g[p][o] = link[p][o]
        /\ \A x \in DOMAIN node \ {p} : g[x] = link[x]
    BY <1>4, <1>6, <1>7, <2>3, <2>5, <2>7
  <2>9. link' = [g EXCEPT ![c][o] = p] BY <2>6, <2>7
  <2>10. link' \in [DOMAIN node -> [Sides -> Nullable]]
    <3>1. PICK D, G, T : D = DOMAIN node /\ G = [g[c] EXCEPT ![o] = p] /\ T = [Sides -> Nullable] OBVIOUS
    <3>2. g[c] \in T /\ g \in [D -> T] /\ c \in D BY <1>8, <2>8, <3>1
    <3>3. G \in T BY <1>7, <2>5, <3>1, <3>2
    <3>4. link' = [g EXCEPT ![c] = G] BY <2>9, <3>1
    <3>5. link' \in [D -> T] BY <3>2, <3>3, <3>4
    <3> QED BY <3>1, <3>5
  <2>11. \A x \in DOMAIN node \ {c} : link'[x] = g[x] BY ONLY <2>8, <2>9
  <2>12. link'[c][o] = p /\ link'[c][s] = g[c][s] BY ONLY <1>6, <1>7, <1>8, <2>8, <2>9
  <2>13. \A x \in DOMAIN node \ {p, c} : link'[x] = link[x] BY <2>8, <2>11
  <2>14. link'[p] = g[p] /\ g[c] = link[c] BY <1>4, <1>8, <2>8, <2>11
  <2> QED BY <2>5, <2>8, <2>10, <2>12, <2>13, <2>14
<1>10. X = t[c] /\ c \in t[c] /\ c # 0 BY <1>3, <1>5, <1>6, RootIn DEF Below
<1>11. ~Under(node, c, p) /\ \A x \in X : x # c => Under(node, x, p)
  BY <1>1, <1>2, <1>3, <1>5, <1>10, OthersUnder
<1>12. \A x \in Loose \ {c} : c \notin t[x]
  <2>1. PICK F, K : F = Loose /\ K = Added OBVIOUS
  <2>2. Layout(node, link, t, F, waiting, X, K, O) /\ c \in X BY <1>4, <1>10, <2>1
  <2>3. \A x \in X \ {c} : c \notin t[x] BY <1>6, <1>10, TopIs
  <2>4. \A x \in F \ {c} : c \notin t[x] BY ONLY <2>2, <2>3, NoneAbove
  <2> QED BY <2>1, <2>4
<1>13. PICK t2 : /\ Forest(node, link', t2, Loose \cup {p})
                 /\ \A x \in Loose \ {c} : t2[x] = t[x]
                 /\ t2[c] = X \cup Frag(link, t, f)
  <2>1. PICK lk2, F : lk2 = link' /\ F = Loose OBVIOUS
  <2>2. Below(t, c) = X BY <1>3
  <2>3. /\ Forest(node, link, t, F) /\ FrameOK(node, link, t, F, f) /\ f.on # "delete" /\ c \in F
        /\ \A x \in Below(t, c) : /\ x # c => Under(node, x, f.at)
                                  /\ \A y \in Frag(link, t, f) : OnSide(node, f.on, x, y)
        /\ ~Under(node, c, f.at) /\ \A x \in F \ {c} : c \notin t[x]
    <3>1. Forest(node, link, t, F) /\ FrameOK(node, link, t, F, f) /\ c \in F BY <1>4, <1>6, <2>1
    <3>2. f.on # "delete" OBVIOUS
    <3>3. p = f.at /\ \A x \in F \ {c} : c \notin t[x] BY <1>3, <1>12, <2>1
    <3>4. \A x \in X : \A y \in Frag(link, t, f) : OnSide(node, f.on, x, y)
      BY ONLY <1>4, <3>2 DEF Hangs
    <3> QED BY ONLY <1>11, <2>2, <3>1, <3>2, <3>3, <3>4
  <2>4. /\ lk2[f.at][f.on] = link[c][Opposite(f.on)]
        /\ lk2[f.at][Opposite(f.on)] = link[f.at][Opposite(f.on)]
        /\ lk2[c][Opposite(f.on)] = f.at /\ lk2[c][f.on] = link[c][f.on]
        /\ \A x \in F \ {c} : lk2[x] = link[x]
    <3>1. \A x \in Loose \ {c} : x \in DOMAIN node \ {p, c} BY <1>6
    <3> QED BY ONLY <1>3, <1>9, <2>1, <3>1
  <2>5. \E t2 : /\ Forest(node, lk2, t2, F \cup {f.at})
                /\ \A x \in F \ {c} : t2[x] = t[x]
                /\ t2[c] = Below(t, c) \cup Frag(link, t, f)
    BY ONLY <2>3, <2>4, Rotated
  <2> QED BY <1>3, <2>1, <2>2, <2>5
<1>14. Layout(node, link', t2, Loose \cup {p}, waiting', t2[c], Added, O)
  <2>1. PICK w, nd2, lk2, F, F2, K, X2 : /\ w = waiting /\ nd2 = node /\ lk2 = link' /\ F = Loose
                                         /\ F2 = Loose \cup {p} /\ K = Added /\ X2 = t2[c]
    OBVIOUS
  <2>2. Ats(w) \subseteq DOMAIN node /\ c \notin Ats(w)
    <3>1. Ats(w) \subseteq Frags(link, t, w) BY DEF Ats, Frags, Frag
    <3> QED BY <1>4, <1>6, <2>1, <3>1 DEF Layout
  <2>3. X2 \subseteq F2 BY <1>6, <1>13, <2>1 DEF Forest, TreeAt
  <2>4. /\ Layout(node, link, t, F, w, X, K, O) /\ w \in Seq(Activations) /\ w # <<>>
        /\ f = w[Len(w)] /\ Forest(nd2, lk2, t2, F2)
        /\ F \subseteq F2 /\ F2 \subseteq F \cup {f.at} /\ X2 \subseteq F2
    <3>1. w \in Seq(Activations) BY <1>1, <2>1 DEF TreapType
    <3>2. w # <<>> /\ f = w[Len(w)] BY <2>1
    <3> QED BY ONLY <1>3, <1>4, <1>13, <2>1, <2>3, <3>1, <3>2
  <2>5. /\ \A x \in DOMAIN node \ {f.at} : x \in DOMAIN nd2 /\ nd2[x] = node[x]
        /\ DOMAIN nd2 \subseteq DOMAIN node /\ f.at \in DOMAIN nd2 /\ nd2[f.at] = node[f.at] /\ f.at \in F2
        /\ \A x \in F \ X : t2[x] = t[x]
        /\ \A x \in Ats(w) \ {f.at} : lk2[x] = link[x]
    BY ONLY <1>3, <1>4, <1>9, <1>10, <1>13, <2>1, <2>2
  <2>6. X2 \cup (IF f.at \in DOMAIN nd2 THEN {} ELSE {f.at}) = X \cup Frag(link, t, f)
    BY <1>13, <2>1, <2>5
  <2>7. Layout(nd2, lk2, t2, F2, SubSeq(w, 1, Len(w) - 1), X2, K, O)
    BY ONLY <2>4, <2>5, <2>6, Popped
  <2> QED BY <2>1, <2>7
<1>15. Loose' = Loose \cup {p} BY <1>14 DEF Layout, Loose
<1>16. Layout(node', link', t2, Loose', waiting', Below(t2, tree'), Added, InMaps(t, Idle))
  <2>1. Below(t2, tree') = t2[c] BY <1>3, <1>10 DEF Below
  <2> QED BY <1>3, <1>14, <1>15, <2>1
<1>17. \A x \in Loose \ Below(t, tree) : t2[x] = t[x] BY <1>3, <1>10, <1>13, SMTT(30)
<1>18. node' \in [DOMAIN node' -> TreapNodes] /\ link' \in [DOMAIN node' -> [Sides -> Nullable]]
  BY <1>1, <1>9 DEF TreapType
<1>19. tree' \in Nullable /\ tree' \in Loose' \cup {0} BY <1>3, <1>6, <1>15
<1>20. /\ DOMAIN node' \subseteq DOMAIN node /\ DOMAIN node' = DOMAIN node
       /\ \A x \in DOMAIN node' : node'[x] = node[x]
       /\ f.on = "delete" => DOMAIN node' = DOMAIN node \ {f.at}
  OBVIOUS
<1>21. /\ TreapType /\ JobType /\ Shape(t) /\ doing = "return" /\ waiting # <<>>
       /\ f = waiting[Len(waiting)] /\ waiting' = SubSeq(waiting, 1, Len(waiting) - 1)
       /\ UNCHANGED <<root, size, content, job, doing, mate, delta>>
       /\ f.on # "delete" => DOMAIN node' = DOMAIN node
  BY <1>1, <1>2
<1> QED BY ONLY <1>16, <1>17, <1>18, <1>19, <1>20, <1>21, Returned

LEMMA ResumeKeeps == ASSUME TreapInv, Resume PROVE TreapInv'
<1>1. PICK f : f = waiting[Len(waiting)] OBVIOUS
<1>2. /\ doing = "return" /\ waiting # <<>> /\ waiting' = SubSeq(waiting, 1, Len(waiting) - 1)
      /\ UNCHANGED <<root, size, content, job, doing, mate, delta>>
  BY DEF Resume, mapVars
<1>3. CASE f.on = "delete"
  <2>1. /\ node' = Without(node, {f.at}) /\ link' = Without(link, {f.at}) /\ UNCHANGED tree
    BY <1>1, <1>3 DEF Resume
  <2> QED BY <1>1, <1>2, <1>3, <2>1, DeleteKeeps
<1>4. CASE f.on # "delete" /\ Above(f.at)
  <2>1. /\ link' = Rotate([link EXCEPT ![f.at][f.on] = tree], f.at, f.on)
        /\ UNCHANGED <<node, tree>>
    BY <1>1, <1>4 DEF Resume
  <2> QED BY <1>1, <1>2, <1>4, <2>1, RotateKeeps
<1>5. CASE f.on # "delete" /\ ~Above(f.at)
  <2>1. /\ link' = [link EXCEPT ![f.at][f.on] = tree] /\ tree' = f.at /\ UNCHANGED node
    BY <1>1, <1>5 DEF Resume
  <2> QED BY <1>1, <1>2, <1>5, <2>1, JoinKeeps
<1> QED BY <1>3, <1>4, <1>5

LEMMA SmallerKid ==
  ASSUME NEW nd, NEW lk, NEW t, NEW F, Forest(nd, lk, t, F), IsFiniteSet(F),
         NEW n \in F, NEW s \in Sides, lk[n][s] # 0
  PROVE  /\ lk[n][s] \in F
         /\ Cardinality(t[lk[n][s]]) < Cardinality(t[n])
         /\ Cardinality(t[lk[n][s]]) \in Nat /\ Cardinality(t[n]) \in Nat
<1>1. PICK c : c = lk[n][s] OBVIOUS
<1>2. c \in F /\ Below(t, c) \subseteq t[n] \ {n} /\ Below(t, c) = t[c] BY <1>1, KidsOf DEF Below
<1>3. t[n] \subseteq F /\ n \in t[n] BY RootIn DEF Forest, TreeAt
<1>4. IsFiniteSet(t[n]) /\ Cardinality(t[n]) \in Nat BY <1>3, FS_Subset, FS_CardinalityType
<1>5. /\ IsFiniteSet(t[c]) /\ Cardinality(t[c]) <= Cardinality(t[n])
      /\ Cardinality(t[n]) = Cardinality(t[c]) => t[n] = t[c]
  BY <1>2, <1>4, FS_Subset
<1>6. Cardinality(t[c]) \in Nat BY <1>5, FS_CardinalityType
<1>7. t[n] # t[c] BY <1>2, <1>3
<1> QED BY <1>1, <1>2, <1>4, <1>5, <1>6, <1>7

\* destroy_subtree visits the tree it is given, and that only.
LEMMA Visits ==
  ASSUME NEW nd, NEW lk, NEW t, NEW F, Forest(nd, lk, t, F), NEW x \in F, NEW v,
         \A s \in Sides : lk[x][s] # 0 => v[lk[x][s]] = t[lk[x][s]]
  PROVE  {x} \cup UNION {v[lk[x][side]] : side \in {s \in Sides : lk[x][s] # 0}} = t[x]
<1>1. t[x] = {x} \cup Below(t, lk[x]["left"]) \cup Below(t, lk[x]["right"]) BY DEF Forest, TreeAt
<1>2. PICK U : U = UNION {v[lk[x][side]] : side \in {s \in Sides : lk[x][s] # 0}} OBVIOUS
<1>3. \A y : y \in U <=> \E s \in Sides : lk[x][s] # 0 /\ y \in v[lk[x][s]] BY <1>2
<1>4. \A y : y \in U <=> \E s \in Sides : y \in Below(t, lk[x][s]) BY <1>3 DEF Below
<1>5. \A y : y \in U <=> y \in Below(t, lk[x]["left"]) \/ y \in Below(t, lk[x]["right"])
  BY <1>4 DEF Sides
<1>6. {x} \cup U = t[x] BY <1>1, <1>5
<1> QED BY <1>2, <1>6

LEMMA SubtreeIs ==
  ASSUME TreapType, NEW t, Forest(node, link, t, DOMAIN node), NEW n \in DOMAIN node \cup {0}
  PROVE  Subtree(n) = Below(t, n)
<1> DEFINE R(v) == [x \in DOMAIN node |->
                      {x} \cup UNION {v[link[x][side]] : side \in {s \in Sides : link[x][s] # 0}}]
<1>1. IsFiniteSet(DOMAIN node) BY TreapAssumption, FS_Subset DEF TreapType
<1>2. PICK v : v = [x \in DOMAIN node |-> t[x]] OBVIOUS
<1>3. v = R(v)
  <2>1. ASSUME NEW x \in DOMAIN node PROVE v[x] = R(v)[x]
    <3>1. \A s \in Sides : link[x][s] # 0 => v[link[x][s]] = t[link[x][s]]
      BY <1>1, <1>2, SmallerKid
    <3> QED BY <1>2, <3>1, Visits
  <2>2. R(v) = [x \in DOMAIN node |-> R(v)[x]] OBVIOUS
  <2> HIDE DEF R
  <2>3. R(v) = [x \in DOMAIN node |-> v[x]] BY <2>1, <2>2
  <2> QED BY <1>2, <2>3
<1>4. PICK V : V = CHOOSE u : u = R(u) OBVIOUS
<1>5. V = R(V)
  <2> HIDE DEF R
  <2> QED BY <1>3, <1>4
<1>6. PICK B : B = {x \in DOMAIN node : V[x] # t[x]} OBVIOUS
<1>7. B = {}
  <2>1. SUFFICES ASSUME B # {} PROVE FALSE OBVIOUS
  <2>2. \A x \in DOMAIN node : Cardinality(t[x]) \in Nat
    <3>1. ASSUME NEW x \in DOMAIN node PROVE Cardinality(t[x]) \in Nat
      <4>1. t[x] \subseteq DOMAIN node BY DEF Forest, TreeAt
      <4> QED BY <1>1, <4>1, FS_Subset, FS_CardinalityType
    <3> QED BY <3>1
  <2>3. PICK N : N = {Cardinality(t[x]) : x \in B} OBVIOUS
  <2>4. N \in SUBSET Nat /\ N # {} BY <1>6, <2>1, <2>2, <2>3
  <2>5. PICK k \in N : \A m \in N : k <= m BY ONLY <2>4, LeastNumber
  <2>6. PICK x \in B : k = Cardinality(t[x]) BY <2>3
  <2>7. x \in DOMAIN node /\ V[x] # t[x] BY <1>6
  <2>8. ASSUME NEW s \in Sides, link[x][s] # 0 PROVE V[link[x][s]] = t[link[x][s]]
    <3>1. PICK c : c = link[x][s] OBVIOUS
    <3>2. c \in DOMAIN node /\ Cardinality(t[c]) < k /\ Cardinality(t[c]) \in Nat /\ k \in Nat
      BY <1>1, <2>6, <2>7, <2>8, <3>1, SmallerKid
    <3>3. c \notin B
      <4>1. ASSUME c \in B PROVE FALSE
        <5>1. Cardinality(t[c]) \in N BY <2>3, <4>1
        <5> QED BY <2>5, <3>2, <5>1
      <4> QED BY <4>1
    <3> QED BY <1>6, <3>1, <3>2, <3>3
  <2>9. V[x] = {x} \cup UNION {V[link[x][side]] : side \in {s \in Sides : link[x][s] # 0}}
    BY <1>5, <2>7
  <2>10. V[x] = t[x] BY <2>7, <2>8, <2>9, Visits
  <2> QED BY <2>7, <2>10
<1>8. Subtree(n) = IF n = 0 THEN {} ELSE V[n]
  <2>1. Subtree(n) = IF n = 0 THEN {} ELSE (CHOOSE u : u = R(u))[n] BY DEF Subtree
  <2> HIDE DEF R
  <2> QED BY <1>4, <2>1
<1> QED BY <1>6, <1>7, <1>8 DEF Below

\* Nothing but maps.
LEMMA ReadyFacts ==
  ASSUME TreapType, JobType, NEW t, Shape(t), doing = "ready"
  PROVE  /\ Forest(node, link, t, DOMAIN node)
         /\ tree = 0 /\ mate = 0 /\ delta = 0 /\ waiting = <<>>
         /\ \A m \in Maps : /\ root[m] \in DOMAIN node \cup {0} /\ Holds(node, content[m], Below(t, root[m]))
                            /\ \A x \in Below(t, root[m]) : x \in DOMAIN node /\ t[x] \subseteq Below(t, root[m])
         /\ \A m, o \in Maps : m # o => Below(t, root[m]) \cap Below(t, root[o]) = {}
         /\ \A x \in DOMAIN node : \E m \in Maps : x \in Below(t, root[m])
<1>1. waiting = <<>> /\ tree = 0 /\ mate = 0 /\ delta = 0 BY DEF JobType
<1>2. Idle = Maps /\ InHand(t) = {} /\ Loose = DOMAIN node /\ Frags(link, t, waiting) = {}
  BY <1>1, NobodyWaits DEF Idle, InHand, Below
<1>3. Layout(node, link, t, Loose, waiting, {}, Added, InMaps(t, Maps)) BY <1>2 DEF Shape
<1>4. Forest(node, link, t, DOMAIN node) /\ DOMAIN node = InMaps(t, Maps) BY <1>2, <1>3 DEF Layout
<1>5. /\ \A m \in Maps : root[m] \in DOMAIN node \cup {0} /\ Holds(node, content[m], Below(t, root[m]))
      /\ \A m, o \in Maps : m # o => Below(t, root[m]) \cap Below(t, root[o]) = {}
  BY <1>2 DEF Shape, IdleMaps
<1>6. \A m \in Maps : \A x \in Below(t, root[m]) : x \in DOMAIN node /\ t[x] \subseteq Below(t, root[m])
  BY <1>4, <1>5, Inside
<1>7. \A x \in DOMAIN node : \E m \in Maps : x \in Below(t, root[m]) BY <1>4 DEF InMaps
<1> QED BY <1>1, <1>4, <1>5, <1>6, <1>7

LEMMA Settled ==
  ASSUME doing' = "ready", waiting' = <<>>, tree' = 0, mate' = 0, delta' = 0,
         NEW t, Forest(node', link', t, DOMAIN node'),
         \A m \in Maps : root'[m] \in DOMAIN node' \cup {0} /\ Holds(node', content'[m], Below(t, root'[m])),
         \A m, o \in Maps : m # o => Below(t, root'[m]) \cap Below(t, root'[o]) = {},
         \A x \in DOMAIN node' : \E m \in Maps : x \in Below(t, root'[m])
  PROVE  Shape(t)'
<1>1. PICK w : w = waiting' OBVIOUS
<1>2. Len(w) = 0 /\ 1..Len(w) = {} BY <1>1, EmptySeq
<1>3. Ats(w) = {} /\ Frags(link', t, w) = {} BY <1>2 DEF Ats, Frags
<1>4. Loose' = DOMAIN node' /\ Idle' = Maps /\ InHand(t)' = {} /\ Added' = {}
  <2>1. Idle' = Maps /\ InHand(t)' = {} /\ Added' = {} BY DEF Idle, InHand, Below, Added
  <2>2. Loose' = DOMAIN node' \ Ats(w) BY <1>1 DEF Loose
  <2> QED BY <1>3, <2>1, <2>2
<1>5. PICK O : O = InMaps(t, Idle)' OBVIOUS
<1>6. O = DOMAIN node'
  <2>1. \A x : x \in O <=> \E m \in Maps : x \in Below(t, root'[m]) BY <1>4, <1>5 DEF InMaps
  <2>2. ASSUME NEW m \in Maps, NEW x \in Below(t, root'[m]) PROVE x \in DOMAIN node' BY <2>2, Inside
  <2> QED BY <2>1, <2>2
<1>7. \A x \in O : t[x] \subseteq O BY <1>6 DEF Forest, TreeAt
<1>8. Stacked(node', link', t, Loose', w, {}, {}) BY <1>2 DEF Stacked
<1>9. Layout(node', link', t, Loose', w, {}, {}, O) BY <1>3, <1>4, <1>6, <1>7, <1>8 DEF Layout
<1>10. Layout(node', link', t, Loose', waiting', InHand(t)', Added', InMaps(t, Idle)')
  BY <1>1, <1>4, <1>5, <1>9
<1>11. IdleMaps(t)' BY <1>4 DEF IdleMaps
<1>12. Working(t)' BY DEF Working
<1> QED BY <1>10, <1>11, <1>12 DEF Shape

LEMMA FinishedKeeps == ASSUME TreapInv, Finished PROVE TreapInv'
<1>1. TreapType /\ JobType BY DEF TreapInv
<1>2. PICK t : Shape(t) BY DEF TreapInv
<1>3. PICK j, c, O, h : j = job.map /\ c = Outcome(content[job.map]) /\ O = InMaps(t, Idle) /\ h = tree
  OBVIOUS
<1>4. /\ doing = "return" /\ waiting = <<>> /\ doing' = "ready" /\ mate = 0
      /\ root' = [root EXCEPT ![j] = h] /\ size' = [size EXCEPT ![j] = size[j] + delta]
      /\ content' = [content EXCEPT ![j] = c] /\ tree' = 0 /\ delta' = 0
      /\ UNCHANGED <<node, link, waiting, mate>>
  BY <1>1, <1>3 DEF Finished, heapVars, JobType
<1>5. /\ Idle = Maps \ {j} /\ j \in Maps /\ Forest(node, link, t, Loose)
      /\ DOMAIN node = InHand(t) \cup O \cup Frags(link, t, waiting) /\ InHand(t) \cap O = {}
      /\ tree \in Loose \cup {0}
  BY <1>1, <1>2, <1>3, <1>4, MidCall
<1>6. Loose = DOMAIN node /\ Frags(link, t, waiting) = {} /\ Dead(waiting) = {}
  BY <1>4, NobodyWaits
<1>7. InHand(t) = Below(t, h) BY <1>3, <1>4 DEF InHand, Below
<1>8. /\ \A m \in Maps \ {j} : root[m] \in DOMAIN node \cup {0} /\ Holds(node, content[m], Below(t, root[m]))
      /\ \A m, o \in Maps \ {j} : m # o => Below(t, root[m]) \cap Below(t, root[o]) = {}
  BY <1>2, <1>5, <1>6 DEF Shape, IdleMaps
<1>9. \A x : x \in O <=> \E m \in Maps \ {j} : x \in Below(t, root[m]) BY <1>3, <1>5 DEF InMaps
<1>10. /\ DOMAIN root = Maps /\ DOMAIN size = Maps /\ DOMAIN content = Maps
       /\ root' \in [Maps -> Nullable] /\ h \in Nullable
  BY <1>1, <1>3, <1>4 DEF TreapType
<1>11. /\ root'[j] = h /\ content'[j] = c /\ size'[j] = size[j] + delta
       /\ \A m \in Maps \ {j} : root'[m] = root[m] /\ content'[m] = content[m] /\ size'[m] = size[m]
  BY <1>4, <1>5, <1>10
<1>12. Holds(node, c, Below(t, h)) /\ Cardinality(DOMAIN c) = size[j] + delta
  <2>1. Holds(node, c, (DOMAIN node \ O) \ Dead(waiting)) /\ Cardinality(DOMAIN c) = size[j] + delta
    BY <1>2, <1>3, <1>4 DEF Shape, Working
  <2>2. (DOMAIN node \ O) \ Dead(waiting) = Below(t, h) BY <1>5, <1>6, <1>7
  <2> QED BY <2>1, <2>2
<1>13. TreapType'
  <2>1. IsFiniteSet(DOMAIN c)
    <3>1. IsFiniteSet(DOMAIN content[j]) BY <1>1, <1>5 DEF TreapType
    <3>2. DOMAIN c \subseteq DOMAIN content[j] \cup {job.key}
      BY <1>3 DEF Outcome, With, Without
    <3> QED BY <3>1, <3>2, FS_AddElement, FS_Subset
  <2>2. size[j] + delta \in Int BY <1>1, <1>5 DEF TreapType
  <2>3. size' \in [Maps -> Int] BY <1>1, <1>4, <2>2 DEF TreapType
  <2>4. \A m \in Maps : IsFiniteSet(DOMAIN content'[m]) /\ size'[m] = Cardinality(DOMAIN content'[m])
    BY <1>1, <1>11, <1>12, <2>1 DEF TreapType
  <2>5. DOMAIN content' = Maps BY <1>4, <1>10
  <2> QED BY <1>1, <1>4, <1>10, <2>3, <2>4, <2>5 DEF TreapType, Nullable
<1>14. JobType' BY <1>4 DEF JobType
<1>15. Shape(t)'
  <2>1. \A m \in Maps : root'[m] \in DOMAIN node' \cup {0} /\ Holds(node', content'[m], Below(t, root'[m]))
    BY <1>3, <1>4, <1>5, <1>6, <1>8, <1>11, <1>12
  <2>2. \A m, o \in Maps : m # o => Below(t, root'[m]) \cap Below(t, root'[o]) = {}
    <3>1. \A m \in Maps \ {j} : Below(t, root[m]) \cap Below(t, h) = {} BY <1>5, <1>7, <1>9
    <3> QED BY <1>8, <1>11, <3>1
  <2>3. \A x \in DOMAIN node' : \E m \in Maps : x \in Below(t, root'[m])
    BY <1>4, <1>5, <1>6, <1>7, <1>9, <1>11
  <2>4. Forest(node', link', t, DOMAIN node') BY <1>4, <1>5, <1>6
  <2>5. doing' = "ready" /\ waiting' = <<>> /\ tree' = 0 /\ mate' = 0 /\ delta' = 0 BY <1>4
  <2> QED BY <2>1, <2>2, <2>3, <2>4, <2>5, Settled
<1> QED BY <1>13, <1>14, <1>15 DEF TreapInv

\* Without the nodes of one map, the other is as it was.
LEMMA DestroysOne ==
  ASSUME TreapType, JobType, NEW t, Shape(t), doing = "ready", NEW m \in Maps, Destroyed(m)
  PROVE  /\ DOMAIN node' = DOMAIN node \ Below(t, root[m]) /\ Forest(node', link', t, DOMAIN node')
         /\ node' \in [DOMAIN node' -> TreapNodes] /\ link' \in [DOMAIN node' -> [Sides -> Nullable]]
         /\ \A o \in Maps \ {m} : /\ root[o] \in DOMAIN node' \cup {0}
                                  /\ Holds(node', content[o], Below(t, root[o]))
<1>1. /\ Forest(node, link, t, DOMAIN node)
      /\ \A o \in Maps : /\ root[o] \in DOMAIN node \cup {0} /\ Holds(node, content[o], Below(t, root[o]))
                         /\ \A x \in Below(t, root[o]) : x \in DOMAIN node /\ t[x] \subseteq Below(t, root[o])
      /\ \A p, o \in Maps : p # o => Below(t, root[p]) \cap Below(t, root[o]) = {}
      /\ \A x \in DOMAIN node : \E o \in Maps : x \in Below(t, root[o])
  BY ReadyFacts
<1>2. PICK S : S = Below(t, root[m]) OBVIOUS
<1>3. node' = Without(node, S) /\ link' = Without(link, S)
  <2>1. Subtree(root[m]) = S BY <1>1, <1>2, SubtreeIs
  <2> QED BY <2>1 DEF Destroyed
<1>4. /\ DOMAIN node' = DOMAIN node \ S /\ \A x \in DOMAIN node \ S : node'[x] = node[x]
      /\ \A x \in DOMAIN node \ S : link'[x] = link[x]
      /\ node' \in [DOMAIN node' -> TreapNodes] /\ link' \in [DOMAIN node' -> [Sides -> Nullable]]
  <2>1. /\ \A x \in DOMAIN node : node[x] \in TreapNodes /\ link[x] \in [Sides -> Nullable]
        /\ DOMAIN link = DOMAIN node
    BY DEF TreapType
  <2> QED BY <1>3, <2>1 DEF Without
<1>5. \A o \in Maps \ {m} : \A x \in Below(t, root[o]) : x \in DOMAIN node \ S BY <1>1, <1>2
<1>6. Forest(node', link', t, DOMAIN node')
  <2>1. ASSUME NEW x \in DOMAIN node \ S PROVE t[x] \cap S = {}
    <3>1. PICK o \in Maps : x \in Below(t, root[o]) BY <1>1, <2>1
    <3>2. o # m BY <1>2, <2>1, <3>1
    <3>3. t[x] \subseteq Below(t, root[o]) BY <1>1, <3>1
    <3> QED BY <1>5, <3>2, <3>3
  <2>2. Forest(node, link, t, DOMAIN node \ S) BY <1>1, <2>1, Uproot
  <2>3. PICK nd2, lk2, F, t2 : nd2 = node' /\ lk2 = link' /\ F = DOMAIN node \ S /\ t2 = t OBVIOUS
  <2>4. /\ Forest(node, link, t, F)
        /\ \A x \in F : /\ nd2[x].key = node[x].key /\ nd2[x].prio = node[x].prio
                        /\ lk2[x] = link[x] /\ t2[x] = t[x]
    BY <1>4, <2>2, <2>3
  <2>5. Forest(nd2, lk2, t2, F) BY ONLY <2>4, SameForest
  <2> QED BY <1>4, <2>3, <2>5
<1>7. ASSUME NEW o \in Maps \ {m}
      PROVE  root[o] \in DOMAIN node' \cup {0} /\ Holds(node', content[o], Below(t, root[o]))
  <2>1. root[o] # 0 => root[o] \in Below(t, root[o]) BY <1>1, RootIn
  <2>2. root[o] \in DOMAIN node' \cup {0} BY <1>1, <1>4, <1>5, <2>1
  <2>3. \A x \in Below(t, root[o]) : node'[x] = node[x] BY <1>4, <1>5
  <2> QED BY <1>1, <2>2, <2>3 DEF Holds
<1> QED BY <1>2, <1>4, <1>6, <1>7

LEMMA ClearKeeps == ASSUME TreapInv, NEW m \in Maps, Clear(m) PROVE TreapInv'
<1>1. TreapType /\ JobType BY DEF TreapInv
<1>2. PICK t : Shape(t) BY DEF TreapInv
<1>3. /\ doing = "ready" /\ Destroyed(m) /\ root' = [root EXCEPT ![m] = 0]
      /\ size' = [size EXCEPT ![m] = 0] /\ content' = [content EXCEPT ![m] = NoKeys]
      /\ UNCHANGED <<job, doing, waiting, tree, mate, delta>>
  BY DEF Clear
<1>4. /\ tree = 0 /\ mate = 0 /\ delta = 0 /\ waiting = <<>>
      /\ \A p, o \in Maps : p # o => Below(t, root[p]) \cap Below(t, root[o]) = {}
      /\ \A x \in DOMAIN node : \E o \in Maps : x \in Below(t, root[o])
  BY <1>1, <1>2, <1>3, ReadyFacts
<1>5. /\ DOMAIN node' = DOMAIN node \ Below(t, root[m]) /\ Forest(node', link', t, DOMAIN node')
      /\ node' \in [DOMAIN node' -> TreapNodes] /\ link' \in [DOMAIN node' -> [Sides -> Nullable]]
      /\ \A o \in Maps \ {m} : /\ root[o] \in DOMAIN node' \cup {0}
                               /\ Holds(node', content[o], Below(t, root[o]))
  BY <1>1, <1>2, <1>3, DestroysOne
<1>6. /\ root'[m] = 0 /\ content'[m] = NoKeys /\ size'[m] = 0 /\ DOMAIN content' = Maps
      /\ \A o \in Maps \ {m} : root'[o] = root[o] /\ content'[o] = content[o] /\ size'[o] = size[o]
      /\ root' \in [Maps -> Nullable] /\ size' \in [Maps -> Int]
  BY <1>1, <1>3 DEF TreapType, Nullable
<1>7. TreapType'
  <2>1. DOMAIN NoKeys = {} BY DEF NoKeys
  <2>2. \A o \in Maps : IsFiniteSet(DOMAIN content'[o]) /\ size'[o] = Cardinality(DOMAIN content'[o])
    BY <1>1, <1>6, <2>1, FS_EmptySet DEF TreapType
  <2> QED BY <1>1, <1>3, <1>5, <1>6, <2>2 DEF TreapType
<1>8. JobType' BY <1>1, <1>3 DEF JobType
<1>9. Shape(t)'
  <2>1. Below(t, root'[m]) = {} BY <1>6 DEF Below
  <2>2. Holds(node', NoKeys, {}) BY DEF Holds, NoKeys
  <2>3. \A o \in Maps : root'[o] \in DOMAIN node' \cup {0} /\ Holds(node', content'[o], Below(t, root'[o]))
    BY <1>5, <1>6, <2>1, <2>2
  <2>4. \A p, o \in Maps : p # o => Below(t, root'[p]) \cap Below(t, root'[o]) = {}
    BY <1>4, <1>6, <2>1
  <2>5. \A x \in DOMAIN node' : \E o \in Maps : x \in Below(t, root'[o])
    <3>1. ASSUME NEW x \in DOMAIN node' PROVE \E o \in Maps : x \in Below(t, root'[o])
      <4>1. PICK o \in Maps : x \in Below(t, root[o]) BY <1>4, <1>5, <3>1
      <4>2. o # m BY <1>5, <3>1, <4>1
      <4> QED BY <1>6, <4>1, <4>2
    <3> QED BY <3>1
  <2>6. doing' = "ready" /\ waiting' = <<>> /\ tree' = 0 /\ mate' = 0 /\ delta' = 0 BY <1>3, <1>4
  <2> QED BY <1>5, <2>3, <2>4, <2>5, <2>6, Settled
<1> QED BY <1>7, <1>8, <1>9 DEF TreapInv

LEMMA MoveKeeps == ASSUME TreapInv, NEW m \in Maps, NEW o \in Maps, MoveAssign(m, o) PROVE TreapInv'
<1>1. TreapType /\ JobType BY DEF TreapInv
<1>2. PICK t : Shape(t) BY DEF TreapInv
<1>3. /\ doing = "ready" /\ m # o /\ Destroyed(m) /\ root' = [root EXCEPT ![m] = root[o], ![o] = 0]
      /\ size' = [size EXCEPT ![m] = size[o], ![o] = 0]
      /\ content' = [content EXCEPT ![m] = content[o], ![o] = NoKeys]
      /\ UNCHANGED <<job, doing, waiting, tree, mate, delta>>
  BY DEF MoveAssign
<1>4. /\ tree = 0 /\ mate = 0 /\ delta = 0 /\ waiting = <<>>
      /\ \A x \in DOMAIN node : \E p \in Maps : x \in Below(t, root[p])
  BY <1>1, <1>2, <1>3, ReadyFacts
<1>5. /\ DOMAIN node' = DOMAIN node \ Below(t, root[m]) /\ Forest(node', link', t, DOMAIN node')
      /\ node' \in [DOMAIN node' -> TreapNodes] /\ link' \in [DOMAIN node' -> [Sides -> Nullable]]
      /\ root[o] \in DOMAIN node' \cup {0} /\ Holds(node', content[o], Below(t, root[o]))
  BY <1>1, <1>2, <1>3, DestroysOne
<1>6. \A p \in Maps : p = m \/ p = o BY <1>3 DEF Maps
<1>7. /\ root'[m] = root[o] /\ content'[m] = content[o] /\ size'[m] = size[o]
      /\ root'[o] = 0 /\ content'[o] = NoKeys /\ size'[o] = 0 /\ DOMAIN content' = Maps
      /\ root' \in [Maps -> Nullable] /\ size' \in [Maps -> Int]
  <2>1. PICK r, z, c : r = root[o] /\ z = size[o] /\ c = content[o] OBVIOUS
  <2>2. /\ root \in [Maps -> Nullable] /\ r \in Nullable /\ size \in [Maps -> Int] /\ z \in Int
        /\ DOMAIN content = Maps /\ 0 \in Nullable /\ 0 \in Int
    BY <1>1, <2>1 DEF TreapType, Nullable
  <2>3. root'[m] = r /\ root'[o] = 0 /\ root' \in [Maps -> Nullable] BY <1>3, <2>1, <2>2
  <2>4. size'[m] = z /\ size'[o] = 0 /\ size' \in [Maps -> Int] BY <1>3, <2>1, <2>2
  <2>5. content'[m] = c /\ content'[o] = NoKeys /\ DOMAIN content' = Maps BY <1>3, <2>1, <2>2
  <2> QED BY <2>1, <2>3, <2>4, <2>5
<1>8. TreapType'
  <2>1. DOMAIN NoKeys = {} BY DEF NoKeys
  <2>2. \A p \in Maps : IsFiniteSet(DOMAIN content'[p]) /\ size'[p] = Cardinality(DOMAIN content'[p])
    BY <1>1, <1>6, <1>7, <2>1, FS_EmptySet DEF TreapType
  <2> QED BY <1>1, <1>3, <1>5, <1>7, <2>2 DEF TreapType
<1>9. JobType' BY <1>1, <1>3 DEF JobType
<1>10. Shape(t)'
  <2>1. Below(t, root'[o]) = {} BY <1>7 DEF Below
  <2>2. Holds(node', NoKeys, {}) BY DEF Holds, NoKeys
  <2>3. \A p \in Maps : root'[p] \in DOMAIN node' \cup {0} /\ Holds(node', content'[p], Below(t, root'[p]))
    BY <1>5, <1>6, <1>7, <2>1, <2>2
  <2>4. \A p, q \in Maps : p # q => Below(t, root'[p]) \cap Below(t, root'[q]) = {}
    BY <1>6, <2>1
  <2>5. \A x \in DOMAIN node' : \E p \in Maps : x \in Below(t, root'[p])
    BY <1>4, <1>5, <1>6, <1>7
  <2>6. doing' = "ready" /\ waiting' = <<>> /\ tree' = 0 /\ mate' = 0 /\ delta' = 0 BY <1>3, <1>4
  <2> QED BY <1>5, <2>3, <2>4, <2>5, <2>6, Settled
<1> QED BY <1>8, <1>9, <1>10 DEF TreapInv

LEMMA TreapIdles == ASSUME TreapInv, UNCHANGED treapVars PROVE TreapInv'
<1>1. UNCHANGED <<node, link, root, size, content, job, doing, waiting, tree, mate, delta>>
  BY DEF treapVars
<1>2. TreapType' BY <1>1 DEF TreapInv, TreapType
<1>3. JobType' BY <1>1 DEF TreapInv, JobType
<1>4. PICK t : Shape(t) BY DEF TreapInv
<1>5. /\ Loose' = Loose /\ InHand(t)' = InHand(t) /\ Added' = Added /\ Idle' = Idle
      /\ InMaps(t, Idle)' = InMaps(t, Idle) /\ Outcome(content[job.map])' = Outcome(content[job.map])
  BY <1>1 DEF Loose, InHand, Added, Idle, InMaps, Outcome
<1>6. Layout(node', link', t, Loose', waiting', InHand(t)', Added', InMaps(t, Idle)')
  BY <1>1, <1>4, <1>5 DEF Shape
<1>7. IdleMaps(t)' BY <1>1, <1>4, <1>5 DEF Shape, IdleMaps
<1>8. Working(t)' BY <1>1, <1>4, <1>5 DEF Shape, Working
<1> QED BY <1>2, <1>3, <1>6, <1>7, <1>8 DEF TreapInv, Shape

LEMMA TreapInvNext == TreapInv /\ [TreapNext]_treapVars => TreapInv'
<1> SUFFICES ASSUME TreapInv, [TreapNext]_treapVars PROVE TreapInv' OBVIOUS
<1>1. ASSUME NEW m \in Maps, NEW e \in Entries, NEW assign \in BOOLEAN, Insert(m, e[1], e[2], assign)
      PROVE  TreapInv'
  <2>1. e[1] \in Keys /\ e[2] \in TreapValues BY DEF Keys, TreapValues
  <2>2. Start("insert", m, e[1], e[2], assign) /\ Addresses \ DOMAIN node # {} BY <1>1 DEF Insert
  <2> QED BY <2>1, <2>2, StartKeeps
<1>2. ASSUME NEW m \in Maps, NEW k \in Keys, Erase(m, k) PROVE TreapInv'
  <2>1. Start("erase", m, k, 0, FALSE) BY <1>2 DEF Erase
  <2> QED BY <2>1, StartKeeps
<1>3. ASSUME NEW m \in Maps, Clear(m) PROVE TreapInv' BY <1>3, ClearKeeps
<1>4. ASSUME NEW m \in Maps, NEW o \in Maps, MoveAssign(m, o) PROVE TreapInv' BY <1>4, MoveKeeps
<1>5. CASE Descend BY <1>5, DescendKeeps
<1>6. CASE NewNode BY <1>6, NewNodeKeeps
<1>7. CASE Match BY <1>7, MatchKeeps
<1>8. CASE NotFound BY <1>8, NotFoundKeeps
<1>9. CASE Found BY <1>9, FoundKeeps
<1>10. CASE Merge BY <1>10, MergeKeeps
<1>11. CASE MergeEnds BY <1>11, MergeEndsKeeps
<1>12. CASE Resume BY <1>12, ResumeKeeps
<1>13. CASE Finished BY <1>13, FinishedKeeps
<1>14. CASE UNCHANGED treapVars BY <1>14, TreapIdles
<1> QED BY <1>1, <1>2, <1>3, <1>4, <1>5, <1>6, <1>7, <1>8, <1>9, <1>10, <1>11, <1>12, <1>13, <1>14
        DEF TreapNext

(***************************************************************************)
(* find goes down the tree that has the key, and is there in time.         *)
(***************************************************************************)
LEMMA GoesDown ==
  ASSUME NEW nd, NEW lk, NEW t, NEW F, Forest(nd, lk, t, F), IsFiniteSet(F),
         NEW n \in F, NEW k \in Int, nd[n].key # k,
         NEW c, c = lk[n][IF k < nd[n].key THEN "left" ELSE "right"]
  PROVE  /\ c \in F \cup {0} /\ Below(t, c) \subseteq t[n]
         /\ \A x \in t[n] : nd[x].key = k => x \in Below(t, c)
         /\ c # 0 => /\ Cardinality(t[c]) < Cardinality(t[n])
                     /\ Cardinality(t[c]) \in Nat /\ Cardinality(t[n]) \in Nat
<1>1. PICK s \in Sides : s = (IF k < nd[n].key THEN "left" ELSE "right") /\ c = lk[n][s] BY DEF Sides
<1>2. /\ c \in F \cup {0} /\ Below(t, c) \subseteq t[n]
      /\ t[n] = {n} \cup Below(t, c) \cup Below(t, lk[n][Opposite(s)])
  BY <1>1, KidsOf
<1>3. \A x \in Below(t, lk[n][Opposite(s)]) : nd[x].key # k
  <2>1. Opposite(s) \in Sides BY <1>1 DEF Opposite, Sides
  <2>2. \A x \in Below(t, lk[n][Opposite(s)]) : x \in F /\ OnSide(nd, Opposite(s), x, n)
    <3>1. PICK o \in Sides : o = Opposite(s) BY <2>1
    <3>2. lk[n][o] \in F \cup {0} /\ \A x \in Below(t, lk[n][o]) : OnSide(nd, o, x, n) BY KidsOf
    <3>3. \A x \in Below(t, lk[n][o]) : x \in F BY <3>2, Inside
    <3> QED BY <3>1, <3>2, <3>3
  <2>3. nd[n].key \in Int /\ \A x \in F : nd[x].key \in Int BY DEF Forest, TreeAt
  <2>4. ASSUME NEW x \in F, OnSide(nd, Opposite(s), x, n) PROVE nd[x].key # k
    <3>1. nd[n].key \in Int /\ nd[x].key \in Int BY <2>3
    <3>2. CASE k < nd[n].key
      <4>1. Opposite(s) = "right" BY <1>1, <3>2 DEF Opposite
      <4>2. nd[x].key > nd[n].key BY <2>4, <4>1 DEF OnSide
      <4> QED BY <3>1, <3>2, <4>2
    <3>3. CASE ~(k < nd[n].key)
      <4>1. Opposite(s) = "left" BY <1>1, <3>3 DEF Opposite
      <4>2. nd[x].key < nd[n].key BY <2>4, <4>1 DEF OnSide
      <4> QED BY <3>1, <3>3, <4>2
    <3> QED BY <3>2, <3>3
  <2> QED BY <2>2, <2>4
<1>4. c # 0 => /\ Cardinality(t[c]) < Cardinality(t[n])
               /\ Cardinality(t[c]) \in Nat /\ Cardinality(t[n]) \in Nat
  BY <1>1, SmallerKid
<1>5. \A x \in t[n] : nd[x].key = k => x \in Below(t, c) BY <1>2, <1>3
<1> QED BY <1>2, <1>4, <1>5

LEMMA FindIs ==
  ASSUME TreapType, NEW t, Forest(node, link, t, DOMAIN node), NEW m \in Maps, NEW k \in Keys,
         root[m] \in DOMAIN node \cup {0}
  PROVE  /\ Find(m, k) \in Below(t, root[m]) \cup {0}
         /\ Find(m, k) # 0 => node[Find(m, k)].key = k
         /\ \A x \in Below(t, root[m]) : node[x].key = k => Find(m, k) # 0
<1> DEFINE Turn(n) == IF n = 0 \/ node[n].key = k THEN n
                      ELSE link[n][IF k < node[n].key THEN "left" ELSE "right"]
           R(u) == [i \in 0..Cardinality(Addresses) |->
                      IF i = 0 THEN root[m] ELSE Turn(u[i - 1])]
<1>1. PICK N, V : N = Cardinality(Addresses) /\ V = DOMAIN node \cup {0} OBVIOUS
<1>2. IsFiniteSet(DOMAIN node) /\ N \in Nat /\ k \in Int
  BY <1>1, TreapAssumption, FS_Subset, FS_CardinalityType DEF TreapType, Keys
<1>3. \A n \in V : Turn(n) \in V
  <2>1. ASSUME NEW n \in V PROVE Turn(n) \in V
    <3>1. CASE n = 0 \/ node[n].key = k BY <3>1
    <3>2. CASE ~(n = 0 \/ node[n].key = k)
      <4>1. PICK c : c = link[n][IF k < node[n].key THEN "left" ELSE "right"] OBVIOUS
      <4>2. n \in DOMAIN node /\ node[n].key # k BY <1>1, <3>2
      <4>3. c \in DOMAIN node \cup {0} BY <1>2, <4>1, <4>2, GoesDown
      <4> QED BY <1>1, <3>2, <4>1, <4>3
    <3> QED BY <3>1, <3>2
  <2> QED BY <2>1
<1>4. \E g : g = R(g)
  <2>1. PICK S : S = [q \in V \X (0..N - 1) |-> Turn(q[1])] OBVIOUS
  <2>2. S \in [V \X (0..N - 1) -> V]
    <3>1. \A q \in V \X (0..N - 1) : Turn(q[1]) \in V
      <4> HIDE DEF Turn
      <4> QED BY <1>3
    <3> HIDE DEF Turn
    <3> QED BY <2>1, <3>1
  <2>3. root[m] \in V BY <1>1
  <2>4. PICK g \in [0..N -> V] : Follows(g, N, root[m], S)
    <3> HIDE DEF Turn
    <3> QED BY <1>2, <2>2, <2>3, Recursion
  <2>5. \A i \in 1..N : g[i] = Turn(g[i - 1])
    <3>1. ASSUME NEW i \in 1..N PROVE g[i] = Turn(g[i - 1])
      <4>1. i - 1 \in 0..N - 1 /\ i - 1 \in 0..N BY <1>2
      <4>2. g[i - 1] \in V BY <4>1
      <4>3. g[i] = S[<<g[i - 1], i - 1>>] BY <2>4 DEF Follows
      <4> HIDE DEF Turn
      <4> QED BY <2>1, <4>1, <4>2, <4>3
    <3> QED BY <3>1
  <2>6. ASSUME NEW i \in 0..N PROVE g[i] = IF i = 0 THEN root[m] ELSE Turn(g[i - 1])
    <3>1. CASE i = 0 BY <2>4, <3>1 DEF Follows
    <3>2. CASE i # 0
      <4>1. i \in 1..N BY <3>2
      <4> HIDE DEF Turn
      <4> QED BY <2>5, <3>2, <4>1
    <3> QED BY <3>1, <3>2
  <2>7. g = [i \in 0..N |-> IF i = 0 THEN root[m] ELSE Turn(g[i - 1])]
    <3> HIDE DEF Turn
    <3> QED BY <2>6
  <2> HIDE DEF Turn
  <2> QED BY <1>1, <2>7
<1>5. PICK G : G = CHOOSE u : u = R(u) OBVIOUS
<1>6. G = R(G)
  <2> HIDE DEF R
  <2> QED BY <1>4, <1>5
<1>7. Find(m, k) = G[N]
  <2>1. Find(m, k) = (CHOOSE u : u = R(u))[Cardinality(Addresses)] BY DEF Find
  <2> HIDE DEF R
  <2> QED BY <1>1, <1>5, <2>1
<1>8. G[0] = root[m] /\ \A i \in 1..N : G[i] = Turn(G[i - 1])
  <2> HIDE DEF Turn
  <2>1. G = [i \in 0..N |-> IF i = 0 THEN root[m] ELSE Turn(G[i - 1])] BY <1>1, <1>6
  <2>2. 0 \in 0..N /\ \A i \in 1..N : i \in 0..N /\ i # 0 BY <1>2
  <2> HIDE DEF R
  <2> QED BY <2>1, <2>2
<1>9. PICK P : P = {i \in 0..N :
        /\ G[i] \in Below(t, root[m]) \cup {0}
        /\ \A x \in Below(t, root[m]) : node[x].key = k => x \in Below(t, G[i])
        /\ G[i] = 0 \/ node[G[i]].key = k \/ Cardinality(t[G[i]]) + i <= N}
  OBVIOUS
<1> HIDE DEF R
<1>10. 0 \in P
  <2>1. root[m] # 0 => root[m] \in Below(t, root[m]) BY RootIn
  <2>2. ASSUME root[m] # 0 PROVE Cardinality(t[root[m]]) + 0 <= N
    <3>1. root[m] \in DOMAIN node BY <2>2
    <3>2. t[root[m]] \subseteq Addresses BY <3>1 DEF Forest, TreeAt, TreapType
    <3>3. Cardinality(t[root[m]]) \in Nat /\ Cardinality(t[root[m]]) <= N
      BY <1>1, <3>2, TreapAssumption, FS_Subset, FS_CardinalityType
    <3> QED BY <1>2, <3>3
  <2>3. 0 \in 0..N BY <1>2
  <2> QED BY <1>8, <1>9, <2>1, <2>2, <2>3
<1>11. ASSUME NEW i \in 1..N, i - 1 \in P PROVE i \in P
  <2>1. PICK n, c : n = G[i - 1] /\ c = G[i] OBVIOUS
  <2>2. /\ n \in Below(t, root[m]) \cup {0}
        /\ \A x \in Below(t, root[m]) : node[x].key = k => x \in Below(t, n)
        /\ n = 0 \/ node[n].key = k \/ Cardinality(t[n]) + (i - 1) <= N
    BY <1>9, <1>11, <2>1
  <2>3. c = Turn(n)
    <3> HIDE DEF Turn
    <3> QED BY <1>8, <2>1
  <2>4. CASE n = 0 \/ node[n].key = k
    <3>1. c = n BY <2>3, <2>4
    <3>2. G[i] = n /\ i \in 0..N BY <2>1, <3>1
    <3>3. G[i] = 0 \/ node[G[i]].key = k BY <2>4, <3>2
    <3> QED BY <1>9, <2>2, <3>2, <3>3
  <2>5. CASE ~(n = 0 \/ node[n].key = k)
    <3>1. c = link[n][IF k < node[n].key THEN "left" ELSE "right"] BY <2>3, <2>5
    <3>2. n \in Below(t, root[m]) /\ n \in DOMAIN node /\ n # 0 /\ t[n] \subseteq Below(t, root[m])
          /\ Below(t, n) = t[n]
      BY <2>2, <2>5, Inside DEF Below
    <3>3. /\ c \in DOMAIN node \cup {0} /\ Below(t, c) \subseteq t[n]
          /\ \A x \in t[n] : node[x].key = k => x \in Below(t, c)
          /\ c # 0 => /\ Cardinality(t[c]) < Cardinality(t[n])
                      /\ Cardinality(t[c]) \in Nat /\ Cardinality(t[n]) \in Nat
      BY <1>2, <2>5, <3>1, <3>2, GoesDown
    <3>4. c \in Below(t, root[m]) \cup {0}
      <4>1. c # 0 => c \in Below(t, c) BY <3>3, RootIn
      <4> QED BY <3>2, <3>3, <4>1
    <3>5. c = 0 \/ Cardinality(t[c]) + i <= N
      BY <1>2, <2>2, <2>5, <3>3
    <3>6. \A x \in Below(t, root[m]) : node[x].key = k => x \in Below(t, c)
      BY <2>2, <3>2, <3>3
    <3>7. i \in 0..N OBVIOUS
    <3> QED BY <1>9, <2>1, <3>4, <3>5, <3>6, <3>7
  <2> QED BY <2>4, <2>5
<1>12. N \in P
  <2>1. \A i \in 0..N : i \in P BY <1>2, <1>10, <1>11, UpTo
  <2>2. N \in 0..N BY <1>2
  <2> QED BY <2>1, <2>2
<1>13. PICK n : n = G[N] OBVIOUS
<1>14. /\ n \in Below(t, root[m]) \cup {0}
       /\ \A x \in Below(t, root[m]) : node[x].key = k => x \in Below(t, n)
       /\ n = 0 \/ node[n].key = k \/ Cardinality(t[n]) + N <= N
  BY <1>9, <1>12, <1>13
<1>15. ASSUME n # 0 PROVE node[n].key = k
  <2>1. n \in DOMAIN node /\ n \in t[n] /\ t[n] \subseteq DOMAIN node
    <3>1. n \in DOMAIN node BY <1>14, <1>15, Inside
    <3> QED BY <3>1 DEF Forest, TreeAt
  <2>2. Cardinality(t[n]) \in Nat /\ Cardinality(t[n]) # 0
    BY <1>2, <2>1, FS_Subset, FS_CardinalityType, FS_EmptySet
  <2> QED BY <1>2, <1>14, <1>15, <2>2
<1>16. \A x \in Below(t, root[m]) : node[x].key = k => n # 0 BY <1>14 DEF Below
<1> QED BY <1>7, <1>13, <1>14, <1>15, <1>16

\* No two nodes of a map have the same key.
LEMMA AsManyKeys ==
  ASSUME NEW nd, NEW c, NEW S, Holds(nd, c, S), IsFiniteSet(S)
  PROVE  Cardinality(DOMAIN c) = Cardinality(S)
<1>1. PICK K, f : K = DOMAIN c /\ f = [x \in S |-> nd[x].key] OBVIOUS
<1>2. f \in [S -> K] BY <1>1 DEF Holds
<1>3. f \in Injection(S, K)
  <2>1. ASSUME NEW x \in S, NEW y \in S, f[x] = f[y] PROVE x = y BY <1>1, <2>1 DEF Holds
  <2> QED BY <1>2, <2>1 DEF Injection, IsInjective
<1>4. \A k \in K : \E x \in S : f[x] = k BY <1>1 DEF Holds
<1>5. f \in Surjection(S, K) BY <1>2, <1>4 DEF Surjection
<1>6. ExistsBijection(S, K) BY <1>3, <1>5 DEF Bijection, ExistsBijection
<1> QED BY <1>1, <1>6, FS_Bijection

LEMMA InOrder ==
  ASSUME TreapType, NEW t, Forest(node, link, t, DOMAIN node), NEW n \in DOMAIN node
  PROVE  Ordered(n)
<1> SUFFICES ASSUME NEW side \in Sides, NEW c \in Subtree(link[n][side])
             PROVE  /\ node[c].prio <= node[n].prio
                    /\ IF side = "left" THEN node[c].key < node[n].key ELSE node[c].key > node[n].key
  BY DEF Ordered
<1>1. link[n][side] \in DOMAIN node \cup {0} /\ \A x \in Below(t, link[n][side]) : OnSide(node, side, x, n) /\ Under(node, x, n)
  BY KidsOf
<1>2. c \in Below(t, link[n][side]) BY <1>1, SubtreeIs
<1> QED BY <1>1, <1>2 DEF OnSide, Under

LEMMA MapIs ==
  ASSUME TreapType, JobType, NEW t, Shape(t), doing = "ready", NEW m \in Maps
  PROVE  IsMap(m)
<1>1. /\ Forest(node, link, t, DOMAIN node)
      /\ root[m] \in DOMAIN node \cup {0} /\ Holds(node, content[m], Below(t, root[m]))
      /\ \A x \in Below(t, root[m]) : x \in DOMAIN node
  BY ReadyFacts
<1>2. Subtree(root[m]) = Below(t, root[m]) BY <1>1, SubtreeIs
<1>3. \A n \in Subtree(root[m]) : Ordered(n) BY <1>1, <1>2, InOrder
<1>4. size[m] = Cardinality(DOMAIN content[m]) BY DEF TreapType
<1>5. size[m] = Cardinality(Subtree(root[m]))
  <2>1. IsFiniteSet(Below(t, root[m])) BY <1>1, TreapAssumption, FS_Subset DEF TreapType
  <2> QED BY <1>1, <1>2, <1>4, <2>1, AsManyKeys
<1>6. ASSUME NEW k \in Keys
      PROVE  IF k \in DOMAIN content[m]
             THEN Find(m, k) # 0 /\ node[Find(m, k)].value = content[m][k]
             ELSE Find(m, k) = 0
  <2>1. PICK n : n = Find(m, k) OBVIOUS
  <2>2. /\ n \in Below(t, root[m]) \cup {0} /\ (n # 0 => node[n].key = k)
        /\ \A x \in Below(t, root[m]) : node[x].key = k => n # 0
    BY <1>1, <2>1, FindIs
  <2>3. /\ DOMAIN content[m] = {node[x].key : x \in Below(t, root[m])}
        /\ \A x \in Below(t, root[m]) : content[m][node[x].key] = node[x].value
    BY <1>1 DEF Holds
  <2>4. CASE k \in DOMAIN content[m]
    <3>1. n # 0 BY <2>2, <2>3, <2>4
    <3>2. node[n].value = content[m][k] BY <2>2, <2>3, <3>1
    <3> QED BY <2>1, <2>4, <3>1, <3>2
  <2>5. CASE k \notin DOMAIN content[m]
    <3>1. n = 0 BY <2>2, <2>3, <2>5
    <3> QED BY <2>1, <2>5, <3>1
  <2> QED BY <2>4, <2>5
<1> QED BY <1>3, <1>4, <1>5, <1>6 DEF IsMap

LEMMA TreapInvIsEnough == TreapInv => TreapIsMap
<1> SUFFICES ASSUME TreapInv, doing = "ready"
             PROVE  /\ \A m \in Maps : IsMap(m)
                    /\ DOMAIN node = Subtree(root["a"]) \cup Subtree(root["b"])
                    /\ Subtree(root["a"]) \cap Subtree(root["b"]) = {}
  BY DEF TreapIsMap
<1>1. TreapType /\ JobType BY DEF TreapInv
<1>2. PICK t : Shape(t) BY DEF TreapInv
<1>3. \A m \in Maps : IsMap(m) BY <1>1, <1>2, MapIs
<1>4. /\ Forest(node, link, t, DOMAIN node)
      /\ \A m \in Maps : /\ root[m] \in DOMAIN node \cup {0}
                         /\ \A x \in Below(t, root[m]) : x \in DOMAIN node
      /\ \A m, o \in Maps : m # o => Below(t, root[m]) \cap Below(t, root[o]) = {}
      /\ \A x \in DOMAIN node : \E m \in Maps : x \in Below(t, root[m])
  BY <1>1, <1>2, ReadyFacts
<1>5. "a" \in Maps /\ "b" \in Maps /\ "a" # "b" /\ \A m \in Maps : m = "a" \/ m = "b" BY DEF Maps
<1>6. PICK A, B : A = Below(t, root["a"]) /\ B = Below(t, root["b"]) OBVIOUS
<1>7. Subtree(root["a"]) = A /\ Subtree(root["b"]) = B BY <1>1, <1>4, <1>5, <1>6, SubtreeIs
<1>8. A \cap B = {} /\ A \subseteq DOMAIN node /\ B \subseteq DOMAIN node BY <1>4, <1>5, <1>6
<1>9. \A x \in DOMAIN node : x \in A \/ x \in B BY <1>4, <1>5, <1>6
<1> QED BY <1>3, <1>7, <1>8, <1>9

\* Whatever is inserted, assigned, erased, cleared and moved, and whatever the
\* priorities drawn, each treap is a search tree and a heap of its own nodes,
\* with none lost, and finds exactly what was put in it.
THEOREM TreapHoldsItsMap == TreapSpec => []TreapIsMap
<1>1. TreapInit => TreapInv BY TreapBegins
<1>2. TreapInv /\ [TreapNext]_treapVars => TreapInv' BY TreapInvNext
<1>3. TreapInv => TreapIsMap BY TreapInvIsEnough
<1> QED BY <1>1, <1>2, <1>3, PTL DEF TreapSpec

------------------------------------------------------------------------------
(***************************************************************************)
(* The calls of treap end: the activations that wait have a node each.     *)
(***************************************************************************)
Shallow == Len(waiting) \in 0..Cardinality(DOMAIN node) /\ IsFiniteSet(DOMAIN node)

LEMMA OneNodeEach == TreapInv => Shallow
<1> SUFFICES ASSUME TreapInv PROVE Shallow OBVIOUS
<1>1. TreapType BY DEF TreapInv
<1>2. PICK t : Shape(t) BY DEF TreapInv
<1>3. PICK w, l, D : w = waiting /\ l = Len(waiting) /\ D = DOMAIN node OBVIOUS
<1>4. Layout(node, link, t, Loose, w, InHand(t), Added, InMaps(t, Idle)) BY <1>2, <1>3 DEF Shape
<1>5. w \in Seq(Activations) /\ l \in Nat /\ Len(w) = l BY <1>1, <1>3 DEF TreapType
<1>6. IsFiniteSet(D) BY <1>1, <1>3, TreapAssumption, FS_Subset DEF TreapType
<1>7. PICK f : f = [i \in 1..l |-> w[i].at] OBVIOUS
<1>8. ASSUME NEW i \in 1..l PROVE w[i].at \in D /\ w[i].at \in Frag(link, t, w[i])
  <2>1. w[i].at \in Frag(link, t, w[i]) BY DEF Frag
  <2> QED BY <1>3, <1>4, <1>5, <2>1 DEF Layout, Frags
<1>9. ASSUME NEW i \in 1..l, NEW j \in 1..l, i < j PROVE f[i] # f[j]
  <2>1. Frag(link, t, w[j]) \cap Frag(link, t, w[i]) = {} BY <1>4, <1>5, <1>9, Separate
  <2> QED BY <1>7, <1>8, <2>1
<1>10. \A i, j \in 1..l : f[i] = f[j] => i = j
  <2>1. \A i, j \in 1..l : i < j \/ j < i \/ i = j BY <1>5
  <2> QED BY <1>9, <2>1
<1>11. f \in Injection(1..l, D)
  <2>1. f \in [1..l -> D] BY <1>7, <1>8
  <2> QED BY <1>10, <2>1 DEF Injection, IsInjective
<1>12. Cardinality(1..l) <= Cardinality(D) BY <1>6, <1>11, FS_Injection
<1>13. Cardinality(1..l) = l
  <2>1. 1 \in Int /\ l \in Int BY <1>5
  <2>2. Cardinality(1..l) = IF 1 > l THEN 0 ELSE l - 1 + 1 BY <2>1, FS_Interval
  <2> QED BY <1>5, <2>2
<1>14. Cardinality(D) \in Nat BY <1>6, FS_CardinalityType
<1> QED BY <1>3, <1>5, <1>6, <1>12, <1>13, <1>14 DEF Shallow

\* A call makes one more wait and a return one less.
LEMMA StepsOfCalls ==
  ASSUME TreapType, TreapNext, doing # "ready", doing' # "ready"
  PROVE  \/ /\ doing \in {"descend", "merge"} /\ doing' \in {"descend", "merge"}
            /\ node' = node /\ Len(waiting') = Len(waiting) + 1
         \/ /\ doing \in {"descend", "merge"} /\ doing' = "return"
            /\ Len(waiting') = Len(waiting)
         \/ /\ doing = "return" /\ doing' = "return" /\ Len(waiting) # 0
            /\ Len(waiting') = Len(waiting) - 1
<1>1. PICK w : w = waiting OBVIOUS
<1>2. w \in Seq(Activations) BY <1>1 DEF TreapType
<1>3. \A n, s : Call(n, s) => Len(waiting') = Len(w) + 1
  <2>1. \A e : Len(Append(w, e)) = Len(w) + 1 BY <1>2, AppendProperties
  <2> QED BY <1>1, <2>1 DEF Call
<1>4. CASE Descend
  <2>1. doing = "descend" /\ doing' = doing /\ node' = node BY <1>4 DEF Descend, heapVars
  <2>2. \E n, s : Call(n, s) BY <1>4 DEF Descend
  <2> QED BY <1>1, <1>3, <2>1, <2>2
<1>5. CASE NewNode BY <1>5 DEF NewNode
<1>6. CASE Match BY <1>6 DEF Match
<1>7. CASE NotFound \/ MergeEnds
  <2>1. doing \in {"descend", "merge"} /\ doing' = "return" /\ waiting' = waiting /\ node' = node
    BY <1>7 DEF NotFound, MergeEnds, heapVars
  <2> QED BY <2>1
<1>8. CASE Found
  <2>1. doing = "descend" /\ doing' = "merge" /\ node' = node BY <1>8 DEF Found, heapVars
  <2>2. \E n, s : Call(n, s) BY <1>8 DEF Found
  <2> QED BY <1>1, <1>3, <2>1, <2>2
<1>9. CASE Merge
  <2>1. doing = "merge" /\ doing' = doing /\ node' = node BY <1>9 DEF Merge, heapVars
  <2>2. \E n, s : Call(n, s) BY <1>9 DEF Merge
  <2> QED BY <1>1, <1>3, <2>1, <2>2
<1>10. CASE Resume
  <2>1. doing = "return" /\ doing' = doing /\ w # <<>> /\ waiting' = SubSeq(w, 1, Len(w) - 1)
    BY <1>1, <1>10 DEF Resume
  <2>2. Len(w) \in Nat /\ Len(w) # 0 BY <1>2, <2>1, EmptySeq
  <2>3. Len(SubSeq(w, 1, Len(w) - 1)) = Len(w) - 1
    <3>1. PICK l \in Nat : Len(w) = l + 1
      <4>1. Len(w) - 1 \in Nat /\ Len(w) = (Len(w) - 1) + 1 BY <2>2
      <4> QED BY <4>1
    <3>2. \A i \in 1..l : w[i] \in Activations BY <1>2, <3>1, ElementOfSeq
    <3>3. PICK v : v = SubSeq(w, 1, Len(w) - 1) OBVIOUS
    <3>4. v = [i \in 1..l |-> w[i]]
      <4>1. Len(w) - 1 = l BY <3>1
      <4> QED BY ONLY <3>2, <3>3, <4>1
    <3>5. Len(v) = l BY ONLY <3>2, <3>4
    <3>6. Len(w) - 1 = l BY <3>1
    <3> QED BY ONLY <3>3, <3>5, <3>6, ZenonT(40)
  <2> QED BY <1>1, <2>1, <2>2, <2>3
<1>11. CASE Finished BY <1>11 DEF Finished
<1>12. ASSUME doing = "ready" PROVE FALSE BY <1>12
<1> QED BY <1>4, <1>5, <1>6, <1>7, <1>8, <1>9, <1>10, <1>11, <1>12
        DEF TreapNext, Insert, Erase, Start, Clear, MoveAssign

LEMMA FewerStepsLeft ==
  ASSUME TreapType, Shallow, Shallow', TreapNext, doing # "ready", doing' # "ready"
  PROVE  StepsLeft' \in 0..StepsLeft - 1
<1>1. PICK l, m, c, d : /\ l = Len(waiting) /\ m = Len(waiting')
                        /\ c = Cardinality(DOMAIN node) /\ d = Cardinality(DOMAIN node')
  OBVIOUS
<1>2. IsFiniteSet(DOMAIN node) /\ l \in 0..c /\ m \in 0..d /\ c \in Nat /\ d \in Nat
  <2>1. l \in 0..c /\ m \in 0..d /\ IsFiniteSet(DOMAIN node) /\ IsFiniteSet(DOMAIN node')
    BY <1>1 DEF Shallow
  <2> QED BY <1>1, <2>1, FS_CardinalityType
<1>3. /\ doing \in {"descend", "merge"} => StepsLeft = 2 * c + 1 - l
      /\ doing = "return" => StepsLeft = l
      /\ doing' \in {"descend", "merge"} => StepsLeft' = 2 * d + 1 - m
      /\ doing' = "return" => StepsLeft' = m
  BY <1>1 DEF StepsLeft
<1>4. CASE /\ doing \in {"descend", "merge"} /\ doing' \in {"descend", "merge"}
           /\ node' = node /\ Len(waiting') = Len(waiting) + 1
  <2>1. d = c /\ m = l + 1 BY <1>1, <1>4
  <2> QED BY <1>2, <1>3, <1>4, <2>1
<1>5. CASE /\ doing \in {"descend", "merge"} /\ doing' = "return"
           /\ Len(waiting') = Len(waiting)
  <2>1. m = l BY <1>1, <1>5
  <2> QED BY <1>2, <1>3, <1>5, <2>1
<1>6. CASE /\ doing = "return" /\ doing' = "return" /\ Len(waiting) # 0
           /\ Len(waiting') = Len(waiting) - 1
  <2>1. m = l - 1 /\ l # 0 BY <1>1, <1>6
  <2> QED BY <1>2, <1>3, <1>6, <2>1
<1> QED BY <1>4, <1>5, <1>6, StepsOfCalls

\* Whatever the treap, an insert or erase makes at most two calls or returns
\* for each of its nodes and one more, and no deeper than its nodes.
THEOREM TreapCallsEnd == TreapSpec => CallsEnd
<1>1. TreapInit => TreapInv BY TreapBegins
<1>2. TreapInv /\ [TreapNext]_treapVars => TreapInv' BY TreapInvNext
<1>3. TreapInv => Shallow BY OneNodeEach
<1>4. ASSUME TreapInv, Shallow, Shallow', [TreapNext]_treapVars
      PROVE  [doing # "ready" /\ doing' # "ready" => StepsLeft' \in 0..StepsLeft - 1]_treapVars
  <2>1. TreapType BY <1>4 DEF TreapInv
  <2> QED BY <1>4, <2>1, FewerStepsLeft
<1> QED BY <1>1, <1>2, <1>3, <1>4, PTL DEF TreapSpec, CallsEnd
=============================================================================
