------------------------------ MODULE Callables ------------------------------
(***************************************************************************)
(* std_function/func.cpp: Function, which owns a callable of any type      *)
(* through a base pointer and copies it by copy().  The objects are a set  *)
(* of addresses; two Functions live in one scope.                          *)
(***************************************************************************)
EXTENDS Integers, FiniteSets

CONSTANTS Functors,    \* the callables a Function can be made from
          MaxCallables \* bound: callable_derived objects alive

Lost == -1
ASSUME CallablesAssumption == MaxCallables \in Nat /\ {0, Lost} \cap Functors = {}

VARIABLES
  callable,  \* the functor f of each callable_derived alive
  base,      \* base of each Function: an address, or 0
  lives,     \* Functions constructed and not destroyed
  stands,    \* the functor each Function should call; 0 for none, Lost when
             \* base was left pointing at a deleted object
  wrong      \* "no", or the step that used what it may not use

callVars == <<callable, base, lives, stands, wrong>>

Functions == {"f", "g"}
Addr == 1..MaxCallables
FreeAddr(h) == CHOOSE a \in Addr : a \notin DOMAIN h
Made(h, x) == [b \in DOMAIN h \cup {FreeAddr(h)} |-> IF b = FreeAddr(h) THEN x ELSE h[b]]
Room(h) == DOMAIN h # Addr
Drops(h, a) == [b \in DOMAIN h \ {a} |-> h[b]]
Goes(step) == wrong' = step /\ UNCHANGED <<callable, base, lives, stands>>

CallablesInit ==
  /\ callable = [a \in {} |-> 0]
  /\ base = [f \in Functions |-> 0]
  /\ lives = {} /\ stands = [f \in Functions |-> 0]
  /\ wrong = "no"

\* Function(functor) and Function().
Construct(f, x) ==
  /\ f \notin lives /\ (x # 0 => Room(callable))
  /\ callable' = IF x = 0 THEN callable ELSE Made(callable, x)
  /\ base' = [base EXCEPT ![f] = IF x = 0 THEN 0 ELSE FreeAddr(callable)]
  /\ lives' = lives \cup {f} /\ stands' = [stands EXCEPT ![f] = x]
  /\ UNCHANGED wrong

\* Function(const Function &f): copy() is called through a base not looked at.
CopyConstruct(f, g) ==
  /\ f \notin lives /\ g \in lives /\ Room(callable)
  /\ IF stands[g] \in {0, Lost} THEN Goes("copy")
     ELSE /\ callable' = Made(callable, callable[base[g]])
          /\ base' = [base EXCEPT ![f] = FreeAddr(callable)]
          /\ lives' = lives \cup {f} /\ stands' = [stands EXCEPT ![f] = stands[g]]
          /\ UNCHANGED wrong

\* Fault: operator= keeps what it held.
AssignFault(f, g) ==
  /\ {f, g} \subseteq lives /\ Room(callable) /\ stands[g] \notin {0, Lost}
  /\ callable' = Made(callable, callable[base[g]])
  /\ base' = [base EXCEPT ![f] = FreeAddr(callable)]
  /\ stands' = [stands EXCEPT ![f] = stands[g]]
  /\ UNCHANGED <<lives, wrong>>

\* operator=: what f held is deleted first, whatever comes next; copy() then
\* runs on what was deleted (f = g), on nothing, or finds no memory.
Assign(f, g) ==
  LET after == Drops(callable, base[f])
  IN /\ {f, g} \subseteq lives
     /\ IF stands[f] = Lost \/ stands[g] \in {0, Lost} \/ f = g THEN Goes("assign")
        ELSE \/ /\ Room(after)
                /\ callable' = Made(after, after[base[g]])
                /\ base' = [base EXCEPT ![f] = FreeAddr(after)]
                /\ stands' = [stands EXCEPT ![f] = stands[g]]
                /\ UNCHANGED <<lives, wrong>>
             \/ /\ callable' = after   \* bad_alloc
                /\ stands' = [stands EXCEPT ![f] = IF base[f] = 0 THEN 0 ELSE Lost]
                /\ UNCHANGED <<base, lives, wrong>>

CallStored(f) ==
  /\ f \in lives
  /\ IF stands[f] \in {0, Lost} THEN Goes("call") ELSE UNCHANGED callVars

DestroyFunction(f) ==
  /\ f \in lives
  /\ IF stands[f] = Lost THEN Goes("deleted twice")
     ELSE /\ callable' = Drops(callable, base[f])
          /\ base' = [base EXCEPT ![f] = 0]
          /\ lives' = lives \ {f} /\ stands' = [stands EXCEPT ![f] = 0]
          /\ UNCHANGED wrong

CallablesNext ==
  /\ wrong = "no"
  /\ \E f \in Functions :
       \/ \E x \in Functors \cup {0} : Construct(f, x)
       \/ \E g \in Functions : CopyConstruct(f, g) \/ Assign(f, g)
       \/ CallStored(f)
       \/ DestroyFunction(f)

-----------------------------------------------------------------------------
(***************************************************************************)
(* Each Function that is not empty owns a callable of its own, the one it  *)
(* was given or copied from, and none is leaked.  The exception is one an  *)
(* assignment ran out of memory on: its base is left pointing at what it   *)
(* deleted, which may by then be another Function's.                       *)
(***************************************************************************)
Owning == {f \in lives : stands[f] \notin {0, Lost}}
OneOwnerEach ==
  /\ DOMAIN callable = {base[f] : f \in Owning}
  /\ \A f \in Owning : callable[base[f]] = stands[f]
  /\ \A f, g \in Owning : base[f] = base[g] => f = g
=============================================================================
