------------------------------- MODULE Numbers -------------------------------
(***************************************************************************)
(* atoi/atoi.cpp, atoi/atoi_1.cpp and convert of others/iterator.cpp: text *)
(* to int, read one character at a time from a string nobody knows in      *)
(* advance.  int is w bits wide here; at 8 bits INT_MAX is 127, whose last *)
(* digit is 7 as that of 2147483647 is, and convert's limit 10^9 is 10^2.  *)
(***************************************************************************)
EXTENDS Integers

CONSTANTS Parsers,   \* subset of {"atoi", "atoi_1", "convert"}
          IntMax,    \* INT_MAX
          Limit,     \* convert's limit: the largest power of ten in an int
          Digits,    \* digits the strings are made of
          Beyond     \* bound: where the exact value stops being counted

ASSUME NumbersAssumption ==
  /\ {IntMax, Limit, Beyond} \subseteq Nat
  /\ IntMax % 10 = 7 /\ Limit <= IntMax /\ IntMax < Beyond
  /\ Digits \subseteq 0..9

VARIABLES
  parser,   \* which function
  at,       \* where it is: "space", "signed", "digits", "returned"
  sign, res,
  value,    \* what it returned; NullOpt for std::nullopt
  form,     \* what has been read, by the grammar of the text
  twoSigns, \* a minus and then a plus (convert) came before the digits
  exact,    \* the number the digits read so far stand for
  ended     \* the string has no more characters

numVars == <<parser, at, sign, res, value, form, twoSigns, exact, ended>>

NullOpt == 2 * Beyond
IntMin == -IntMax - 1
\* Characters that are not digits.
Space == 10
Plus == 11
Minus == 12
Letter == 13
Other == {Space, Plus, Minus, Letter}
Wrapped(n) == ((n - IntMin) % (2 * (IntMax + 1))) + IntMin
Capped(n) == IF n > Beyond THEN Beyond ELSE n

NumbersInit ==
  /\ parser \in Parsers
  /\ at = "space" /\ sign = 1 /\ res = 0 /\ value = <<>>
  /\ form = "empty" /\ twoSigns = FALSE /\ exact = 0 /\ ended = FALSE

-----------------------------------------------------------------------------
Return(v) == at' = "returned" /\ value' = <<v>> /\ UNCHANGED <<sign, res>>
Go(to) == at' = to /\ UNCHANGED <<sign, res, value>>

\* Fault: the last digit of INT_MAX is not looked at.
TooBigFault(d) == res > IntMax \div 10
\* The overflow test, before the digit is added; atoi_1 has 7 for INT_MAX % 10.
TooBig(d) == res > IntMax \div 10
             \/ (res = IntMax \div 10 /\ d > IF parser = "atoi" THEN IntMax % 10 ELSE 7)

\* myAtoi, one character: spaces, one sign, digits; anything else ends it.
AtoiReads(ch) ==
  CASE at = "space" /\ ch = Space -> Go("space")
    [] at = "space" /\ ch = Plus -> Go("digits")
    [] at = "space" /\ ch = Minus -> /\ at' = "digits" /\ sign' = -1
                                   /\ UNCHANGED <<res, value>>
    [] ch \in Digits /\ TooBig(ch) -> Return(IF sign = 1 THEN IntMax ELSE IntMin)
    [] ch \in Digits /\ ~TooBig(ch) -> /\ at' = "digits" /\ res' = res * 10 + ch
                                       /\ UNCHANGED <<sign, value>>
    [] OTHER -> Return(sign * res)

\* convert, one character and whether it is the last.  After a minus a plus is
\* taken too; a digit is added before it is known to fit.
ConvertReads(ch, last) ==
  LET sum == Wrapped(res * 10 + ch)
      first == at # "digits"
  IN CASE at = "space" /\ ch = Space -> IF last THEN Return(NullOpt) ELSE Go("space")
       [] at = "space" /\ ch = Minus -> IF last THEN Return(NullOpt)
                                      ELSE at' = "signed" /\ sign' = -1 /\ UNCHANGED <<res, value>>
       [] first /\ at # "plus" /\ ch = Plus -> IF last THEN Return(NullOpt) ELSE Go("plus")
       [] ch \in Digits ->
            IF \/ first /\ ch = 0 /\ ~last
               \/ sum = Limit /\ ~last
               \/ sum > Limit
            THEN Return(NullOpt)
            ELSE IF last THEN Return(Wrapped(sign * sum))
            ELSE at' = "digits" /\ res' = sum /\ UNCHANGED <<sign, value>>
       [] OTHER -> Return(NullOpt)

\* The end of the string, when it is not the end of a character read.
AtEnd == Return(IF parser = "convert" THEN NullOpt ELSE sign * res)

Reads(ch, last) ==
  IF at = "returned" THEN UNCHANGED <<at, sign, res, value>>
  ELSE IF parser = "convert" THEN ConvertReads(ch, last) ELSE AtoiReads(ch)

\* The grammar: space* sign? digits, then anything (myAtoi) or space* (convert).
Leading == form \in {"empty", "lead"}
NextForm(ch) ==
  CASE Leading /\ ch = Space -> "lead"
    [] Leading /\ ch = Minus -> "minus"
    [] Leading /\ ch = Plus -> "plus"
    [] form = "minus" /\ ch = Plus /\ parser = "convert" -> "minus plus"
    [] (Leading \/ form \in {"plus", "minus", "minus plus"}) /\ ch \in Digits ->
         IF ch = 0 THEN "zero" ELSE "number"
    [] form = "number" /\ ch \in Digits -> "number"
    [] form \in {"zero", "zeros"} /\ ch \in Digits -> "zeros"
    [] form \in {"zero", "number", "then space"} /\ ch = Space -> "then space"
    [] OTHER -> "other"

\* Digits count until the number is over.
Counting(ch) == ch \in Digits /\ form \notin {"then space", "other"}

Character(ch, last) ==
  /\ ~ended /\ ended' = last
  /\ Reads(ch, last)
  /\ form' = NextForm(ch)
  /\ twoSigns' = (twoSigns \/ form' = "minus plus")
  /\ exact' = IF Counting(ch) THEN Capped(exact * 10 + ch) ELSE exact
  /\ UNCHANGED parser

EndOfString ==
  \* the empty string, or (myAtoi) the loop finding no more characters
  /\ form = "empty" \/ ended
  /\ at # "returned"
  /\ ended' = TRUE /\ AtEnd
  /\ UNCHANGED <<parser, form, twoSigns, exact>>

NumbersNext == (\E ch \in Digits \cup Other, last \in BOOLEAN : Character(ch, last)) \/ EndOfString

-----------------------------------------------------------------------------
(***************************************************************************)
(* myAtoi returns the number at the head of the text, brought into the     *)
(* range of an int, and no sum on the way overflows.  convert, when the    *)
(* digits make an int, gives a number its value if it has no leading zero, *)
(* one sign at most, nothing after it, and is within the limit; beyond     *)
(* those, only what has spaces after it or two signs may be taken for one. *)
(***************************************************************************)
Clamp(n) == IF n > IntMax THEN IntMax ELSE IF n < IntMin THEN IntMin ELSE n
Numeral == form \in {"zero", "number"} /\ exact <= Limit
ParsedRight ==
  /\ parser # "convert" => res \in 0..IntMax
  /\ ended /\ at = "returned" /\ parser # "convert" =>
       value = <<Clamp(sign * exact)>>
  /\ ended /\ at = "returned" /\ parser = "convert" /\ exact <= IntMax =>
       /\ Numeral /\ ~twoSigns => value = <<sign * exact>>
       /\ ~Numeral /\ ~twoSigns /\ form # "then space" => value = <<NullOpt>>

(***************************************************************************)
(* What the comment over convert says (iterator.cpp:1-23) and the code     *)
(* does not do: the integers within the limit, with one sign at most and   *)
(* spaces before and after, are valid, and nothing else is.  The code      *)
(* refuses a space after the number, takes "-+", and a sum that has left   *)
(* the range of an int may have come back into the limit.                  *)
(***************************************************************************)
ConvertAsDocumented ==
  parser = "convert" /\ ended /\ at = "returned" =>
    LET valid == /\ form \in {"zero", "number", "then space"} /\ ~twoSigns
                 /\ exact <= Limit
    IN value = <<IF valid THEN sign * exact ELSE NullOpt>>
=============================================================================
