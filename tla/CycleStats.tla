----------------------------- MODULE CycleStats ------------------------------
(***************************************************************************)
(* rdtsc: four kernel modules and a program that time an empty loop with   *)
(* the cycle counter and print statistics.  They differ in the             *)
(* instructions around the counter; the program also in how it allocates,  *)
(* finds minima and reports overflow.  uint64_t is a word of 0..Word - 1.  *)
(***************************************************************************)
EXTENDS Integers, Sequences, FiniteSets, FiniteSetsExt

CONSTANTS Benches,  \* subset of {"rdtsc", "rdtscp", "alt", "work", "user"}
          Word,     \* 2^64
          Loops,    \* BOUND_OF_LOOP
          Stats,    \* SIZE_OF_STAT
          Deltas    \* end - start: negative if the counter was seen to go back

ASSUME CycleStatsAssumption ==
  /\ Benches \subseteq {"rdtsc", "rdtscp", "alt", "work", "user"}
  /\ {Word, Loops, Stats} \subseteq Nat \ {0} /\ Word > 22 /\ Deltas \subseteq Int

VARIABLES
  bench,     \* which of the five
  stage,     \* "allocate", "measure", "analyse", "over"
  alive,     \* the blocks allocated and not freed
  failed,    \* an allocation failed
  times,     \* the samples, loop after loop
  mins, variances,          \* of the loops analysed, in order
  spurious, totVar, maxDev  \* over them

cycVars == <<bench, stage, alive, failed, times, mins, variances, spurious, totVar, maxDev>>

StatIds == 0..Stats - 1
Row(j) == [i \in StatIds |-> times[(j - 1) * Stats + i + 1]]   \* of loop 1, 2, ...

CycleInit ==
  /\ bench \in Benches /\ stage = "allocate"
  /\ alive = {} /\ failed = FALSE
  /\ times = <<>> /\ mins = <<>> /\ variances = <<>>
  /\ spurious = 0 /\ totVar = 0 /\ maxDev = 0

-----------------------------------------------------------------------------
\* Blocks in the order they are allocated: times, its rows, variances, min_values.
Block == Cardinality(alive)
Rows == 1..Loops
LastBlock == Loops + 2

\* What is freed when an allocation fails.  The modules forget times, and
\* beyond the rows everything; and stay loaded, for they return 0.
Freed == IF bench = "user" THEN alive ELSE IF Block \in Rows THEN alive \cap Rows ELSE {}

Allocate ==
  /\ stage = "allocate"
  /\ \/ /\ alive' = alive \cup {Block}
        /\ stage' = IF Block = LastBlock THEN "measure" ELSE stage
        /\ UNCHANGED failed
     \/ /\ failed' = TRUE /\ stage' = "over"
        /\ alive' = alive \ Freed
  /\ UNCHANGED <<bench, times, mins, variances, spurious, totVar, maxDev>>

\* Filltimes, one sample.  end - start is unsigned: the test for a negative one
\* never holds, and a counter that went back leaves a sample near 2^64.
Sample(d) == d % Word

Measure ==
  /\ stage = "measure"
  /\ \E d \in Deltas : times' = Append(times, Sample(d))
  /\ stage' = IF Len(times) + 1 = Loops * Stats THEN "analyse" ELSE stage
  /\ UNCHANGED <<bench, alive, failed, mins, variances, spurious, totVar, maxDev>>

\* Partial sums of f over 0..n - 1, modulo 2^64.
Sums(f, n) == LET sum[k \in 0..n] == IF k = 0 THEN 0 ELSE (sum[k - 1] + f[k - 1]) % Word IN sum
Wraps(sum, n) == \E k \in 1..n - 1 : sum[k] < sum[k - 1]
Overflow == IF bench = "user" THEN 0 ELSE Word - 22   \* or -EINVAL, as a uint64_t

\* Fault: sums are not watched for having wrapped.
VarCalcFault(x, n) ==
  LET acc == Sums(x, n)[n]
      squares == Sums([i \in 0..n - 1 |-> (x[i] * x[i]) % Word], n)[n]
  IN ((squares * n - acc * acc) % Word) \div (n * n)

\* var_calc: the sum, its square, the sum of squares.  Each addition is checked
\* in the next iteration, so the last is not, and each product against the sum
\* before the last addition.
VarCalc(x, n) ==
  LET acc == Sums(x, n)
      acc2 == (acc[n] * acc[n]) % Word
      squares == Sums([i \in 0..n - 1 |-> (x[i] * x[i]) % Word], n)
      temp == (squares[n] * n) % Word
  IN IF \/ Wraps(acc, n) \/ acc2 < acc[n - 1]
        \/ Wraps(squares, n) \/ temp < squares[n - 1]
     THEN Overflow
     ELSE ((temp - acc2) % Word) \div (n * n)

\* The minimum as the modules find it: 0 stands for none yet, so a sample of 0 is
\* forgotten when another follows.  The program starts with the first sample.
MinTime(x) ==
  LET min[k \in 0..Stats] ==
        IF k = 0 THEN (IF bench = "user" THEN x[0] ELSE 0)
        ELSE IF (bench # "user" /\ min[k - 1] = 0) \/ min[k - 1] > x[k - 1] THEN x[k - 1]
        ELSE min[k - 1]
  IN min[Stats]
MaxTime(x) == Max({x[i] : i \in StatIds})

Analyse ==
  LET j == Len(mins) + 1
      min == MinTime(Row(j))
      var == VarCalc(Row(j), Stats)
      prevMin == IF j = 1 THEN 0 ELSE mins[j - 1]
  IN /\ stage = "analyse" /\ j <= Loops
     /\ mins' = Append(mins, min) /\ variances' = Append(variances, var)
     /\ spurious' = spurious + IF prevMin # 0 /\ prevMin > min THEN 1 ELSE 0
     /\ totVar' = (totVar + var) % Word
     /\ maxDev' = Max({maxDev, MaxTime(Row(j)) - min})
     /\ UNCHANGED <<bench, stage, alive, failed, times>>

\* The figures are printed, the variances of variances and of minima with them.
Finish ==
  /\ stage = "analyse" /\ Len(mins) = Loops
  /\ alive' = {} /\ stage' = "over"
  /\ UNCHANGED <<bench, failed, times, mins, variances, spurious, totVar, maxDev>>

Steps == Allocate \/ Measure \/ Analyse \/ Finish
Rdtsc == bench = "rdtsc" /\ Steps
Rdtscp == bench = "rdtscp" /\ Steps
AltCr0 == bench = "alt" /\ Steps
RealWork == bench = "work" /\ Steps
UserMode == bench = "user" /\ Steps
CycleNext == Rdtsc \/ Rdtscp \/ AltCr0 \/ RealWork \/ UserMode

-----------------------------------------------------------------------------
(***************************************************************************)
(* A variance is exact whenever n * sum(x^2) fits in a word - then no      *)
(* overflow is reported either - and a sum that leaves the word before its *)
(* last addition is always reported.  Minima are the least samples, in the *)
(* modules only if no sample was 0; deviations and drops of the minimum    *)
(* are counted from them.  Memory is leaked only by a module that failed   *)
(* to allocate something.                                                  *)
(***************************************************************************)
Totals(f) == LET sum[k \in 0..Stats] == IF k = 0 THEN 0 ELSE sum[k - 1] + f[k - 1] IN sum
Squared(f) == [i \in StatIds |-> f[i] * f[i]]
Values(x) == {x[i] : i \in StatIds}
Clean(j) == bench = "user" \/ 0 \notin Values(Row(j))
LeastSample(j) == Min(Values(Row(j)))
Deviation(j) == Max(Values(Row(j))) - LeastSample(j)

VarianceIsRight(x, var) ==
  LET sum == Totals(x)
      squares == Stats * Totals(Squared(x))[Stats]
  IN /\ squares < Word => var = (squares - sum[Stats] * sum[Stats]) \div (Stats * Stats)
     /\ sum[Stats - 1] >= Word => var = Overflow
StatsAreSound ==
  /\ \A j \in 1..Len(mins) :
       VarianceIsRight(Row(j), variances[j]) /\ (Clean(j) => mins[j] = LeastSample(j))
  /\ (\A j \in 1..Len(mins) : Clean(j)) =>
       /\ maxDev = Max({0} \cup {Deviation(j) : j \in 1..Len(mins)})
       /\ spurious = Cardinality({j \in 2..Len(mins) : LeastSample(j - 1) > LeastSample(j)})
  /\ stage = "over" /\ alive # {} => bench # "user" /\ failed
=============================================================================
