------------------------------ MODULE Latency ------------------------------
(***************************************************************************)
(* The latency histograms of eRPC and MICA: 5 levels of bins, each level   *)
(* with bins twice as wide as the one below, and one bin for everything    *)
(* larger.  Threads fill histograms of their own; a reader combines them   *)
(* with += and asks for statistics.  The ghost `seen' holds the samples    *)
(* themselves, so that every answer can be compared with the exact one.    *)
(***************************************************************************)
EXTENDS Integers, FiniteSets, FiniteSetsExt, Functions

CONSTANTS
    Objects,      \* the Latency objects
    Bins,         \* bins of a level (128)
    Samples,      \* the samples in use
    Percentiles,  \* the arguments of perc in use, as <<numerator, denominator>>
    MaxSamples    \* bound on the samples of one object

Levels == 5
ConstantsOK ==
    /\ Bins \in Nat \ {0} /\ MaxSamples \in Nat /\ Samples \subseteq Nat
    /\ \A p \in Percentiles : p[2] > 0 /\ 0 <= p[1] /\ p[1] <= p[2]

VARIABLES
    bin,    \* bin0_ .. bin4_ and bin5_ of each object, in the order of the values
    seen    \* ghost: how often each sample was added to each object
vars == <<bin, seen>>

\* The first value of a level: 0, 128, 384, 896, 1920 and 3968
First(k) == Bins * (2 ^ k - 1)
Last == Levels * Bins
Index == 0 .. Last

\* The value a bin stands for, the least one it holds
Value(i) == First(i \div Bins) + (i % Bins) * 2 ^ (i \div Bins)

\* The bin of a sample
BinOf(us) ==
    LET k == IF us >= First(Levels) THEN Levels
             ELSE CHOOSE l \in 0 .. Levels - 1 : First(l) <= us /\ us < First(l + 1)
    IN  IF k = Levels THEN Last ELSE k * Bins + (us - First(k)) \div 2 ^ k
-----------------------------------------------------------------------------
(* Statistics of an object's bins b *)

count(b) == FoldFunction(+, 0, b)
sum(b) == FoldFunction(+, 0, [i \in Index |-> b[i] * Value(i)])
\* MICA's average is an integer
avg(b) == sum(b) \div Max({1, count(b)})

Used(b) == {i \in Index : b[i] # 0}
latency_min(b) == IF Used(b) \ {Last} = {} THEN Value(Last) ELSE Value(Min(Used(b)))
latency_max(b) == IF Used(b) = {} THEN 0 ELSE Value(Max(Used(b)))
\* The first bin at which the samples counted exceed the threshold; the last
\* bin is never examined
Exceeds(n, thres) == n > thres
perc(b, p) ==
    LET thres == (p[1] * count(b)) \div p[2]
        hit == {i \in Index \ {Last} :
                   Exceeds(FoldFunctionOnSet(+, 0, b, 0 .. i), thres)}
    IN  Value(IF hit = {} THEN Last ELSE Min(hit))
-----------------------------------------------------------------------------
Zero == [i \in Index |-> 0]
None == [s \in Samples |-> 0]
Init == bin = [o \in Objects |-> Zero] /\ seen = [o \in Objects |-> None]

reset(o) ==
    /\ bin' = [bin EXCEPT ![o] = Zero]
    /\ seen' = [seen EXCEPT ![o] = None]

update(o, us) ==
    /\ FoldFunction(+, 0, seen[o]) < MaxSamples
    /\ bin' = [bin EXCEPT ![o][BinOf(us)] = @ + 1]
    /\ seen' = [seen EXCEPT ![o][us] = @ + 1]

\* operator+=; an object may be added to itself
Combined(a, b) == [i \in Index |-> a[i] + b[i]]
combine(o, q) ==
    /\ FoldFunction(+, 0, seen[o]) + FoldFunction(+, 0, seen[q]) <= MaxSamples
    /\ bin' = [bin EXCEPT ![o] = Combined(@, bin[q])]
    /\ seen' = [seen EXCEPT ![o] = [s \in Samples |-> @[s] + seen[q][s]]]

Next == \E o \in Objects :
          \/ reset(o)
          \/ \E us \in Samples : update(o, us)
          \/ \E q \in Objects : combine(o, q)

Spec == Init /\ [][Next]_vars
-----------------------------------------------------------------------------
(* Exact statistics, from the samples *)

Count(o) == FoldFunction(+, 0, seen[o])
Sum(o) == FoldFunction(+, 0, [s \in Samples |-> s * seen[o][s]])
Present(o) == {s \in Samples : seen[o][s] > 0}
\* the sample of rank n, counted from 0
Ranked(o, n) == Min({s \in Samples :
                       FoldFunctionOnSet(+, 0, seen[o], {t \in Samples : t <= s}) > n})
\* the largest difference between the samples below the last bin and their bins
Error(s) == IF s >= First(Levels) THEN s - First(Levels)
            ELSE 2 ^ (Max({k \in 0 .. Levels - 1 : First(k) <= s})) - 1

\* No sample is lost or counted twice, whatever was combined with what, and
\* the sum is below the exact one by less than the widths of the bins the
\* samples fell into (count, sum, avg).
SumWithinBins ==
    \A o \in Objects :
        /\ count(bin[o]) = Count(o)
        /\ sum(bin[o]) <= Sum(o) /\ avg(bin[o]) * Count(o) <= Sum(o)
        /\ Sum(o) - sum(bin[o])
              <= FoldFunction(+, 0, [s \in Samples |-> seen[o][s] * Error(s)])

\* The percentile, the minimum and the maximum are those of the exact
\* distribution, to the width of the bin the sample is in: 1 / Bins of the
\* sample (perc, latency_min, latency_max).  perc(1.0), which perc allows, has no
\* sample of its rank and answers the bound of the last bin, whatever the samples.
RanksWithinBins ==
    \A o \in Objects : Present(o) # {} =>
        LET ask == {<<perc(bin[o], p), Ranked(o, (p[1] * Count(o)) \div p[2])>> :
                       p \in {q \in Percentiles : q[1] < q[2]}}
                   \cup {<<latency_min(bin[o]), Min(Present(o))>>,
                         <<latency_max(bin[o]), Max(Present(o))>>}
        IN  /\ \A a \in ask : /\ a[1] <= a[2]
                              /\ a[2] < First(Levels) => (a[2] - a[1]) * Bins <= a[2]
                              /\ a[2] >= First(Levels) => a[1] = First(Levels)
            /\ \A p \in Percentiles : p[1] = p[2] => perc(bin[o], p) = First(Levels)

=============================================================================
