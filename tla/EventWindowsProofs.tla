-------------------------- MODULE EventWindowsProofs --------------------------
(***************************************************************************)
(* Proofs about EventWindows, for any snapshots, counters, window widths   *)
(* and waiting times, with and without rebased event times.                *)
(***************************************************************************)
EXTENDS EventWindows, SequenceTheorems, WellFoundedInduction, TLAPS

-----------------------------------------------------------------------------
(* Windows of equal width.  Products of a constant and a variable are      *)
(* brought down to these lemmas, and do not occur in the rest.             *)

LEMMA Widths ==
  ASSUME NEW a \in Int, NEW b \in Int, a < b
  PROVE  a * Width + Width <= b * Width
<1>1. PICK d \in Nat : b = a + 1 + d
  <2>1. b - a - 1 \in Nat /\ b = a + 1 + (b - a - 1)
    OBVIOUS
  <2>2. QED  BY <2>1
<1>2. Width \in Nat
  BY EventWindowsAssumption
<1>3. d * Width \in Nat
  BY <1>1, <1>2
<1>4. b * Width = a * Width + Width + d * Width
  BY <1>1, <1>2
<1>5. a * Width \in Int
  BY <1>2
<1>6. QED  BY <1>2, <1>3, <1>4, <1>5

LEMMA Quotient ==
  ASSUME NEW a \in Int
  PROVE  /\ a \div Width \in Int
         /\ (a \div Width) * Width <= a
         /\ a < (a \div Width) * Width + Width
<1>1. Width \in Int /\ Width > 0
  BY EventWindowsAssumption
<1>2. a \div Width \in Int /\ a % Width \in 0 .. Width - 1
  BY <1>1
<1>3. a = Width * (a \div Width) + (a % Width)
  BY <1>1
<1>4. Width * (a \div Width) = (a \div Width) * Width
  BY <1>1, <1>2
<1>5. (a \div Width) * Width \in Int
  BY <1>1, <1>2
<1>6. QED  BY <1>1, <1>2, <1>3, <1>4, <1>5

LEMMA InsideTheWindow ==
  ASSUME NEW a \in Int, NEW k \in Int, k * Width <= a, a < k * Width + Width
  PROVE  a \div Width = k
<1> DEFINE q == a \div Width
<1>1. q \in Int /\ q * Width <= a /\ a < q * Width + Width
  BY Quotient
<1>2. q * Width \in Int /\ k * Width \in Int /\ Width \in Int
  BY <1>1, EventWindowsAssumption
<1> HIDE DEF q
<1>3. ~(q < k)
  BY <1>1, <1>2, Widths
<1>4. ~(k < q)
  BY <1>1, <1>2, Widths
<1>5. QED  BY <1>1, <1>3, <1>4 DEF q

LEMMA BehindTheWindow ==
  ASSUME NEW a \in Int, NEW k \in Int, k > 0, a < k * Width
  PROVE  /\ Larger(0, a \div Width) \in Nat
         /\ Larger(0, a \div Width) * Width + Width <= k * Width
<1> DEFINE q == a \div Width
<1>1. q \in Int /\ q * Width <= a
  BY Quotient
<1>2. q * Width \in Int /\ k * Width \in Int /\ Width \in Int
  BY <1>1, EventWindowsAssumption
<1> HIDE DEF q
<1>3. q < k
  <2>1. ~(k < q)
    BY <1>1, <1>2, Widths, EventWindowsAssumption
  <2>2. q # k
    BY <1>1, <1>2
  <2>3. QED  BY <1>1, <2>1, <2>2
<1>4. Larger(0, q) \in Nat /\ Larger(0, q) < k
  BY <1>1, <1>3 DEF Larger
<1>5. Larger(0, q) * Width + Width <= k * Width
  BY <1>4, Widths
<1>6. QED  BY <1>4, <1>5 DEF q

-----------------------------------------------------------------------------
(* Totals.  What a sum over a sequence does is proved by induction over its *)
(* length, on the set of the lengths for which it holds.                    *)

LEMMA NatSet ==
  ASSUME NEW T \in SUBSET Nat, 0 \in T, \A n \in T : n + 1 \in T
  PROVE  T = Nat
<1> DEFINE R == OpToRel(<, Nat)
           U == Nat \ T
<1>1. SUFFICES ASSUME U # {}
               PROVE  FALSE
  OBVIOUS
<1>2. PICK x \in U : \A y \in U : <<y, x>> \notin R
  <2>1. IsWellFoundedOn(R, Nat)
    BY NatLessThanWellFounded
  <2> HIDE DEF R
  <2>2. QED  BY <1>1, <2>1, WFMin
<1>3. x \in Nat /\ x # 0 /\ x - 1 \in Nat /\ x - 1 + 1 = x
  OBVIOUS
<1>4. <<x - 1, x>> \in R
  BY <1>3 DEF OpToRel
<1>5. x - 1 \in T
  BY <1>2, <1>3, <1>4
<1>6. QED  BY <1>3, <1>5

\* The partial sums of the first k numbers.
Sums(numbers, k, sum) ==
  /\ sum \in [0 .. k -> Nat]
  /\ sum[0] = 0
  /\ \A n \in 1 .. k : sum[n] = sum[n - 1] + numbers[n]

LEMMA SumsExist ==
  ASSUME NEW numbers \in Seq(Nat)
  PROVE  \E sum : Sums(numbers, Len(numbers), sum)
<1> DEFINE T == {k \in Nat : k <= Len(numbers) => \E sum : Sums(numbers, k, sum)}
<1>1. 0 \in T
  <2>1. Sums(numbers, 0, [n \in 0 .. 0 |-> 0])
    BY DEF Sums
  <2>2. QED  BY <2>1
<1>2. ASSUME NEW k \in T PROVE k + 1 \in T
  <2>1. SUFFICES ASSUME k + 1 <= Len(numbers)
                 PROVE  \E sum : Sums(numbers, k + 1, sum)
    OBVIOUS
  <2>2. PICK sum : Sums(numbers, k, sum)
    BY <2>1
  <2> DEFINE next == [n \in 0 .. k + 1 |-> IF n = k + 1 THEN sum[k] + numbers[k + 1] ELSE sum[n]]
  <2>3. sum[k] \in Nat /\ numbers[k + 1] \in Nat
    BY <2>1, <2>2 DEF Sums
  <2>4. next \in [0 .. k + 1 -> Nat] /\ next[0] = 0
    BY <2>2, <2>3 DEF Sums
  <2>5. ASSUME NEW n \in 1 .. k + 1 PROVE next[n] = next[n - 1] + numbers[n]
    <3>1. CASE n = k + 1
      <4>1. n - 1 = k /\ k \in 0 .. k + 1 /\ k # k + 1
        BY <3>1
      <4>2. QED  BY <3>1, <4>1
    <3>2. CASE n # k + 1
      <4>1. n \in 1 .. k /\ n - 1 \in 0 .. k + 1 /\ n - 1 # k + 1
        BY <3>2
      <4>2. QED  BY <2>2, <3>2, <4>1 DEF Sums
    <3>3. QED  BY <3>1, <3>2
  <2> HIDE DEF next
  <2>6. Sums(numbers, k + 1, next)
    BY <2>4, <2>5 DEF Sums
  <2>7. QED  BY <2>6
<1> HIDE DEF T
<1>3. T = Nat
  <2>1. T \in SUBSET Nat
    BY DEF T
  <2>2. QED  BY <1>1, <1>2, <2>1, NatSet
<1>4. Len(numbers) \in T
  BY <1>3
<1>5. QED  BY <1>4 DEF T

\* Totals of pairwise no larger numbers are no larger.
LEMMA SumsCompare ==
  ASSUME NEW a \in Seq(Nat), NEW b \in Seq(Nat), NEW k \in Nat, k <= Len(a), k <= Len(b),
         NEW s, NEW t, Sums(a, k, s), Sums(b, k, t), \A n \in 1 .. k : a[n] <= b[n]
  PROVE  \A n \in 0 .. k : s[n] <= t[n]
<1> DEFINE T == {n \in Nat : n <= k => s[n] <= t[n]}
<1>1. 0 \in T
  BY DEF Sums
<1>2. ASSUME NEW n \in T PROVE n + 1 \in T
  <2>1. SUFFICES ASSUME n + 1 <= k
                 PROVE  s[n + 1] <= t[n + 1]
    OBVIOUS
  <2>2. s[n] <= t[n] /\ a[n + 1] <= b[n + 1] /\ n + 1 \in 1 .. k /\ n + 1 - 1 = n
    BY <2>1
  <2>3. s[n] \in Nat /\ t[n] \in Nat /\ a[n + 1] \in Nat /\ b[n + 1] \in Nat
    <3>1. n \in 0 .. k /\ n + 1 \in 1 .. Len(a) /\ n + 1 \in 1 .. Len(b)
      BY <2>1
    <3>2. s \in [0 .. k -> Nat] /\ t \in [0 .. k -> Nat]
      BY DEF Sums
    <3>3. s[n] \in Nat /\ t[n] \in Nat
      BY <3>1, <3>2
    <3>4. \A i \in 1 .. Len(a) : a[i] \in Nat
      BY ElementOfSeq
    <3>5. \A i \in 1 .. Len(b) : b[i] \in Nat
      BY ElementOfSeq
    <3>6. QED  BY <3>1, <3>3, <3>4, <3>5
  <2>4. PICK m \in 1 .. k : m = n + 1 /\ m - 1 = n
    BY <2>2
  <2>5. s[m] = s[m - 1] + a[m] /\ t[m] = t[m - 1] + b[m]
    BY DEF Sums
  <2>6. QED  BY <2>2, <2>3, <2>4, <2>5
<1> HIDE DEF T
<1>3. T = Nat
  <2>1. T \in SUBSET Nat
    BY DEF T
  <2>2. QED  BY <1>1, <1>2, <2>1, NatSet
<1>4. \A n \in 0 .. k : n \in T
  BY <1>3
<1>5. QED  BY <1>4 DEF T

LEMMA TotalIsASum ==
  ASSUME NEW numbers \in Seq(Nat)
  PROVE  \E sum : Sums(numbers, Len(numbers), sum) /\ Total(numbers) = sum[Len(numbers)]
<1> DEFINE Def(g) == [n \in 0 .. Len(numbers) |-> IF n = 0 THEN 0 ELSE g[n - 1] + numbers[n]]
           h == CHOOSE g : g = Def(g)
<1>1. PICK sum : Sums(numbers, Len(numbers), sum)
  BY SumsExist
<1>2. sum = Def(sum)
  BY <1>1 DEF Sums
<1> HIDE DEF Def
<1>3. h = Def(h)
  BY <1>2
<1>4. Total(numbers) = h[Len(numbers)]
  BY DEF Total, Def, h
<1> HIDE DEF h
<1>5. h = [n \in 0 .. Len(numbers) |-> IF n = 0 THEN 0 ELSE h[n - 1] + numbers[n]]
  BY <1>3 DEF Def
<1>6. \A n \in 0 .. Len(numbers) : h[n] = IF n = 0 THEN 0 ELSE h[n - 1] + numbers[n]
  BY <1>5
<1> DEFINE T == {n \in Nat : n <= Len(numbers) => h[n] \in Nat}
<1>7. 0 \in T
  BY <1>6
<1>8. ASSUME NEW n \in T PROVE n + 1 \in T
  <2>1. SUFFICES ASSUME n + 1 <= Len(numbers)
                 PROVE  h[n + 1] \in Nat
    OBVIOUS
  <2>2. n + 1 \in 1 .. Len(numbers) /\ n + 1 - 1 = n /\ h[n] \in Nat /\ numbers[n + 1] \in Nat
    BY <2>1
  <2>3. h[n + 1] = h[n] + numbers[n + 1]
    BY <1>6, <2>2
  <2>4. QED  BY <2>2, <2>3
<1> HIDE DEF T
<1>9. T = Nat
  <2>1. T \in SUBSET Nat
    BY DEF T
  <2>2. QED  BY <1>7, <1>8, <2>1, NatSet
<1>10. h \in [0 .. Len(numbers) -> Nat]
  <2>1. \A n \in 0 .. Len(numbers) : h[n] \in Nat
    BY <1>9 DEF T
  <2>2. QED  BY <1>5, <2>1
<1>11. Sums(numbers, Len(numbers), h)
  BY <1>6, <1>10 DEF Sums
<1>12. QED  BY <1>4, <1>11

LEMMA TotalType ==
  ASSUME NEW numbers \in Seq(Nat)
  PROVE  Total(numbers) \in Nat
BY TotalIsASum DEF Sums

LEMMA TotalOfNone ==
  ASSUME NEW numbers \in Seq(Nat), Len(numbers) = 0
  PROVE  Total(numbers) = 0
BY TotalIsASum DEF Sums

LEMMA TotalMonotone ==
  ASSUME NEW a \in Seq(Nat), NEW b \in Seq(Nat), Len(a) = Len(b),
         \A n \in 1 .. Len(a) : a[n] <= b[n]
  PROVE  Total(a) <= Total(b)
<1>1. PICK s : Sums(a, Len(a), s) /\ Total(a) = s[Len(a)]
  BY TotalIsASum
<1>2. PICK t : Sums(b, Len(b), t) /\ Total(b) = t[Len(b)]
  BY TotalIsASum
<1>3. Len(a) \in Nat /\ Len(a) <= Len(a) /\ Len(a) <= Len(b) /\ Sums(b, Len(a), t)
  BY <1>2
<1>4. \A n \in 0 .. Len(a) : s[n] <= t[n]
  BY <1>1, <1>3, SumsCompare
<1>5. QED  BY <1>1, <1>2, <1>3, <1>4

\* One more number adds what it is.
LEMMA TotalOfOneMore ==
  ASSUME NEW a \in Seq(Nat), NEW b \in Seq(Nat), Len(b) = Len(a) + 1,
         \A n \in 1 .. Len(a) : b[n] = a[n]
  PROVE  Total(b) = Total(a) + b[Len(b)]
<1>1. PICK s : Sums(a, Len(a), s) /\ Total(a) = s[Len(a)]
  BY TotalIsASum
<1>2. PICK t : Sums(b, Len(b), t) /\ Total(b) = t[Len(b)]
  BY TotalIsASum
<1> DEFINE u == [n \in 0 .. Len(a) |-> t[n]]
<1>3. Sums(b, Len(a), u)
  BY <1>2 DEF Sums
<1>4. Sums(b, Len(a), s)
  BY <1>1 DEF Sums
<1> HIDE DEF u
<1>5. \A n \in 0 .. Len(a) : u[n] <= s[n] /\ s[n] <= u[n]
  <2>1. \A n \in 1 .. Len(a) : b[n] <= b[n]
    OBVIOUS
  <2>2. Len(a) \in Nat /\ Len(a) <= Len(b)
    OBVIOUS
  <2>3. \A n \in 0 .. Len(a) : u[n] <= s[n]
    BY <1>3, <1>4, <2>1, <2>2, SumsCompare
  <2>4. \A n \in 0 .. Len(a) : s[n] <= u[n]
    BY <1>3, <1>4, <2>1, <2>2, SumsCompare
  <2>5. QED  BY <2>3, <2>4
<1>6. u[Len(a)] = s[Len(a)] /\ s[Len(a)] \in Nat
  <2>1. Len(a) \in 0 .. Len(a)
    OBVIOUS
  <2>2. u[Len(a)] \in Nat /\ s[Len(a)] \in Nat
    BY <1>1, <1>3, <2>1 DEF Sums
  <2>3. QED  BY <1>5, <2>1, <2>2
<1>7. t[Len(a)] = u[Len(a)]
  BY DEF u
<1>8. t[Len(b)] = t[Len(b) - 1] + b[Len(b)]
  BY <1>2 DEF Sums
<1>9. QED  BY <1>1, <1>2, <1>6, <1>7, <1>8

-----------------------------------------------------------------------------
(* What the values of the aggregator are.                                  *)

LEMMA Values ==
  ASSUME TypeOK
  PROVE  /\ clock \in Nat /\ rebase \in BOOLEAN
         /\ anchor \in Int /\ plotAnchor \in Int /\ start \in Int /\ newest \in Int
         /\ lastSeen \in Int
         /\ start # NoTime => start \in Nat
         /\ End \in Int /\ End = start + Width /\ End > start
         /\ Watermark \in Int
         /\ \A e \in Events : /\ At[e] \in Nat /\ Packets[e] \in Nat /\ Flow[e] \in Flows
                              /\ counted[e] \in Nat /\ rejected[e] \in Nat
                              /\ future[e] \in Nat /\ added[e] \in Nat
         /\ \A f \in Flows : counter[f] \in Nat /\ packets[f] \in Nat
<1>1. /\ clock \in Nat /\ rebase \in BOOLEAN
      /\ anchor \in Nat \union {NoTime} /\ plotAnchor \in Nat \union {NoTime}
      /\ start \in Nat \union {NoTime} /\ newest \in Nat \union {NoTime}
      /\ lastSeen \in Nat \union {NoTime}
  BY EventWindowsAssumption DEF TypeOK
<1>2. /\ counted \in [Events -> 0 .. MaxCopies] /\ rejected \in [Events -> 0 .. MaxCopies]
      /\ future \in [Events -> 0 .. MaxCopies] /\ added \in [Events -> 0 .. MaxCopies]
      /\ counter \in [Flows -> Nat] /\ packets \in [Flows -> Nat]
  BY DEF TypeOK
<1>3. \A e \in Events : At[e] \in Nat /\ Packets[e] \in Nat /\ Flow[e] \in Flows
  BY EventWindowsAssumption DEF Flows
<1>4. Width \in Nat \ {0} /\ Lateness \in Nat /\ MaxCopies \in Nat
  BY EventWindowsAssumption
<1>5. End \in Int /\ End = start + Width /\ End > start /\ Watermark \in Int
  BY <1>1, <1>4 DEF End, Watermark, NoTime
<1>6. \A e \in Events : /\ counted[e] \in Nat /\ rejected[e] \in Nat
                         /\ future[e] \in Nat /\ added[e] \in Nat
  BY <1>2, <1>4
<1>7. \A f \in Flows : counter[f] \in Nat /\ packets[f] \in Nat
  BY <1>2
<1>8. QED  BY <1>1, <1>3, <1>5, <1>6, <1>7 DEF NoTime

\* Applying a snapshot that has arrived keeps the types of the window.
LEMMA ApplyType ==
  ASSUME TypeOK, NEW e \in Events, NEW s \in Nat, Apply(e, s),
         counted[e] < MaxCopies, rejected[e] < MaxCopies
  PROVE  /\ dirty' \in BOOLEAN
         /\ counted' \in [Events -> 0 .. MaxCopies] /\ rejected' \in [Events -> 0 .. MaxCopies]
         /\ counter' \in [Flows -> Nat] /\ packets' \in [Flows -> Nat]
<1>1. NextCounter(e) \in Nat /\ Delta(e) \in Nat
  BY Values DEF NextCounter, Delta, Larger
<1>2. counted[e] + 1 \in 0 .. MaxCopies /\ rejected[e] + 1 \in 0 .. MaxCopies
  BY Values, EventWindowsAssumption
<1>3. packets[Flow[e]] + Delta(e) \in Nat
  BY <1>1, Values
<1>4. QED  BY <1>1, <1>2, <1>3 DEF Apply, TypeOK

\* And it is either counted or rejected, once.
LEMMA AppliedOnce ==
  ASSUME TypeOK, NEW e \in Events, NEW s \in Nat, Apply(e, s)
  PROVE  /\ counted'[e] + rejected'[e] = counted[e] + rejected[e] + 1
         /\ \A d \in Events : d # e => counted'[d] = counted[d] /\ rejected'[d] = rejected[d]
         /\ rejected' = rejected \/ At[e] < s - Lateness
<1>1. /\ counted \in [Events -> Nat] /\ rejected \in [Events -> Nat]
  BY Values DEF TypeOK
<1>2. CASE TooLate(e, s)
  BY <1>1, <1>2 DEF Apply, TooLate
<1>3. CASE ~TooLate(e, s)
  BY <1>1, <1>3 DEF Apply, TooLate
<1>4. QED  BY <1>2, <1>3

LEMMA HasRoom ==
  ASSUME TypeOK, CopiesAddUp, NEW e \in Events, added[e] < MaxCopies \/ future[e] > 0
  PROVE  counted[e] < MaxCopies /\ rejected[e] < MaxCopies
<1>1. /\ future[e] + counted[e] + rejected[e] <= added[e] /\ added[e] <= MaxCopies
  BY DEF CopiesAddUp, TypeOK
<1>2. QED  BY <1>1, Values, EventWindowsAssumption

-----------------------------------------------------------------------------
(* What the reported windows add up to.                                    *)

LEMMA NumbersOfWindows ==
  ASSUME NEW windows \in Seq(Windows)
  PROVE  /\ \A e \in Events :
               [n \in 1 .. Len(windows) |-> windows[n].counted[e] + windows[n].rejected[e]] \in Seq(Nat)
         /\ \A e \in Events : [n \in 1 .. Len(windows) |-> windows[n].counted[e]] \in Seq(Nat)
         /\ \A f \in Flows : [n \in 1 .. Len(windows) |-> windows[n].packets[f]] \in Seq(Nat)
<1>1. Len(windows) \in Nat /\ \A n \in 1 .. Len(windows) : windows[n] \in Windows
  BY ElementOfSeq
<1>2. ASSUME NEW n \in 1 .. Len(windows), NEW e \in Events
      PROVE  windows[n].counted[e] \in Nat /\ windows[n].rejected[e] \in Nat
  <2>1. windows[n].counted \in [Events -> 0 .. MaxCopies] /\ windows[n].rejected \in [Events -> 0 .. MaxCopies]
    BY <1>1 DEF Windows
  <2>2. QED  BY <2>1, EventWindowsAssumption
<1>3. ASSUME NEW n \in 1 .. Len(windows), NEW f \in Flows
      PROVE  windows[n].packets[f] \in Nat
  BY <1>1 DEF Windows
<1>4. \A a \in [1 .. Len(windows) -> Nat] : a \in Seq(Nat)
  BY <1>1
<1>5. QED  BY <1>1, <1>2, <1>3, <1>4

LEMMA ReportedTypes ==
  ASSUME TypeOK
  PROVE  /\ \A e \in Events : ReportedEvents(e) \in Nat
         /\ \A f \in Flows : ReportedPackets(f) \in Nat
<1>1. output \in Seq(Windows)
  BY DEF TypeOK
<1>2. QED  BY <1>1, NumbersOfWindows, TotalType DEF ReportedEvents, ReportedPackets

LEMMA NothingReported ==
  ASSUME TypeOK, output = <<>>
  PROVE  /\ \A e \in Events : ReportedEvents(e) = 0
         /\ \A f \in Flows : ReportedPackets(f) = 0
<1>1. output \in Seq(Windows) /\ Len(output) = 0
  BY DEF TypeOK
<1>2. ASSUME NEW e \in Events PROVE ReportedEvents(e) = 0
  <2>1. PICK a \in Seq(Nat) :
           a = [n \in 1 .. Len(output) |-> output[n].counted[e] + output[n].rejected[e]]
    BY <1>1, NumbersOfWindows
  <2>2. Len(a) = 0
    BY <1>1, <2>1
  <2>3. QED  BY <2>1, <2>2, TotalOfNone DEF ReportedEvents
<1>3. ASSUME NEW f \in Flows PROVE ReportedPackets(f) = 0
  <2>1. PICK a \in Seq(Nat) : a = [n \in 1 .. Len(output) |-> output[n].packets[f]]
    BY <1>1, NumbersOfWindows
  <2>2. Len(a) = 0
    BY <1>1, <2>1
  <2>3. QED  BY <2>1, <2>2, TotalOfNone DEF ReportedPackets
<1>4. QED  BY <1>2, <1>3

\* One more window adds what it says.
LEMMA OneMoreWindowOfEvents ==
  ASSUME NEW windows \in Seq(Windows), NEW w \in Windows, NEW e \in Events,
         NEW more, more = Append(windows, w)
  PROVE  Total([n \in 1 .. Len(more) |-> more[n].counted[e] + more[n].rejected[e]])
           = Total([n \in 1 .. Len(windows) |-> windows[n].counted[e] + windows[n].rejected[e]]) + (w.counted[e] + w.rejected[e])
<1>1. /\ more \in Seq(Windows) /\ Len(more) = Len(windows) + 1 /\ Len(windows) \in Nat
      /\ more[Len(more)] = w /\ \A n \in 1 .. Len(windows) : more[n] = windows[n]
  BY AppendProperties
<1>2. PICK a \in Seq(Nat) : a = [n \in 1 .. Len(windows) |-> windows[n].counted[e] + windows[n].rejected[e]]
  BY NumbersOfWindows
<1>3. PICK b \in Seq(Nat) : b = [n \in 1 .. Len(more) |-> more[n].counted[e] + more[n].rejected[e]]
  BY <1>1, NumbersOfWindows
<1>4. /\ Len(a) = Len(windows) /\ Len(b) = Len(a) + 1
      /\ \A n \in 1 .. Len(a) : b[n] = a[n]
      /\ b[Len(b)] = (w.counted[e] + w.rejected[e])
  BY <1>1, <1>2, <1>3
<1>5. Total(b) = Total(a) + b[Len(b)]
  BY <1>4, TotalOfOneMore
<1>6. QED  BY <1>2, <1>3, <1>4, <1>5

LEMMA OneMoreWindowOfAccepted ==
  ASSUME NEW windows \in Seq(Windows), NEW w \in Windows, NEW e \in Events,
         NEW more, more = Append(windows, w)
  PROVE  Total([n \in 1 .. Len(more) |-> more[n].counted[e]])
           = Total([n \in 1 .. Len(windows) |-> windows[n].counted[e]]) + w.counted[e]
<1>1. /\ more \in Seq(Windows) /\ Len(more) = Len(windows) + 1 /\ Len(windows) \in Nat
      /\ more[Len(more)] = w /\ \A n \in 1 .. Len(windows) : more[n] = windows[n]
  BY AppendProperties
<1>2. PICK a \in Seq(Nat) : a = [n \in 1 .. Len(windows) |-> windows[n].counted[e]]
  BY NumbersOfWindows
<1>3. PICK b \in Seq(Nat) : b = [n \in 1 .. Len(more) |-> more[n].counted[e]]
  BY <1>1, NumbersOfWindows
<1>4. /\ Len(a) = Len(windows) /\ Len(b) = Len(a) + 1
      /\ \A n \in 1 .. Len(a) : b[n] = a[n]
      /\ b[Len(b)] = w.counted[e]
  BY <1>1, <1>2, <1>3
<1>5. Total(b) = Total(a) + b[Len(b)]
  BY <1>4, TotalOfOneMore
<1>6. QED  BY <1>2, <1>3, <1>4, <1>5

LEMMA OneMoreWindowOfPackets ==
  ASSUME NEW windows \in Seq(Windows), NEW w \in Windows, NEW f \in Flows,
         NEW more, more = Append(windows, w)
  PROVE  Total([n \in 1 .. Len(more) |-> more[n].packets[f]])
           = Total([n \in 1 .. Len(windows) |-> windows[n].packets[f]]) + w.packets[f]
<1>1. /\ more \in Seq(Windows) /\ Len(more) = Len(windows) + 1 /\ Len(windows) \in Nat
      /\ more[Len(more)] = w /\ \A n \in 1 .. Len(windows) : more[n] = windows[n]
  BY AppendProperties
<1>2. PICK a \in Seq(Nat) : a = [n \in 1 .. Len(windows) |-> windows[n].packets[f]]
  BY NumbersOfWindows
<1>3. PICK b \in Seq(Nat) : b = [n \in 1 .. Len(more) |-> more[n].packets[f]]
  BY <1>1, NumbersOfWindows
<1>4. /\ Len(a) = Len(windows) /\ Len(b) = Len(a) + 1
      /\ \A n \in 1 .. Len(a) : b[n] = a[n]
      /\ b[Len(b)] = w.packets[f]
  BY <1>1, <1>2, <1>3
<1>5. Total(b) = Total(a) + b[Len(b)]
  BY <1>4, TotalOfOneMore
<1>6. QED  BY <1>2, <1>3, <1>4, <1>5

\* The window in progress is one that can be reported.
LEMMA CurrentWindow ==
  ASSUME TypeOK, start # NoTime
  PROVE  [start |-> start, counted |-> counted, rejected |-> rejected, packets |-> packets] \in Windows
<1>1. start \in Nat
  BY Values
<1>2. QED  BY <1>1 DEF Windows, TypeOK

LEMMA ReportedMore ==
  ASSUME TypeOK, start # NoTime, Report
  PROVE  /\ \A e \in Events : ReportedEvents(e)' = ReportedEvents(e) + (counted[e] + rejected[e])
         /\ \A f \in Flows : ReportedPackets(f)' = ReportedPackets(f) + packets[f]
<1>1. PICK w \in Windows : w = [start |-> start, counted |-> counted, rejected |-> rejected,
                                packets |-> packets]
  BY CurrentWindow
<1>2. output \in Seq(Windows) /\ output' = Append(output, w)
  BY <1>1 DEF Report, TypeOK
<1>3. w.counted = counted /\ w.rejected = rejected /\ w.packets = packets
  BY <1>1
<1>4. ASSUME NEW e \in Events PROVE ReportedEvents(e)' = ReportedEvents(e) + (counted[e] + rejected[e])
  BY <1>2, <1>3, OneMoreWindowOfEvents DEF ReportedEvents
<1>5. ASSUME NEW f \in Flows PROVE ReportedPackets(f)' = ReportedPackets(f) + packets[f]
  BY <1>2, <1>3, OneMoreWindowOfPackets DEF ReportedPackets
<1>6. QED  BY <1>4, <1>5

-----------------------------------------------------------------------------
(* The kinds of steps.                                                     *)

Calls == {"none", "watermark", "heartbeat", "beat", "flush", "flushed"}

\* Time passes, or the aggregator goes to another place in its methods.
Moves ==
  /\ UNCHANGED <<rebase, anchorVars, windowVars, seenVars, future, counter, output, added, idled>>
  /\ clock' \in 0 .. MaxClock /\ clock <= clock'
  /\ call' \in Calls /\ (call' # "none" => start # NoTime)
  /\ call \in {"flush", "flushed"} => call' \in {"flush", "flushed"}

\* A window is closed, for one of three reasons.
Closes ==
  /\ FinishWindow /\ call # "none" /\ UNCHANGED clock
  /\ \/ End <= Watermark /\ UNCHANGED <<call, idled>>
     \/ PlotTime(End) <= clock /\ call' = "beat" /\ idled' = TRUE
     \/ call = "flush" /\ UNCHANGED <<call, idled>>

LEMMA StepKinds ==
  ASSUME TypeOK, StartsWithAWindow, [Next]_vars
  PROVE  \/ \E e \in Events : AddEvent(e) \/ Drain(e)
         \/ Closes
         \/ Moves
<1>1. /\ clock \in 0 .. MaxClock /\ call \in Calls
      /\ MaxClock \in Nat /\ (call # "none" => start # NoTime)
  BY EventWindowsAssumption DEF TypeOK, Calls, StartsWithAWindow
<1>2. CASE UNCHANGED vars
  BY <1>1, <1>2 DEF vars, timeVars, Moves
<1>3. CASE Tick
  BY <1>1, <1>3 DEF Tick, Moves
<1>4. CASE FlushIdle \/ Flush \/ WatermarkDone \/ NextBeat \/ HeartbeatDone \/ FlushDone
  BY <1>1, <1>4
  DEF FlushIdle, Flush, WatermarkDone, NextBeat, HeartbeatDone, FlushDone, Return, timeVars, Moves, Calls
<1>5. CASE CloseByWatermark \/ CloseByHeartbeat \/ CloseByFlush
  <2>1. FinishWindow /\ call # "none" /\ UNCHANGED clock
    BY <1>5 DEF CloseByWatermark, CloseByHeartbeat, CloseByFlush, FinishWindow, timeVars
  <2>2. CASE CloseByWatermark
    BY <2>1, <2>2, Values DEF CloseByWatermark, Closes
  <2>3. CASE CloseByHeartbeat
    <3>1. PlotTime(End) \in Int
      BY Values DEF PlotTime
    <3>2. QED  BY <2>1, <2>3, <3>1, Values DEF CloseByHeartbeat, Closes
  <2>4. CASE CloseByFlush
    BY <2>1, <2>4 DEF CloseByFlush, Closes
  <2>5. QED  BY <1>5, <2>2, <2>3, <2>4
<1>6. QED  BY <1>2, <1>3, <1>4, <1>5 DEF Next, Inside

-----------------------------------------------------------------------------
(* The steps keep the invariant.                                           *)

LEMMA TypeStep ==
  ASSUME EInv, [Next]_vars
  PROVE  TypeOK'
<1> USE DEF EInv
<1>1. TypeOK
  OBVIOUS
<1>2. ASSUME NEW e \in Events, AddEvent(e) PROVE TypeOK'
  <2>1. Arrives(e) /\ added[e] < MaxCopies /\ clock \in 0 .. MaxClock
    BY <1>2 DEF AddEvent, AddFirst, AddAhead, AddNow, Arrives, TypeOK
  <2>2. /\ added' \in [Events -> 0 .. MaxCopies]
        /\ newest' \in Nat \union {NoTime} /\ lastSeen' \in Nat \union {NoTime}
        /\ call' = "watermark" /\ UNCHANGED <<clock, rebase, output, idled>>
    <3>1. added[e] + 1 \in 0 .. MaxCopies
      BY <2>1, Values, EventWindowsAssumption
    <3>2. Larger(newest, At[e]) \in Nat \union {NoTime}
      BY Values DEF Larger, TypeOK
    <3>3. clock \in Nat
      BY Values
    <3>4. QED  BY <2>1, <3>1, <3>2, <3>3 DEF Arrives, TypeOK, timeVars
  <2>3. /\ anchor' \in Nat \union {NoTime} /\ plotAnchor' \in Nat \union {NoTime}
        /\ start' \in Nat \union {NoTime}
    BY <1>2, Values DEF AddEvent, AddFirst, AddAhead, AddNow, TypeOK, anchorVars, windowVars
  <2>4. future' \in [Events -> 0 .. MaxCopies]
    <3>1. CASE AddAhead(e)
      <4>1. future[e] + 1 \in 0 .. MaxCopies
        <5>1. future[e] + counted[e] + rejected[e] <= added[e]
          BY DEF CopiesAddUp
        <5>2. QED  BY <2>1, <5>1, Values, EventWindowsAssumption
      <4>2. QED  BY <3>1, <4>1 DEF AddAhead, Wait, TypeOK
    <3>2. CASE AddFirst(e) \/ AddNow(e)
      BY <3>2 DEF AddFirst, AddNow, TypeOK
    <3>3. QED  BY <1>2, <3>1, <3>2 DEF AddEvent
  <2>5. /\ dirty' \in BOOLEAN
        /\ counted' \in [Events -> 0 .. MaxCopies] /\ rejected' \in [Events -> 0 .. MaxCopies]
        /\ counter' \in [Flows -> Nat] /\ packets' \in [Flows -> Nat]
    <3>1. CASE AddAhead(e)
      BY <3>1 DEF AddAhead, TypeOK, windowVars
    <3>2. CASE AddFirst(e)
      BY <3>2, <2>1, ApplyType, HasRoom, Values DEF AddFirst
    <3>3. CASE AddNow(e)
      BY <3>3, <2>1, ApplyType, HasRoom, Values DEF AddNow
    <3>4. QED  BY <1>2, <3>1, <3>2, <3>3 DEF AddEvent
  <2>6. QED  BY <2>2, <2>3, <2>4, <2>5, <1>1 DEF TypeOK
<1>3. ASSUME NEW e \in Events, Drain(e) PROVE TypeOK'
  <2>1. future[e] > 0 /\ start # NoTime /\ Apply(e, start)
    BY <1>3 DEF Drain, Drainable, StartsWithAWindow
  <2>2. future' \in [Events -> 0 .. MaxCopies]
    <3>1. future[e] - 1 \in 0 .. MaxCopies
      BY <2>1, EventWindowsAssumption DEF TypeOK
    <3>2. QED  BY <1>3, <3>1 DEF Drain, TypeOK
  <2>3. /\ dirty' \in BOOLEAN
        /\ counted' \in [Events -> 0 .. MaxCopies] /\ rejected' \in [Events -> 0 .. MaxCopies]
        /\ counter' \in [Flows -> Nat] /\ packets' \in [Flows -> Nat]
    BY <2>1, ApplyType, HasRoom, Values
  <2>4. QED  BY <1>3, <2>2, <2>3 DEF Drain, TypeOK, timeVars, anchorVars, seenVars
<1>4. CASE Closes
  <2>1. start \in Nat /\ End \in Nat
    BY <1>4, Values, EventWindowsAssumption DEF Closes, StartsWithAWindow, End
  <2>2. [start |-> start, counted |-> counted, rejected |-> rejected, packets |-> packets] \in Windows
    BY <2>1 DEF Windows, TypeOK
  <2>3. output' \in Seq(Windows)
    BY <1>4, <2>2 DEF Closes, FinishWindow, Report, TypeOK
  <2>4. NoEvents \in [Events -> 0 .. MaxCopies] /\ NoPackets \in [Flows -> Nat]
    BY EventWindowsAssumption DEF NoEvents, NoPackets
  <2>5. /\ counted' = NoEvents /\ rejected' = NoEvents /\ packets' = NoPackets
        /\ start' = End /\ dirty' = FALSE
        /\ UNCHANGED <<clock, rebase, anchor, plotAnchor, newest, lastSeen, future, counter, added>>
        /\ call' \in Calls /\ idled' \in BOOLEAN
    BY <1>4 DEF Closes, FinishWindow, timeVars, anchorVars, seenVars, TypeOK, Calls
  <2>6. QED  BY <2>1, <2>3, <2>4, <2>5, <1>1 DEF TypeOK, Calls
<1>5. CASE Moves
  BY <1>5 DEF Moves, anchorVars, windowVars, seenVars, TypeOK, Calls
<1>6. QED  BY <1>2, <1>3, <1>4, <1>5, StepKinds

LEMMA NewCounts ==
  ASSUME EInv, [Next]_vars, NEW d \in Events
  PROVE  counted'[d] \in Nat /\ rejected'[d] \in Nat
<1>1. counted' \in [Events -> 0 .. MaxCopies] /\ rejected' \in [Events -> 0 .. MaxCopies]
  BY TypeStep DEF TypeOK
<1>2. QED  BY <1>1, EventWindowsAssumption

LEMMA CopiesStep ==
  ASSUME EInv, [Next]_vars
  PROVE  CopiesAddUp'
<1> USE DEF EInv
<1>1. ASSUME NEW e \in Events, AddEvent(e) PROVE CopiesAddUp'
  <2>1. added' = [added EXCEPT ![e] = @ + 1]
    BY <1>1 DEF AddEvent, AddFirst, AddAhead, AddNow, Arrives
  <2>2. CASE AddAhead(e)
    BY <2>1, <2>2, Values DEF AddAhead, Wait, windowVars, CopiesAddUp, TypeOK
  <2>3. CASE AddFirst(e) \/ AddNow(e)
    <3>1. PICK s \in Nat : Apply(e, s)
      BY <2>3, Values DEF AddFirst, AddNow
    <3>2. UNCHANGED future
      BY <2>3 DEF AddFirst, AddNow
    <3>3. /\ counted'[e] + rejected'[e] = counted[e] + rejected[e] + 1
          /\ \A d \in Events : d # e => counted'[d] = counted[d] /\ rejected'[d] = rejected[d]
      BY <3>1, AppliedOnce
    <3>4. ASSUME NEW d \in Events
          PROVE  future'[d] + counted'[d] + rejected'[d] <= added'[d]
      <4>1. /\ counted'[d] \in Nat /\ rejected'[d] \in Nat /\ future[d] \in Nat
            /\ counted[d] \in Nat /\ rejected[d] \in Nat /\ added[d] \in Nat
            /\ future[d] + counted[d] + rejected[d] <= added[d]
            /\ added'[d] = IF d = e THEN added[d] + 1 ELSE added[d]
        BY <1>1, <2>1, NewCounts, Values DEF TypeOK, CopiesAddUp, Next
      <4>2. QED  BY <3>2, <3>3, <4>1
    <3>5. QED  BY <3>4 DEF CopiesAddUp
  <2>4. QED  BY <1>1, <2>2, <2>3 DEF AddEvent
<1>2. ASSUME NEW e \in Events, Drain(e) PROVE CopiesAddUp'
  <2>1. Apply(e, start) /\ start \in Nat /\ UNCHANGED added
        /\ future' = [future EXCEPT ![e] = @ - 1]
    BY <1>2, Values DEF Drain, StartsWithAWindow
  <2>2. /\ counted'[e] + rejected'[e] = counted[e] + rejected[e] + 1
        /\ \A d \in Events : d # e => counted'[d] = counted[d] /\ rejected'[d] = rejected[d]
    BY <2>1, AppliedOnce
  <2>3. ASSUME NEW d \in Events
        PROVE  future'[d] + counted'[d] + rejected'[d] <= added'[d]
    <3>1. /\ counted'[d] \in Nat /\ rejected'[d] \in Nat /\ future[d] \in Nat
          /\ counted[d] \in Nat /\ rejected[d] \in Nat /\ added[d] \in Nat
          /\ future[d] + counted[d] + rejected[d] <= added[d]
          /\ future'[d] = IF d = e THEN future[d] - 1 ELSE future[d]
      BY <1>2, <2>1, NewCounts, Values DEF TypeOK, CopiesAddUp
    <3>2. QED  BY <2>1, <2>2, <3>1
  <2>4. QED  BY <2>3 DEF CopiesAddUp
<1>3. CASE Closes
  <2>1. /\ counted' = NoEvents /\ rejected' = NoEvents /\ UNCHANGED <<future, added>>
    BY <1>3 DEF Closes, FinishWindow
  <2>2. QED  BY <2>1, Values DEF CopiesAddUp, NoEvents
<1>4. CASE Moves
  BY <1>4 DEF Moves, windowVars, CopiesAddUp
<1>5. QED  BY <1>1, <1>2, <1>3, <1>4, StepKinds

LEMMA AlignedStep ==
  ASSUME EInv, [Next]_vars
  PROVE  WindowsAreAligned'
<1> USE DEF EInv
<1>1. ASSUME NEW e \in Events, AddEvent(e) PROVE WindowsAreAligned'
  <2>1. newest' = Larger(newest, At[e]) /\ newest <= newest' /\ At[e] <= newest'
    BY <1>1, Values DEF AddEvent, AddFirst, AddAhead, AddNow, Arrives, Larger
  <2>2. CASE AddFirst(e)
    <3>1. /\ anchor' = At[e] /\ start' = At[e] /\ At[e] \in Nat /\ At[e] # NoTime
      BY <2>2, Values DEF AddFirst, NoTime
    <3>2. 0 \in 0 .. start' /\ start' = anchor' + 0 * Width
      BY <3>1, EventWindowsAssumption
    <3>3. QED  BY <2>1, <3>1, <3>2 DEF WindowsAreAligned
  <2>3. CASE AddAhead(e) \/ AddNow(e)
    <3>1. UNCHANGED <<anchor, start>>
      BY <2>3 DEF AddAhead, AddNow, anchorVars, windowVars
    <3>2. newest' \in Int
      BY <2>1, Values DEF Larger
    <3>3. QED  BY <2>1, <3>1, <3>2, Values DEF WindowsAreAligned
  <2>4. QED  BY <1>1, <2>2, <2>3 DEF AddEvent
<1>2. CASE Moves \/ \E e \in Events : Drain(e)
  <2>1. UNCHANGED <<anchor, start, newest>>
    BY <1>2 DEF Moves, Drain, anchorVars, windowVars, seenVars
  <2>2. QED  BY <2>1 DEF WindowsAreAligned
<1>3. CASE Closes
  <2>1. start # NoTime /\ start' = End /\ UNCHANGED <<anchor, newest>>
    BY <1>3 DEF Closes, FinishWindow, anchorVars, seenVars, StartsWithAWindow
  <2>2. PICK k \in 0 .. start : start = anchor + k * Width
    BY <2>1 DEF WindowsAreAligned
  <2>3. start \in Nat /\ Width \in Nat \ {0} /\ anchor \in Int
    BY <2>1, Values, EventWindowsAssumption
  <2>4. k * Width \in Int /\ (k + 1) * Width = k * Width + Width
    BY <2>2, <2>3
  <2>5. k + 1 \in 0 .. start' /\ start' = anchor + (k + 1) * Width
    BY <2>1, <2>2, <2>3, <2>4 DEF End
  <2>6. QED  BY <2>1, <2>5 DEF WindowsAreAligned
<1>4. QED  BY <1>1, <1>2, <1>3, StepKinds

LEMMA StartsStep ==
  ASSUME EInv, [Next]_vars
  PROVE  StartsWithAWindow'
<1> USE DEF EInv
<1>1. ASSUME NEW e \in Events, AddEvent(e) PROVE StartsWithAWindow'
  BY <1>1, Values DEF AddEvent, AddFirst, AddAhead, AddNow, anchorVars, windowVars, NoTime,
     StartsWithAWindow
<1>2. CASE Moves
  BY <1>2 DEF Moves, windowVars, StartsWithAWindow
<1>3. CASE \E e \in Events : Drain(e)
  BY <1>3 DEF Drain, StartsWithAWindow
<1>4. CASE Closes
  <2>1. start' = End /\ start \in Nat
    BY <1>4, Values DEF Closes, FinishWindow, StartsWithAWindow
  <2>2. QED  BY <2>1, Values DEF NoTime, StartsWithAWindow
<1>5. QED  BY <1>1, <1>2, <1>3, <1>4, StepKinds

LEMMA WaitingStep ==
  ASSUME EInv, [Next]_vars
  PROVE  WaitingIsAhead'
<1> USE DEF EInv
<1>1. ASSUME NEW e \in Events, AddEvent(e) PROVE WaitingIsAhead'
  <2>1. CASE AddFirst(e)
    BY <2>1 DEF AddFirst, WaitingIsAhead
  <2>2. CASE AddNow(e)
    BY <2>2 DEF AddNow, WaitingIsAhead
  <2>3. CASE AddAhead(e)
    <3>1. UNCHANGED start /\ start # NoTime /\ start <= At[e]
      BY <2>3, Values DEF AddAhead, windowVars
    <3>2. \A d \in Events : d # e => future'[d] = future[d]
      BY <2>3 DEF AddAhead, Wait, TypeOK
    <3>3. QED  BY <3>1, <3>2 DEF WaitingIsAhead
  <2>4. QED  BY <1>1, <2>1, <2>2, <2>3 DEF AddEvent
<1>2. CASE Moves
  BY <1>2 DEF Moves, windowVars, WaitingIsAhead
<1>3. ASSUME NEW e \in Events, Drain(e) PROVE WaitingIsAhead'
  <2>1. UNCHANGED start /\ future[e] > 0 /\ \A d \in Events : d # e => future'[d] = future[d]
    BY <1>3 DEF Drain, Drainable, TypeOK
  <2>2. QED  BY <2>1 DEF WaitingIsAhead
<1>4. CASE Closes
  <2>1. /\ start' = End /\ Drainable = {} /\ UNCHANGED future /\ start \in Nat
    BY <1>4, Values DEF Closes, FinishWindow, StartsWithAWindow
  <2>2. \A e \in Events : future[e] > 0 => End <= At[e]
    BY <2>1, Values DEF Drainable
  <2>3. End # NoTime
    BY <2>1, Values DEF NoTime
  <2>4. QED  BY <2>1, <2>2, <2>3 DEF WaitingIsAhead
<1>5. QED  BY <1>1, <1>2, <1>3, <1>4, StepKinds

LEMMA ReasonStep ==
  ASSUME EInv, [Next]_vars
  PROVE  ClosedForAReason'
<1> USE DEF EInv
<1>1. ASSUME NEW e \in Events, AddEvent(e) PROVE ClosedForAReason'
  <2>1. CASE AddFirst(e)
    BY <2>1 DEF AddFirst, ClosedForAReason
  <2>2. CASE AddAhead(e) \/ AddNow(e)
    <3>1. /\ UNCHANGED <<anchor, plotAnchor, start, rebase, idled, clock>>
          /\ call = "none" /\ newest' = Larger(newest, At[e])
      BY <2>2 DEF AddAhead, AddNow, Arrives, anchorVars, windowVars, timeVars
    <3>2. start <= Watermark => start <= newest' - Lateness
      BY <3>1, Values, EventWindowsAssumption DEF Larger, Watermark
    <3>3. QED  BY <3>1, <3>2 DEF ClosedForAReason, Watermark, PlotTime
  <2>3. QED  BY <1>1, <2>1, <2>2 DEF AddEvent
<1>2. CASE Moves
  <2>1. /\ UNCHANGED <<anchor, plotAnchor, start, newest, rebase, idled>>
        /\ clock <= clock' /\ clock' \in Nat
        /\ call \in {"flush", "flushed"} => call' \in {"flush", "flushed"}
    BY <1>2, EventWindowsAssumption DEF Moves, anchorVars, windowVars, seenVars
  <2>2. PlotTime(start) \in Int
    BY Values DEF PlotTime
  <2>3. PlotTime(start) <= clock => PlotTime(start)' <= clock'
    BY <2>1, <2>2, Values DEF PlotTime
  <2>4. QED  BY <2>1, <2>3 DEF ClosedForAReason, Watermark
<1>3. CASE \E e \in Events : Drain(e)
  BY <1>3 DEF Drain, timeVars, anchorVars, seenVars, ClosedForAReason, Watermark, PlotTime
<1>4. CASE Closes
  <2>1. /\ start' = End
        /\ UNCHANGED <<anchor, plotAnchor, newest, rebase, clock>>
    BY <1>4 DEF Closes, FinishWindow, anchorVars, seenVars, timeVars
  <2>2. PlotTime(start)' = PlotTime(End) /\ Watermark' = Watermark
    BY <2>1 DEF PlotTime, Watermark
  <2>3. QED  BY <1>4, <2>1, <2>2 DEF Closes, ClosedForAReason
<1>5. QED  BY <1>1, <1>2, <1>3, <1>4, StepKinds

-----------------------------------------------------------------------------
(* Snapshots and packets add up.                                           *)

\* A snapshot is in memory once more when it is added, and no other step
\* changes how often: draining moves it from the waiting list to the window,
\* closing from the window to the reports.
LEMMA AddedToMemory ==
  ASSUME EInv, NEW e \in Events, AddEvent(e)
  PROVE  \A d \in Events : InMemory(d)' = IF d = e THEN InMemory(d) + 1 ELSE InMemory(d)
<1> USE DEF EInv
<1>1. /\ \A d \in Events : /\ counted[d] \in Nat /\ rejected[d] \in Nat /\ future[d] \in Nat
                           /\ ReportedEvents(d) \in Nat
                           /\ counted'[d] \in Nat /\ rejected'[d] \in Nat
      /\ future \in [Events -> Nat]
  BY Values, ReportedTypes, NewCounts DEF TypeOK, Next
<1>2. UNCHANGED output
  BY DEF AddEvent, AddFirst, AddAhead, AddNow, Arrives
<1>3. \A d \in Events : ReportedEvents(d)' = ReportedEvents(d)
  BY <1>2 DEF ReportedEvents
<1>4. CASE AddAhead(e)
  <2>1. /\ UNCHANGED <<counted, rejected>>
        /\ \A d \in Events : future'[d] = IF d = e THEN future[d] + 1 ELSE future[d]
    BY <1>4, <1>1 DEF AddAhead, Wait, windowVars
  <2>2. QED  BY <1>1, <1>3, <2>1 DEF InMemory
<1>5. CASE AddFirst(e) \/ AddNow(e)
  <2>1. PICK s \in Nat : Apply(e, s)
    BY <1>5, Values DEF AddFirst, AddNow
  <2>2. UNCHANGED future
    BY <1>5 DEF AddFirst, AddNow
  <2>3. /\ counted'[e] + rejected'[e] = counted[e] + rejected[e] + 1
        /\ \A d \in Events : d # e => counted'[d] = counted[d] /\ rejected'[d] = rejected[d]
    BY <2>1, AppliedOnce
  <2>4. QED  BY <1>1, <1>3, <2>2, <2>3 DEF InMemory
<1>6. QED  BY <1>4, <1>5 DEF AddEvent

LEMMA KeptInMemory ==
  ASSUME EInv, [Next]_vars, \A e \in Events : ~AddEvent(e)
  PROVE  UNCHANGED added /\ \A d \in Events : InMemory(d)' = InMemory(d)
<1> USE DEF EInv
<1>1. /\ \A d \in Events : /\ counted[d] \in Nat /\ rejected[d] \in Nat /\ future[d] \in Nat
                           /\ ReportedEvents(d) \in Nat
                           /\ counted'[d] \in Nat /\ rejected'[d] \in Nat
      /\ future \in [Events -> Nat]
  BY Values, ReportedTypes, NewCounts DEF TypeOK
<1>2. UNCHANGED output => \A d \in Events : ReportedEvents(d)' = ReportedEvents(d)
  BY DEF ReportedEvents
<1>3. ASSUME NEW e \in Events, Drain(e)
      PROVE  UNCHANGED added /\ \A d \in Events : InMemory(d)' = InMemory(d)
  <2>1. /\ Apply(e, start) /\ start \in Nat /\ UNCHANGED <<output, added>>
        /\ \A d \in Events : future'[d] = IF d = e THEN future[d] - 1 ELSE future[d]
    BY <1>1, <1>3, Values DEF Drain, StartsWithAWindow
  <2>2. /\ counted'[e] + rejected'[e] = counted[e] + rejected[e] + 1
        /\ \A d \in Events : d # e => counted'[d] = counted[d] /\ rejected'[d] = rejected[d]
    BY <2>1, AppliedOnce
  <2>3. ASSUME NEW d \in Events PROVE InMemory(d)' = InMemory(d)
    <3>1. ReportedEvents(d)' = ReportedEvents(d)
      BY <1>2, <2>1
    <3>2. CASE d = e
      BY <1>1, <2>1, <2>2, <3>1, <3>2 DEF InMemory
    <3>3. CASE d # e
      BY <1>1, <2>1, <2>2, <3>1, <3>3 DEF InMemory
    <3>4. QED  BY <3>2, <3>3
  <2>4. QED  BY <2>1, <2>3
<1>4. CASE Closes
  <2>1. /\ Report /\ start # NoTime /\ UNCHANGED <<future, added>>
        /\ \A d \in Events : counted'[d] = 0 /\ rejected'[d] = 0
    BY <1>4 DEF Closes, FinishWindow, StartsWithAWindow, NoEvents
  <2>2. \A d \in Events : ReportedEvents(d)' = ReportedEvents(d) + (counted[d] + rejected[d])
    BY <2>1, ReportedMore
  <2>3. QED  BY <1>1, <2>1, <2>2 DEF InMemory
<1>5. CASE Moves
  BY <1>2, <1>5 DEF Moves, windowVars, InMemory
<1>6. QED  BY <1>3, <1>4, <1>5, StepKinds

LEMMA OnceStep ==
  ASSUME EInv, EverySnapshotOnce, [Next]_vars
  PROVE  EverySnapshotOnce'
<1>1. ASSUME NEW e \in Events, AddEvent(e)
      PROVE  EverySnapshotOnce'
  <2>1. \A d \in Events : added'[d] = IF d = e THEN added[d] + 1 ELSE added[d]
    BY <1>1 DEF AddEvent, AddFirst, AddAhead, AddNow, Arrives, EInv, TypeOK
  <2>2. QED  BY <1>1, <2>1, AddedToMemory DEF EverySnapshotOnce
<1>2. CASE \A e \in Events : ~AddEvent(e)
  BY <1>2, KeptInMemory DEF EverySnapshotOnce
<1>3. QED  BY <1>1, <1>2

\* A snapshot that is accepted raises the counter of its flow to its own, if
\* it is larger, and what the window has for the flow by as much.
LEMMA AppliedPackets ==
  ASSUME TypeOK, NEW e \in Events, NEW s \in Nat, Apply(e, s)
  PROVE  \/ UNCHANGED <<counted, counter, packets>>
         \/ /\ \A d \in Events : counted'[d] = IF d = e THEN counted[d] + 1 ELSE counted[d]
            /\ \A f \in Flows : f # Flow[e] => counter'[f] = counter[f] /\ packets'[f] = packets[f]
            /\ counter'[Flow[e]] = Larger(counter[Flow[e]], Packets[e])
            /\ packets'[Flow[e]] - packets[Flow[e]] = counter'[Flow[e]] - counter[Flow[e]]
            /\ packets'[Flow[e]] \in Int
<1>1. /\ counted \in [Events -> Nat] /\ counter \in [Flows -> Nat] /\ packets \in [Flows -> Nat]
      /\ Flow[e] \in Flows /\ Packets[e] \in Nat
  BY Values DEF TypeOK
<1>2. CASE TooLate(e, s)
  BY <1>2 DEF Apply
<1>3. CASE ~TooLate(e, s)
  <2>1. /\ counted' = [counted EXCEPT ![e] = @ + 1]
        /\ counter' = [counter EXCEPT ![Flow[e]] = Larger(counter[Flow[e]], Packets[e])]
        /\ packets' = [packets EXCEPT ![Flow[e]] = @ + Larger(0, Packets[e] - counter[Flow[e]])]
    BY <1>3 DEF Apply, NextCounter, Delta
  <2>2. /\ counter'[Flow[e]] = Larger(counter[Flow[e]], Packets[e])
        /\ packets'[Flow[e]] = packets[Flow[e]] + Larger(0, Packets[e] - counter[Flow[e]])
    BY <1>1, <2>1
  <2>3. /\ packets'[Flow[e]] - packets[Flow[e]] = counter'[Flow[e]] - counter[Flow[e]]
        /\ packets'[Flow[e]] \in Int
    BY <1>1, <2>2 DEF Larger
  <2>4. \A f \in Flows : f # Flow[e] => counter'[f] = counter[f] /\ packets'[f] = packets[f]
    BY <1>1, <2>1
  <2>5. \A d \in Events : counted'[d] = IF d = e THEN counted[d] + 1 ELSE counted[d]
    BY <1>1, <2>1
  <2>6. QED  BY <2>2, <2>3, <2>4, <2>5
<1>4. QED  BY <1>2, <1>3

\* Which steps apply a snapshot.
LEMMA StepApplies ==
  ASSUME EInv, [Next]_vars
  PROVE  \/ \E e \in Events, s \in Nat : Apply(e, s) /\ UNCHANGED output
         \/ Closes
         \/ UNCHANGED <<counted, counter, packets, output>>
<1> USE DEF EInv
<1>1. ASSUME NEW e \in Events, AddFirst(e) \/ AddNow(e) \/ Drain(e)
      PROVE  \E s \in Nat : Apply(e, s) /\ UNCHANGED output
  BY <1>1, Values DEF AddFirst, AddNow, Drain, Arrives, StartsWithAWindow
<1>2. ASSUME NEW e \in Events, AddAhead(e) PROVE UNCHANGED <<counted, counter, packets, output>>
  BY <1>2 DEF AddAhead, Arrives, windowVars
<1>3. Moves => UNCHANGED <<counted, counter, packets, output>>
  BY DEF Moves, windowVars
<1>4. QED  BY <1>1, <1>2, <1>3, StepKinds DEF AddEvent

LEMMA CountersStep ==
  ASSUME EInv, CountersAddUp, [Next]_vars
  PROVE  CountersAddUp'
<1> USE DEF EInv
<1>1. \A f \in Flows : counter[f] \in Nat /\ packets[f] \in Nat /\ ReportedPackets(f) \in Nat
  BY Values, ReportedTypes
<1>2. UNCHANGED output => \A f \in Flows : ReportedPackets(f)' = ReportedPackets(f)
  BY DEF ReportedPackets
<1>3. CASE UNCHANGED <<counted, counter, packets, output>>
  BY <1>2, <1>3 DEF CountersAddUp
<1>4. ASSUME NEW e \in Events, NEW s \in Nat, Apply(e, s), UNCHANGED output,
             ~UNCHANGED <<counted, counter, packets>>
      PROVE  CountersAddUp'
  <2>1. /\ \A f \in Flows : f # Flow[e] => counter'[f] = counter[f] /\ packets'[f] = packets[f]
        /\ counter'[Flow[e]] = Larger(counter[Flow[e]], Packets[e])
        /\ packets'[Flow[e]] - packets[Flow[e]] = counter'[Flow[e]] - counter[Flow[e]]
        /\ packets'[Flow[e]] \in Int
    BY <1>4, AppliedPackets
  <2>2. Flow[e] \in Flows /\ counter'[Flow[e]] \in Int
    BY <2>1, Values DEF Larger
  <2>3. ASSUME NEW f \in Flows PROVE packets'[f] + ReportedPackets(f)' = counter'[f]
    <3>1. packets[f] + ReportedPackets(f) = counter[f] /\ ReportedPackets(f)' = ReportedPackets(f)
      BY <1>2, <1>4 DEF CountersAddUp
    <3>2. QED  BY <1>1, <2>1, <2>2, <3>1
  <2>4. QED  BY <2>3 DEF CountersAddUp
<1>5. CASE Closes
  <2>1. /\ Report /\ start # NoTime /\ UNCHANGED counter
        /\ \A f \in Flows : packets'[f] = 0
    BY <1>5 DEF Closes, FinishWindow, StartsWithAWindow, NoPackets
  <2>2. \A f \in Flows : ReportedPackets(f)' = ReportedPackets(f) + packets[f]
    BY <2>1, ReportedMore
  <2>3. QED  BY <1>1, <2>1, <2>2 DEF CountersAddUp
<1>6. QED  BY <1>3, <1>4, <1>5, StepApplies

LEMMA LargestStep ==
  ASSUME EInv, CounterIsLargest, [Next]_vars
  PROVE  CounterIsLargest'
<1> USE DEF EInv
<1>1. /\ \A f \in Flows : counter[f] \in Nat
      /\ \A e \in Events : Packets[e] \in Nat /\ Flow[e] \in Flows /\ counted[e] \in Nat
  BY Values
<1>2. CASE UNCHANGED <<counted, counter, packets, output>>
  BY <1>2 DEF CounterIsLargest, Accepted
<1>3. ASSUME NEW e \in Events, NEW s \in Nat, Apply(e, s), UNCHANGED output,
             ~UNCHANGED <<counted, counter, packets>>
      PROVE  CounterIsLargest'
  <2>1. /\ \A d \in Events : counted'[d] = IF d = e THEN counted[d] + 1 ELSE counted[d]
        /\ \A f \in Flows : f # Flow[e] => counter'[f] = counter[f] /\ packets'[f] = packets[f]
        /\ counter'[Flow[e]] = Larger(counter[Flow[e]], Packets[e])
    BY <1>3, AppliedPackets
  <2>2. \A d \in Events : d = e \/ (counted'[d] > 0 <=> counted[d] > 0)
    BY <2>1
  <2>3. \A f \in Flows : Accepted(f)' = IF f = Flow[e] THEN Accepted(f) \union {e} ELSE Accepted(f)
    <3>1. counted'[e] > 0
      BY <1>1, <2>1
    <3>2. QED  BY <1>3, <2>2, <3>1 DEF Accepted
  <2>4. ASSUME NEW f \in Flows
        PROVE  /\ \A d \in Accepted(f)' : Packets[d] <= counter'[f]
               /\ counter'[f] = 0 \/ \E d \in Accepted(f)' : Packets[d] = counter'[f]
    <3>1. /\ \A d \in Accepted(f) : d \in Events /\ Packets[d] <= counter[f]
          /\ counter[f] = 0 \/ \E d \in Accepted(f) : Packets[d] = counter[f]
      BY DEF CounterIsLargest, Accepted
    <3>2. CASE f # Flow[e]
      BY <2>1, <2>3, <3>1, <3>2
    <3>3. CASE f = Flow[e]
      <4>1. Accepted(f)' = Accepted(f) \union {e}
        BY <2>3, <3>3
      <4>2. /\ counter'[f] = Larger(counter[f], Packets[e])
            /\ counter[f] \in Nat /\ Packets[e] \in Nat
        BY <1>1, <2>1, <3>3
      <4>3. CASE counter[f] < Packets[e]
        <5>1. counter'[f] = Packets[e] /\ \A d \in Accepted(f) : Packets[d] \in Nat
          BY <1>1, <3>1, <4>2, <4>3 DEF Larger
        <5>2. QED  BY <3>1, <4>1, <4>2, <4>3, <5>1
      <4>4. CASE ~(counter[f] < Packets[e])
        <5>1. counter'[f] = counter[f] /\ Packets[e] <= counter[f]
          BY <4>2, <4>4 DEF Larger
        <5>2. QED  BY <3>1, <4>1, <5>1
      <4>5. QED  BY <4>3, <4>4
    <3>4. QED  BY <3>2, <3>3
  <2>5. QED  BY <2>4 DEF CounterIsLargest
<1>4. CASE Closes
  <2>1. /\ Report /\ start # NoTime /\ UNCHANGED counter
        /\ \A d \in Events : counted'[d] = 0
    BY <1>4 DEF Closes, FinishWindow, StartsWithAWindow, NoEvents
  <2>2. PICK w \in Windows : w = [start |-> start, counted |-> counted, rejected |-> rejected,
                                  packets |-> packets]
    BY <2>1, CurrentWindow
  <2>3. /\ Len(output') = Len(output) + 1 /\ Len(output) \in Nat
        /\ output'[Len(output) + 1].counted = counted
        /\ \A n \in 1 .. Len(output) : output'[n] = output[n]
    <3>1. output \in Seq(Windows) /\ output' = Append(output, w) /\ w.counted = counted
      BY <2>1, <2>2 DEF Report, TypeOK
    <3>2. QED  BY <3>1, AppendProperties
  <2>4. ASSUME NEW d \in Events
        PROVE  (counted[d] > 0 \/ \E n \in 1 .. Len(output) : output[n].counted[d] > 0)
                 <=> (\E n \in 1 .. Len(output') : output'[n].counted[d] > 0)
    <3>1. Len(output) + 1 \in 1 .. Len(output')
      BY <2>3
    <3>2. \A n \in 1 .. Len(output) : n \in 1 .. Len(output')
      BY <2>3
    <3>3. \A n \in 1 .. Len(output') : n \in 1 .. Len(output) \/ n = Len(output) + 1
      BY <2>3
    <3>4. QED  BY <2>3, <3>1, <3>2, <3>3
  <2>5. \A d \in Events : ~(counted'[d] > 0)
    BY <2>1
  <2>6. \A f \in Flows : Accepted(f)' = Accepted(f)
    BY <2>4, <2>5 DEF Accepted
  <2>7. QED  BY <2>1, <2>6 DEF CounterIsLargest
<1>5. QED  BY <1>2, <1>3, <1>4, StepApplies

-----------------------------------------------------------------------------
LEMMA InvariantStep ==
  ASSUME EInv, [Next]_vars
  PROVE  EInv'
BY TypeStep, CopiesStep, AlignedStep, StartsStep, WaitingStep, ReasonStep DEF EInv

LEMMA InitialTypes ==
  ASSUME Init
  PROVE  TypeOK
<1>1. NoEvents \in [Events -> 0 .. MaxCopies] /\ NoPackets \in [Flows -> Nat]
  BY EventWindowsAssumption DEF NoEvents, NoPackets
<1>2. clock \in 0 .. MaxClock
  BY EventWindowsAssumption DEF Init
<1>3. {anchor, plotAnchor, start, newest, lastSeen} = {NoTime}
  BY DEF Init
<1>4. /\ {counted, rejected, future, added} \subseteq [Events -> 0 .. MaxCopies]
      /\ {counter, packets} \subseteq [Flows -> Nat]
  BY <1>1 DEF Init
<1>5. output \in Seq(Windows) /\ call \in Calls
  BY DEF Init, Calls
<1>6. rebase \in BOOLEAN /\ dirty \in BOOLEAN /\ idled \in BOOLEAN
  BY Zenon DEF Init
<1>7. QED  BY <1>2, <1>3, <1>4, <1>5, <1>6 DEF TypeOK, Calls

LEMMA InitialInvariant ==
  ASSUME Init
  PROVE  EInv
<1>1. \A e \in Events : NoEvents[e] = 0
  BY DEF NoEvents
<1>2. TypeOK
  BY InitialTypes
<1>3. CopiesAddUp /\ WaitingIsAhead
  BY <1>1 DEF Init, CopiesAddUp, WaitingIsAhead
<1>4. WindowsAreAligned /\ StartsWithAWindow /\ ClosedForAReason
  BY DEF Init, WindowsAreAligned, StartsWithAWindow, ClosedForAReason
<1>5. QED  BY <1>2, <1>3, <1>4 DEF EInv

\* The inductive invariant.
THEOREM Inductive == Spec => []EInv
<1>1. Init => EInv
  BY InitialInvariant
<1>2. EInv /\ [Next]_vars => EInv'
  BY InvariantStep
<1>3. QED  BY <1>1, <1>2, PTL DEF Spec

\* The aggregator of intelligent-telemetry keeps its types; in particular no
\* window counts more copies of a snapshot than have arrived.
THEOREM TypeCorrect == Spec => []TypeOK
<1>1. EInv => TypeOK
  BY DEF EInv
<1>2. QED  BY Inductive, <1>1, PTL

\* No snapshot is lost and none is counted twice on its way from add_event()
\* through the waiting list and the windows to the reports, however many wait
\* and in whatever order the watermark, the heartbeat and the flush close.
THEOREM SnapshotsAreKept == Spec => []EverySnapshotOnce
<1>1. Init => EverySnapshotOnce
  <2>1. SUFFICES ASSUME Init PROVE EverySnapshotOnce
    OBVIOUS
  <2>2. output = <<>> /\ TypeOK
    BY <2>1, InitialTypes DEF Init
  <2>3. \A e \in Events : ReportedEvents(e) = 0
    BY <2>2, NothingReported
  <2>4. \A e \in Events : future[e] = 0 /\ counted[e] = 0 /\ rejected[e] = 0 /\ added[e] = 0
    BY <2>1 DEF Init, NoEvents
  <2>5. ASSUME NEW e \in Events PROVE added[e] = InMemory(e)
    BY <2>3, <2>4 DEF InMemory
  <2>6. QED  BY <2>5 DEF EverySnapshotOnce
<1>2. EInv /\ EverySnapshotOnce /\ [Next]_vars => EverySnapshotOnce'
  BY OnceStep
<1>3. QED  BY Inductive, <1>1, <1>2, PTL DEF Spec

\* Out-of-order and repeated snapshots do not count packets twice: the windows
\* report as many for a flow as its largest accepted counter says.
THEOREM WindowsReportTheCounter == Spec => []WindowsAddUp
<1>1. Init => CountersAddUp /\ CounterIsLargest
  <2>1. SUFFICES ASSUME Init PROVE CountersAddUp /\ CounterIsLargest
    OBVIOUS
  <2>2. output = <<>> /\ TypeOK
    BY <2>1, InitialTypes DEF Init
  <2>3. \A f \in Flows : ReportedPackets(f) = 0
    BY <2>2, NothingReported
  <2>4. \A f \in Flows : packets[f] = 0 /\ counter[f] = 0 /\ Accepted(f) = {}
    <3>1. Len(output) = 0 /\ \A e \in Events : counted[e] = 0
      BY <2>1, <2>2 DEF Init, NoEvents
    <3>2. QED  BY <2>1, <3>1 DEF Init, NoPackets, Accepted
  <2>5. QED  BY <2>3, <2>4 DEF CountersAddUp, CounterIsLargest
<1>2. EInv /\ (CountersAddUp /\ CounterIsLargest) /\ [Next]_vars
        => (CountersAddUp /\ CounterIsLargest)'
  BY CountersStep, LargestStep
<1>3. EInv /\ (CountersAddUp /\ CounterIsLargest) => WindowsAddUp
  <2>1. SUFFICES ASSUME EInv, CountersAddUp, CounterIsLargest, NEW f \in Flows
                 PROVE  IF Accepted(f) = {} THEN packets[f] + ReportedPackets(f) = 0
                        ELSE /\ \A e \in Accepted(f) : Packets[e] <= packets[f] + ReportedPackets(f)
                             /\ \E e \in Accepted(f) : Packets[e] = packets[f] + ReportedPackets(f)
    BY DEF WindowsAddUp
  <2>2. PICK total \in Nat : total = counter[f] /\ total = packets[f] + ReportedPackets(f)
    BY <2>1, Values DEF CountersAddUp, EInv
  <2>3. /\ \A e \in Accepted(f) : Packets[e] <= total /\ Packets[e] \in Nat
        /\ total = 0 \/ \E e \in Accepted(f) : Packets[e] = total
    <3>1. \A e \in Accepted(f) : Packets[e] \in Nat
      BY EventWindowsAssumption DEF Accepted
    <3>2. /\ \A e \in Accepted(f) : Packets[e] <= counter[f]
          /\ counter[f] = 0 \/ \E e \in Accepted(f) : Packets[e] = counter[f]
      BY <2>1 DEF CounterIsLargest
    <3>3. QED  BY <2>2, <3>1, <3>2
  <2>4. total = 0 => \A e \in Accepted(f) : Packets[e] = total
    BY <2>2, <2>3
  <2>5. QED  BY <2>2, <2>3, <2>4
<1>4. QED  BY Inductive, <1>1, <1>2, <1>3, PTL DEF Spec

\* A snapshot that waits is counted in the window that its disposition named
\* when it arrived, whichever of the watermark, the heartbeat and the final
\* flush closes the windows in front of it.
THEOREM NoWindowIsSkipped == Spec => DrainedIntoItsTarget
<1>1. ASSUME EInv, [Next]_vars
      PROVE  [\A e \in Events : future'[e] < future[e] => start = Target(e)]_vars
  <2> USE <1>1 DEF EInv
  <2>1. SUFFICES ASSUME NEW e \in Events, future'[e] < future[e]
                 PROVE  start = Target(e)
    OBVIOUS
  <2>2. future[e] \in Nat /\ ~(future[e] < future[e])
    BY Values
  <2>3. PICK d \in Events : AddEvent(d) \/ Drain(d)
    BY <2>1, <2>2, StepKinds DEF Closes, FinishWindow, Moves
  <2>4. ~AddEvent(d)
    <3>1. AddFirst(d) \/ AddNow(d) => UNCHANGED future
      BY DEF AddFirst, AddNow
    <3>2. AddAhead(d) => ~(future'[e] < future[e])
      BY <2>2 DEF AddAhead, Wait, TypeOK
    <3>3. QED  BY <2>1, <2>2, <3>1, <3>2 DEF AddEvent
  <2>5. d = e
    BY <2>1, <2>2, <2>3, <2>4 DEF Drain, TypeOK
  <2>6. future[e] > 0 /\ At[e] < End
    BY <2>3, <2>4, <2>5 DEF Drain, Drainable
  <2>7. start # NoTime /\ start <= At[e]
    BY <2>6 DEF WaitingIsAhead
  <2>8. PICK k \in 0 .. start : start = anchor + k * Width
    BY <2>7 DEF WindowsAreAligned
  <2>9. /\ At[e] \in Int /\ anchor \in Int /\ Width \in Int /\ start \in Nat
        /\ k \in Int /\ k * Width \in Int
    BY <2>7, <2>8, Values, EventWindowsAssumption
  <2>10. (At[e] - anchor) \div Width = k
    <3>1. k * Width <= At[e] - anchor /\ At[e] - anchor < k * Width + Width
      BY <2>6, <2>7, <2>8, <2>9 DEF End
    <3>2. At[e] - anchor \in Int
      BY <2>9
    <3>3. QED  BY <2>9, <3>1, <3>2, InsideTheWindow
  <2>11. Larger(0, k) = k
    BY <2>8 DEF Larger
  <2>12. QED  BY <2>8, <2>10, <2>11 DEF Target
<1>2. QED  BY Inductive, <1>1, PTL DEF Spec, DrainedIntoItsTarget

\* A snapshot that arrives in time by the watermark, and before the clock has
\* passed the end of its window if a heartbeat has ever closed one, is not
\* late: it is counted in a window that covers it, or in the first one.
THEOREM OnTimeIsCounted == Spec => OnTimeIsNotLate
<1> DEFINE OnTime(e) ==
             counted'[e] + rejected'[e] > counted[e] + rejected[e]
               /\ (idled => clock < PlotTime(Target(e) + Width)) /\ newest' - At[e] <= Lateness
<1>1. ASSUME EInv, [Next]_vars
      PROVE  [\A e \in Events : OnTime(e) => start' <= At[e] \/ (start' = anchor' /\ rejected' = rejected)]_vars
  <2> USE <1>1 DEF EInv
  <2>1. SUFFICES ASSUME NEW e \in Events, OnTime(e)
                 PROVE  start' <= At[e] \/ (start' = anchor' /\ rejected' = rejected)
    OBVIOUS
  <2>2. counted[e] \in Nat /\ rejected[e] \in Nat
    BY Values
  <2>3. PICK d \in Events : AddEvent(d) \/ Drain(d)
    <3>1. ~Moves
      BY <2>1, <2>2 DEF Moves, windowVars
    <3>2. ~Closes
      BY <2>1, <2>2 DEF Closes, FinishWindow, NoEvents
    <3>3. QED  BY <3>1, <3>2, StepKinds
  <2>4. CASE AddFirst(d)
    <3>1. ~(counted'[e] + rejected'[e] > counted[e] + rejected[e]) \/ d = e
      BY <2>2, <2>4, AppliedOnce, Values DEF AddFirst
    <3>2. start' = At[e]
      BY <2>1, <2>4, <3>1 DEF AddFirst
    <3>3. QED  BY <3>2, Values
  <2>5. CASE AddAhead(d)
    BY <2>1, <2>2, <2>5 DEF AddAhead, windowVars
  <2>6. CASE Drain(d)
    <3>1. start \in Nat /\ Apply(d, start) /\ future[d] > 0 /\ UNCHANGED start
      BY <2>6, Values DEF Drain, Drainable, StartsWithAWindow
    <3>2. d = e
      BY <2>1, <2>2, <3>1, AppliedOnce
    <3>3. QED  BY <3>1, <3>2 DEF WaitingIsAhead
  <2>7. CASE AddNow(d)
    <3>1. /\ start # NoTime /\ start \in Nat /\ Apply(d, start) /\ call = "none"
          /\ UNCHANGED <<start, anchor, plotAnchor, clock, rebase>>
          /\ newest' = Larger(newest, At[d])
      BY <2>7, Values DEF AddNow, Arrives, anchorVars, timeVars
    <3>2. d = e
      BY <2>1, <2>2, <3>1, AppliedOnce
    <3>3. newest \in Int /\ At[e] \in Nat /\ Lateness \in Nat /\ newest <= newest' /\ newest' \in Int
      BY <3>1, <3>2, Values, EventWindowsAssumption DEF Larger
    <3>4. SUFFICES ASSUME ~(start <= At[e])
                   PROVE  start = anchor /\ rejected' = rejected
      BY <3>1
    <3>5. ~(start <= Watermark)
      BY <2>1, <3>1, <3>3, <3>4 DEF Watermark
    <3>6. CASE start = anchor
      <4>1. ~(At[e] < start - Lateness)
        BY <2>1, <3>1, <3>3, <3>6, Values DEF WindowsAreAligned
      <4>2. QED  BY <3>1, <3>2, <3>6, <4>1, AppliedOnce
    <3>7. CASE start # anchor
      <4>1. idled /\ PlotTime(start) <= clock
        BY <3>1, <3>5, <3>7 DEF ClosedForAReason
      <4>2. PICK k \in 0 .. start : start = anchor + k * Width
        BY <3>1 DEF WindowsAreAligned
      <4>3. anchor \in Int /\ Width \in Nat /\ k \in Int /\ k * Width \in Int /\ At[e] - anchor \in Int
        BY <4>2, <3>1, <3>3, Values, EventWindowsAssumption
      <4>4. k > 0
        <5>1. k = 0 => k * Width = 0
          BY <4>3
        <5>2. QED  BY <4>2, <4>3, <5>1, <3>7
      <4>5. At[e] - anchor < k * Width
        BY <4>2, <4>3, <3>1, <3>3, <3>4
      <4> DEFINE j == Larger(0, (At[e] - anchor) \div Width)
      <4>6. j \in Nat /\ j * Width + Width <= k * Width
        BY <4>3, <4>4, <4>5, BehindTheWindow
      <4>7. Target(e) = anchor + j * Width
        BY DEF Target
      <4> HIDE DEF j
      <4>8. j * Width \in Int /\ Target(e) + Width <= start /\ Target(e) + Width \in Int
        BY <4>2, <4>3, <4>6, <4>7
      <4>9. PlotTime(Target(e) + Width) <= PlotTime(start)
        BY <4>8, <3>1, Values DEF PlotTime
      <4>10. PlotTime(Target(e) + Width) \in Int /\ PlotTime(start) \in Int /\ clock \in Int
        BY <4>8, <3>1, Values DEF PlotTime
      <4>11. clock < PlotTime(Target(e) + Width)
        BY <2>1, <4>1
      <4>12. QED  BY <4>1, <4>9, <4>10, <4>11
    <3>8. QED  BY <3>6, <3>7
  <2>8. QED  BY <2>3, <2>4, <2>5, <2>6, <2>7 DEF AddEvent
<1>2. QED  BY Inductive, <1>1, PTL DEF Spec, OnTimeIsNotLate
=============================================================================
