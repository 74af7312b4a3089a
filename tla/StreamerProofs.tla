--------------------------- MODULE StreamerProofs ---------------------------
(***************************************************************************)
(* Proofs about Streamer, for any number of meters and flows, any capacity *)
(* of the queue, any limits and any number of deaths and failures.         *)
(***************************************************************************)
EXTENDS Streamer, FiniteSetTheorems, SequenceTheorems, TLAPS

-----------------------------------------------------------------------------
(* Sequences, and the items in front of a place in them.                   *)

LEMMA AppendedItems ==
  ASSUME NEW S, NEW s \in Seq(S), NEW e \in S
  PROVE  LET t == Append(s, e)
         IN  /\ t \in Seq(S) /\ t # <<>> /\ Len(t) = Len(s) + 1 /\ Len(s) \in Nat
             /\ ToSet(t) = ToSet(s) \union {e}
             /\ \A i \in 1 .. Len(s) : t[i] = s[i] /\ Upto(t, i) = Upto(s, i)
             /\ t[Len(s) + 1] = e /\ Upto(t, Len(s) + 1) = ToSet(s)
<1> DEFINE t == Append(s, e)
<1>1. /\ t \in Seq(S) /\ t # <<>> /\ Len(t) = Len(s) + 1 /\ Len(s) \in Nat
      /\ DOMAIN t = 1 .. Len(s) + 1 /\ DOMAIN s = 1 .. Len(s)
      /\ \A i \in 1 .. Len(s) : t[i] = s[i]
      /\ t[Len(s) + 1] = e
  BY AppendProperties, LenProperties
<1> HIDE DEF t
<1>2. ToSet(t) = ToSet(s) \union {e}
  <2>1. \A i \in DOMAIN t : t[i] \in ToSet(s) \union {e}
    BY <1>1 DEF ToSet
  <2>2. \A i \in DOMAIN s : s[i] \in ToSet(t)
    BY <1>1 DEF ToSet
  <2>3. e \in ToSet(t)
    BY <1>1 DEF ToSet
  <2>4. QED  BY <2>1, <2>2, <2>3 DEF ToSet
<1>3. ASSUME NEW i \in 1 .. Len(s) + 1
      PROVE  Upto(t, i) = Upto(s, i)
  <2>1. \A j \in 1 .. i - 1 : t[j] = s[j]
    BY <1>1
  <2>2. QED  BY <2>1 DEF Upto
<1>4. Upto(s, Len(s) + 1) = ToSet(s)
  <2>1. Len(s) + 1 - 1 = Len(s)
    BY <1>1
  <2>2. QED  BY <1>1, <2>1 DEF Upto, ToSet
<1>5. Upto(t, Len(s) + 1) = ToSet(s)
  BY <1>1, <1>3, <1>4
<1>6. QED  BY <1>1, <1>2, <1>3, <1>5 DEF t

LEMMA HeadItems ==
  ASSUME NEW S, NEW s \in Seq(S), s # <<>>
  PROVE  LET t == Tail(s)
         IN  /\ t \in Seq(S) /\ Len(t) = Len(s) - 1 /\ Len(s) \in Nat \ {0}
             /\ Head(s) \in S /\ Head(s) = s[1] /\ Upto(s, 1) = {}
             /\ ToSet(s) = {Head(s)} \union ToSet(t)
             /\ \A i \in 1 .. Len(t) : /\ t[i] = s[i + 1] /\ i + 1 \in 1 .. Len(s)
                                       /\ Upto(s, i + 1) = {Head(s)} \union Upto(t, i)
<1> DEFINE t == Tail(s)
<1>1. /\ t \in Seq(S) /\ Len(t) = Len(s) - 1 /\ Len(s) \in Nat \ {0}
      /\ Head(s) \in S /\ Head(s) = s[1]
      /\ DOMAIN t = 1 .. Len(s) - 1 /\ DOMAIN s = 1 .. Len(s)
      /\ \A i \in 1 .. Len(s) - 1 : t[i] = s[i + 1]
  BY HeadTailProperties, EmptySeq, LenProperties
<1> HIDE DEF t
<1>2. Upto(s, 1) = {}
  <2>1. 1 .. 1 - 1 = {}
    OBVIOUS
  <2>2. QED  BY <2>1 DEF Upto
<1>3. ToSet(s) = {Head(s)} \union ToSet(t)
  <2>1. \A i \in DOMAIN s : s[i] \in {Head(s)} \union ToSet(t)
    <3>1. ASSUME NEW i \in 1 .. Len(s), i # 1
          PROVE  s[i] \in ToSet(t)
      <4>1. i - 1 \in 1 .. Len(s) - 1 /\ i - 1 + 1 = i
        BY <1>1, <3>1
      <4>2. t[i - 1] = s[i]
        BY <1>1, <4>1
      <4>3. QED  BY <1>1, <4>1, <4>2 DEF ToSet
    <3>2. QED  BY <1>1, <3>1
  <2>2. \A i \in DOMAIN t : t[i] \in ToSet(s)
    BY <1>1 DEF ToSet
  <2>3. Head(s) \in ToSet(s)
    BY <1>1 DEF ToSet
  <2>4. QED  BY <2>1, <2>2, <2>3 DEF ToSet
<1>4. ASSUME NEW i \in 1 .. Len(t)
      PROVE  Upto(s, i + 1) = {Head(s)} \union Upto(t, i)
  <2>1. i \in Nat /\ 1 <= i /\ i <= Len(s) - 1
    BY <1>1
  <2>2. \A j \in 1 .. i + 1 - 1 : s[j] \in {Head(s)} \union Upto(t, i)
    <3>1. ASSUME NEW j \in 1 .. i, j # 1
          PROVE  s[j] \in Upto(t, i)
      <4>1. j - 1 \in 1 .. i - 1 /\ j - 1 \in 1 .. Len(s) - 1 /\ j - 1 + 1 = j
        BY <1>1, <2>1, <3>1
      <4>2. t[j - 1] = s[j]
        BY <1>1, <4>1
      <4>3. QED  BY <4>1, <4>2 DEF Upto
    <3>2. 1 .. i + 1 - 1 = 1 .. i
      BY <2>1
    <3>3. QED  BY <1>1, <3>1, <3>2
  <2>3. \A j \in 1 .. i - 1 : t[j] \in Upto(s, i + 1)
    <3>1. ASSUME NEW j \in 1 .. i - 1
          PROVE  j + 1 \in 1 .. i + 1 - 1 /\ t[j] = s[j + 1]
      BY <1>1, <2>1
    <3>2. QED  BY <3>1 DEF Upto
  <2>4. Head(s) \in Upto(s, i + 1)
    <3>1. 1 \in 1 .. i + 1 - 1
      BY <2>1
    <3>2. QED  BY <1>1, <3>1 DEF Upto
  <2>5. QED  BY <2>2, <2>3, <2>4 DEF Upto
<1>5. QED  BY <1>1, <1>2, <1>3, <1>4 DEF t

\* An item that is new, and has in front of it what belongs there, may follow.
LEMMA OneMore ==
  ASSUME NEW S, NEW s \in Seq(S), NEW e \in S, NEW got, NEW bad,
         InOrder(s, got, bad),
         Before(e, bad) \subseteq got \union ToSet(s), e \notin got \union ToSet(s)
  PROVE  InOrder(Append(s, e), got, bad)
<1> DEFINE t == Append(s, e)
<1>1. /\ Len(t) = Len(s) + 1 /\ Len(s) \in Nat
      /\ \A i \in 1 .. Len(s) : t[i] = s[i] /\ Upto(t, i) = Upto(s, i)
      /\ t[Len(s) + 1] = e /\ Upto(t, Len(s) + 1) = ToSet(s)
  BY AppendedItems
<1> HIDE DEF t
<1>2. ASSUME NEW i \in 1 .. Len(t)
      PROVE  /\ Before(t[i], bad) \subseteq got \union Upto(t, i)
             /\ t[i] \notin got \union Upto(t, i)
  <2>1. i \in 1 .. Len(s) \/ i = Len(s) + 1
    BY <1>1
  <2>2. CASE i \in 1 .. Len(s)
    BY <1>1, <2>2 DEF InOrder
  <2>3. CASE i = Len(s) + 1
    BY <1>1, <2>3
  <2>4. QED  BY <2>1, <2>2, <2>3
<1>3. QED  BY <1>2 DEF InOrder, t

\* The first item has nothing missing, and the others come after it.
LEMMA OneLess ==
  ASSUME NEW S, NEW s \in Seq(S), s # <<>>, NEW got, NEW bad, InOrder(s, got, bad)
  PROVE  /\ Before(Head(s), bad) \subseteq got /\ Head(s) \notin got
         /\ InOrder(Tail(s), got \union {Head(s)}, bad)
<1> DEFINE t == Tail(s)
<1>1. /\ t \in Seq(S) /\ Len(t) = Len(s) - 1 /\ Len(s) \in Nat \ {0}
      /\ Head(s) = s[1] /\ Upto(s, 1) = {}
      /\ \A i \in 1 .. Len(t) : /\ t[i] = s[i + 1] /\ i + 1 \in 1 .. Len(s)
                                /\ Upto(s, i + 1) = {Head(s)} \union Upto(t, i)
  BY HeadItems
<1> HIDE DEF t
<1>2. 1 \in 1 .. Len(s)
  BY <1>1
<1>3. Before(Head(s), bad) \subseteq got /\ Head(s) \notin got
  BY <1>1, <1>2 DEF InOrder
<1>4. ASSUME NEW i \in 1 .. Len(t)
      PROVE  /\ Before(t[i], bad) \subseteq got \union {Head(s)} \union Upto(t, i)
             /\ t[i] \notin got \union {Head(s)} \union Upto(t, i)
  <2>1. /\ t[i] = s[i + 1] /\ i + 1 \in 1 .. Len(s)
        /\ Upto(s, i + 1) = {Head(s)} \union Upto(t, i)
    BY <1>1, <1>4
  <2>2. /\ Before(s[i + 1], bad) \subseteq got \union Upto(s, i + 1)
        /\ s[i + 1] \notin got \union Upto(s, i + 1)
    BY <2>1 DEF InOrder
  <2>3. QED  BY <2>1, <2>2
<1>5. QED  BY <1>3, <1>4 DEF InOrder, t

\* What an item does not ask for may come or go.
LEMMA OtherItems ==
  ASSUME NEW S, NEW s \in Seq(S), NEW got, NEW bad, NEW gotNow, NEW badNow,
         InOrder(s, got, bad),
         \A x \in ToSet(s) : /\ Before(x, badNow) \subseteq gotNow \union (Before(x, bad) \ got)
                             /\ x \in gotNow => x \in got
  PROVE  InOrder(s, gotNow, badNow)
<1>1. DOMAIN s = 1 .. Len(s)
  BY LenProperties
<1>2. ASSUME NEW i \in 1 .. Len(s)
      PROVE  /\ Before(s[i], badNow) \subseteq gotNow \union Upto(s, i)
             /\ s[i] \notin gotNow \union Upto(s, i)
  <2>1. s[i] \in ToSet(s)
    BY <1>1 DEF ToSet
  <2>2. /\ Before(s[i], bad) \subseteq got \union Upto(s, i)
        /\ s[i] \notin got \union Upto(s, i)
    BY DEF InOrder
  <2>3. QED  BY <2>1, <2>2
<1>3. QED  BY <1>2 DEF InOrder

LEMMA NothingInOrder ==
  ASSUME NEW got, NEW bad
  PROVE  InOrder(<<>>, got, bad) /\ ToSet(<<>>) = {}
BY DEF InOrder, ToSet

-----------------------------------------------------------------------------
(* Items.                                                                  *)

LEMMA Kinds ==
  ASSUME NEW m, NEW n
  PROVE  /\ FlowItem(m, n).kind = "flow" /\ FlowItem(m, n).from = m /\ FlowItem(m, n).n = n
         /\ ErrorItem(m).kind = "error" /\ ErrorItem(m).from = m
         /\ NoneItem(m).kind = "none" /\ NoneItem(m).from = m
BY DEF FlowItem, ErrorItem, NoneItem

LEMMA Firsts ==
  ASSUME NEW m, NEW n \in Nat, NEW z \in FirstFlows(m, n)
  PROVE  z.kind = "flow" /\ z.from = m /\ z.n \in 1 .. n /\ z = FlowItem(m, z.n)
BY DEF FirstFlows, FlowItem

LEMMA MoreFirsts ==
  ASSUME NEW m, NEW n \in Nat
  PROVE  /\ FirstFlows(m, n + 1) = FirstFlows(m, n) \union {FlowItem(m, n + 1)}
         /\ FlowItem(m, n + 1) \notin FirstFlows(m, n)
         /\ \A k \in Nat : n <= k => FirstFlows(m, n) \subseteq FirstFlows(m, k)
<1>1. 1 .. n + 1 = 1 .. n \union {n + 1}
  OBVIOUS
<1>2. FirstFlows(m, n + 1) = FirstFlows(m, n) \union {FlowItem(m, n + 1)}
  BY <1>1 DEF FirstFlows
<1>3. FlowItem(m, n + 1) \notin FirstFlows(m, n)
  <2>1. SUFFICES ASSUME FlowItem(m, n + 1) \in FirstFlows(m, n)
                 PROVE  FALSE
    OBVIOUS
  <2>2. n + 1 \in 1 .. n
    BY <2>1, Firsts, Kinds
  <2>3. QED  BY <2>2
<1>4. \A k \in Nat : n <= k => FirstFlows(m, n) \subseteq FirstFlows(m, k)
  <2>1. \A k \in Nat : n <= k => 1 .. n \subseteq 1 .. k
    OBVIOUS
  <2>2. QED  BY <2>1 DEF FirstFlows
<1>5. QED  BY <1>2, <1>3, <1>4

\* What is in front of an item is of the same meter, and no end marker.
LEMMA InFront ==
  ASSUME NEW x \in ItemType, NEW bad, NEW z \in Before(x, bad), Flows \in [Procs -> Nat]
  PROVE  z.from = x.from /\ z.kind # "none"
<1>1. x.from \in Procs /\ Flows[x.from] \in Nat
  BY DEF ItemType
<1>2. CASE z = ErrorItem(x.from)
  BY <1>2, Kinds
<1>3. CASE z \in FirstFlows(x.from, Flows[x.from])
  BY <1>1, <1>3, Firsts
<1>4. QED  BY <1>2, <1>3 DEF Before

LEMMA SameInFront ==
  ASSUME NEW x, NEW bad, NEW now,
         x.kind = "none" => (x.from \in bad <=> x.from \in now)
  PROVE  Before(x, now) = Before(x, bad)
<1>1. ASSUME NEW z
      PROVE  (x.kind = "none" /\ (z.kind = "error" <=> x.from \in bad))
                <=> (x.kind = "none" /\ (z.kind = "error" <=> x.from \in now))
  OBVIOUS
<1>2. QED  BY <1>1 DEF Before

LEMMA InFrontOfAFlow ==
  ASSUME NEW m \in Procs, NEW n \in Nat, Flows \in [Procs -> Nat], NEW bad
  PROVE  Before(FlowItem(m, n + 1), bad) \subseteq FirstFlows(m, n)
<1> DEFINE x == FlowItem(m, n + 1)
<1>1. x.kind = "flow" /\ x.from = m /\ x.n = n + 1 /\ Flows[m] \in Nat
  BY Kinds
<1> HIDE DEF x
<1>2. ASSUME NEW z \in Before(x, bad)
      PROVE  z \in FirstFlows(m, n)
  <2>1. /\ z \in FirstFlows(m, Flows[m]) \union {ErrorItem(m)}
        /\ z.kind = "flow" /\ z.n < n + 1
    BY <1>1 DEF Before
  <2>2. z # ErrorItem(m)
    BY <2>1, Kinds
  <2>3. z \in FirstFlows(m, Flows[m])
    BY <2>1, <2>2
  <2>4. z.n \in 1 .. Flows[m] /\ z = FlowItem(m, z.n)
    BY <1>1, <2>3, Firsts
  <2>5. z.n \in 1 .. n
    BY <1>1, <2>1, <2>4
  <2>6. QED  BY <2>4, <2>5 DEF FirstFlows
<1>3. QED  BY <1>2 DEF x

LEMMA InFrontOfAnError ==
  ASSUME NEW m, NEW bad
  PROVE  Before(ErrorItem(m), bad) = {}
BY Kinds DEF Before

LEMMA InFrontOfTheEnd ==
  ASSUME NEW m \in Procs, Flows \in [Procs -> Nat], NEW bad
  PROVE  /\ m \in bad => Before(NoneItem(m), bad) = {ErrorItem(m)}
         /\ m \notin bad => Before(NoneItem(m), bad) = FirstFlows(m, Flows[m])
<1> DEFINE x == NoneItem(m)
<1>1. x.kind = "none" /\ x.from = m /\ Flows[m] \in Nat /\ ErrorItem(m).kind = "error"
  BY Kinds
<1>2. \A z \in FirstFlows(m, Flows[m]) : z.kind = "flow"
  BY <1>1, Firsts
<1> HIDE DEF x
<1>3. Before(x, bad) = {z \in FirstFlows(m, Flows[m]) \union {ErrorItem(m)} :
                           z.kind = "error" <=> m \in bad}
  BY <1>1 DEF Before
<1>4. m \in bad => Before(x, bad) = {ErrorItem(m)}
  BY <1>1, <1>2, <1>3
<1>5. m \notin bad => Before(x, bad) = FirstFlows(m, Flows[m])
  BY <1>1, <1>2, <1>3
<1>6. QED  BY <1>4, <1>5 DEF x

-----------------------------------------------------------------------------
(* What a step of the streamer may do to the items.                        *)

Places == {"start", "barrier", "release", "run", "error", "none", "exit", "ended", "killed"}
Reported == {"none", "exit", "ended", "killed"}
Leaving == {"exit", "ended", "killed"}

\* A meter goes on.
Onward == /\ put' \in [Procs -> Nat] /\ failed \subseteq failed'
          /\ \A m \in Procs : /\ put[m] <= put'[m]
                              /\ pc[m] \in Reported => pc'[m] \in Reported
                              /\ pc[m] \in Leaving => pc'[m] \in Leaving

LEMMA WhatIsKnown ==
  ASSUME NEW x \in ItemType, Known(x), ItemsTypeOK
  PROVE  LET m == x.from
         IN  /\ m \in Procs
             /\ x.kind = "flow" => x \in FirstFlows(m, put[m])
             /\ x.kind = "error" => x = ErrorItem(m) /\ m \in failed /\ pc[m] \in Reported
             /\ x.kind = "none" => x = NoneItem(m) /\ pc[m] \in Leaving
<1>1. x.from \in Procs /\ put[x.from] \in Nat
  BY DEF ItemType, ItemsTypeOK
<1>2. CASE x \in FirstFlows(x.from, put[x.from])
  BY <1>1, <1>2, Firsts
<1>3. CASE x = ErrorItem(x.from) /\ x.from \in failed /\ pc[x.from] \in Reported
  BY <1>1, <1>3, Kinds
<1>4. CASE x = NoneItem(x.from) /\ pc[x.from] \in Leaving
  BY <1>1, <1>4, Kinds
<1>5. QED  BY <1>2, <1>3, <1>4 DEF Known, Reported, Leaving

LEMMA KnownStays ==
  ASSUME NEW x \in ItemType, Known(x), ItemsTypeOK, Onward
  PROVE  Known(x)'
<1> DEFINE m == x.from
<1>1. m \in Procs /\ put[m] \in Nat /\ put'[m] \in Nat /\ put[m] <= put'[m]
  BY DEF ItemType, ItemsTypeOK, Onward
<1>2. FirstFlows(m, put[m]) \subseteq FirstFlows(m, put'[m])
  BY <1>1, MoreFirsts
<1>3. CASE x \in FirstFlows(m, put[m])
  BY <1>2, <1>3 DEF Known
<1>4. CASE x = ErrorItem(m) /\ m \in failed /\ pc[m] \in Reported
  BY <1>1, <1>4 DEF Known, Onward, Reported
<1>5. CASE x = NoneItem(m) /\ pc[m] \in Leaving
  BY <1>1, <1>5 DEF Known, Onward, Leaving
<1>6. QED  BY <1>3, <1>4, <1>5 DEF Known, Reported, Leaving

\* Sequences have items.
LEMMA Items ==
  ASSUME ItemsTypeOK
  PROVE  /\ ToSet(pipe) \subseteq ItemType /\ ToSet(yielded) \subseteq ItemType
         /\ \A m \in Procs : buffer[m] \in Seq(ItemType) /\ ToSet(buffer[m]) \subseteq ItemType
<1>1. \A s \in Seq(ItemType) : ToSet(s) \subseteq ItemType
  BY ElementOfSeq, LenProperties DEF ToSet
<1>2. QED  BY <1>1 DEF ItemsTypeOK

\* The items that leave the streamer and the meters as far as they are.
Calm ==
  /\ pc' \in [Procs -> Places] /\ buffer' \in [Procs -> Seq(ItemType)]
  /\ UNCHANGED <<failed, put, pipe, yielded, ended, limit>>
  /\ \A m \in Procs :
        /\ pc[m] \in Reported => pc'[m] \in Reported
        /\ pc[m] \in Leaving => pc'[m] \in Leaving
        /\ m \in failed => pc'[m] \in Reported \union {"error"}
        /\ pc'[m] = "error" => pc[m] = "error"
        /\ pc'[m] = "none" => pc[m] = "none" \/ (m \notin failed /\ put[m] = Flows[m])
        /\ m \in Dead => m \in Dead'
        /\ buffer'[m] = buffer[m] \/ (buffer'[m] = <<>> /\ m \in Dead')
  /\ main' \in {"receive", "check", "join", "ended"} /\ (Receiving' => Receiving)
  /\ WriterHasAnItem' /\ OutcomeIsKept'

LEMMA CalmStep ==
  ASSUME SInv, Calm
  PROVE  SInv'
<1> USE DEF SInv
<1>1. ItemsTypeOK'
  BY DEF Calm, ItemsTypeOK, Places
<1>2. Onward
  BY DEF Calm, Onward, ItemsTypeOK
<1>3. \A x \in ItemType : Known(x) => Known(x)'
  BY <1>2, KnownStays
<1>4. \A m \in Procs : ToSet(buffer'[m]) \subseteq ToSet(buffer[m])
  BY NothingInOrder DEF Calm
<1>5. ItemsAreKnown'
  <2>1. \A item \in ToSet(yielded) : item.kind = "flow" /\ Known(item)'
    BY <1>3, Items DEF ItemsAreKnown
  <2>2. \A item \in ToSet(pipe) : Known(item)'
    BY <1>3, Items DEF ItemsAreKnown
  <2>3. \A m \in Procs : \A item \in ToSet(buffer'[m]) : item.from = m /\ Known(item)'
    BY <1>3, <1>4, Items DEF ItemsAreKnown
  <2>4. QED  BY <2>1, <2>2, <2>3 DEF ItemsAreKnown, Calm
<1>6. LineInOrder'
  <2>1. SUFFICES ASSUME Receiving'
                 PROVE  /\ InOrder(pipe, ToSet(yielded), failed)
                        /\ \A m \in Procs :
                              InOrder(buffer'[m], ToSet(yielded) \union ToSet(pipe), failed)
    BY DEF LineInOrder, Calm
  <2>2. /\ InOrder(pipe, ToSet(yielded), failed)
        /\ \A m \in Procs : InOrder(buffer[m], ToSet(yielded) \union ToSet(pipe), failed)
    BY <2>1 DEF LineInOrder, Calm
  <2>3. QED  BY <2>2, NothingInOrder DEF Calm
<1>7. YieldedInOrder'
  BY DEF YieldedInOrder, Calm
<1>8. NothingIsLost'
  <2>1. \A m \in failed : pc'[m] \in {"error", "none", "exit", "ended", "killed"}
    BY DEF Calm, ItemsTypeOK, Reported
  <2>2. \A m \in Procs : pc'[m] = "error" => m \in failed
    BY DEF Calm, NothingIsLost
  <2>3. \A m \in Procs : pc'[m] = "none" /\ m \notin failed => put[m] = Flows[m]
    BY DEF Calm, NothingIsLost
  <2>4. ASSUME Receiving', NEW m \in Procs \ Dead'
        PROVE  LET line == ToSet(pipe) \union ToSet(buffer'[m])
               IN  /\ FirstFlows(m, put[m]) \subseteq ToSet(yielded) \union line
                   /\ pc'[m] = "none" /\ m \in failed => ErrorItem(m) \in line
    <3>1. m \in Procs \ Dead /\ buffer'[m] = buffer[m] /\ Receiving
      BY <2>4 DEF Calm
    <3>2. pc'[m] = "none" /\ m \in failed => pc[m] = "none"
      BY DEF Calm
    <3>3. QED  BY <3>1, <3>2 DEF NothingIsLost
  <2>5. QED  BY <2>1, <2>2, <2>3, <2>4 DEF NothingIsLost, Calm
<1>9. EndedAreOver'
  <2>1. PICK over \in SUBSET Procs :
          /\ Cardinality(over) = ended
          /\ \A m \in over : /\ m \notin failed /\ pc[m] \in {"exit", "ended", "killed"}
                             /\ FirstFlows(m, Flows[m]) \subseteq ToSet(yielded)
                             /\ NoneItem(m) \notin ToSet(pipe) \union ToSet(buffer[m])
    BY DEF EndedAreOver
  <2>2. \A m \in over : /\ m \notin failed /\ pc'[m] \in {"exit", "ended", "killed"}
                        /\ FirstFlows(m, Flows[m]) \subseteq ToSet(yielded)
                        /\ NoneItem(m) \notin ToSet(pipe) \union ToSet(buffer'[m])
    BY <1>4, <2>1 DEF Calm, Leaving
  <2>3. QED  BY <2>1, <2>2 DEF EndedAreOver, Calm
<1>10. QED  BY <1>1, <1>5, <1>6, <1>7, <1>8, <1>9 DEF Calm

-----------------------------------------------------------------------------
(* The steps that are calm.                                                *)

LEMMA ReadyIsCalm ==
  ASSUME SInv, NEW m \in Procs, Ready(m) \/ Acquire(m) \/ Release(m) \/ AllPut(m) \/ Exit(m)
  PROVE  Calm
<1> USE DEF SInv
<1> DEFINE Steps(from, to) == Goes(m, from, to)
<1>1. /\ \/ Steps("start", "run") \/ Steps("start", "barrier") \/ Steps("barrier", "release")
         \/ Steps("release", "run") \/ Steps("exit", "ended")
         \/ Steps("run", "none") /\ put[m] = Flows[m]
      /\ UNCHANGED <<failed, put, queueVars, mainVars, kills>>
  BY DEF Ready, Acquire, Release, AllPut, Exit
<1>2. pc' \in [Procs -> Places]
  BY <1>1 DEF Goes, ItemsTypeOK, Places
<1>3. ASSUME NEW k \in Procs
      PROVE  /\ pc[k] \in Reported => pc'[k] \in Reported
             /\ pc[k] \in Leaving => pc'[k] \in Leaving
             /\ k \in failed => pc'[k] \in Reported \union {"error"}
             /\ pc'[k] = "error" => pc[k] = "error"
             /\ pc'[k] = "none" => pc[k] = "none" \/ (k \notin failed /\ put[k] = Flows[k])
             /\ k \in Dead => k \in Dead'
  <2>1. k \in failed => pc[k] \in {"error", "none", "exit", "ended", "killed"}
    BY DEF NothingIsLost
  <2>2. CASE k # m
    <3>1. pc'[k] = pc[k]
      BY <1>1, <2>2 DEF Goes, ItemsTypeOK
    <3>2. QED  BY <2>1, <3>1 DEF Reported, Dead
  <2>3. CASE k = m
    BY <1>1, <2>1, <2>3 DEF Goes, ItemsTypeOK, Reported, Leaving, Dead
  <2>4. QED  BY <2>2, <2>3
<1>4. WriterHasAnItem'
  BY <1>1, <1>3 DEF WriterHasAnItem, queueVars
<1>5. OutcomeIsKept' /\ (Receiving' <=> Receiving)
  BY <1>1 DEF OutcomeIsKept, Receiving, mainVars
<1>6. QED  BY <1>1, <1>2, <1>3, <1>4, <1>5 DEF Calm, queueVars, mainVars, ItemsTypeOK

\* Processes die, or none does.
MayDie ==
  /\ pc' \in [Procs -> Places] /\ buffer' \in [Procs -> Seq(ItemType)]
  /\ \A k \in Procs : /\ pc'[k] = pc[k] \/ pc'[k] = "killed"
                      /\ pc[k] \in Reported => pc'[k] \in Reported
                      /\ pc[k] \in Leaving => pc'[k] \in Leaving
                      /\ k \in failed => pc'[k] \in Reported \union {"error"}
                      /\ k \in Dead => k \in Dead'
                      /\ buffer'[k] = buffer[k] \/ (buffer'[k] = <<>> /\ k \in Dead')
  /\ writer' = writer => WriterHasAnItem'

LEMMA Kills ==
  ASSUME ItemsTypeOK, WriterHasAnItem, NothingIsLost, NEW victims \in SUBSET Procs, KillAll(victims)
  PROVE  MayDie
<1>1. /\ pc' = [k \in Procs |-> IF k \in victims \ Dead THEN "killed" ELSE pc[k]]
      /\ buffer' = [k \in Procs |-> IF k \in victims THEN <<>> ELSE buffer[k]]
  BY DEF KillAll
<1>2. pc' \in [Procs -> Places] /\ buffer' \in [Procs -> Seq(ItemType)]
  BY <1>1, EmptySeq DEF ItemsTypeOK, Places
<1>3. ASSUME NEW k \in Procs
      PROVE  /\ pc'[k] = pc[k] \/ pc'[k] = "killed"
             /\ pc[k] \in Reported => pc'[k] \in Reported
             /\ pc[k] \in Leaving => pc'[k] \in Leaving
             /\ k \in failed => pc'[k] \in Reported \union {"error"}
             /\ k \in Dead => k \in Dead'
             /\ buffer'[k] = buffer[k] \/ (buffer'[k] = <<>> /\ k \in Dead')
  <2>1. k \in failed => pc[k] \in {"error", "none", "exit", "ended", "killed"}
    BY DEF NothingIsLost
  <2>2. k \in Dead' <=> pc'[k] \in {"ended", "killed"}
    BY DEF Dead
  <2>3. k \in Dead <=> pc[k] \in {"ended", "killed"}
    BY DEF Dead
  <2>4. pc'[k] = IF k \in victims \ Dead THEN "killed" ELSE pc[k]
    BY <1>1
  <2>5. buffer'[k] = IF k \in victims THEN <<>> ELSE buffer[k]
    BY <1>1
  <2>6. QED  BY <2>1, <2>2, <2>3, <2>4, <2>5 DEF Reported, Leaving
<1>4. writer' = writer => WriterHasAnItem'
  BY <1>3 DEF WriterHasAnItem
<1>5. QED  BY <1>2, <1>3, <1>4 DEF MayDie

LEMMA NobodyDies ==
  ASSUME ItemsTypeOK, WriterHasAnItem, NothingIsLost, UNCHANGED <<pc, buffer>>
  PROVE  MayDie
<1>1. Dead' = Dead
  BY DEF Dead
<1>2. \A k \in failed : pc[k] \in {"error", "none", "exit", "ended", "killed"}
  BY DEF NothingIsLost
<1>3. writer' = writer => WriterHasAnItem'
  BY <1>1 DEF WriterHasAnItem
<1>4. QED  BY <1>1, <1>2, <1>3 DEF MayDie, ItemsTypeOK, Places, Reported

LEMMA DeathIsCalm ==
  ASSUME SInv, \/ \E m \in Procs : Killed(m)
               \/ Check \/ Interrupt
  PROVE  Calm
<1> USE DEF SInv
<1>1. /\ UNCHANGED <<failed, put, pipe, writer, yielded, ended, limit>>
      /\ \/ (\E victims \in SUBSET Procs : KillAll(victims)) \/ UNCHANGED <<pc, buffer>>
      /\ \/ UNCHANGED <<main, outcome>>
         \/ main' = "join" /\ outcome' \in {"error", "interrupted"} /\ Receiving
         \/ main' = "receive" /\ outcome' = outcome /\ Receiving
  <2>1. CASE \E m \in Procs : Killed(m)
    BY <2>1 DEF Killed, mainVars
  <2>2. CASE Check
    BY <2>2 DEF Check, Leave, Receiving
  <2>3. CASE Interrupt
    BY <2>3 DEF Interrupt, Leave, Receiving
  <2>4. QED  BY <2>1, <2>2, <2>3
<1>2. MayDie
  BY <1>1, Kills, NobodyDies
<1>3. main' \in {"receive", "check", "join", "ended"} /\ (Receiving' => Receiving)
  BY <1>1 DEF Receiving, ItemsTypeOK
<1>4. OutcomeIsKept'
  BY <1>1 DEF OutcomeIsKept, Receiving
<1>5. \A k \in Procs : (pc'[k] = "error" => pc[k] = "error") /\ (pc'[k] = "none" => pc[k] = "none")
  BY <1>2 DEF MayDie
<1>6. QED  BY <1>1, <1>2, <1>3, <1>4, <1>5 DEF Calm, MayDie

LEMMA WaitingIsCalm ==
  ASSUME SInv, \/ \E m \in Procs : BeginWrite(m)
               \/ Empty \/ Join \/ UNCHANGED vars
  PROVE  Calm
<1> USE DEF SInv
<1>1. /\ UNCHANGED <<pc, buffer, failed, put, pipe, yielded, ended, limit, outcome>>
      /\ writer' = writer \/ \E m \in Procs : writer' = m /\ buffer[m] # <<>>
      /\ \/ main' = main
         \/ main' = "check" /\ main = "receive"
         \/ main' = "ended" /\ main = "join"
  <2>1. CASE \E m \in Procs : BeginWrite(m)
    BY <2>1 DEF BeginWrite, meterVars, mainVars
  <2>2. CASE Empty
    BY <2>2 DEF Empty, meterVars, queueVars
  <2>3. CASE Join
    BY <2>3 DEF Join, meterVars, queueVars
  <2>4. CASE UNCHANGED vars
    BY <2>4 DEF vars, meterVars, queueVars, mainVars
  <2>5. QED  BY <2>1, <2>2, <2>3, <2>4
<1>2. Dead' = Dead
  BY <1>1 DEF Dead
<1>3. WriterHasAnItem'
  BY <1>1, <1>2 DEF WriterHasAnItem
<1>4. \A k \in failed : pc[k] \in Reported \union {"error"}
  BY DEF NothingIsLost, Reported
<1>5. OutcomeIsKept' /\ (Receiving' => Receiving)
  BY <1>1 DEF OutcomeIsKept, Receiving
<1>6. main' \in {"receive", "check", "join", "ended"}
  BY <1>1 DEF ItemsTypeOK
<1>7. QED  BY <1>1, <1>2, <1>3, <1>4, <1>5, <1>6 DEF Calm, ItemsTypeOK, Places

-----------------------------------------------------------------------------
(* The other steps of the meters.                                          *)

LEMMA FailsStep ==
  ASSUME SInv, NEW m \in Procs, Fails(m)
  PROVE  SInv'
<1> USE DEF SInv
<1>1. /\ pc[m] \in {"start", "run"} /\ pc' = [pc EXCEPT ![m] = "error"]
      /\ failed' = failed \union {m}
      /\ UNCHANGED <<put, buffer, writer, pipe, main, limit, ended, yielded, outcome>>
  BY DEF Fails, Goes, queueVars, mainVars
<1>2. /\ pc'[m] = "error" /\ \A k \in Procs \ {m} : pc'[k] = pc[k]
      /\ Dead' = Dead /\ m \notin Dead
  BY <1>1 DEF ItemsTypeOK, Dead
<1>3. ItemsTypeOK'
  BY <1>1 DEF ItemsTypeOK
<1>4. Onward
  <2>1. pc[m] \notin Reported /\ pc[m] \notin Leaving
    BY <1>1 DEF Reported, Leaving
  <2>2. \A k \in Procs : put'[k] = put[k] /\ put[k] \in Nat
    BY <1>1 DEF ItemsTypeOK
  <2>3. QED  BY <1>1, <1>2, <2>1, <2>2 DEF Onward, ItemsTypeOK
<1>5. \A x \in ItemType : Known(x) => Known(x)'
  BY <1>4, KnownStays
<1>6. ItemsAreKnown'
  <2>1. \A item \in ToSet(yielded) : item.kind = "flow" /\ Known(item)'
    BY <1>5, Items DEF ItemsAreKnown
  <2>2. \A item \in ToSet(pipe) : Known(item)'
    BY <1>5, Items DEF ItemsAreKnown
  <2>3. \A k \in Procs : \A item \in ToSet(buffer[k]) : item.from = k /\ Known(item)'
    BY <1>5, Items DEF ItemsAreKnown
  <2>4. QED  BY <1>1, <2>1, <2>2, <2>3 DEF ItemsAreKnown
<1>7. WriterHasAnItem'
  BY <1>1, <1>2 DEF WriterHasAnItem
<1>8. ASSUME NEW s \in Seq(ItemType), NEW got, InOrder(s, got, failed),
             \A x \in ToSet(s) : x \in ItemType /\ Known(x)
      PROVE  InOrder(s, got, failed')
  <2>1. ASSUME NEW x \in ToSet(s)
        PROVE  Before(x, failed') = Before(x, failed)
    <3>1. x.kind = "none" => x.from # m
      BY <1>1, <1>8, WhatIsKnown DEF Leaving
    <3>2. QED  BY <1>1, <3>1, SameInFront
  <2>2. QED  BY <1>8, <2>1, OtherItems
<1>9. LineInOrder'
  <2>1. ASSUME Receiving
        PROVE  /\ InOrder(pipe, ToSet(yielded), failed')
               /\ \A k \in Procs : InOrder(buffer[k], ToSet(yielded) \union ToSet(pipe), failed')
    <3>1. InOrder(pipe, ToSet(yielded), failed')
      BY <1>8, <2>1, Items DEF LineInOrder, ItemsAreKnown, ItemsTypeOK
    <3>2. ASSUME NEW k \in Procs
          PROVE  InOrder(buffer[k], ToSet(yielded) \union ToSet(pipe), failed')
      <4>1. \A x \in ToSet(buffer[k]) : x \in ItemType /\ Known(x)
        BY Items DEF ItemsAreKnown
      <4>2. QED  BY <1>8, <2>1, <4>1, Items DEF LineInOrder
    <3>3. QED  BY <3>1, <3>2
  <2>2. QED  BY <1>1, <2>1 DEF LineInOrder, Receiving
<1>10. YieldedInOrder'
  <2>1. InOrder(yielded, {}, failed')
    BY <1>8, Items DEF YieldedInOrder, ItemsAreKnown, ItemsTypeOK
  <2>2. QED  BY <1>1, <2>1 DEF YieldedInOrder
<1>11. NothingIsLost'
  BY <1>1, <1>2 DEF NothingIsLost, Receiving
<1>12. EndedAreOver'
  <2>1. PICK over \in SUBSET Procs :
          /\ Cardinality(over) = ended
          /\ \A k \in over : /\ k \notin failed /\ pc[k] \in {"exit", "ended", "killed"}
                             /\ FirstFlows(k, Flows[k]) \subseteq ToSet(yielded)
                             /\ NoneItem(k) \notin ToSet(pipe) \union ToSet(buffer[k])
    BY DEF EndedAreOver
  <2>2. m \notin over
    BY <1>1, <2>1
  <2>3. QED  BY <1>1, <1>2, <2>1, <2>2 DEF EndedAreOver
<1>13. OutcomeIsKept'
  BY <1>1 DEF OutcomeIsKept, Receiving
<1>14. QED
  BY <1>3, <1>6, <1>7, <1>9, <1>10, <1>11, <1>12, <1>13

\* A meter puts an item.
Puts(m, x) ==
  /\ buffer' = [buffer EXCEPT ![m] = Append(@, x)] /\ x.from = m
  /\ UNCHANGED <<failed, writer, pipe, main, limit, ended, yielded, outcome>>
  /\ pc' \in [Procs -> Places] /\ pc'[m] \in {"run"} \union Reported
  /\ \A k \in Procs \ {m} : pc'[k] = pc[k]
  /\ pc[m] \in Reported => pc'[m] \in Reported
  /\ put' \in [Procs -> Nat] /\ \A k \in Procs : put'[k] <= Flows[k]
  /\ \A k \in Procs \ {m} : put'[k] = put[k]
  /\ m \notin Dead /\ pc[m] \notin Leaving /\ pc'[m] \notin {"ended", "killed"}
  /\ put[m] <= put'[m]
  /\ ~Known(x) /\ Known(x)'
  /\ FirstFlows(m, put'[m]) \subseteq FirstFlows(m, put[m]) \union {x}
  /\ pc'[m] = "none" => m \in failed /\ x = ErrorItem(m)
  /\ Receiving => Before(x, failed) \subseteq
        ToSet(yielded) \union ToSet(pipe) \union ToSet(buffer[m])
  /\ m \in failed => pc'[m] \in Reported

LEMMA WhatIsPut ==
  ASSUME SInv, StreamerAssumption, NEW m \in Procs, PutFlow(m) \/ SendError(m) \/ PutNone(m)
  PROVE  \E x \in ItemType : Puts(m, x)
<1> USE DEF SInv
<1>1. /\ put[m] \in Nat /\ put[m] <= Flows[m] /\ Flows[m] \in Nat
      /\ Flows \in [Procs -> Nat] /\ \A k \in Procs : put[k] <= Flows[k]
  BY DEF ItemsTypeOK, StreamerAssumption
<1>2. ASSUME Receiving, m \notin Dead
      PROVE  FirstFlows(m, put[m]) \subseteq ToSet(yielded) \union ToSet(pipe) \union ToSet(buffer[m])
  BY <1>2 DEF NothingIsLost
<1>3. CASE PutFlow(m)
  <2> PICK x : x = FlowItem(m, put[m] + 1)
    OBVIOUS
  <2>1. /\ pc[m] = "run" /\ pc' = [pc EXCEPT ![m] = "run"] /\ put[m] < Flows[m]
        /\ buffer' = [buffer EXCEPT ![m] = Append(@, x)]
        /\ put' = [put EXCEPT ![m] = @ + 1]
        /\ UNCHANGED <<failed, writer, pipe, main, limit, ended, yielded, outcome>>
    BY <1>3 DEF PutFlow, Put, Goes, mainVars
  <2>2. x \in ItemType /\ x.from = m /\ x.kind = "flow" /\ x.n = put[m] + 1
    BY <1>1 DEF FlowItem, ItemType
  <2>3. /\ pc' \in [Procs -> Places] /\ pc'[m] = "run" /\ \A k \in Procs \ {m} : pc'[k] = pc[k]
        /\ put' \in [Procs -> Nat] /\ put'[m] = put[m] + 1
        /\ \A k \in Procs \ {m} : put'[k] = put[k]
    BY <1>1, <2>1 DEF ItemsTypeOK, Places
  <2>4. \A k \in Procs : put'[k] <= Flows[k]
    BY <1>1, <2>1, <2>3
  <2>5. m \notin Dead /\ m \notin failed /\ pc[m] \notin Leaving /\ pc[m] \notin Reported
    BY <2>1 DEF Dead, NothingIsLost, Leaving, Reported
  <2>6. /\ FirstFlows(m, put'[m]) = FirstFlows(m, put[m]) \union {x}
        /\ x \notin FirstFlows(m, put[m])
    BY <1>1, <2>3, MoreFirsts
  <2>7. Before(x, failed) \subseteq FirstFlows(m, put[m])
    BY <1>1, InFrontOfAFlow
  <2>8. ~Known(x)
    BY <2>2, <2>6, WhatIsKnown
  <2>9. Known(x)'
    BY <2>2, <2>6 DEF Known
  <2>10. put[m] <= put'[m]
    BY <1>1, <2>3
  <2>11. Puts(m, x)
    BY <1>2, <2>1, <2>2, <2>3, <2>4, <2>5, <2>6, <2>7, <2>8, <2>9, <2>10 DEF Puts
  <2>12. QED  BY <2>2, <2>11
<1>4. CASE SendError(m)
  <2> DEFINE x == ErrorItem(m)
  <2>1. /\ pc[m] = "error" /\ pc' = [pc EXCEPT ![m] = "none"]
        /\ buffer' = [buffer EXCEPT ![m] = Append(@, x)]
        /\ UNCHANGED <<failed, writer, pipe, main, limit, ended, yielded, outcome, put>>
    BY <1>4 DEF SendError, Put, Goes, mainVars
  <2>2. x \in ItemType /\ x.from = m /\ x.kind = "error"
    BY DEF ErrorItem, ItemType
  <2>3. pc' \in [Procs -> Places] /\ pc'[m] = "none" /\ \A k \in Procs \ {m} : pc'[k] = pc[k]
    BY <2>1 DEF ItemsTypeOK, Places
  <2>4. /\ m \notin Dead /\ m \in failed /\ pc[m] \notin Leaving /\ pc[m] \notin Reported
        /\ pc'[m] \in Reported
    BY <2>1, <2>3 DEF Dead, NothingIsLost, Leaving, Reported
  <2>5. Before(x, failed) = {}
    BY InFrontOfAnError
  <2>6. ~Known(x)
    BY <2>2, <2>4, WhatIsKnown
  <2>7. Known(x)'
    BY <2>1, <2>2, <2>3, <2>4 DEF Known
  <2>8. put' \in [Procs -> Nat] /\ x = ErrorItem(m)
    BY <2>1 DEF ItemsTypeOK
  <2> HIDE DEF x
  <2>9. Puts(m, x)
    BY <1>1, <2>1, <2>2, <2>3, <2>4, <2>5, <2>6, <2>7, <2>8 DEF Puts
  <2>10. QED  BY <2>2, <2>9
<1>5. CASE PutNone(m)
  <2> DEFINE x == NoneItem(m)
  <2>1. /\ pc[m] = "none" /\ pc' = [pc EXCEPT ![m] = "exit"]
        /\ buffer' = [buffer EXCEPT ![m] = Append(@, x)]
        /\ UNCHANGED <<failed, writer, pipe, main, limit, ended, yielded, outcome, put>>
    BY <1>5 DEF PutNone, Put, Goes, mainVars
  <2>2. x \in ItemType /\ x.from = m /\ x.kind = "none"
    BY DEF NoneItem, ItemType
  <2>3. pc' \in [Procs -> Places] /\ pc'[m] = "exit" /\ \A k \in Procs \ {m} : pc'[k] = pc[k]
    BY <2>1 DEF ItemsTypeOK, Places
  <2>4. m \notin Dead /\ pc[m] \notin Leaving /\ pc'[m] \in Reported
    BY <2>1, <2>3 DEF Dead, Leaving, Reported
  <2>5. ASSUME Receiving
        PROVE  Before(x, failed) \subseteq
                  ToSet(yielded) \union ToSet(pipe) \union ToSet(buffer[m])
    <3>1. CASE m \in failed
      <4>1. ErrorItem(m) \in ToSet(pipe) \union ToSet(buffer[m])
        BY <2>1, <2>4, <2>5, <3>1 DEF NothingIsLost
      <4>2. QED  BY <1>1, <3>1, <4>1, InFrontOfTheEnd
    <3>2. CASE m \notin failed
      <4>1. put[m] = Flows[m]
        BY <2>1, <3>2 DEF NothingIsLost
      <4>2. QED  BY <1>1, <1>2, <2>4, <2>5, <3>2, <4>1, InFrontOfTheEnd
    <3>3. QED  BY <3>1, <3>2
  <2>6. ~Known(x)
    BY <2>2, <2>4, WhatIsKnown
  <2>7. Known(x)'
    BY <2>1, <2>2, <2>3 DEF Known
  <2> HIDE DEF x
  <2>8. put' \in [Procs -> Nat]
    BY <2>1 DEF ItemsTypeOK
  <2>9. Puts(m, x)
    BY <1>1, <2>1, <2>2, <2>3, <2>4, <2>5, <2>6, <2>7, <2>8 DEF Puts
  <2>10. QED  BY <2>2, <2>9
<1>6. QED  BY <1>3, <1>4, <1>5

LEMMA PutStep ==
  ASSUME SInv, StreamerAssumption, NEW m \in Procs, PutFlow(m) \/ SendError(m) \/ PutNone(m)
  PROVE  SInv'
<1> USE DEF SInv
<1> PICK x \in ItemType : Puts(m, x)
  BY WhatIsPut
<1>unchanged. UNCHANGED <<failed, writer, pipe, main, limit, ended, yielded, outcome>>
  BY DEF Puts
<1>types. pc' \in [Procs -> Places] /\ put' \in [Procs -> Nat]
  BY DEF Puts
<1>others. \A k \in Procs \ {m} : pc'[k] = pc[k] /\ put'[k] = put[k]
  BY DEF Puts
<1>flows. \A k \in Procs : put'[k] <= Flows[k]
  BY DEF Puts
<1>item. /\ x.from = m /\ ~Known(x) /\ Known(x)'
         /\ FirstFlows(m, put'[m]) \subseteq FirstFlows(m, put[m]) \union {x}
  BY DEF Puts
<1>front. Receiving => Before(x, failed) \subseteq
              ToSet(yielded) \union ToSet(pipe) \union ToSet(buffer[m])
  BY DEF Puts
<1>meter. /\ pc'[m] \in {"run"} \union Reported /\ (pc[m] \in Reported => pc'[m] \in Reported)
          /\ m \notin Dead /\ pc[m] \notin Leaving /\ pc'[m] \notin {"ended", "killed"}
          /\ put[m] <= put'[m] /\ (m \in failed => pc'[m] \in Reported)
          /\ pc'[m] = "none" => m \in failed /\ x = ErrorItem(m)
  BY DEF Puts
<1> DEFINE line == Append(buffer[m], x)
<1>2. /\ buffer[m] \in Seq(ItemType) /\ line \in Seq(ItemType) /\ line # <<>>
      /\ ToSet(line) = ToSet(buffer[m]) \union {x}
  BY Items, AppendedItems
<1>3. /\ buffer' \in [Procs -> Seq(ItemType)] /\ buffer'[m] = line
      /\ \A k \in Procs \ {m} : buffer'[k] = buffer[k]
  <2>1. buffer' = [buffer EXCEPT ![m] = line]
    BY DEF Puts
  <2>2. QED  BY <1>2, <2>1 DEF ItemsTypeOK
<1> HIDE DEF line
<1>4. Dead' = Dead
  <2>1. ASSUME NEW k \in Procs
        PROVE  pc'[k] \in {"ended", "killed"} <=> pc[k] \in {"ended", "killed"}
    <3>1. CASE k = m
      BY <1>meter, <3>1 DEF Dead
    <3>2. CASE k # m
      BY <1>others, <3>2
    <3>3. QED  BY <3>1, <3>2
  <2>2. QED  BY <2>1 DEF Dead
<1>5. ItemsTypeOK'
  BY <1>unchanged, <1>types, <1>flows, <1>3 DEF ItemsTypeOK, Places
<1>6. Onward
  <2>1. ASSUME NEW k \in Procs
        PROVE  /\ put[k] <= put'[k]
               /\ pc[k] \in Reported => pc'[k] \in Reported
               /\ pc[k] \in Leaving => pc'[k] \in Leaving
    <3>1. CASE k = m
      BY <1>meter, <3>1 DEF Reported, Leaving
    <3>2. CASE k # m
      BY <1>others, <3>2 DEF ItemsTypeOK
    <3>3. QED  BY <3>1, <3>2
  <2>2. QED  BY <1>unchanged, <1>types, <2>1 DEF Onward
<1>7. \A y \in ItemType : Known(y) => Known(y)'
  BY <1>6, KnownStays
<1>8. ItemsAreKnown'
  <2>1. \A item \in ToSet(yielded) : item.kind = "flow" /\ Known(item)'
    BY <1>7, Items DEF ItemsAreKnown
  <2>2. \A item \in ToSet(pipe) : Known(item)'
    BY <1>7, Items DEF ItemsAreKnown
  <2>3. \A k \in Procs : \A item \in ToSet(buffer[k]) : item.from = k /\ Known(item)'
    BY <1>7, Items DEF ItemsAreKnown
  <2>4. \A k \in Procs : \A item \in ToSet(buffer'[k]) : item.from = k /\ Known(item)'
    <3>1. \A item \in ToSet(buffer'[m]) : item.from = m /\ Known(item)'
      BY <1>item, <1>2, <1>3, <2>3
    <3>2. \A k \in Procs \ {m} : \A item \in ToSet(buffer'[k]) : item.from = k /\ Known(item)'
      BY <1>3, <2>3
    <3>3. QED  BY <3>1, <3>2
  <2>5. QED  BY <1>unchanged, <2>1, <2>2, <2>4 DEF ItemsAreKnown
<1>9. WriterHasAnItem'
  BY <1>unchanged, <1>2, <1>3, <1>4 DEF WriterHasAnItem
<1>10. LineInOrder'
  <2>1. ASSUME Receiving
        PROVE  /\ InOrder(pipe, ToSet(yielded), failed)
               /\ \A k \in Procs :
                     InOrder(buffer'[k], ToSet(yielded) \union ToSet(pipe), failed)
    <3>1. /\ InOrder(pipe, ToSet(yielded), failed)
          /\ \A k \in Procs : InOrder(buffer[k], ToSet(yielded) \union ToSet(pipe), failed)
      BY <2>1 DEF LineInOrder
    <3>2. x \notin ToSet(yielded) \union ToSet(pipe) \union ToSet(buffer[m])
      BY <1>item DEF ItemsAreKnown
    <3>3. InOrder(line, ToSet(yielded) \union ToSet(pipe), failed)
      BY <1>front, <1>2, <2>1, <3>1, <3>2, OneMore DEF line
    <3>4. QED  BY <1>3, <3>1, <3>3
  <2>2. QED  BY <1>unchanged, <2>1 DEF LineInOrder, Receiving
<1>11. YieldedInOrder'
  BY <1>unchanged DEF YieldedInOrder
<1>12. NothingIsLost'
  <2>1. ASSUME NEW k \in Procs
        PROVE  /\ k \in failed => pc'[k] \in {"error", "none", "exit", "ended", "killed"}
               /\ pc'[k] = "error" => k \in failed
               /\ pc'[k] = "none" /\ k \notin failed => put'[k] = Flows[k]
    <3>1. CASE k = m
      BY <1>meter, <3>1 DEF Reported
    <3>2. CASE k # m
      BY <1>others, <3>2 DEF NothingIsLost
    <3>3. QED  BY <3>1, <3>2
  <2>2. ASSUME Receiving, NEW k \in Procs \ Dead
        PROVE  LET now == ToSet(pipe) \union ToSet(buffer'[k])
               IN  /\ FirstFlows(k, put'[k]) \subseteq ToSet(yielded) \union now
                   /\ pc'[k] = "none" /\ k \in failed => ErrorItem(k) \in now
    <3>1. CASE k = m
      <4>1. FirstFlows(m, put[m]) \subseteq ToSet(yielded) \union ToSet(pipe) \union ToSet(buffer[m])
        BY <2>2, <3>1 DEF NothingIsLost
      <4>2. ToSet(buffer'[m]) = ToSet(buffer[m]) \union {x}
        BY <1>2, <1>3
      <4>3. QED  BY <1>item, <1>meter, <3>1, <4>1, <4>2
    <3>2. CASE k # m
      <4>1. pc'[k] = pc[k] /\ put'[k] = put[k] /\ buffer'[k] = buffer[k]
        BY <1>others, <1>3, <3>2
      <4>2. QED  BY <2>2, <4>1 DEF NothingIsLost
    <3>3. QED  BY <3>1, <3>2
  <2>3. failed' = failed /\ pipe' = pipe /\ yielded' = yielded /\ (Receiving' <=> Receiving)
    BY <1>unchanged DEF Receiving
  <2>4. failed \subseteq Procs
    BY DEF ItemsTypeOK
  <2>5. QED  BY <1>4, <2>1, <2>2, <2>3, <2>4 DEF NothingIsLost
<1>13. EndedAreOver'
  <2>1. PICK over \in SUBSET Procs :
          /\ Cardinality(over) = ended
          /\ \A k \in over : /\ k \notin failed /\ pc[k] \in {"exit", "ended", "killed"}
                             /\ FirstFlows(k, Flows[k]) \subseteq ToSet(yielded)
                             /\ NoneItem(k) \notin ToSet(pipe) \union ToSet(buffer[k])
    BY DEF EndedAreOver
  <2>2. m \notin over
    BY <1>meter, <2>1 DEF Leaving
  <2>3. \A k \in over : /\ k \notin failed /\ pc'[k] \in {"exit", "ended", "killed"}
                        /\ FirstFlows(k, Flows[k]) \subseteq ToSet(yielded)
                        /\ NoneItem(k) \notin ToSet(pipe) \union ToSet(buffer'[k])
    BY <1>others, <1>3, <2>1, <2>2
  <2>4. UNCHANGED <<failed, pipe, ended, yielded>>
    BY <1>unchanged
  <2>5. QED  BY <2>1, <2>3, <2>4 DEF EndedAreOver
<1>14. OutcomeIsKept'
  BY <1>unchanged DEF OutcomeIsKept, Receiving
<1>15. QED
  BY <1>5, <1>8, <1>9, <1>10, <1>11, <1>12, <1>13, <1>14

LEMMA EndWriteStep ==
  ASSUME SInv, NEW m \in Procs, EndWrite(m)
  PROVE  SInv'
<1> USE DEF SInv
<1> DEFINE x == Head(buffer[m])
           rest == Tail(buffer[m])
<1>1. /\ m \notin Dead /\ buffer[m] # <<>>
      /\ pipe' = Append(pipe, x) /\ buffer' = [buffer EXCEPT ![m] = rest]
      /\ writer' = Nobody
      /\ UNCHANGED <<pc, failed, put, main, limit, ended, yielded, outcome>>
  BY DEF EndWrite, WriterHasAnItem, meterVars, mainVars
<1>2. /\ buffer[m] \in Seq(ItemType) /\ rest \in Seq(ItemType) /\ x \in ItemType
      /\ ToSet(buffer[m]) = {x} \union ToSet(rest)
  BY <1>1, Items, HeadItems
<1> HIDE DEF x, rest
<1>3. /\ buffer' \in [Procs -> Seq(ItemType)] /\ buffer'[m] = rest
      /\ \A k \in Procs \ {m} : buffer'[k] = buffer[k]
  BY <1>1, <1>2 DEF ItemsTypeOK
<1>4. pipe' \in Seq(ItemType) /\ ToSet(pipe') = ToSet(pipe) \union {x}
  BY <1>1, <1>2, AppendedItems DEF ItemsTypeOK
<1>5. ItemsTypeOK'
  BY <1>1, <1>3, <1>4 DEF ItemsTypeOK
<1>6. \A y \in ItemType : Known(y) => Known(y)'
  BY <1>1 DEF Known
<1>7. x.from = m /\ Known(x)
  BY <1>2 DEF ItemsAreKnown
<1>8. ItemsAreKnown'
  <2>1. \A item \in ToSet(yielded) : item.kind = "flow" /\ Known(item)'
    BY <1>6, Items DEF ItemsAreKnown
  <2>2. \A item \in ToSet(pipe) \union {x} : Known(item)'
    BY <1>2, <1>6, <1>7, Items DEF ItemsAreKnown
  <2>3. \A k \in Procs : \A item \in ToSet(buffer[k]) : item.from = k /\ Known(item)'
    BY <1>6, Items DEF ItemsAreKnown
  <2>4. \A k \in Procs : ToSet(buffer'[k]) \subseteq ToSet(buffer[k])
    BY <1>2, <1>3
  <2>5. QED  BY <1>1, <1>4, <2>1, <2>2, <2>3, <2>4 DEF ItemsAreKnown
<1>9. WriterHasAnItem'
  BY <1>1 DEF WriterHasAnItem, Nobody, Procs
<1>10. LineInOrder'
  <2>1. ASSUME Receiving
        PROVE  /\ InOrder(pipe', ToSet(yielded), failed)
               /\ \A k \in Procs :
                     InOrder(buffer'[k], ToSet(yielded) \union ToSet(pipe'), failed)
    <3>1. /\ InOrder(pipe, ToSet(yielded), failed)
          /\ \A k \in Procs : InOrder(buffer[k], ToSet(yielded) \union ToSet(pipe), failed)
      BY <2>1 DEF LineInOrder
    <3>2. /\ Before(x, failed) \subseteq ToSet(yielded) \union ToSet(pipe)
          /\ x \notin ToSet(yielded) \union ToSet(pipe)
          /\ InOrder(rest, ToSet(yielded) \union ToSet(pipe) \union {x}, failed)
      BY <1>1, <1>2, <3>1, OneLess DEF x, rest
    <3>3. InOrder(pipe', ToSet(yielded), failed)
      BY <1>1, <1>2, <3>1, <3>2, OneMore DEF ItemsTypeOK
    <3>4. ASSUME NEW k \in Procs
          PROVE  InOrder(buffer'[k], ToSet(yielded) \union ToSet(pipe'), failed)
      <4> DEFINE got == ToSet(yielded) \union ToSet(pipe)
      <4>1. CASE k = m
        BY <1>3, <1>4, <3>2, <4>1
      <4>2. CASE k # m
        <5>1. \A y \in ToSet(buffer[k]) : y # x
          BY <1>7, <4>2 DEF ItemsAreKnown
        <5>2. InOrder(buffer[k], got, failed) /\ buffer[k] \in Seq(ItemType)
          BY <3>1, Items
        <5> HIDE DEF got
        <5>3. InOrder(buffer[k], got \union {x}, failed)
          BY <5>1, <5>2, OtherItems
        <5>4. QED  BY <1>3, <1>4, <4>2, <5>3 DEF got
      <4>3. QED  BY <4>1, <4>2
    <3>5. QED  BY <3>3, <3>4
  <2>2. QED  BY <1>1, <2>1 DEF LineInOrder, Receiving
<1>11. YieldedInOrder'
  BY <1>1 DEF YieldedInOrder
<1>12. NothingIsLost'
  <2>1. \A k \in Procs : ToSet(pipe') \union ToSet(buffer'[k]) =
            ToSet(pipe) \union {x} \union ToSet(buffer[k])
    BY <1>2, <1>3, <1>4
  <2>2. Dead' = Dead /\ (Receiving' <=> Receiving)
    BY <1>1 DEF Dead, Receiving
  <2>3. ASSUME Receiving, NEW k \in Procs \ Dead
        PROVE  LET now == ToSet(pipe') \union ToSet(buffer'[k])
               IN  /\ FirstFlows(k, put[k]) \subseteq ToSet(yielded) \union now
                   /\ pc[k] = "none" /\ k \in failed => ErrorItem(k) \in now
    BY <2>1, <2>3 DEF NothingIsLost
  <2>4. QED  BY <1>1, <2>2, <2>3 DEF NothingIsLost
<1>13. EndedAreOver'
  <2>1. PICK over \in SUBSET Procs :
          /\ Cardinality(over) = ended
          /\ \A k \in over : /\ k \notin failed /\ pc[k] \in {"exit", "ended", "killed"}
                             /\ FirstFlows(k, Flows[k]) \subseteq ToSet(yielded)
                             /\ NoneItem(k) \notin ToSet(pipe) \union ToSet(buffer[k])
    BY DEF EndedAreOver
  <2>2. ASSUME NEW k \in over
        PROVE  NoneItem(k) \notin ToSet(pipe') \union ToSet(buffer'[k])
    <3>1. CASE k = m
      BY <1>2, <1>3, <1>4, <2>1, <3>1
    <3>2. CASE k # m
      <4>1. NoneItem(k) # x
        BY <1>7, <3>2, Kinds
      <4>2. QED  BY <1>3, <1>4, <2>1, <3>2, <4>1
    <3>3. QED  BY <3>1, <3>2
  <2>3. QED  BY <1>1, <2>1, <2>2 DEF EndedAreOver
<1>14. OutcomeIsKept'
  BY <1>1 DEF OutcomeIsKept, Receiving
<1>15. QED
  BY <1>5, <1>8, <1>9, <1>10, <1>11, <1>12, <1>13, <1>14

-----------------------------------------------------------------------------
(* The streamer takes an item.                                             *)

LEMMA WithoutAnEndMarker ==
  ASSUME NEW s \in Seq(ItemType), NEW got, NEW x \in ItemType, x.kind = "none", NEW bad,
         StreamerAssumption, InOrder(s, got \union {x}, bad)
  PROVE  InOrder(s, got, bad)
<1>1. Flows \in [Procs -> Nat]
  BY DEF StreamerAssumption
<1>2. \A y \in ToSet(s) : y \in ItemType
  BY ElementOfSeq, LenProperties DEF ToSet
<1>3. ASSUME NEW y \in ToSet(s)
      PROVE  Before(y, bad) \subseteq got \union (Before(y, bad) \ (got \union {x}))
  <2>1. x \notin Before(y, bad)
    BY <1>1, <1>2, InFront
  <2>2. QED  BY <2>1
<1>4. QED  BY <1>3, OtherItems

\* What Get tells about the item it takes.
Taken(x, kind) ==
  /\ x \in ItemType /\ x.kind = kind /\ Known(x) /\ x = Head(pipe)
  /\ pipe' \in Seq(ItemType) /\ ToSet(pipe) = {x} \union ToSet(pipe')
  /\ Before(x, failed) \subseteq ToSet(yielded) /\ x \notin ToSet(yielded)
  /\ InOrder(pipe', ToSet(yielded) \union {x}, failed)

LEMMA WhatIsTaken ==
  ASSUME SInv, NEW kind, Get(kind)
  PROVE  \E x : Taken(x, kind)
<1> USE DEF SInv
<1>1. PICK x : x = Head(pipe)
  OBVIOUS
<1>2. pipe # <<>> /\ x.kind = kind /\ pipe' = Tail(pipe) /\ Receiving
  BY <1>1 DEF Get, Receiving
<1>3. /\ pipe' \in Seq(ItemType) /\ x \in ItemType
      /\ ToSet(pipe) = {x} \union ToSet(pipe')
  BY <1>1, <1>2, HeadItems DEF ItemsTypeOK
<1>4. InOrder(pipe, ToSet(yielded), failed)
  BY <1>2 DEF LineInOrder
<1>5. /\ Before(x, failed) \subseteq ToSet(yielded) /\ x \notin ToSet(yielded)
      /\ InOrder(pipe', ToSet(yielded) \union {x}, failed)
  BY <1>1, <1>2, <1>4, OneLess DEF ItemsTypeOK
<1>6. Known(x)
  BY <1>3 DEF ItemsAreKnown
<1>7. QED  BY <1>1, <1>2, <1>3, <1>5, <1>6 DEF Taken

LEMMA TakenInOrder ==
  ASSUME SInv, StreamerAssumption, NEW kind, Get(kind), MayDie, NEW x, Taken(x, kind),
         \/ yielded' = yielded /\ kind # "flow"
         \/ yielded' = Append(yielded, x) /\ kind = "flow",
         Receiving' => kind # "error" /\ UNCHANGED <<pc, buffer>>,
         main' \in {"receive", "join"}
  PROVE  /\ ItemsTypeOK' /\ ItemsAreKnown' /\ WriterHasAnItem'
         /\ LineInOrder' /\ YieldedInOrder' /\ NothingIsLost'
<1> USE DEF SInv
<1>1. UNCHANGED <<failed, put, writer, limit>> /\ Receiving
  BY DEF Get, Receiving
<1>2. /\ x \in ItemType /\ x.kind = kind /\ Known(x)
      /\ pipe' \in Seq(ItemType) /\ ToSet(pipe) = {x} \union ToSet(pipe')
      /\ Before(x, failed) \subseteq ToSet(yielded) /\ x \notin ToSet(yielded)
      /\ InOrder(pipe', ToSet(yielded) \union {x}, failed)
  BY DEF Taken
<1>3. /\ yielded' \in Seq(ItemType)
      /\ ToSet(yielded') = IF kind = "flow" THEN ToSet(yielded) \union {x} ELSE ToSet(yielded)
  <2>1. yielded \in Seq(ItemType)
    BY DEF ItemsTypeOK
  <2>2. CASE yielded' = yielded /\ kind # "flow"
    BY <2>1, <2>2
  <2>3. CASE yielded' = Append(yielded, x) /\ kind = "flow"
    <3>1. Append(yielded, x) \in Seq(ItemType) /\ ToSet(Append(yielded, x)) = ToSet(yielded) \union {x}
      BY <1>2, <2>1, AppendedItems
    <3>2. QED  BY <2>3, <3>1
  <2>4. QED  BY <2>2, <2>3
<1>4. ItemsTypeOK'
  BY <1>1, <1>2, <1>3 DEF ItemsTypeOK, MayDie, Places
<1>5. Onward
  BY <1>1 DEF Onward, MayDie, ItemsTypeOK
<1>6. \A y \in ItemType : Known(y) => Known(y)'
  BY <1>5, KnownStays
<1>7. \A k \in Procs : ToSet(buffer'[k]) \subseteq ToSet(buffer[k])
  BY NothingInOrder DEF MayDie
<1>8. ItemsAreKnown'
  <2>1. \A item \in ToSet(yielded') : item.kind = "flow" /\ Known(item)'
    BY <1>2, <1>3, <1>6, Items DEF ItemsAreKnown
  <2>2. \A item \in ToSet(pipe') : Known(item)'
    BY <1>2, <1>6, Items DEF ItemsAreKnown
  <2>3. \A k \in Procs : \A item \in ToSet(buffer'[k]) : item.from = k /\ Known(item)'
    BY <1>6, <1>7, Items DEF ItemsAreKnown
  <2>4. QED  BY <2>1, <2>2, <2>3 DEF ItemsAreKnown
<1>9. WriterHasAnItem'
  BY <1>1 DEF MayDie
<1>10. LineInOrder'
  <2>1. ASSUME Receiving'
        PROVE  /\ InOrder(pipe', ToSet(yielded'), failed)
               /\ \A k \in Procs : InOrder(buffer[k], ToSet(yielded') \union ToSet(pipe'), failed)
    <3>1. \A k \in Procs : InOrder(buffer[k], ToSet(yielded) \union ToSet(pipe), failed)
      BY <1>1 DEF LineInOrder
    <3>2. CASE kind = "flow"
      <4>1. ToSet(yielded') \union ToSet(pipe') = ToSet(yielded) \union ToSet(pipe)
        BY <1>2, <1>3, <3>2
      <4>2. QED  BY <1>2, <1>3, <3>1, <3>2, <4>1
    <3>3. CASE kind = "none"
      <4>1. InOrder(pipe', ToSet(yielded), failed)
        BY <1>2, <3>3, WithoutAnEndMarker
      <4>2. ASSUME NEW k \in Procs
            PROVE  InOrder(buffer[k], ToSet(yielded) \union ToSet(pipe'), failed)
        <5>1. PICK got : got = ToSet(yielded) \union ToSet(pipe')
          OBVIOUS
        <5>2. ToSet(yielded) \union ToSet(pipe) = got \union {x}
          BY <1>2, <5>1
        <5>3. InOrder(buffer[k], got, failed)
          BY <1>2, <3>1, <3>3, <5>2, Items, WithoutAnEndMarker
        <5>4. QED  BY <5>1, <5>3
      <4>3. QED  BY <1>3, <3>3, <4>1, <4>2
    <3>4. kind \in {"flow", "none"}
      BY <1>2, <2>1 DEF ItemType
    <3>5. QED  BY <3>2, <3>3, <3>4
  <2>2. QED  BY <1>1, <2>1 DEF LineInOrder
<1>11. YieldedInOrder'
  <2>1. CASE kind # "flow"
    BY <1>1, <2>1 DEF YieldedInOrder
  <2>2. CASE kind = "flow"
    <3>1. InOrder(Append(yielded, x), {}, failed)
      BY <1>2, OneMore DEF YieldedInOrder, ItemsTypeOK
    <3>2. QED  BY <1>1, <2>2, <3>1 DEF YieldedInOrder
  <2>3. QED  BY <2>1, <2>2
<1>12. NothingIsLost'
  <2>1. \A k \in failed : pc'[k] \in {"error", "none", "exit", "ended", "killed"}
    BY DEF MayDie, ItemsTypeOK, Reported
  <2>2. \A k \in Procs : /\ pc'[k] = "error" => k \in failed
                         /\ pc'[k] = "none" /\ k \notin failed => put[k] = Flows[k]
    BY DEF MayDie, NothingIsLost
  <2>3. ASSUME Receiving', NEW k \in Procs \ Dead'
        PROVE  LET line == ToSet(pipe') \union ToSet(buffer'[k])
               IN  /\ FirstFlows(k, put[k]) \subseteq ToSet(yielded') \union line
                   /\ pc'[k] = "none" /\ k \in failed => ErrorItem(k) \in line
    <3>1. UNCHANGED <<pc, buffer>> /\ kind \in {"flow", "none"} /\ k \notin Dead /\ k \in Procs
      BY <1>2, <2>3 DEF ItemType, Dead
    <3>2. /\ FirstFlows(k, put[k]) \subseteq
               ToSet(yielded) \union {x} \union ToSet(pipe') \union ToSet(buffer[k])
          /\ pc[k] = "none" /\ k \in failed =>
               ErrorItem(k) \in {x} \union ToSet(pipe') \union ToSet(buffer[k])
      BY <1>1, <1>2, <3>1 DEF NothingIsLost
    <3>3. \A z \in FirstFlows(k, put[k]) : z = x => x \in ToSet(yielded')
      <4>1. put[k] \in Nat
        BY <3>1 DEF ItemsTypeOK
      <4>2. x \in FirstFlows(k, put[k]) => x.kind = "flow"
        BY <4>1, Firsts
      <4>3. QED  BY <1>2, <1>3, <4>2
    <3>4. ErrorItem(k) # x
      BY <1>2, <3>1, Kinds
    <3>5. ToSet(yielded) \subseteq ToSet(yielded')
      BY <1>3
    <3>6. QED  BY <3>1, <3>2, <3>3, <3>4, <3>5
  <2>4. QED  BY <1>1, <2>1, <2>2, <2>3 DEF NothingIsLost
<1>13. QED  BY <1>4, <1>8, <1>9, <1>10, <1>11, <1>12

LEMMA ShorterOver ==
  ASSUME SInv, NEW kind, Get(kind), MayDie, NEW x, Taken(x, kind), ended' = ended,
         yielded' = yielded \/ yielded' = Append(yielded, x)
  PROVE  EndedAreOver'
<1> USE DEF SInv
<1>1. failed' = failed
  BY DEF Get
<1>2. ToSet(pipe') \subseteq ToSet(pipe) /\ x \in ItemType
  BY DEF Taken
<1>3. ToSet(yielded) \subseteq ToSet(yielded')
  <2>1. ToSet(yielded) \subseteq ToSet(Append(yielded, x))
    BY <1>2, AppendedItems DEF ItemsTypeOK
  <2>2. QED  BY <2>1
<1>4. \A k \in Procs : ToSet(buffer'[k]) \subseteq ToSet(buffer[k])
  BY NothingInOrder DEF MayDie
<1>5. PICK over \in SUBSET Procs :
        /\ Cardinality(over) = ended
        /\ \A k \in over : /\ k \notin failed /\ pc[k] \in {"exit", "ended", "killed"}
                           /\ FirstFlows(k, Flows[k]) \subseteq ToSet(yielded)
                           /\ NoneItem(k) \notin ToSet(pipe) \union ToSet(buffer[k])
  BY DEF EndedAreOver
<1>6. \A k \in over : /\ k \notin failed /\ pc'[k] \in {"exit", "ended", "killed"}
                      /\ FirstFlows(k, Flows[k]) \subseteq ToSet(yielded')
                      /\ NoneItem(k) \notin ToSet(pipe') \union ToSet(buffer'[k])
  BY <1>2, <1>3, <1>4, <1>5 DEF MayDie, Leaving
<1>7. QED  BY <1>1, <1>5, <1>6 DEF EndedAreOver

LEMMA GetErrorStep ==
  ASSUME SInv, StreamerAssumption, GetError
  PROVE  SInv'
<1> USE DEF SInv
<1>1. /\ Get("error") /\ KillAll(Procs) /\ main' = "join" /\ outcome' = "error"
      /\ UNCHANGED <<ended, yielded>>
  BY DEF GetError, Leave
<1>2. MayDie
  BY <1>1, Kills
<1>3. PICK x : Taken(x, "error")
  BY <1>1, WhatIsTaken
<1>4. ~Receiving'
  BY <1>1 DEF Receiving
<1>5. /\ ItemsTypeOK' /\ ItemsAreKnown' /\ WriterHasAnItem'
      /\ LineInOrder' /\ YieldedInOrder' /\ NothingIsLost'
  BY <1>1, <1>2, <1>3, <1>4, TakenInOrder
<1>6. EndedAreOver'
  BY <1>1, <1>2, <1>3, ShorterOver
<1>7. OutcomeIsKept'
  BY <1>1, <1>4 DEF OutcomeIsKept, Get
<1>8. QED  BY <1>5, <1>6, <1>7

LEMMA GetFlowStep ==
  ASSUME SInv, StreamerAssumption, GetFlow
  PROVE  SInv'
<1> USE DEF SInv
<1>1. /\ Get("flow") /\ yielded' = Append(yielded, Head(pipe)) /\ ended' = ended
      /\ \/ KillAll(Procs) /\ main' = "join" /\ outcome' = "limit" /\ Len(yielded) = LastId
         \/ UNCHANGED <<pc, buffer, main, outcome>> /\ Len(yielded) # LastId
  BY DEF GetFlow, Leave
<1>2. MayDie
  BY <1>1, Kills, NobodyDies
<1>3. PICK x : Taken(x, "flow")
  BY <1>1, WhatIsTaken
<1>4. yielded' = Append(yielded, x) /\ main = "receive" /\ Receiving /\ limit' = limit
  BY <1>1, <1>3 DEF Taken, Get, Receiving
<1>5. main' \in {"receive", "join"} /\ (Receiving' => UNCHANGED <<pc, buffer, outcome>>)
  BY <1>1, <1>4 DEF Receiving
<1>6. /\ ItemsTypeOK' /\ ItemsAreKnown' /\ WriterHasAnItem'
      /\ LineInOrder' /\ YieldedInOrder' /\ NothingIsLost'
  BY <1>1, <1>2, <1>3, <1>4, <1>5, TakenInOrder
<1>7. EndedAreOver'
  BY <1>1, <1>2, <1>3, <1>4, ShorterOver
<1>8. OutcomeIsKept'
  <2>1. Len(yielded') = Len(yielded) + 1 /\ Len(yielded) \in Nat /\ limit \in Nat
    <3>1. x \in ItemType
      BY <1>3 DEF Taken
    <3>2. QED  BY <1>4, <3>1, AppendedItems DEF ItemsTypeOK, StreamerAssumption
  <2>2. outcome = "none" /\ (limit > 0 => Len(yielded) < limit)
    BY <1>4 DEF OutcomeIsKept
  <2>3. CASE main' = "join" /\ outcome' = "limit" /\ Len(yielded) = LastId
    <3>1. ~Receiving' /\ Len(yielded') = limit'
      BY <1>4, <2>1, <2>3 DEF Receiving, LastId
    <3>2. QED  BY <1>4, <2>1, <2>3, <3>1 DEF OutcomeIsKept
  <2>4. CASE UNCHANGED <<main, outcome>> /\ Len(yielded) # LastId
    <3>1. limit' > 0 => Len(yielded') < limit'
      BY <1>4, <2>1, <2>2, <2>4 DEF LastId
    <3>2. QED  BY <1>1, <1>4, <2>1, <2>2, <2>4, <3>1 DEF OutcomeIsKept
  <2>5. QED  BY <1>1, <2>3, <2>4
<1>9. QED  BY <1>6, <1>7, <1>8

\* The end marker is the last that comes from a meter, and stands for all its
\* flows.
LEMMA GetNoneStep ==
  ASSUME SInv, StreamerAssumption, GetNone
  PROVE  SInv'
<1> USE DEF SInv
<1>1. /\ Get("none") /\ ended' = ended + 1 /\ UNCHANGED <<pc, buffer, yielded>>
      /\ \/ ended' = Meters /\ main' = "join" /\ outcome' = "finished"
         \/ UNCHANGED <<main, outcome>>
  BY DEF GetNone, Leave
<1>2. MayDie
  BY <1>1, NobodyDies
<1>3. PICK x : Taken(x, "none")
  BY <1>1, WhatIsTaken
<1>4. main = "receive" /\ Receiving /\ limit' = limit /\ failed' = failed
  BY <1>1 DEF Get, Receiving
<1>5. main' \in {"receive", "join"}
  BY <1>1, <1>4
<1>6. /\ ItemsTypeOK' /\ ItemsAreKnown' /\ WriterHasAnItem'
      /\ LineInOrder' /\ YieldedInOrder' /\ NothingIsLost'
  BY <1>1, <1>2, <1>3, <1>5, TakenInOrder
<1>7. EndedAreOver'
  <2> DEFINE m == x.from
  <2>1. PICK over \in SUBSET Procs :
          /\ Cardinality(over) = ended
          /\ \A k \in over : /\ k \notin failed /\ pc[k] \in {"exit", "ended", "killed"}
                             /\ FirstFlows(k, Flows[k]) \subseteq ToSet(yielded)
                             /\ NoneItem(k) \notin ToSet(pipe) \union ToSet(buffer[k])
    BY DEF EndedAreOver
  <2>2. /\ m \in Procs /\ x = NoneItem(m) /\ pc[m] \in {"exit", "ended", "killed"}
    BY <1>3, WhatIsKnown DEF Taken, Leaving
  <2>3. /\ ToSet(pipe) = {x} \union ToSet(pipe')
        /\ Before(x, failed) \subseteq ToSet(yielded)
        /\ InOrder(pipe', ToSet(yielded) \union {x}, failed) /\ pipe' \in Seq(ItemType)
    BY <1>3 DEF Taken
  <2>4. m \notin over
    BY <2>1, <2>2, <2>3
  <2>5. m \notin failed /\ FirstFlows(m, Flows[m]) \subseteq ToSet(yielded)
    <3>1. Flows \in [Procs -> Nat]
      BY DEF StreamerAssumption
    <3>2. ErrorItem(m) \notin ToSet(yielded)
      BY Kinds DEF ItemsAreKnown
    <3>3. QED  BY <2>2, <2>3, <3>1, <3>2, InFrontOfTheEnd
  <2>6. x \notin ToSet(pipe')
    <3>1. \A i \in 1 .. Len(pipe') : pipe'[i] # x
      BY <2>3 DEF InOrder
    <3>2. DOMAIN pipe' = 1 .. Len(pipe')
      BY <2>3, LenProperties
    <3>3. QED  BY <3>1, <3>2 DEF ToSet
  <2>7. x \notin ToSet(buffer[m])
    <3>1. InOrder(buffer[m], ToSet(yielded) \union ToSet(pipe), failed) /\ buffer[m] \in Seq(ItemType)
      BY <1>4, <2>2, Items DEF LineInOrder
    <3>2. \A i \in 1 .. Len(buffer[m]) : buffer[m][i] # x
      BY <2>3, <3>1 DEF InOrder
    <3>3. DOMAIN buffer[m] = 1 .. Len(buffer[m])
      BY <3>1, LenProperties
    <3>4. QED  BY <3>2, <3>3 DEF ToSet
  <2>8. Cardinality(over \union {m}) = ended + 1
    <3>1. IsFiniteSet(Procs)
      BY FS_Interval DEF Procs, StreamerAssumption
    <3>2. IsFiniteSet(over)
      BY <3>1, FS_Subset
    <3>3. QED  BY <2>1, <2>4, <3>2, FS_AddElement
  <2>9. \A k \in over \union {m} :
           /\ k \notin failed /\ pc[k] \in {"exit", "ended", "killed"}
           /\ FirstFlows(k, Flows[k]) \subseteq ToSet(yielded)
           /\ NoneItem(k) \notin ToSet(pipe') \union ToSet(buffer[k])
    BY <2>1, <2>2, <2>3, <2>5, <2>6, <2>7
  <2>10. over \union {m} \in SUBSET Procs
    BY <2>2
  <2> HIDE DEF m
  <2>11. QED  BY <1>1, <1>4, <2>8, <2>9, <2>10 DEF EndedAreOver
<1>8. OutcomeIsKept'
  <2>1. outcome = "none" /\ (limit > 0 => Len(yielded) < limit)
    BY <1>4 DEF OutcomeIsKept
  <2>2. limit \in Nat /\ Len(yielded) \in Nat
    BY LenProperties DEF ItemsTypeOK, StreamerAssumption
  <2>3. limit > 0 => Len(yielded) <= limit
    BY <2>1, <2>2
  <2>4. CASE ended' = Meters /\ main' = "join" /\ outcome' = "finished"
    BY <1>1, <1>4, <2>3, <2>4 DEF OutcomeIsKept, Receiving
  <2>5. CASE UNCHANGED <<main, outcome>>
    BY <1>1, <1>4, <2>1, <2>3, <2>5 DEF OutcomeIsKept, Receiving
  <2>6. QED  BY <1>1, <2>4, <2>5
<1>9. QED  BY <1>6, <1>7, <1>8

-----------------------------------------------------------------------------
(* The theorems.                                                           *)

LEMMA InitStep ==
  ASSUME Init, StreamerAssumption
  PROVE  SInv
<1>1. ItemsTypeOK
  <2>1. \A m \in Procs : 0 <= Flows[m]
    BY DEF StreamerAssumption
  <2>2. <<>> \in Seq(ItemType)
    BY EmptySeq
  <2>3. QED  BY <2>1, <2>2 DEF Init, ItemsTypeOK
<1>2. ItemsAreKnown
  BY NothingInOrder DEF Init, ItemsAreKnown
<1>3. WriterHasAnItem
  BY DEF Init, WriterHasAnItem, Nobody, Procs
<1>4. LineInOrder /\ YieldedInOrder
  BY NothingInOrder DEF Init, LineInOrder, YieldedInOrder
<1>5. NothingIsLost
  <2>1. \A m \in Procs : FirstFlows(m, 0) = {}
    <3>1. 1 .. 0 = {}
      OBVIOUS
    <3>2. QED  BY <3>1 DEF FirstFlows
  <2>2. QED  BY <2>1 DEF Init, NothingIsLost
<1>6. EndedAreOver
  <2>1. Cardinality({}) = ended /\ {} \in SUBSET Procs
    BY FS_EmptySet DEF Init
  <2>2. QED  BY <2>1 DEF EndedAreOver
<1>7. OutcomeIsKept
  <2>1. Len(yielded) = 0
    BY EmptySeq DEF Init
  <2>2. limit \in Nat
    BY DEF Init, StreamerAssumption
  <2>3. QED  BY <2>1, <2>2 DEF Init, OutcomeIsKept, Receiving
<1>8. QED  BY <1>1, <1>2, <1>3, <1>4, <1>5, <1>6, <1>7 DEF SInv

LEMMA NextStep ==
  ASSUME SInv, StreamerAssumption, [Next]_vars
  PROVE  SInv'
<1>1. ASSUME NEW m \in Procs, MeterStep(m)
      PROVE  SInv'
  BY <1>1, ReadyIsCalm, CalmStep, PutStep DEF MeterStep
<1>2. ASSUME NEW m \in Procs, FeederStep(m)
      PROVE  SInv'
  BY <1>2, WaitingIsCalm, CalmStep, EndWriteStep DEF FeederStep
<1>3. ASSUME NEW m \in Procs, Fails(m)
      PROVE  SInv'
  BY <1>3, FailsStep
<1>4. ASSUME NEW m \in Procs, Killed(m)
      PROVE  SInv'
  BY <1>4, DeathIsCalm, CalmStep
<1>5. CASE MainStep
  BY <1>5, GetNoneStep, GetErrorStep, GetFlowStep, WaitingIsCalm, DeathIsCalm, CalmStep DEF MainStep
<1>6. CASE Interrupt
  BY <1>6, DeathIsCalm, CalmStep
<1>7. CASE UNCHANGED vars
  BY <1>7, WaitingIsCalm, CalmStep
<1>8. QED  BY <1>1, <1>2, <1>3, <1>4, <1>5, <1>6, <1>7 DEF Next

\* The inductive invariant: what the streamer yielded, what is in the pipe and
\* what a meter that is alive has in its buffer is everything the meter has
\* put, in its order; and behind each end marker lies a whole meter.
THEOREM Inductive == Spec => []SInv
<1>1. Init => SInv
  BY StreamerAssumption, InitStep
<1>2. SInv /\ [Next]_vars => SInv'
  BY StreamerAssumption, NextStep
<1>3. QED  BY <1>1, <1>2, PTL DEF Spec

\* A stream that says it has finished is complete and nothing went wrong in a
\* meter, and max_nflows is exact, for any number of meters, flows, deaths and
\* failures and any capacity of the queue.
THEOREM TruthfulOutcome == Spec => []OutcomeIsTrue
<1>1. ASSUME SInv
      PROVE  OutcomeIsTrue
  <2> USE <1>1 DEF SInv
  <2>1. ASSUME outcome = "finished"
        PROVE  /\ failed = {}
               /\ \A m \in Procs : FirstFlows(m, Flows[m]) \subseteq ToSet(yielded)
    <3>1. PICK over \in SUBSET Procs :
            /\ Cardinality(over) = ended
            /\ \A m \in over : /\ m \notin failed /\ pc[m] \in {"exit", "ended", "killed"}
                               /\ FirstFlows(m, Flows[m]) \subseteq ToSet(yielded)
                               /\ NoneItem(m) \notin ToSet(pipe) \union ToSet(buffer[m])
      BY DEF EndedAreOver
    <3>2. Cardinality(over) = Meters
      BY <2>1, <3>1 DEF OutcomeIsKept
    <3>3. IsFiniteSet(Procs) /\ Cardinality(Procs) = Meters
      <4>1. Meters \in Nat /\ Meters > 0
        BY StreamerAssumption DEF StreamerAssumption
      <4>2. QED  BY <4>1, FS_Interval DEF Procs
    <3>4. over = Procs
      BY <3>2, <3>3, FS_Subset
    <3>5. QED  BY <3>1, <3>4 DEF ItemsTypeOK
  <2>2. outcome = "finished" =>
          \A m \in Procs : \A n \in 1 .. Flows[m] : FlowItem(m, n) \in ToSet(yielded)
    BY <2>1 DEF FirstFlows
  <2>3. QED  BY <2>1, <2>2 DEF OutcomeIsTrue, OutcomeIsKept
<1>2. QED  BY <1>1, Inductive, PTL

\* Whatever the interleaving of the feeder threads and whoever dies, the flows
\* of each meter leave the streamer in its order, without gaps or repetition.
THEOREM InOrderStream == Spec => []YieldedInOrder
<1>1. SInv => YieldedInOrder
  BY DEF SInv
<1>2. QED  BY <1>1, Inductive, PTL
-----------------------------------------------------------------------------
(* The slots of the queue.                                                 *)

\* Items leave the line and no slot is touched.
LEMMA Shorter ==
  ASSUME SlotsAreCounted, Line' \subseteq Line, slots' = slots, Receiving' => Receiving,
         StreamerAssumption
  PROVE  SlotsAreCounted'
<1>1. IsFiniteSet(Line') /\ Cardinality(Line') <= Cardinality(Line)
  BY FS_Subset DEF SlotsAreCounted
<1>2. Cardinality(Line) \in Nat /\ Cardinality(Line') \in Nat
  BY <1>1, FS_CardinalityType DEF SlotsAreCounted
<1>3. slots \in 0 .. Capacity /\ (Receiving' => slots + Cardinality(Line) <= Capacity)
  BY DEF SlotsAreCounted
<1>4. Capacity \in Nat
  BY DEF StreamerAssumption
<1>5. Receiving' => slots' + Cardinality(Line') <= Capacity
  BY <1>1, <1>2, <1>3, <1>4
<1>6. QED  BY <1>1, <1>3, <1>5 DEF SlotsAreCounted

LEMMA LineOfLess ==
  ASSUME ToSet(pipe') \subseteq ToSet(pipe),
         \A k \in Procs : ToSet(buffer'[k]) \subseteq ToSet(buffer[k])
  PROVE  Line' \subseteq Line
BY DEF Line

LEMMA CalmSlots ==
  ASSUME Calm, SlotsAreCounted, slots' = slots, StreamerAssumption
  PROVE  SlotsAreCounted'
<1>1. \A k \in Procs : ToSet(buffer'[k]) \subseteq ToSet(buffer[k])
  BY NothingInOrder DEF Calm
<1>2. pipe' = pipe /\ (Receiving' => Receiving)
  BY DEF Calm
<1>3. Line' \subseteq Line
  BY <1>1, <1>2, LineOfLess
<1>4. QED  BY <1>2, <1>3, Shorter

LEMMA FailsSlots ==
  ASSUME SlotsAreCounted, NEW m \in Procs, Fails(m), StreamerAssumption
  PROVE  SlotsAreCounted'
<1>1. UNCHANGED <<pipe, buffer, slots, main>>
  BY DEF Fails, queueVars, mainVars
<1>2. Line' = Line /\ (Receiving' <=> Receiving)
  BY <1>1 DEF Line, Receiving
<1>3. QED  BY <1>1, <1>2, Shorter

\* What a meter puts takes a slot.
LEMMA PutSlots ==
  ASSUME SInv, SlotsAreCounted, StreamerAssumption, NEW m \in Procs,
         PutFlow(m) \/ SendError(m) \/ PutNone(m)
  PROVE  SlotsAreCounted'
<1> USE DEF SInv
<1>1. PICK x \in ItemType : Puts(m, x)
  BY WhatIsPut
<1>2. slots > 0 /\ slots' = slots - 1
  BY DEF PutFlow, SendError, PutNone, Put
<1>3. pipe' = pipe /\ (Receiving' <=> Receiving) /\ buffer' = [buffer EXCEPT ![m] = Append(@, x)]
  BY <1>1 DEF Puts, Receiving
<1>4. ASSUME NEW k \in Procs
      PROVE  ToSet(buffer'[k]) \subseteq ToSet(buffer[k]) \union {x}
  <2>1. buffer[k] \in Seq(ItemType) /\ buffer \in [Procs -> Seq(ItemType)]
    BY DEF ItemsTypeOK
  <2>2. ToSet(Append(buffer[k], x)) = ToSet(buffer[k]) \union {x}
    BY <2>1, AppendedItems
  <2>3. buffer'[k] = IF k = m THEN Append(buffer[k], x) ELSE buffer[k]
    BY <1>3, <2>1
  <2>4. QED  BY <2>2, <2>3
<1>5. Line' \subseteq Line \union {x}
  BY <1>3, <1>4 DEF Line
<1>6. IsFiniteSet(Line) /\ Cardinality(Line) \in Nat
  BY FS_CardinalityType DEF SlotsAreCounted
<1>7. /\ IsFiniteSet(Line \union {x}) /\ Cardinality(Line \union {x}) \in Nat
      /\ Cardinality(Line \union {x}) <= Cardinality(Line) + 1
  <2>1. CASE x \in Line
    <3>1. Line \union {x} = Line
      BY <2>1
    <3>2. QED  BY <1>6, <3>1
  <2>2. CASE x \notin Line
    <3>1. /\ IsFiniteSet(Line \union {x})
          /\ Cardinality(Line \union {x}) = Cardinality(Line) + 1
      BY <1>6, <2>2, FS_AddElement
    <3>2. QED  BY <1>6, <3>1
  <2>3. QED  BY <2>1, <2>2
<1>8. /\ IsFiniteSet(Line') /\ Cardinality(Line') \in Nat
      /\ Cardinality(Line') <= Cardinality(Line \union {x})
  BY <1>5, <1>7, FS_Subset, FS_CardinalityType
<1>9. /\ slots \in 0 .. Capacity /\ Capacity \in Nat
      /\ Receiving => slots + Cardinality(Line) <= Capacity
  BY DEF SlotsAreCounted, StreamerAssumption
<1>10. slots' \in 0 .. Capacity
  BY <1>2, <1>9
<1>11. Receiving' => slots' + Cardinality(Line') <= Capacity
  BY <1>2, <1>3, <1>6, <1>7, <1>8, <1>9
<1>12. QED  BY <1>8, <1>10, <1>11 DEF SlotsAreCounted

\* The feeder thread moves an item from one part of the line to the other.
LEMMA EndWriteSlots ==
  ASSUME SInv, SlotsAreCounted, StreamerAssumption, NEW m \in Procs, EndWrite(m)
  PROVE  SlotsAreCounted'
<1> USE DEF SInv
<1>1. /\ buffer[m] # <<>> /\ pipe' = Append(pipe, Head(buffer[m]))
      /\ buffer' = [buffer EXCEPT ![m] = Tail(@)] /\ UNCHANGED <<slots, main>>
  BY DEF EndWrite, WriterHasAnItem, mainVars
<1>2. /\ buffer \in [Procs -> Seq(ItemType)] /\ buffer[m] \in Seq(ItemType) /\ pipe \in Seq(ItemType)
  BY DEF ItemsTypeOK
<1>3. /\ Head(buffer[m]) \in ItemType
      /\ ToSet(buffer[m]) = {Head(buffer[m])} \union ToSet(Tail(buffer[m]))
  BY <1>1, <1>2, HeadItems
<1>4. ToSet(pipe') = ToSet(pipe) \union {Head(buffer[m])}
  BY <1>1, <1>2, <1>3, AppendedItems
<1>5. ASSUME NEW k \in Procs
      PROVE  ToSet(buffer'[k]) \subseteq ToSet(buffer[k])
  <2>1. buffer'[k] = IF k = m THEN Tail(buffer[m]) ELSE buffer[k]
    BY <1>1, <1>2
  <2>2. QED  BY <1>3, <2>1
<1>6. ToSet(pipe') \subseteq Line
  BY <1>3, <1>4 DEF Line
<1>7. UNION {ToSet(buffer'[k]) : k \in Procs} \subseteq Line
  BY <1>5 DEF Line
<1>8. Line' \subseteq Line /\ (Receiving' <=> Receiving)
  BY <1>1, <1>6, <1>7 DEF Line, Receiving
<1>9. QED  BY <1>1, <1>8, Shorter

\* What the streamer takes was in the line once and gives its slot back.
LEMMA GetSlots ==
  ASSUME SInv, SlotsAreCounted, StreamerAssumption, NEW kind, Get(kind), MayDie
  PROVE  SlotsAreCounted'
<1> USE DEF SInv
<1>1. PICK x : Taken(x, kind)
  BY WhatIsTaken
<1>2. Receiving /\ slots' = slots + 1
  BY DEF Get, Receiving
<1>3. /\ pipe' \in Seq(ItemType) /\ ToSet(pipe) = {x} \union ToSet(pipe')
      /\ InOrder(pipe', ToSet(yielded) \union {x}, failed)
  BY <1>1 DEF Taken
<1>4. x \notin ToSet(pipe')
  <2>1. \A i \in 1 .. Len(pipe') : pipe'[i] # x
    BY <1>3 DEF InOrder
  <2>2. DOMAIN pipe' = 1 .. Len(pipe')
    BY <1>3, LenProperties
  <2>3. QED  BY <2>1, <2>2 DEF ToSet
<1>5. ASSUME NEW k \in Procs
      PROVE  x \notin ToSet(buffer[k]) /\ ToSet(buffer'[k]) \subseteq ToSet(buffer[k])
  <2>1. InOrder(buffer[k], ToSet(yielded) \union ToSet(pipe), failed) /\ buffer[k] \in Seq(ItemType)
    BY <1>2, Items DEF LineInOrder
  <2>2. \A i \in 1 .. Len(buffer[k]) : buffer[k][i] # x
    BY <1>3, <2>1 DEF InOrder
  <2>3. DOMAIN buffer[k] = 1 .. Len(buffer[k])
    BY <2>1, LenProperties
  <2>4. x \notin ToSet(buffer[k])
    BY <2>2, <2>3 DEF ToSet
  <2>5. buffer'[k] = buffer[k] \/ buffer'[k] = <<>>
    BY DEF MayDie
  <2>6. QED  BY <2>4, <2>5, NothingInOrder
<1>6. Line' \subseteq Line \ {x}
  <2>1. ToSet(pipe') \subseteq Line \ {x}
    BY <1>3, <1>4 DEF Line
  <2>2. UNION {ToSet(buffer'[k]) : k \in Procs} \subseteq Line \ {x}
    BY <1>5 DEF Line
  <2>3. QED  BY <2>1, <2>2 DEF Line
<1>7. x \in Line
  BY <1>3 DEF Line
<1>8. IsFiniteSet(Line) /\ Cardinality(Line) \in Nat
  BY FS_CardinalityType DEF SlotsAreCounted
<1>9. IsFiniteSet(Line \ {x}) /\ Cardinality(Line \ {x}) = Cardinality(Line) - 1
  BY <1>7, <1>8, FS_RemoveElement
<1>10. Cardinality(Line \ {x}) \in Nat
  BY <1>9, FS_CardinalityType
<1>11. /\ IsFiniteSet(Line') /\ Cardinality(Line') \in Nat
       /\ Cardinality(Line') <= Cardinality(Line \ {x})
  BY <1>6, <1>9, FS_Subset, FS_CardinalityType
<1>12. /\ slots \in 0 .. Capacity /\ Capacity \in Nat
       /\ slots + Cardinality(Line) <= Capacity
  BY <1>2 DEF SlotsAreCounted, StreamerAssumption
<1>13. slots' \in 0 .. Capacity /\ slots' + Cardinality(Line') <= Capacity
  BY <1>2, <1>8, <1>9, <1>10, <1>11, <1>12
<1>14. QED  BY <1>11, <1>13 DEF SlotsAreCounted

LEMMA SlotsStep ==
  ASSUME SInv, SlotsAreCounted, StreamerAssumption, [Next]_vars
  PROVE  SlotsAreCounted'
<1> USE DEF SInv
<1>1. ASSUME NEW m \in Procs, Ready(m) \/ Acquire(m) \/ Release(m) \/ AllPut(m) \/ Exit(m)
      PROVE  SlotsAreCounted'
  <2>1. slots' = slots
    BY <1>1 DEF Ready, Acquire, Release, AllPut, Exit, queueVars
  <2>2. QED  BY <1>1, <2>1, ReadyIsCalm, CalmSlots
<1>2. ASSUME NEW m \in Procs, MeterStep(m)
      PROVE  SlotsAreCounted'
  BY <1>1, <1>2, PutSlots DEF MeterStep
<1>3. ASSUME NEW m \in Procs, FeederStep(m)
      PROVE  SlotsAreCounted'
  <2>1. BeginWrite(m) => slots' = slots
    BY DEF BeginWrite
  <2>2. QED  BY <1>3, <2>1, WaitingIsCalm, CalmSlots, EndWriteSlots DEF FeederStep
<1>4. ASSUME NEW m \in Procs, Killed(m)
      PROVE  SlotsAreCounted'
  <2>1. slots' = slots
    BY <1>4 DEF Killed
  <2>2. QED  BY <1>4, <2>1, DeathIsCalm, CalmSlots
<1>5. CASE GetNone
  <2>1. Get("none") /\ UNCHANGED <<pc, buffer>>
    BY <1>5 DEF GetNone
  <2>2. QED  BY <2>1, NobodyDies, GetSlots
<1>6. CASE GetError
  <2>1. Get("error") /\ KillAll(Procs)
    BY <1>6 DEF GetError
  <2>2. QED  BY <2>1, Kills, GetSlots
<1>7. CASE GetFlow
  <2>1. Get("flow") /\ (KillAll(Procs) \/ UNCHANGED <<pc, buffer>>)
    BY <1>7 DEF GetFlow
  <2>2. QED  BY <2>1, Kills, NobodyDies, GetSlots
<1>8. CASE Check \/ Interrupt
  <2>1. slots' = slots
    BY <1>8 DEF Check, Interrupt
  <2>2. QED  BY <1>8, <2>1, DeathIsCalm, CalmSlots
<1>9. CASE Empty \/ Join \/ UNCHANGED vars
  <2>1. slots' = slots
    BY <1>9 DEF Empty, Join, vars, queueVars
  <2>2. QED  BY <1>9, <2>1, WaitingIsCalm, CalmSlots
<1>10. QED
  BY <1>2, <1>3, <1>4, <1>5, <1>6, <1>7, <1>8, <1>9, FailsSlots DEF Next, MainStep

-----------------------------------------------------------------------------
(* The other variables.                                                    *)

LEMMA PlacesStep ==
  ASSUME PlacesTypeOK, StreamerAssumption, [Next]_vars
  PROVE  PlacesTypeOK'
<1> USE DEF PlacesTypeOK
<1>1. barrier' = barrier \/ barrier' \in Procs \union {Nobody}
  <2>1. ASSUME NEW m \in Procs, MeterStep(m) \/ FeederStep(m) \/ Fails(m) \/ Killed(m)
        PROVE  barrier' = barrier \/ barrier' \in {m, Nobody}
    <3>1. MeterStep(m) => barrier' = barrier \/ barrier' \in {m, Nobody}
      BY DEF MeterStep, Ready, Acquire, Release, PutFlow, AllPut, SendError, PutNone, Exit
    <3>2. FeederStep(m) => barrier' = barrier
      BY DEF FeederStep, BeginWrite, EndWrite, meterVars
    <3>3. Fails(m) \/ Killed(m) => barrier' = barrier \/ barrier' = Nobody
      BY DEF Fails, Killed
    <3>4. QED  BY <2>1, <3>1, <3>2, <3>3
  <2>2. MainStep \/ Interrupt \/ UNCHANGED vars => barrier' = barrier
    BY DEF MainStep, GetNone, GetError, GetFlow, Get, Empty, Check, Join, Interrupt, vars, meterVars
  <2>3. QED  BY <2>1, <2>2 DEF Next
<1>2. writer' = writer \/ writer' \in Procs \union {Nobody}
  <2>1. ASSUME NEW m \in Procs, MeterStep(m) \/ FeederStep(m) \/ Fails(m) \/ Killed(m)
        PROVE  writer' = writer \/ writer' \in {m, Nobody}
    <3>1. MeterStep(m) => writer' = writer
      BY DEF MeterStep, Ready, Acquire, Release, PutFlow, AllPut, SendError, PutNone, Exit, Put,
             queueVars
    <3>2. FeederStep(m) => writer' \in {m, Nobody}
      BY DEF FeederStep, BeginWrite, EndWrite
    <3>3. Fails(m) \/ Killed(m) => writer' = writer
      BY DEF Fails, Killed, queueVars
    <3>4. QED  BY <2>1, <3>1, <3>2, <3>3
  <2>2. MainStep \/ Interrupt \/ UNCHANGED vars => writer' = writer
    BY DEF MainStep, GetNone, GetError, GetFlow, Get, Empty, Check, Join, Interrupt, vars, queueVars
  <2>3. QED  BY <2>1, <2>2 DEF Next
<1>3. outcome' = outcome \/ outcome' \in {"finished", "error", "limit", "interrupted"}
  <2>1. ASSUME NEW m \in Procs, MeterStep(m) \/ FeederStep(m) \/ Fails(m) \/ Killed(m)
        PROVE  outcome' = outcome
    <3>1. MeterStep(m) => outcome' = outcome
      BY DEF MeterStep, Ready, Acquire, Release, PutFlow, AllPut, SendError, PutNone, Exit, mainVars
    <3>2. FeederStep(m) \/ Fails(m) \/ Killed(m) => outcome' = outcome
      BY DEF FeederStep, BeginWrite, EndWrite, Fails, Killed, mainVars
    <3>3. QED  BY <2>1, <3>1, <3>2
  <2>2. MainStep \/ Interrupt \/ UNCHANGED vars =>
          outcome' = outcome \/ outcome' \in {"finished", "error", "limit", "interrupted"}
    BY DEF MainStep, GetNone, GetError, GetFlow, Empty, Check, Join, Interrupt, Leave, vars, mainVars
  <2>3. QED  BY <2>1, <2>2 DEF Next
<1>4. kills' \in 0 .. MaxKills
  <2>1. ASSUME NEW m \in Procs, MeterStep(m) \/ FeederStep(m) \/ Fails(m)
        PROVE  kills' = kills
    BY <2>1 DEF MeterStep, Ready, Acquire, Release, PutFlow, AllPut, SendError, PutNone, Exit,
                FeederStep, BeginWrite, EndWrite, Fails
  <2>2. ASSUME NEW m \in Procs, Killed(m)
        PROVE  kills' \in 0 .. MaxKills
    BY <2>2 DEF Killed, StreamerAssumption
  <2>3. MainStep \/ Interrupt \/ UNCHANGED vars => kills' = kills
    BY DEF MainStep, GetNone, GetError, GetFlow, Get, Empty, Check, Join, Interrupt, vars
  <2>4. QED  BY <2>1, <2>2, <2>3 DEF Next
<1>5. QED  BY <1>1, <1>2, <1>3, <1>4

\* With the slots counted, the queue holds no more than its maxsize for any
\* capacity, and no meter ever finds a slot that is not there.
THEOREM SlotsInductive == Spec => []SlotsInv
<1>1. Init => SlotsAreCounted /\ PlacesTypeOK
  <2>1. SUFFICES ASSUME Init
                 PROVE  SlotsAreCounted /\ PlacesTypeOK
    OBVIOUS
  <2>2. Line = {}
    BY <2>1, NothingInOrder DEF Init, Line
  <2>3. IsFiniteSet(Line) /\ Cardinality(Line) = 0
    BY <2>2, FS_EmptySet
  <2>4. slots = Capacity /\ Capacity \in Nat /\ MaxKills \in Nat
    BY <2>1, StreamerAssumption DEF Init, StreamerAssumption
  <2>5. SlotsAreCounted
    BY <2>3, <2>4 DEF SlotsAreCounted
  <2>6. QED  BY <2>1, <2>4, <2>5 DEF Init, PlacesTypeOK
<1>2. Init => SlotsInv
  BY <1>1, StreamerAssumption, InitStep DEF SlotsInv
<1>3. SlotsInv /\ [Next]_vars => SlotsInv'
  BY StreamerAssumption, NextStep, SlotsStep, PlacesStep DEF SlotsInv
<1>4. QED  BY <1>2, <1>3, PTL DEF Spec

\* Type correctness: the semaphore stays between none and all of its slots,
\* and no more end markers are counted than there are meters.
THEOREM TypeCorrect == Spec => []TypeOK
<1>1. ASSUME SlotsInv
      PROVE  TypeOK
  <2>1. PICK over \in SUBSET Procs : Cardinality(over) = ended
    BY <1>1 DEF SlotsInv, SInv, EndedAreOver
  <2>2. IsFiniteSet(Procs) /\ Cardinality(Procs) = Meters /\ Meters \in Nat
    <3>1. Meters \in Nat /\ Meters > 0
      BY StreamerAssumption DEF StreamerAssumption
    <3>2. QED  BY <3>1, FS_Interval DEF Procs
  <2>3. IsFiniteSet(over) /\ Cardinality(over) <= Meters
    BY <2>2, FS_Subset
  <2>4. ended \in 0 .. Meters
    BY <2>1, <2>2, <2>3, FS_CardinalityType
  <2>5. QED  BY <1>1, <2>4 DEF SlotsInv, SInv, SlotsAreCounted, PlacesTypeOK, TypeOK
<1>2. QED  BY <1>1, SlotsInductive, PTL

-----------------------------------------------------------------------------
(* The meters as sources of flows.                                         *)

LEMMA OneMoreNumber ==
  ASSUME NEW n \in Nat
  PROVE  [k \in 1 .. n + 1 |-> k] = Append([k \in 1 .. n |-> k], n + 1)
<1> DEFINE a == [k \in 1 .. n |-> k]
           b == [k \in 1 .. n + 1 |-> k]
<1>1. a \in Seq(Nat) /\ Len(a) = n
  <2>1. a \in [1 .. n -> Nat]
    OBVIOUS
  <2> HIDE DEF a
  <2>2. a \in Seq(Nat)
    BY <2>1, IsASeq
  <2>3. QED  BY <2>1, <2>2, LenProperties
<1>2. /\ DOMAIN Append(a, n + 1) = 1 .. n + 1
      /\ \A k \in 1 .. n : Append(a, n + 1)[k] = a[k]
      /\ Append(a, n + 1)[n + 1] = n + 1
      /\ Append(a, n + 1) \in Seq(Nat)
  <2> HIDE DEF a
  <2>1. QED  BY <1>1, AppendProperties, LenProperties
<1>3. \A k \in 1 .. n : a[k] = k
  OBVIOUS
<1> HIDE DEF a
<1>4. \A k \in 1 .. n + 1 : Append(a, n + 1)[k] = k
  BY <1>2, <1>3
<1>5. \A c \in Seq(Nat) : c = [k \in DOMAIN c |-> c[k]]
  BY LenProperties
<1>6. Append(a, n + 1) = [k \in 1 .. n + 1 |-> Append(a, n + 1)[k]]
  BY <1>2, <1>5
<1>7. Append(a, n + 1) = b
  BY <1>4, <1>6
<1>8. QED  BY <1>7 DEF a

\* What a step does with one meter.
LEMMA MeterMoves ==
  ASSUME SInv, [Next]_vars, NEW m \in Procs
  PROVE  \/ /\ put'[m] = put[m] /\ OutcomeOf(m)' = OutcomeOf(m)
         \/ /\ put'[m] = put[m] /\ OutcomeOf(m)' = "failed"
         \/ /\ put'[m] = put[m] /\ put[m] = Flows[m]
            /\ OutcomeOf(m) = "runs" /\ OutcomeOf(m)' = "done"
         \/ /\ put'[m] = put[m] + 1 /\ put[m] < Flows[m]
            /\ OutcomeOf(m) = "runs" /\ OutcomeOf(m)' = "runs"
<1> DEFINE Goal == \/ /\ put'[m] = put[m] /\ OutcomeOf(m)' = OutcomeOf(m)
                   \/ /\ put'[m] = put[m] /\ OutcomeOf(m)' = "failed"
                   \/ /\ put'[m] = put[m] /\ put[m] = Flows[m]
                      /\ OutcomeOf(m) = "runs" /\ OutcomeOf(m)' = "done"
                   \/ /\ put'[m] = put[m] + 1 /\ put[m] < Flows[m]
                      /\ OutcomeOf(m) = "runs" /\ OutcomeOf(m)' = "runs"
<1> SUFFICES Goal
  OBVIOUS
<1>1. /\ pc \in [Procs -> {"start", "barrier", "release", "run", "error", "none", "exit",
                           "ended", "killed"}]
      /\ put \in [Procs -> Nat]
      /\ m \in failed => pc[m] \in {"error", "none", "exit", "ended", "killed"}
      /\ pc[m] = "error" => m \in failed
  BY DEF SInv, ItemsTypeOK, NothingIsLost
<1>2. ASSUME UNCHANGED <<pc, failed, put>>
      PROVE  Goal
  BY <1>2 DEF OutcomeOf
<1>3. ASSUME NEW victims \in SUBSET Procs, KillAll(victims), UNCHANGED <<failed, put>>
      PROVE  Goal
  <2>1. pc'[m] = "killed" \/ pc'[m] = pc[m]
    BY <1>3 DEF KillAll
  <2>2. QED  BY <1>3, <2>1 DEF OutcomeOf
<1>4. ASSUME NEW k \in Procs,
             \/ Ready(k) \/ Acquire(k) \/ Release(k) \/ SendError(k) \/ PutNone(k) \/ Exit(k)
      PROVE  Goal
  <2>1. UNCHANGED <<failed, put>>
    BY <1>4 DEF Ready, Acquire, Release, SendError, PutNone, Exit
  <2>2. \/ pc'[m] = pc[m]
        \/ pc[m] \in {"start", "barrier", "release"} /\ pc'[m] \in {"barrier", "release", "run"}
        \/ pc[m] = "error"
        \/ pc[m] \in {"none", "exit"} /\ pc'[m] \in {"exit", "ended"}
    BY <1>1, <1>4 DEF Ready, Acquire, Release, SendError, PutNone, Exit, Goes
  <2>3. QED  BY <1>1, <2>1, <2>2 DEF OutcomeOf
<1>5. ASSUME NEW k \in Procs, AllPut(k)
      PROVE  Goal
  <2>1. /\ UNCHANGED <<failed, put>> /\ pc[k] = "run" /\ put[k] = Flows[k]
        /\ pc' = [pc EXCEPT ![k] = "none"]
    BY <1>5 DEF AllPut, Goes
  <2>2. CASE k = m
    <3>1. m \notin failed /\ pc'[m] = "none"
      BY <1>1, <2>1, <2>2
    <3>2. QED  BY <2>1, <2>2, <3>1 DEF OutcomeOf
  <2>3. CASE k # m
    <3>1. pc'[m] = pc[m]
      BY <1>1, <2>1, <2>3
    <3>2. QED  BY <2>1, <3>1 DEF OutcomeOf
  <2>4. QED  BY <2>2, <2>3
<1>6. ASSUME NEW k \in Procs, PutFlow(k)
      PROVE  Goal
  <2>1. /\ UNCHANGED failed /\ pc[k] = "run" /\ put[k] < Flows[k]
        /\ pc' = [pc EXCEPT ![k] = "run"] /\ put' = [put EXCEPT ![k] = @ + 1]
    BY <1>6 DEF PutFlow, Goes
  <2>2. pc'[m] = pc[m]
    BY <1>1, <2>1
  <2>3. CASE k = m
    <3>1. m \notin failed /\ put'[m] = put[m] + 1
      BY <1>1, <2>1, <2>3
    <3>2. QED  BY <2>1, <2>2, <2>3, <3>1 DEF OutcomeOf
  <2>4. CASE k # m
    <3>1. put'[m] = put[m]
      BY <1>1, <2>1, <2>4
    <3>2. QED  BY <2>1, <2>2, <3>1 DEF OutcomeOf
  <2>5. QED  BY <2>3, <2>4
<1>7. ASSUME NEW k \in Procs, Fails(k)
      PROVE  Goal
  <2>1. /\ UNCHANGED put /\ failed' = failed \union {k} /\ pc' = [pc EXCEPT ![k] = "error"]
    BY <1>7 DEF Fails, Goes
  <2>2. k # m => pc'[m] = pc[m]
    BY <1>1, <2>1
  <2>3. QED  BY <2>1, <2>2 DEF OutcomeOf
<1>8. ASSUME NEW k \in Procs, FeederStep(k)
      PROVE  Goal
  BY <1>2, <1>8 DEF FeederStep, BeginWrite, EndWrite, meterVars
<1>9. ASSUME NEW k \in Procs, Killed(k)
      PROVE  Goal
  BY <1>3, <1>9 DEF Killed
<1>10. CASE MainStep \/ Interrupt
  <2>1. UNCHANGED <<failed, put>> /\ (UNCHANGED pc \/ KillAll(Procs))
    BY <1>10
    DEF MainStep, Interrupt, GetNone, GetError, GetFlow, Get, Empty, Check, Join, meterVars
  <2>2. CASE UNCHANGED pc
    BY <1>2, <2>1, <2>2
  <2>3. CASE KillAll(Procs)
    BY <1>3, <2>1, <2>3
  <2>4. QED  BY <2>1, <2>2, <2>3
<1>11. CASE UNCHANGED vars
  BY <1>2, <1>11 DEF vars, meterVars
<1> HIDE DEF Goal
<1>12. QED
  BY <1>4, <1>5, <1>6, <1>7, <1>8, <1>9, <1>10, <1>11 DEF Next, MeterStep

LEMMA SourceStep ==
  ASSUME SInv, [Next]_vars, NEW m \in Procs
  PROVE  [Source(m)!Next]_<<OutcomeOf(m), NotPut(m), HasPut(m)>>
<1>1. put[m] \in Nat /\ Flows[m] \in Nat
  BY StreamerAssumption DEF SInv, ItemsTypeOK
<1>2. PICK f : f = Flows[m]
  OBVIOUS
<1>3. CASE put'[m] = put[m] /\ OutcomeOf(m)' = OutcomeOf(m)
  BY <1>3 DEF NotPut, HasPut
<1>4. CASE put'[m] = put[m] /\ OutcomeOf(m)' = "failed"
  <2>1. HasPut(m)' = HasPut(m) /\ NotPut(m)' = {}
    BY <1>4 DEF HasPut, NotPut
  <2>2. QED  BY <1>4, <2>1 DEF Source!Next, Source!Fail
<1>5. CASE /\ put'[m] = put[m] /\ put[m] = Flows[m]
           /\ OutcomeOf(m) = "runs" /\ OutcomeOf(m)' = "done"
  <2>1. HasPut(m)' = HasPut(m) /\ NotPut(m)' = NotPut(m)
    BY <1>5 DEF HasPut, NotPut
  <2>2. NotPut(m) = {}
    BY <1>1, <1>5 DEF NotPut
  <2>3. QED  BY <1>5, <2>1, <2>2 DEF Source!Next, Source!Finish
<1>6. CASE /\ put'[m] = put[m] + 1 /\ put[m] < Flows[m]
           /\ OutcomeOf(m) = "runs" /\ OutcomeOf(m)' = "runs"
  <2>1. PICK n : n = put[m]
    OBVIOUS
  <2>2. n \in Nat /\ f \in Nat /\ n < f
    BY <1>1, <1>2, <1>6, <2>1
  <2>3. /\ NotPut(m) = (n + 1) .. f /\ NotPut(m)' = (n + 2) .. f
        /\ HasPut(m) = [k \in 1 .. n |-> k] /\ HasPut(m)' = [k \in 1 .. n + 1 |-> k]
    <3>1. put'[m] = n + 1 /\ n + 1 + 1 = n + 2
      BY <1>6, <2>1, <2>2
    <3>2. QED  BY <1>2, <1>6, <2>1, <3>1 DEF NotPut, HasPut
  <2>4. HasPut(m)' = Append(HasPut(m), n + 1)
    BY <2>2, <2>3, OneMoreNumber
  <2>5. n + 1 \in NotPut(m) /\ NotPut(m) \ {n + 1} \subseteq NotPut(m)'
    BY <2>2, <2>3
  <2>6. Source(m)!NewFlows
    BY <2>2, <2>3 DEF Source!NewFlows
  <2>7. QED  BY <1>6, <2>4, <2>5, <2>6 DEF Source!Next, Source!Put
<1>7. QED  BY <1>3, <1>4, <1>5, <1>6, MeterMoves

\* What the streamer's model takes a meter for is what the meter was shown to
\* be (MeterIsAFlowSource in MeterProofs): each is a source of its flows,
\* whoever fails, dies or is terminated.
THEOREM MetersAreFlowSources ==
  ASSUME NEW m \in Procs
  PROVE  Spec => Source(m)!Spec
<1>1. Init => Source(m)!Init
  <2> SUFFICES ASSUME Init
               PROVE  Source(m)!Init
    OBVIOUS
  <2>1. put[m] = 0 /\ pc[m] = "start" /\ failed = {} /\ Flows[m] \in Nat
    BY StreamerAssumption DEF Init
  <2>2. OutcomeOf(m) = "runs"
    BY <2>1 DEF OutcomeOf
  <2>3. NotPut(m) \subseteq Nat
    BY <2>1 DEF NotPut
  <2>4. HasPut(m) = <<>>
    BY <2>1 DEF HasPut
  <2>5. QED  BY <2>2, <2>3, <2>4 DEF Source!Init
<1>2. SInv /\ [Next]_vars => [Source(m)!Next]_<<OutcomeOf(m), NotPut(m), HasPut(m)>>
  BY SourceStep
<1>3. QED  BY <1>1, <1>2, Inductive, PTL DEF Spec, Source!Spec
=============================================================================
