---------------------------- MODULE HistoryProofs ----------------------------
(***************************************************************************)
(* The ring of History implements the list of RecentQueries, for a ring of *)
(* any size.                                                               *)
(***************************************************************************)
EXTENDS History, TLAPS

\* The two cases of a position of the ring.
LEMMA ModSmall == ASSUME NEW n \in Nat \ {0}, NEW x \in 0 .. n - 1 PROVE x % n = x
  BY SMT

LEMMA ModWrap == ASSUME NEW n \in Nat \ {0}, NEW x \in n .. 2 * n - 1 PROVE x % n = x - n
  BY SMT

Wrap(x) == IF x < HISTORY_SIZE THEN x ELSE x - HISTORY_SIZE

LEMMA ModIsWrap ==
  ASSUME NEW x \in 0 .. 2 * HISTORY_SIZE - 1
  PROVE  x % HISTORY_SIZE = Wrap(x)
  BY HistoryConstants, ModSmall, ModWrap DEF Wrap

\* The slot of the oldest entry is slot 0 until the ring is full, and then the
\* one that is overwritten next.
LEMMA OldestSlot ==
  ASSUME RingShape
  PROVE  start = IF g_history_count < HISTORY_SIZE THEN 0 ELSE g_history_index
<1>1. CASE g_history_count < HISTORY_SIZE
  <2>1. g_history_index - g_history_count + HISTORY_SIZE = HISTORY_SIZE
    BY <1>1, HistoryConstants DEF RingShape, Slots
  <2>2. start = Wrap(HISTORY_SIZE)
    BY <2>1, HistoryConstants, ModIsWrap DEF start
  <2> QED BY <1>1, <2>2, HistoryConstants DEF Wrap
<1>2. CASE g_history_count = HISTORY_SIZE
  <2>1. g_history_index - g_history_count + HISTORY_SIZE = g_history_index
    BY <1>2, HistoryConstants DEF RingShape, Slots
  <2>2. g_history_index \in 0 .. 2 * HISTORY_SIZE - 1
    BY HistoryConstants DEF RingShape, Slots
  <2>3. start = Wrap(g_history_index)
    BY <2>1, <2>2, ModIsWrap DEF start
  <2> QED BY <1>2, <2>3, HistoryConstants DEF Wrap, RingShape, Slots
<1> QED BY <1>1, <1>2, HistoryConstants DEF RingShape

\* The list without the arithmetic of the ring.
LEMMA ListedEntries ==
  RingShape => \A i \in 1 .. g_history_count :
                 Listed[i] = g_history[IF g_history_count < HISTORY_SIZE THEN i - 1
                                       ELSE Wrap(g_history_index + i - 1)]
<1> SUFFICES ASSUME RingShape, NEW i \in 1 .. g_history_count
             PROVE  Listed[i] = g_history[IF g_history_count < HISTORY_SIZE THEN i - 1
                                          ELSE Wrap(g_history_index + i - 1)]
  OBVIOUS
<1>1. Listed[i] = g_history[(start + i - 1) % HISTORY_SIZE]
  BY DEF Listed
<1>2. start + i - 1 \in 0 .. 2 * HISTORY_SIZE - 1
  BY OldestSlot, HistoryConstants DEF RingShape, Slots
<1>3. Listed[i] = g_history[Wrap(start + i - 1)]
  BY <1>1, <1>2, ModIsWrap
<1> QED BY <1>3, OldestSlot, HistoryConstants DEF Wrap, RingShape, Slots

LEMMA ListedIsSeq ==
  RingShape => /\ Listed \in Seq(Texts \cup {"empty"})
               /\ Len(Listed) = g_history_count
<1> SUFFICES ASSUME RingShape
             PROVE  Listed \in Seq(Texts \cup {"empty"}) /\ Len(Listed) = g_history_count
  OBVIOUS
<1>1. \A i \in 1 .. g_history_count : Listed[i] \in Texts \cup {"empty"}
  <2> TAKE i \in 1 .. g_history_count
  <2>1. (IF g_history_count < HISTORY_SIZE THEN i - 1
         ELSE Wrap(g_history_index + i - 1)) \in Slots
    BY HistoryConstants DEF RingShape, Slots, Wrap
  <2> QED BY <2>1, ListedEntries DEF RingShape
<1>2. Listed = [i \in 1 .. g_history_count |-> Listed[i]]
  BY DEF Listed
<1>3. g_history_count \in Nat
  BY HistoryConstants DEF RingShape
<1> QED BY <1>1, <1>2, <1>3

-----------------------------------------------------------------------------
LEMMA RingInit == HInit => RingShape
  BY HistoryConstants DEF HInit, RingShape, Slots

LEMMA RingAdd ==
  ASSUME RingShape, NEW q \in Texts, add_to_history(q), ~Repeated(q)
  PROVE  /\ RingShape'
         /\ g_history' = [g_history EXCEPT ![g_history_index] = Clipped[q]]
         /\ g_history_index' = Wrap(g_history_index + 1)
         /\ g_history_count' = IF g_history_count < HISTORY_SIZE
                               THEN g_history_count + 1 ELSE g_history_count
<1>1. /\ g_history' = [g_history EXCEPT ![g_history_index] = Clipped[q]]
      /\ g_history_count' = IF g_history_count < HISTORY_SIZE
                            THEN g_history_count + 1 ELSE g_history_count
  BY DEF add_to_history
<1>2. g_history_index + 1 \in 0 .. 2 * HISTORY_SIZE - 1
  BY HistoryConstants DEF RingShape, Slots
<1>3. g_history_index' = Wrap(g_history_index + 1)
  BY <1>2, ModIsWrap DEF add_to_history
<1>4. Clipped[q] \in Texts /\ Clipped[q] # "empty"
  BY HistoryConstants
<1>5. /\ g_history' \in [Slots -> Texts \cup {"empty"}]
      /\ g_history_index' \in Slots
      /\ g_history_count' \in 0 .. HISTORY_SIZE
      /\ g_history_count' < HISTORY_SIZE => g_history_index' = g_history_count'
  BY <1>1, <1>3, <1>4, HistoryConstants DEF RingShape, Slots, Wrap
<1>6. \A i \in Slots : g_history'[i] = "empty" <=> i >= g_history_count'
  <2> TAKE i \in Slots
  <2>1. CASE i = g_history_index
    BY <2>1, <1>1, <1>4, HistoryConstants DEF RingShape, Slots
  <2>2. CASE i # g_history_index
    BY <2>2, <1>1, HistoryConstants DEF RingShape, Slots
  <2> QED BY <2>1, <2>2
<1>7. RingShape'
  BY <1>5, <1>6 DEF RingShape
<1> QED BY <1>1, <1>3, <1>7

LEMMA RingStep == RingShape /\ [HNext]_hvars => RingShape'
<1> SUFFICES ASSUME RingShape, [HNext]_hvars PROVE RingShape'
  OBVIOUS
<1>1. CASE UNCHANGED hvars
  BY <1>1 DEF hvars, RingShape
<1>2. CASE Reset
  <2>1. /\ g_history' = [i \in Slots |-> "empty"]
        /\ g_history_index' = 0 /\ g_history_count' = 0
    BY <1>2 DEF Reset
  <2>2. \A i \in Slots : i >= 0
    BY HistoryConstants DEF Slots
  <2> QED BY <2>1, <2>2, HistoryConstants DEF RingShape, Slots
<1>3. ASSUME NEW q \in Texts, add_to_history(q) PROVE RingShape'
  <2>1. CASE Repeated(q)
    BY <2>1, <1>3, <1>1 DEF add_to_history
  <2> QED BY <2>1, <1>3, RingAdd
<1> QED BY <1>1, <1>2, <1>3 DEF HNext

\* The ring keeps its shape: filled from slot 0 up, then overwritten in order.
THEOREM RingInvariant == HSpec => []RingShape
  BY RingInit, RingStep, PTL DEF HSpec

-----------------------------------------------------------------------------
(***************************************************************************)
(* Each step of the ring is a step of the list.                            *)
(***************************************************************************)
LEMMA ListInit == HInit => Recent!RInit
<1> SUFFICES ASSUME HInit PROVE Listed = <<>>
  BY DEF Recent!RInit
<1>1. RingShape /\ g_history_count = 0
  BY RingInit DEF HInit
<1> QED BY <1>1, ListedIsSeq

\* A query that is not a repeat is appended; from a full list the oldest
\* entry falls out.
LEMMA ListAdd ==
  ASSUME RingShape, NEW q \in Texts, add_to_history(q), ~Repeated(q)
  PROVE  Recent!Remember(q)
<1> DEFINE new == Recent!Appended(q)
           full == g_history_count = HISTORY_SIZE
<1>1. RingShape'
  BY RingAdd
<1>2. Listed \in Seq(Texts \cup {"empty"}) /\ Len(Listed) = g_history_count
  BY ListedIsSeq
<1>3. Listed' \in Seq(Texts \cup {"empty"}) /\ Len(Listed') = g_history_count'
  <2>1. (RingShape => Listed \in Seq(Texts \cup {"empty"}) /\ Len(Listed) = g_history_count)'
    BY ListedIsSeq, PTL
  <2> QED BY <2>1, <1>1
<1>4. \A i \in 1 .. g_history_count' :
        Listed'[i] = g_history'[IF g_history_count' < HISTORY_SIZE THEN i - 1
                                ELSE Wrap(g_history_index' + i - 1)]
  <2>1. (RingShape => \A i \in 1 .. g_history_count :
                 Listed[i] = g_history[IF g_history_count < HISTORY_SIZE THEN i - 1
                                       ELSE Wrap(g_history_index + i - 1)])'
    BY ListedEntries, PTL
  <2> QED BY <2>1, <1>1
<1>5. Clipped[q] \in Texts \cup {"empty"}
  BY HistoryConstants
<1>6. CASE ~full
  <2>1. g_history_count < HISTORY_SIZE /\ g_history_index = g_history_count
    BY <1>6, HistoryConstants DEF RingShape
  <2>2. new = Append(Listed, Clipped[q])
    BY <2>1, <1>2 DEF Recent!Appended
  <2>3. g_history_count' = g_history_count + 1
    BY <2>1, RingAdd
  <2>4. ASSUME NEW i \in 1 .. g_history_count' PROVE Listed'[i] = new[i]
    <3>1. Listed'[i] = g_history'[i - 1]
      BY <1>4, <2>1, <2>3, RingAdd, HistoryConstants DEF RingShape, Slots, Wrap
    <3>2. CASE i = g_history_count'
      BY <3>1, <3>2, <2>1, <2>2, <2>3, <1>2, <1>5, RingAdd, HistoryConstants DEF RingShape, Slots
    <3>3. CASE i # g_history_count'
      <4>1. i \in 1 .. g_history_count /\ i - 1 \in Slots /\ i - 1 # g_history_index
        BY <3>3, <2>1, <2>3, HistoryConstants DEF RingShape, Slots
      <4>2. Listed[i] = g_history[i - 1]
        BY <4>1, <2>1, ListedEntries
      <4>3. g_history'[i - 1] = g_history[i - 1]
        BY <4>1, RingAdd DEF RingShape
      <4> QED BY <3>1, <4>1, <4>2, <4>3, <2>2, <1>2, <1>5
    <3> QED BY <3>2, <3>3
  <2>5. new \in Seq(Texts \cup {"empty"}) /\ Len(new) = g_history_count'
    BY <2>2, <2>3, <1>2, <1>5
  <2>6. Listed' = new
    BY <2>4, <2>5, <1>3
  <2> QED BY <2>6 DEF Recent!Remember
<1>7. CASE full
  <2>1. g_history_count = HISTORY_SIZE /\ g_history_count' = HISTORY_SIZE
    BY <1>7, RingAdd, HistoryConstants
  <2>2. new = Append(Tail(Listed), Clipped[q])
    BY <2>1, <1>2, HistoryConstants DEF Recent!Appended
  <2>3. Tail(Listed) \in Seq(Texts \cup {"empty"}) /\ Len(Tail(Listed)) = HISTORY_SIZE - 1
    BY <2>1, <1>2, HistoryConstants
  <2>4. ASSUME NEW i \in 1 .. HISTORY_SIZE PROVE Listed'[i] = new[i]
    <3> DEFINE slot == Wrap(g_history_index' + i - 1)
    <3>1. Listed'[i] = g_history'[slot]
      BY <1>4, <2>1, HistoryConstants
    <3>2. CASE i = HISTORY_SIZE
      <4>1. slot = g_history_index
        BY <3>2, RingAdd, HistoryConstants DEF RingShape, Slots, Wrap
      <4>2. g_history'[slot] = Clipped[q]
        BY <4>1, RingAdd DEF RingShape
      <4> QED BY <4>2, <3>1, <3>2, <2>2, <2>3, <1>5, HistoryConstants
    <3>3. CASE i # HISTORY_SIZE
      <4>1. /\ i \in 1 .. HISTORY_SIZE - 1 /\ i + 1 \in 1 .. HISTORY_SIZE
            /\ slot \in Slots /\ slot # g_history_index
            /\ slot = Wrap(g_history_index + (i + 1) - 1)
        BY <3>3, RingAdd, HistoryConstants DEF RingShape, Slots, Wrap
      <4>2. Listed[i + 1] = g_history[slot]
        BY <4>1, <2>1, ListedEntries, HistoryConstants
      <4>3. g_history'[slot] = g_history[slot]
        BY <4>1, RingAdd DEF RingShape
      <4>4. Tail(Listed)[i] = Listed[i + 1]
        BY <4>1, <2>1, <1>2, HistoryConstants
      <4> QED BY <3>1, <4>1, <4>2, <4>3, <4>4, <2>2, <2>3, <1>5, HistoryConstants
    <3> QED BY <3>2, <3>3
  <2>5. new \in Seq(Texts \cup {"empty"}) /\ Len(new) = HISTORY_SIZE
    BY <2>2, <2>3, <1>5, HistoryConstants
  <2>6. Listed' = new
    BY <2>4, <2>5, <2>1, <1>3
  <2> QED BY <2>6 DEF Recent!Remember
<1> QED BY <1>6, <1>7

\* A query that is left out is on the list: add_to_history compares it with the
\* slot it would overwrite, which is empty until the ring is full, and then
\* holds the oldest entry.
LEMMA ListLeavesOut ==
  ASSUME RingShape, NEW q \in Texts, add_to_history(q), Repeated(q)
  PROVE  Recent!LeaveOut(q)
<1>1. UNCHANGED hvars /\ g_history[g_history_index] = q /\ q # "empty"
  BY HistoryConstants DEF add_to_history, Repeated
<1>2. g_history_count = HISTORY_SIZE
  BY <1>1, HistoryConstants DEF RingShape, Slots
<1>3. Len(Listed) = HISTORY_SIZE
  BY <1>2, ListedIsSeq
<1>4. Listed[1] = g_history[Wrap(g_history_index + 1 - 1)]
  BY <1>2, ListedEntries, HistoryConstants
<1>5. Listed[1] = q
  BY <1>1, <1>4, HistoryConstants DEF RingShape, Slots, Wrap
<1>6. Listed' = Listed
  BY <1>1 DEF hvars, Listed, start
<1>7. 1 \in DOMAIN Listed
  BY <1>3, ListedIsSeq, HistoryConstants
<1> QED BY <1>5, <1>6, <1>7 DEF Recent!LeaveOut

LEMMA ListStep == RingShape /\ [HNext]_hvars => [Recent!RNext]_Listed
<1> SUFFICES ASSUME RingShape, [HNext]_hvars PROVE [Recent!RNext]_Listed
  OBVIOUS
<1>1. CASE UNCHANGED hvars
  BY <1>1 DEF hvars, Listed, start
<1>2. CASE Reset
  <2>1. RingShape' /\ g_history_count' = 0
    BY <1>2, RingStep DEF Reset
  <2>2. (RingShape => Listed \in Seq(Texts \cup {"empty"}) /\ Len(Listed) = g_history_count)'
    BY ListedIsSeq, PTL
  <2>3. Listed' = <<>>
    BY <2>1, <2>2
  <2> QED BY <2>3 DEF Recent!RNext, Recent!Forget
<1>3. ASSUME NEW q \in Texts, add_to_history(q) PROVE [Recent!RNext]_Listed
  <2>1. Recent!Remember(q) \/ Recent!LeaveOut(q)
    BY <1>3, ListAdd, ListLeavesOut
  <2> QED BY <2>1 DEF Recent!RNext
<1> QED BY <1>1, <1>2, <1>3 DEF HNext

\* The ring implements the list of recent queries: what query_history shows
\* is, for a ring of any size and queries of any length, the queries executed
\* last in the order they were executed, and none is missing that is not on
\* the list already.
THEOREM HistoryImplementsRecent == HSpec => ListsRecent
<1>1. HInit => Recent!RInit
  BY ListInit
<1>2. RingShape /\ [HNext]_hvars => [Recent!RNext]_Listed
  BY ListStep
<1> QED BY <1>1, <1>2, RingInvariant, PTL DEF HSpec, ListsRecent, Recent!RSpec
=============================================================================
