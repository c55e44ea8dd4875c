------------------------------- MODULE History -------------------------------
(***************************************************************************)
(* The query history of src/main.c: a ring of HISTORY_SIZE slots, filled   *)
(* by add_to_history and listed by query_history.                          *)
(***************************************************************************)
EXTENDS Integers, Sequences

CONSTANTS
    HISTORY_SIZE,  \* 100 in the code
    Texts,         \* the queries a user types; none is empty
    Clipped        \* a query cut to MAX_QUERY_LEN - 1 characters

ASSUME HistoryConstants ==
    /\ HISTORY_SIZE \in Nat \ {0}
    /\ Clipped \in [Texts -> Texts]
    /\ "empty" \notin Texts

VARIABLES g_history, g_history_index, g_history_count

hvars == <<g_history, g_history_index, g_history_count>>

Slots == 0 .. HISTORY_SIZE - 1

\* Static variables: every slot is the empty string, "empty" here
HInit ==
    /\ g_history = [i \in Slots |-> "empty"]
    /\ g_history_index = 0
    /\ g_history_count = 0

-----------------------------------------------------------------------------
\* The slot compared is the one about to be overwritten; the query is
\* compared in full with what is stored cut
Repeated(q) == g_history_count > 0 /\ g_history[g_history_index] = q

\* Mutant: the count grows past the ring
add_to_history_Uncapped(q) ==
    IF Repeated(q) THEN UNCHANGED hvars
    ELSE /\ g_history' = [g_history EXCEPT ![g_history_index] = Clipped[q]]
         /\ g_history_index' = (g_history_index + 1) % HISTORY_SIZE
         /\ g_history_count' = g_history_count + 1

add_to_history(q) ==
    IF Repeated(q) THEN UNCHANGED hvars
    ELSE /\ g_history' = [g_history EXCEPT ![g_history_index] = Clipped[q]]
         /\ g_history_index' = (g_history_index + 1) % HISTORY_SIZE
         /\ g_history_count' = IF g_history_count < HISTORY_SIZE
                               THEN g_history_count + 1 ELSE g_history_count

\* Mutant: off by one
start_OffByOne == (g_history_index - g_history_count + HISTORY_SIZE + 1) % HISTORY_SIZE

\* Slot of the oldest entry
start == (g_history_index - g_history_count + HISTORY_SIZE) % HISTORY_SIZE

\* The entries query_history prints, numbered from 1; entry i is also what is
\* executed again when the user asks for number i
Listed == [i \in 1 .. g_history_count |-> g_history[(start + i - 1) % HISTORY_SIZE]]

\* A new process
Reset ==
    /\ g_history' = [i \in Slots |-> "empty"]
    /\ g_history_index' = 0
    /\ g_history_count' = 0

HNext == (\E q \in Texts : add_to_history(q)) \/ Reset

HSpec == HInit /\ [][HNext]_hvars

-----------------------------------------------------------------------------
\* Where the ring stands: until it is full it has been filled from slot 0 up,
\* and the slots from the index on are still empty; every other slot holds a
\* query (add_to_history).
RingShape ==
    /\ g_history \in [Slots -> Texts \cup {"empty"}]
    /\ g_history_index \in Slots
    /\ g_history_count \in 0 .. HISTORY_SIZE
    /\ g_history_count < HISTORY_SIZE => g_history_index = g_history_count
    /\ \A i \in Slots : g_history[i] = "empty" <=> i >= g_history_count

Recent == INSTANCE RecentQueries WITH Size <- HISTORY_SIZE, recent <- Listed

\* What query_history lists is always the queries executed last, in order and
\* at most HISTORY_SIZE of them: add_to_history loses none that is not on the
\* list, and drops none but the oldest.
ListsRecent == Recent!RSpec
=============================================================================
