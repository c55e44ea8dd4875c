---------------------------- MODULE RecentQueries ----------------------------
(***************************************************************************)
(* What the shell's query history promises its user: the queries executed  *)
(* last, oldest first, at most Size of them.  Since main.c:276 says that   *)
(* duplicates are not added, a query that is on the list may be left out;  *)
(* no other may.                                                           *)
(***************************************************************************)
EXTENDS Integers, Sequences

CONSTANTS
    Size,     \* how many queries are remembered
    Texts,    \* the queries a user types
    Clipped   \* a query as it is remembered, cut to the buffer's length

VARIABLE recent  \* the remembered queries, oldest first

RInit == recent = <<>>

\* The last Size entries of the list with q at its end
Appended(q) ==
    IF Len(recent) < Size THEN Append(recent, Clipped[q])
    ELSE Append(Tail(recent), Clipped[q])

Remember(q) == recent' = Appended(q)

LeaveOut(q) == (\E i \in DOMAIN recent : recent[i] = q) /\ UNCHANGED recent

\* The process ends: the history is not kept in a file
Forget == recent' = <<>>

RNext == (\E q \in Texts : Remember(q) \/ LeaveOut(q)) \/ Forget

RSpec == RInit /\ [][RNext]_recent
=============================================================================
