--------------------------- MODULE IntrusiveList ---------------------------
(***************************************************************************)
(* The doubly linked lists that GpuDataCache threads through its entries:  *)
(* leastRecentlyUsed / mostRecentlyUsed with previousEvictable,            *)
(* nextEvictable and inEvictableList, and oldestFilled / newestFilled with *)
(* previousFilled, nextFilled and inFilledList.  Both are handled by the   *)
(* same code, so one module stands for either.                             *)
(*                                                                         *)
(* order is the sequence that GpuDataCache uses in place of the links; it  *)
(* is changed by the operators that module applies to it and is read by no *)
(* action.  The manager's mutex is held around every operation.            *)
(***************************************************************************)
EXTENDS Integers, SequencesExt

CONSTANT EntryCount   \* entries.size()

ASSUME EntryCountAssumption == EntryCount \in Nat

VARIABLES
    first, last,        \* leastRecentlyUsed, mostRecentlyUsed
    previous, next,     \* per entry
    inList,             \* per entry
    order               \* the list as a sequence; no counterpart in the code

listVars == <<first, last, previous, next, inList, order>>

NO_ENTRY == -1
Index    == 0 .. EntryCount - 1
Unlinked == [e \in Index |-> NO_ENTRY]

\* addEvictableEntry, addFilledEntry: link e behind the last entry.
AddEntry(e) ==
    /\ ~inList[e]
    /\ previous' = [previous EXCEPT ![e] = last]
    /\ next' = [i \in Index |-> IF i = e THEN NO_ENTRY ELSE IF i = last THEN e ELSE next[i]]
    /\ inList' = [inList EXCEPT ![e] = TRUE]
    /\ first' = IF last = NO_ENTRY THEN e ELSE first
    /\ last' = e
    /\ order' = Append(order, e)

\* Mutant: the successor keeps pointing at the removed entry.
PreviousLeft(e) == [previous EXCEPT ![e] = NO_ENTRY]

\* The predecessors once e is unlinked.
PreviousWithout(e) ==
    [i \in Index |-> IF i = e THEN NO_ENTRY
                     ELSE IF i = next[e] THEN previous[e] ELSE previous[i]]

\* removeEvictableEntry, removeFilledEntry: join the neighbours of e.
RemoveEntry(e) ==
    /\ inList[e]
    /\ next' = [i \in Index |-> IF i = e THEN NO_ENTRY
                                ELSE IF i = previous[e] THEN next[e] ELSE next[i]]
    /\ previous' = PreviousWithout(e)
    /\ first' = IF previous[e] = NO_ENTRY THEN next[e] ELSE first
    /\ last' = IF next[e] = NO_ENTRY THEN previous[e] ELSE last
    /\ inList' = [inList EXCEPT ![e] = FALSE]
    /\ order' = RemoveFirst(order, e)

\* resetEntriesLocked
ClearList ==
    /\ first' = NO_ENTRY /\ last' = NO_ENTRY
    /\ previous' = Unlinked /\ next' = Unlinked
    /\ inList' = [e \in Index |-> FALSE]
    /\ order' = <<>>

ListInit ==
    /\ first = NO_ENTRY /\ last = NO_ENTRY
    /\ previous = Unlinked /\ next = Unlinked
    /\ inList = [e \in Index |-> FALSE]
    /\ order = <<>>

ListNext == (\E e \in Index : AddEntry(e) \/ RemoveEntry(e)) \/ ClearList

ListSpec == ListInit /\ [][ListNext]_listVars
-----------------------------------------------------------------------------
\* The shape of the state.
TypeOK ==
    /\ first \in Index \cup {NO_ENTRY} /\ last \in Index \cup {NO_ENTRY}
    /\ previous \in [Index -> Index \cup {NO_ENTRY}]
    /\ next \in [Index -> Index \cup {NO_ENTRY}]
    /\ inList \in [Index -> BOOLEAN]
    /\ order \in Seq(Index)

\* The links are the sequence, read from either end: each linked entry points
\* at its two neighbours, the ends of the list point at nothing, and an entry
\* that is not in the list points nowhere.
LinksMatchOrder ==
    /\ IsInjective(order)
    /\ \A e \in Index : inList[e] <=> e \in Range(order)
    /\ first = IF order = <<>> THEN NO_ENTRY ELSE order[1]
    /\ last = IF order = <<>> THEN NO_ENTRY ELSE order[Len(order)]
    /\ \A i \in 1 .. Len(order) :
        /\ next[order[i]] = IF i = Len(order) THEN NO_ENTRY ELSE order[i + 1]
        /\ previous[order[i]] = IF i = 1 THEN NO_ENTRY ELSE order[i - 1]
    /\ \A e \in Index : ~inList[e] => next[e] = NO_ENTRY /\ previous[e] = NO_ENTRY
=============================================================================
