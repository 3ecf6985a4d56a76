---------------------------- MODULE LeaseStore ----------------------------
(***************************************************************************)
(* What GpuDataCache promises its callers, without entries, lists, waiting *)
(* or synchronization: a store of published frames, at most one per key,   *)
(* of bounded size, that lends them to any number of readers, lets one     *)
(* caller at a time produce a missing frame, and never takes a frame away  *)
(* from a reader.                                                          *)
(***************************************************************************)
EXTENDS Integers, FiniteSets

CONSTANTS Accesses, Keys, Shapes, MaxEntryCount

VARIABLES
    capacity,    \* frames the store has room for; 0 when it is not running
    broken,      \* no new lease until the store is closed
    published,   \* frames a reader may borrow
    lease        \* access -> its lease

storeVars == <<capacity, broken, published, lease>>

Frames  == [key : Keys, shape : Shapes]
Nothing == [kind |-> "none"]
Lease(kind, f) == [kind |-> kind, frame |-> f]

Holders(kind) == {a \in Accesses : lease[a].kind = kind}
Unused(f)     == \A a \in Holders("read") : lease[a].frame # f
AllReturned   == lease = [a \in Accesses |-> Nothing]
TakenKeys     == {f.key : f \in published} \cup {lease[a].frame.key : a \in Holders("fill")}

Grant(a, kind, f) == ~broken /\ lease[a] = Nothing /\ lease' = [lease EXCEPT ![a] = Lease(kind, f)]
Finish(a)         == lease' = [lease EXCEPT ![a] = Nothing]

Init == capacity = 0 /\ broken = FALSE /\ published = {} /\ lease = [a \in Accesses |-> Nothing]

\* A share of a published frame.
Borrow(a, f) == f \in published /\ Grant(a, "read", f) /\ UNCHANGED <<capacity, broken, published>>

\* The sole right to produce a frame whose key is neither published nor being
\* produced.  One frame without readers may have to make room.
Reserve(a, f) ==
    /\ f.key \notin TakenKeys
    /\ Grant(a, "fill", f)
    /\ \E evicted \in SUBSET {g \in published : Unused(g)} :
        /\ Cardinality(evicted) <= 1
        /\ published' = published \ evicted
    /\ Cardinality(published') + Cardinality(Holders("fill")) < capacity
    /\ UNCHANGED <<capacity, broken>>

\* The caller uses memory of its own.
GoPrivate(a, f) == Grant(a, "private", f) /\ UNCHANGED <<capacity, broken, published>>

\* The last reader may leave the frame discarded.
Return(a) ==
    LET f == lease[a].frame
        last == \A b \in Holders("read") \ {a} : lease[b].frame # f IN
    /\ lease[a].kind = "read"
    /\ Finish(a)
    /\ published' \in {published} \cup (IF last THEN {published \ {f}} ELSE {})
    /\ UNCHANGED <<capacity, broken>>

\* The frame is published, or the production failed or is not to be kept.
Settle(a) ==
    /\ lease[a].kind = "fill"
    /\ Finish(a)
    /\ published' \in {published, published \cup {lease[a].frame}}
    /\ UNCHANGED <<capacity, broken>>

EndPrivate(a) == lease[a].kind = "private" /\ Finish(a) /\ UNCHANGED <<capacity, broken, published>>

\* A lease moves to another access object.
Hand(a, b) ==
    /\ lease[a] = Nothing
    /\ lease[b] # Nothing
    /\ lease' = [lease EXCEPT ![a] = lease[b], ![b] = Nothing]
    /\ UNCHANGED <<capacity, broken, published>>

Break == broken' = TRUE /\ ~AllReturned /\ UNCHANGED <<capacity, published, lease>>

\* Opening, emptying and closing the store wait for every lease.
Open(n) ==
    /\ AllReturned
    /\ capacity = 0 /\ ~broken
    /\ capacity' = n
    /\ UNCHANGED <<broken, published, lease>>

Empty == AllReturned /\ ~broken /\ published' = {} /\ UNCHANGED <<capacity, broken, lease>>

Close ==
    /\ AllReturned
    /\ capacity' = 0
    /\ published' = {}
    /\ broken' \in {broken, FALSE}
    /\ UNCHANGED lease

Next ==
    \/ \E a \in Accesses :
        \/ \E f \in Frames : Borrow(a, f) \/ Reserve(a, f) \/ GoPrivate(a, f)
        \/ Return(a) \/ Settle(a) \/ EndPrivate(a)
        \/ \E b \in Accesses : Hand(a, b)
    \/ Break
    \/ \E n \in 0 .. MaxEntryCount : Open(n)
    \/ Empty
    \/ Close

Spec == Init /\ [][Next]_storeVars
=============================================================================
