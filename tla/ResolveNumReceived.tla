-------------------------- MODULE ResolveNumReceived --------------------------
(***************************************************************************)
(* MulticastGroup::resolve_num_received (src/derecho/rpc_manager.h): one   *)
(* column of received_intervals, a std::list of interval endpoints         *)
(* a1, b1, a2, b2, ... that starts as {-1, -1}.  Each received index is    *)
(* folded in by the code's list surgery, and the end of the first          *)
(* interval is returned as the new num_received.                           *)
(*                                                                         *)
(* The operators are checked against a reference, the canonical interval  *)
(* list of the received set, for every set of indices 0..MaxIdx and every  *)
(* index that can arrive next, as the two transports may deliver them out  *)
(* of order.  The Multicast module uses the reference, ContigMax, in place *)
(* of the list.                                                            *)
(***************************************************************************)
EXTENDS Integers, Sequences, SequencesExt

CONSTANT MaxIdx

Indices == 0..MaxIdx

\* `while(*it > index) it--;` from the last element.
RECURSIVE Back(_, _, _)
Back(L, x, i) == IF L[i] > x THEN Back(L, x, i - 1) ELSE i

\* Mutant: extending an interval's end erases the following endpoint
\* instead of the old end.
ResolveEraseNext(L, x) ==
    LET p == Back(L, x, Len(L)) IN
    IF p = Len(L)
    THEN IF L[p] = x - 1 THEN ReplaceAt(L, p, x) ELSE L \o <<x, x>>
    ELSE IF L[p] # x - 1
         THEN LET L1 == InsertAt(L, p + 1, x) IN
              IF L1[p + 2] # x + 1 THEN InsertAt(L1, p + 2, x) ELSE RemoveAt(L1, p + 2)
         ELSE IF L[p + 1] # x + 1 THEN RemoveAt(InsertAt(L, p + 1, x), p + 2)
              ELSE RemoveAt(RemoveAt(L, p + 1), p)

\* The list after index x is received: extend, open, join or merge
\* intervals around the last endpoint not above x.
Resolve(L, x) ==
    LET p == Back(L, x, Len(L)) IN
    IF p = Len(L)
    THEN IF L[p] = x - 1 THEN ReplaceAt(L, p, x) ELSE L \o <<x, x>>
    ELSE IF L[p] # x - 1
         THEN LET L1 == InsertAt(L, p + 1, x) IN
              IF L1[p + 2] # x + 1 THEN InsertAt(L1, p + 2, x) ELSE RemoveAt(L1, p + 2)
         ELSE IF L[p + 1] # x + 1 THEN RemoveAt(InsertAt(L, p + 1, x), p)
              ELSE RemoveAt(RemoveAt(L, p + 1), p)

\* received_intervals is constructed as {-1, -1}.
InitialIntervals == <<-1, -1>>

\* Mutant: the call returns the end of the last interval.
ResolveReturnsLast(L, x) ==
    LET L2 == Resolve(L, x) IN [intervals |-> L2, ret |-> L2[Len(L2)]]

\* One call for index x on the list L: the new list, and the end of the
\* first interval returned as num_received.
ResolveNumReceived(L, x) ==
    LET L2 == Resolve(L, x) IN [intervals |-> L2, ret |-> L2[2]]

-----------------------------------------------------------------------------
\* Reference: the maximal runs of received indices, with -1 always present,
\* as the sorted list of their first and last elements.
IntervalList(X) ==
    LET R == X \cup {-1}
        starts == SetToSortSeq({a \in R : a - 1 \notin R}, <)
        ends == SetToSortSeq({b \in R : b + 1 \notin R}, <)
    IN [i \in 1..(2 * Len(starts)) |->
            IF i % 2 = 1 THEN starts[(i + 1) \div 2] ELSE ends[i \div 2]]

ContigMax(X) == CHOOSE n \in -1..MaxIdx : (0..n \subseteq X) /\ (n + 1) \notin X

\* Whatever order the indices 0..MaxIdx arrive in, the list is exactly the
\* interval list of the received set: it starts as that of the empty set,
\* and a call for any index not yet received takes the list of a set X to
\* the list of X \cup {x} (so, by induction, every arrival order does).
IntervalsExact ==
    /\ InitialIntervals = IntervalList({})
    /\ \A X \in SUBSET Indices, x \in Indices :
           x \notin X => ResolveNumReceived(IntervalList(X), x).intervals = IntervalList(X \cup {x})

\* The value each call returns, the new num_received, is the largest n
\* such that 0..n have all been received.
ReturnsContiguousPrefix ==
    \A X \in SUBSET Indices, x \in Indices :
        x \notin X => ResolveNumReceived(IntervalList(X), x).ret = ContigMax(X \cup {x})
=============================================================================
