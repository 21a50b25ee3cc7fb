---------------------------- MODULE MC_Multicast ----------------------------
(* Model-checking instances of the multicast engine.                       *)
EXTENDS Multicast

\* Payload sizes on both sides of sst_max_msg_size.
BothTransports == {"SST", "RDMC"}

\* resolve_num_received, which Multicast abstracts by the received set and
\* its contiguous prefix, over the indices 0..7.
RNR == INSTANCE ResolveNumReceived WITH MaxIdx <- 7

\* received_intervals is always the interval list of the received set,
\* whatever order the indices 0..7 arrive in, and the indices every member
\* has received of every sender lie in that range.
IntervalsExact ==
    /\ RNR!IntervalsExact
    /\ \A m \in Members, s \in Senders : rcv[m][s] \subseteq RNR!Indices

\* resolve_num_received returns the contiguous prefix of the received set,
\* and that is the num_received the engine's handlers use.
ReturnsContiguousPrefix ==
    /\ RNR!ReturnsContiguousPrefix
    /\ \A m \in Members, s \in Senders : NumReceived(rcv[m], s) = RNR!ContigMax(rcv[m][s])
=============================================================================
