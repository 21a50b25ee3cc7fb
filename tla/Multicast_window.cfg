\* Two senders, window 2, two application messages each on either
\* transport, in the first view (vid 0, where the sender thread's
\* persisted_num check works as intended): a sender's later SST message can
\* overtake its earlier RDMC message, so indices arrive out of order, and
\* null messages fill ring slots between application ones.  The engine
\* stops when the application stops sending, so deadlock is not an error.
CONSTANTS
    N = 2
    S = 2
    W = 2
    MaxSends = 2
    Vid = 0
    Transports <- BothTransports
SPECIFICATION Spec
INVARIANTS DeliveredIsStable DeliveryInOrder RingSlotsHeldUntilDelivered AtMostOneRdmcInFlight
    IntervalsExact ReturnsContiguousPrefix
PROPERTIES AllSentDelivered ImplementsTotalOrder PersistenceCatchesUp
CHECK_DEADLOCK FALSE
