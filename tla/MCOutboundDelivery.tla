------------------------ MODULE MCOutboundDelivery ------------------------
(* One delivery of two parts, or two deliveries of one, under the recovery *)
(* after a start and the drains of one channel.                            *)
EXTENDS OutboundDelivery

CONSTANTS d1, d2, startup, channel

MCTwoParts == [d \in Deliveries |-> 2]
MCOnePart == [d \in Deliveries |-> 1]
MCMatching == [k \in Drainers |-> Deliveries]
=============================================================================
