--------------------------- MODULE MCRelayDelivery ---------------------------
(* RelayDelivery for TLC: one phone beside the appliance and the relay.    *)
EXTENDS RelayDelivery

CONSTANT a
=============================================================================
