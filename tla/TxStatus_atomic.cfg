\* get_tx_status on a reliable node that mines, reorganises, evicts and
\* re-broadcasts the transaction between the two RPCs of a call.
CONSTANTS
  TransportFaults = FALSE
SPECIFICATION Spec
INVARIANT StatusOfSomeInstant
