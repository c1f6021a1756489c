\* get_tx_status under a node that mines, reorganises, evicts and
\* re-broadcasts, with RPC transport faults.
CONSTANTS
  TransportFaults = TRUE
SPECIFICATION Spec
INVARIANT ReportWitnessed
