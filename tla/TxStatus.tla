------------------------------ MODULE TxStatus ------------------------------
(***************************************************************************)
(* Client::get_tx_status (src/romeo/src/bitcoin_client.rs).               *)
(*                                                                         *)
(* A poller repeatedly asks the node for the status of one transaction.   *)
(* Each call makes two sequential RPCs, getrawtransaction (is_confirmed)   *)
(* and getmempoolentry (in_mempool), and classifies the pair.  Between and *)
(* during the two RPCs the node moves the transaction: it is mined, a      *)
(* reorganisation returns it to the mempool, it is evicted, or it is       *)
(* broadcast again.  An RPC may fail at the transport level when           *)
(* TransportFaults is TRUE; the code turns any RPC error into FALSE.       *)
(***************************************************************************)
EXTENDS Naturals

CONSTANTS
  TransportFaults   \* may an RPC fail (connection refused, timeout, 5xx)?

ASSUME TransportFaults \in BOOLEAN

\* Where the node holds the transaction.  "none": neither in the mempool
\* nor in the active chain (never relayed, evicted, or conflicted out).
Locations == {"none", "mempool", "chain"}

\* crate::event::TransactionStatus values returned by get_tx_status.
Statuses == {"Confirmed", "Broadcasted", "Rejected"}

VARIABLES
  txLoc,        \* the node's state of the transaction
  pc,           \* the poller: "idle", "get_mempool_entry" or "panicked"
  isConfirmed,  \* result of the first RPC, held across the await
  inMempool,    \* result of the second RPC
  during,       \* history: every location the tx had during the last call
  status        \* result of the last completed call ("none" before any)

vars == <<txLoc, pc, isConfirmed, inMempool, during, status>>

TypeOK ==
  /\ txLoc \in Locations
  /\ pc \in {"idle", "get_mempool_entry", "panicked"}
  /\ isConfirmed \in BOOLEAN
  /\ inMempool \in BOOLEAN
  /\ during \subseteq Locations
  /\ status \in Statuses \cup {"none"}

\* Whether one execute(...) round trip fails at the transport level.
RpcFailures == IF TransportFaults THEN BOOLEAN ELSE {FALSE}

(***************************************************************************)
(* Lines 119-125: get_raw_transaction_info(...).ok()                       *)
(*   .and_then(|tx| tx.confirmations).map(|c| c > 0).unwrap_or_default().  *)
(* A mempool transaction has no confirmations field; a transaction the     *)
(* node does not know is an RPC error; both, and a transport error, give   *)
(* FALSE.  A transaction in the active chain has at least 1 confirmation.  *)
(***************************************************************************)
IsConfirmedAnswer(loc, failed) == ~failed /\ loc = "chain"

\* Lines 127-130: get_mempool_entry(&txid).is_ok().
InMempoolAnswer(loc, failed) == ~failed /\ loc = "mempool"

\* A faulty variant of the match below with the two arms of a single fact
\* exchanged.
ClassifySwapped(c, m) ==
  IF c /\ ~m THEN "Broadcasted" ELSE IF ~c /\ m THEN "Confirmed" ELSE "Rejected"

(***************************************************************************)
(* Lines 132-139: the match on (is_confirmed, in_mempool).  (true, true)   *)
(* is the panic arm and has no status; callers check it first.             *)
(***************************************************************************)
Classify(c, m) ==
  IF c /\ ~m THEN "Confirmed" ELSE IF ~c /\ m THEN "Broadcasted" ELSE "Rejected"

\* Record the tx's new location while a call is between its two RPCs.
Observe(loc) == IF pc = "get_mempool_entry" THEN during \cup {loc} ELSE during

(***************************************************************************)
(* Poller: the first RPC of a call (lines 119-125).                        *)
(***************************************************************************)
GetRawTransactionInfo ==
  /\ pc = "idle"
  /\ \E failed \in RpcFailures :
       isConfirmed' = IsConfirmedAnswer(txLoc, failed)
  /\ during' = {txLoc}
  /\ pc' = "get_mempool_entry"
  /\ UNCHANGED <<txLoc, inMempool, status>>

(***************************************************************************)
(* Poller: the second RPC and the classification (lines 127-143).  The     *)
(* (true, true) pair panics the task: nothing is returned.                 *)
(***************************************************************************)
GetMempoolEntry ==
  /\ pc = "get_mempool_entry"
  /\ \E failed \in RpcFailures :
       LET m == InMempoolAnswer(txLoc, failed) IN
       /\ inMempool' = m
       /\ IF isConfirmed /\ m
            THEN /\ pc' = "panicked"
                 /\ UNCHANGED status
            ELSE /\ pc' = "idle"
                 /\ status' = Classify(isConfirmed, m)
  /\ UNCHANGED <<txLoc, isConfirmed, during>>

(***************************************************************************)
(* The node.                                                               *)
(***************************************************************************)
Mine ==
  /\ txLoc = "mempool"
  /\ txLoc' = "chain"
  /\ during' = Observe("chain")
  /\ UNCHANGED <<pc, isConfirmed, inMempool, status>>

\* The block holding the tx is disconnected; the tx returns to the mempool.
Reorg ==
  /\ txLoc = "chain"
  /\ txLoc' = "mempool"
  /\ during' = Observe("mempool")
  /\ UNCHANGED <<pc, isConfirmed, inMempool, status>>

\* Expiry, eviction, or a conflicting spend mined.
Evict ==
  /\ txLoc = "mempool"
  /\ txLoc' = "none"
  /\ during' = Observe("none")
  /\ UNCHANGED <<pc, isConfirmed, inMempool, status>>

Rebroadcast ==
  /\ txLoc = "none"
  /\ txLoc' = "mempool"
  /\ during' = Observe("mempool")
  /\ UNCHANGED <<pc, isConfirmed, inMempool, status>>

Init ==
  /\ txLoc \in Locations
  /\ pc = "idle"
  /\ isConfirmed = FALSE
  /\ inMempool = FALSE
  /\ during = {}
  /\ status = "none"

Next ==
  \/ GetRawTransactionInfo
  \/ GetMempoolEntry
  \/ Mine
  \/ Reorg
  \/ Evict
  \/ Rebroadcast

Spec == Init /\ [][Next]_vars

(***************************************************************************)
(* Properties                                                              *)
(***************************************************************************)

\* A positive status is evidence: get_tx_status returns Confirmed only if
\* the tx was in the active chain, and Broadcasted only if it was in the
\* mempool, at some instant of that call, whatever the node did between
\* the two RPCs and whichever RPCs failed.
ReportWitnessed ==
  pc = "idle" =>
    /\ status = "Confirmed" => "chain" \in during
    /\ status = "Broadcasted" => "mempool" \in during

\* Spec 4.5 and 9: get_tx_status reports the state of the transaction at
\* one instant of the call, as if both facts were read together: the call
\* returns (it does not hit the (true, true) panic), and Rejected means
\* the tx was in neither the chain nor the mempool at some instant of it.
StatusOfSomeInstant ==
  /\ pc # "panicked"
  /\ (pc = "idle" /\ status = "Rejected") => "none" \in during

=============================================================================
