----------------------------- MODULE BlockPolling -----------------------------
(***************************************************************************)
(* Client::get_block (src/romeo/src/bitcoin_client.rs): poll getblockhash  *)
(* for a height until the node has a block there, sleeping 5 s between     *)
(* attempts, then fetch the block with getblock.  The node's tip grows by  *)
(* mining.  Each RPC may fail at the transport level (connection refused,  *)
(* timeout, an HTTP error status such as 401) and, when RpcErrors is TRUE, *)
(* answer an RPC error other than -8 (e.g. -5 on a pruned node).           *)
(***************************************************************************)
EXTENDS Naturals

CONSTANTS
  Height,     \* block_height requested
  MaxTip,     \* bound on the node's tip height
  RpcErrors   \* may the node answer an RPC error code other than -8?

ASSUME Height \in Nat /\ MaxTip \in Nat /\ Height <= MaxTip
ASSUME RpcErrors \in BOOLEAN

VARIABLES
  tip,    \* the node's best block height
  pc,     \* "get_block_hash", "sleep", "get_block", "done" or "failed"
  error   \* why the call failed: "none", "rpc_error" or "get_block"

vars == <<tip, pc, error>>

TypeOK ==
  /\ tip \in 0..MaxTip
  /\ pc \in {"get_block_hash", "sleep", "get_block", "done", "failed"}
  /\ error \in {"none", "rpc_error", "get_block"}

(***************************************************************************)
(* Lines 151-165: getblockhash answers Ok(hash): break out of the loop.    *)
(***************************************************************************)
GetBlockHashFound ==
  /\ pc = "get_block_hash"
  /\ Height <= tip
  /\ pc' = "get_block"
  /\ UNCHANGED <<tip, error>>

\* A faulty variant of GetBlockHashNotFound that returns -8 to the caller
\* as an error instead of polling again.
GetBlockHashNotFoundFatal ==
  /\ pc = "get_block_hash"
  /\ tip < Height
  /\ pc' = "failed"
  /\ error' = "not_found"
  /\ UNCHANGED tip

(***************************************************************************)
(* Lines 167-171: RPC error -8, "Block height out of range": retry.        *)
(***************************************************************************)
GetBlockHashNotFound ==
  /\ pc = "get_block_hash"
  /\ tip < Height
  /\ pc' = "sleep"
  /\ UNCHANGED <<tip, error>>

(***************************************************************************)
(* Lines 179-183: a transport error: retry, whatever the height.           *)
(***************************************************************************)
GetBlockHashTransportError ==
  /\ pc = "get_block_hash"
  /\ pc' = "sleep"
  /\ UNCHANGED <<tip, error>>

(***************************************************************************)
(* Lines 172-177 and 184-186: any other RPC error code, or any other       *)
(* bitcoincore_rpc error: return Err.                                      *)
(***************************************************************************)
GetBlockHashRpcError ==
  /\ pc = "get_block_hash"
  /\ pc' = "failed"
  /\ RpcErrors
  /\ error' = "rpc_error"
  /\ UNCHANGED tip

\* Line 189: sleep(BLOCK_POLLING_INTERVAL), then loop.
Sleep ==
  /\ pc = "sleep"
  /\ pc' = "get_block_hash"
  /\ UNCHANGED <<tip, error>>

(***************************************************************************)
(* Lines 192-196: execute(get_block(&block_hash))??, not retried.          *)
(***************************************************************************)
GetBlockOk ==
  /\ pc = "get_block"
  /\ pc' = "done"
  /\ UNCHANGED <<tip, error>>

GetBlockError ==
  /\ pc = "get_block"
  /\ pc' = "failed"
  /\ error' = "get_block"
  /\ UNCHANGED tip

\* The node mines a block.
Mine ==
  /\ tip < MaxTip
  /\ tip' = tip + 1
  /\ UNCHANGED <<pc, error>>

Init ==
  /\ tip \in 0..MaxTip
  /\ pc = "get_block_hash"
  /\ error = "none"

Next ==
  \/ GetBlockHashFound
  \/ GetBlockHashNotFound
  \/ GetBlockHashTransportError
  \/ GetBlockHashRpcError
  \/ Sleep
  \/ GetBlockOk
  \/ GetBlockError
  \/ Mine

(***************************************************************************)
(* Fairness.  Every request gets an answer: the node replies or the HTTP  *)
(* transport times out, so a pending getblockhash or getblock step is      *)
(* weakly fair as a whole (whichever answer it is).  The tokio timer fires *)
(* (WF Sleep); the chain keeps growing (WF Mine); transport failures are   *)
(* not permanent, so a request that can succeed infinitely often          *)
(* eventually does (SF on the successful answers, which are only          *)
(* intermittently enabled because transport errors are always possible).  *)
(***************************************************************************)
PollAnswer ==
  \/ GetBlockHashFound
  \/ GetBlockHashNotFound
  \/ GetBlockHashTransportError
  \/ GetBlockHashRpcError

FetchAnswer == GetBlockOk \/ GetBlockError

Fairness ==
  /\ WF_vars(PollAnswer)
  /\ WF_vars(FetchAnswer)
  /\ WF_vars(Sleep)
  /\ WF_vars(Mine)
  /\ SF_vars(GetBlockHashFound)
  /\ SF_vars(GetBlockHashNotFound)
  /\ SF_vars(GetBlockOk)

Spec == Init /\ [][Next]_vars /\ Fairness

(***************************************************************************)
(* Properties                                                              *)
(***************************************************************************)

\* Spec 4.3 and 7: the polling loop absorbs "not found" and transport
\* errors: once the height exists and the node is reachable, it leaves the
\* loop with the hash, and it fails only on a non-retryable RPC error.
PollingResolves ==
  pc = "get_block_hash" ~> (pc \in {"get_block", "done"} \/ error = "rpc_error")

\* Spec 7: transient node faults, transport errors included, are retried
\* indefinitely and never surfaced: unless the node answers a
\* non-retryable RPC error, get_block returns the block.
GetBlockReturnsBlock ==
  pc = "get_block_hash" ~> (pc = "done" \/ error = "rpc_error")

=============================================================================
