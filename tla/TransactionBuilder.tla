------------------------- MODULE TransactionBuilder -------------------------
(***************************************************************************)
(* Client::sign_and_broadcast (src/romeo/src/bitcoin_client.rs) run by     *)
(* several concurrent tasks against one shared wallet, an Electrum server  *)
(* that indexes the node's transactions with a lag, and a Bitcoin node.    *)
(*                                                                         *)
(* Each invocation: sleep; take the wallet mutex; sync the wallet from     *)
(* Electrum; build (coin selection over the synced wallet, outputs         *)
(* reordered); sign; drop the mutex at the end of the spawn_blocking       *)
(* closure; then broadcast through the node's sendrawtransaction.          *)
(*                                                                         *)
(* Amounts and scripts are abstracted away: a transaction is identified by *)
(* the request it pays (its outputs) and the funding coins it spends.      *)
(* Signing is deterministic, so the same request built on the same inputs  *)
(* is the same transaction.  Change outputs are not re-spent.              *)
(***************************************************************************)
EXTENDS Naturals, FiniteSets

CONSTANTS
  Callers,          \* tasks that call sign_and_broadcast, each for its own request
  Funding,          \* the wallet's coins before any invocation
  MaxAttempts,      \* invocations per request: the first and the re-invocations
  TransportFaults,  \* may the node RPC fail or lose its response?
  NoHolder,         \* model value: the wallet mutex is free
  NoTx              \* model value: an invocation has no transaction yet

ASSUME MaxAttempts \in Nat \ {0}
ASSUME TransportFaults \in BOOLEAN

\* A transaction: the request it pays and the coins it spends.
Txs == [req : Callers, ins : SUBSET Funding \ {{}}]

\* Program points of one invocation.  "lock": after the 3 s sleep, waiting
\* for the mutex; "sync", "build", "sign": inside the closure, mutex held;
\* "broadcast": closure returned, mutex dropped.
PCs == {"idle", "lock", "sync", "build", "sign", "broadcast", "done", "failed"}

VARIABLES
  pc,           \* program point of each caller's current invocation
  attempts,     \* invocations each caller has made
  lockHolder,   \* the std::sync::Mutex around the Wallet
  walletUtxos,  \* the wallet's MemoryDatabase: the coins it believes unspent
  draft,        \* the transaction the invocation built / signed / broadcasts
  mempool,      \* the node's mempool
  chain,        \* transactions in the node's active chain
  indexed,      \* transactions the Electrum server has indexed
  signedTxs     \* history: every transaction an invocation signed

vars == <<pc, attempts, lockHolder, walletUtxos, draft, mempool, chain,
          indexed, signedTxs>>

TypeOK ==
  /\ pc \in [Callers -> PCs]
  /\ attempts \in [Callers -> 0..MaxAttempts]
  /\ lockHolder \in Callers \cup {NoHolder}
  /\ walletUtxos \subseteq Funding
  /\ draft \in [Callers -> Txs \cup {NoTx}]
  /\ mempool \subseteq Txs
  /\ chain \subseteq Txs
  /\ indexed \subseteq mempool \cup chain
  /\ signedTxs \subseteq Txs

\* Coins spent by a set of transactions.
SpentBy(txs) == UNION {tx.ins : tx \in txs}

\* Transactions the node holds.
InNode == mempool \cup chain

(***************************************************************************)
(* Node policy for sendrawtransaction: a transaction already in the        *)
(* mempool is accepted again (its txid is returned); one already in a      *)
(* block is refused; one that spends a coin another held transaction       *)
(* spends is refused as a conflict (no replace-by-fee).                    *)
(***************************************************************************)
Conflicts(tx) == \E other \in InNode : other # tx /\ other.ins \cap tx.ins # {}

Accepts(tx) == tx \notin chain /\ ~Conflicts(tx)

\* An invocation ends with an error: the caller sees Err.
Fail(c) == pc' = [pc EXCEPT ![c] = "failed"]

(***************************************************************************)
(* Lines 214-221: sign_and_broadcast is called; it sleeps 3 s and clones   *)
(* the Arc handles.  A caller whose invocation failed may call again for   *)
(* the same outputs (spec 7); a successful caller does not.                *)
(***************************************************************************)
Invoke(c) ==
  /\ pc[c] \in {"idle", "failed"}
  /\ attempts[c] < MaxAttempts
  /\ attempts' = [attempts EXCEPT ![c] = @ + 1]
  /\ pc' = [pc EXCEPT ![c] = "lock"]
  /\ draft' = [draft EXCEPT ![c] = NoTx]
  /\ UNCHANGED <<lockHolder, walletUtxos, mempool, chain, indexed, signedTxs>>

(***************************************************************************)
(* Lines 224-227: inside spawn_blocking, wallet.lock() blocks until the    *)
(* mutex is free.  (It would return Err only for a poisoned mutex; nothing *)
(* in the closure panics while holding it.)                                *)
(***************************************************************************)
Lock(c) ==
  /\ pc[c] = "lock"
  /\ lockHolder = NoHolder
  /\ lockHolder' = c
  /\ pc' = [pc EXCEPT ![c] = "sync"]
  /\ UNCHANGED <<attempts, walletUtxos, draft, mempool, chain, indexed, signedTxs>>

(***************************************************************************)
(* Line 229: wallet.sync(&blockchain, ...)?  The database is rebuilt from  *)
(* what Electrum has indexed: a coin is unspent unless an indexed          *)
(* transaction spends it.  An Electrum error returns from the closure,     *)
(* dropping the guard.                                                     *)
(***************************************************************************)
Sync(c) ==
  /\ pc[c] = "sync"
  /\ \/ /\ walletUtxos' = Funding \ SpentBy(indexed)
        /\ pc' = [pc EXCEPT ![c] = "build"]
        /\ UNCHANGED lockHolder
     \/ /\ TransportFaults
        /\ Fail(c)
        /\ lockHolder' = NoHolder
        /\ UNCHANGED walletUtxos
  /\ UNCHANGED <<attempts, draft, mempool, chain, indexed, signedTxs>>

\* A faulty variant of Build whose guard is scoped to coin selection only:
\* the mutex is released before the transaction is signed.
BuildReleasesGuard(c) ==
  /\ pc[c] = "build"
  /\ \E ins \in SUBSET walletUtxos \ {{}} :
       /\ draft' = [draft EXCEPT ![c] = [req |-> c, ins |-> ins]]
       /\ pc' = [pc EXCEPT ![c] = "sign"]
       /\ lockHolder' = NoHolder
  /\ UNCHANGED <<attempts, walletUtxos, mempool, chain, indexed, signedTxs>>

(***************************************************************************)
(* Lines 231-240: build_tx, add_recipient for each output, finish() (coin  *)
(* selection over the database's unspent coins; InsufficientFunds when     *)
(* there are none), then reorder_outputs (ConstructionUtils.tla).  A draft *)
(* records the request and the coins it spends; its outputs, and what      *)
(* reorder_outputs does to them, are abstracted away.                      *)
(***************************************************************************)
Build(c) ==
  /\ pc[c] = "build"
  /\ \/ \E ins \in SUBSET walletUtxos \ {{}} :
          /\ draft' = [draft EXCEPT ![c] = [req |-> c, ins |-> ins]]
          /\ pc' = [pc EXCEPT ![c] = "sign"]
          /\ UNCHANGED lockHolder
     \/ /\ walletUtxos = {}
        /\ Fail(c)
        /\ lockHolder' = NoHolder
        /\ UNCHANGED draft
  /\ UNCHANGED <<attempts, walletUtxos, mempool, chain, indexed, signedTxs>>

(***************************************************************************)
(* Lines 242-246: wallet.sign(...)?, extract_tx(); the closure returns and *)
(* the guard is dropped on both paths.                                     *)
(***************************************************************************)
Sign(c) ==
  /\ pc[c] = "sign"
  /\ lockHolder' = NoHolder
  /\ \/ /\ signedTxs' = signedTxs \cup {draft[c]}
        /\ pc' = [pc EXCEPT ![c] = "broadcast"]
     \/ /\ Fail(c)
        /\ UNCHANGED signedTxs
  /\ UNCHANGED <<attempts, walletUtxos, draft, mempool, chain, indexed>>

\* A faulty variant of Broadcast that awaits the node's acceptance and has
\* no error path for a refused transaction.
BroadcastNoReject(c) ==
  /\ pc[c] = "broadcast"
  /\ Accepts(draft[c])
  /\ mempool' = mempool \cup {draft[c]}
  /\ pc' = [pc EXCEPT ![c] = "done"]
  /\ UNCHANGED <<attempts, lockHolder, walletUtxos, draft, chain, indexed, signedTxs>>

(***************************************************************************)
(* Lines 248-252: execute(send_raw_transaction)??.  The node accepts the   *)
(* transaction and answers; or accepts it and the answer is lost (a        *)
(* transport error after the request reached it); or refuses it; or the    *)
(* request never reaches it.  Every error is returned to the caller.       *)
(***************************************************************************)
Broadcast(c) ==
  /\ pc[c] = "broadcast"
  /\ LET tx == draft[c] IN
     \/ /\ Accepts(tx)
        /\ mempool' = mempool \cup {tx}
        /\ pc' = [pc EXCEPT ![c] = "done"]
     \/ /\ Accepts(tx)
        /\ TransportFaults
        /\ mempool' = mempool \cup {tx}
        /\ Fail(c)
     \/ /\ ~Accepts(tx)
        /\ Fail(c)
        /\ UNCHANGED mempool
     \/ /\ TransportFaults
        /\ Fail(c)
        /\ UNCHANGED mempool
  /\ UNCHANGED <<attempts, lockHolder, walletUtxos, draft, chain, indexed, signedTxs>>

(***************************************************************************)
(* The node and the Electrum server.                                       *)
(***************************************************************************)
Mine ==
  \E tx \in mempool :
    /\ chain' = chain \cup {tx}
    /\ mempool' = mempool \ {tx}
    /\ UNCHANGED <<pc, attempts, lockHolder, walletUtxos, draft, indexed, signedTxs>>

\* Electrum catches up with one transaction the node holds.
Index ==
  \E tx \in InNode \ indexed :
    /\ indexed' = indexed \cup {tx}
    /\ UNCHANGED <<pc, attempts, lockHolder, walletUtxos, draft, mempool, chain, signedTxs>>

Init ==
  /\ pc = [c \in Callers |-> "idle"]
  /\ attempts = [c \in Callers |-> 0]
  /\ lockHolder = NoHolder
  /\ walletUtxos = {}
  /\ draft = [c \in Callers |-> NoTx]
  /\ mempool = {}
  /\ chain = {}
  /\ indexed = {}
  /\ signedTxs = {}

Next ==
  \/ \E c \in Callers :
       \/ Invoke(c)
       \/ Lock(c)
       \/ Sync(c)
       \/ Build(c)
       \/ Sign(c)
       \/ Broadcast(c)
  \/ Mine
  \/ Index

\* Every step of an invocation that has started is taken eventually: the
\* tokio blocking pool runs the closure, the mutex holder always releases
\* it, and the RPC returns (the HTTP transport has a timeout).  Invoking is
\* the caller's choice and the node's mining and indexing are not needed.
Fairness ==
  \A c \in Callers :
    /\ WF_vars(Lock(c))
    /\ WF_vars(Sync(c))
    /\ WF_vars(Build(c))
    /\ WF_vars(Sign(c))
    /\ WF_vars(Broadcast(c))

Spec == Init /\ [][Next]_vars /\ Fairness

(***************************************************************************)
(* Properties                                                              *)
(***************************************************************************)

\* Spec 4.4: holding the wallet lock over sync, build and sign keeps two
\* concurrent invocations from racing over the same funds: no two signed
\* transactions of different requests spend a common coin.
NoConflictingSignedTxs ==
  \A t1, t2 \in signedTxs :
    t1.req # t2.req => t1.ins \cap t2.ins = {}

\* Spec 7: re-invoking after a failed broadcast is idempotent: the node
\* never holds two transactions paying the same request.
AtMostOnePaymentPerRequest ==
  \A c \in Callers : Cardinality({tx \in InNode : tx.req = c}) <= 1

(***************************************************************************)
(* Refinement: the invocations, seen only through where each one is,      *)
(* implement SerializedBuilder.  The sync+build+sign span is the closure   *)
(* from the moment it holds the mutex to its return.                       *)
(***************************************************************************)
AbstractStage ==
  [c \in Callers |->
     CASE pc[c] = "lock" -> "waiting"
       [] pc[c] \in {"sync", "build", "sign"} -> "critical"
       [] pc[c] = "broadcast" -> "broadcasting"
       [] OTHER -> pc[c]]

SB == INSTANCE SerializedBuilder WITH stage <- AbstractStage

\* Spec 4.4, 5 and 8: concurrent invocations never interleave their
\* sync/build/sign spans, each span is followed by the broadcast or an
\* error, and every invocation returns.
RefinesSerializedBuilder == SB!Spec

=============================================================================
