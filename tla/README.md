# TLA+ models of the sBTC alpha components

This directory holds TLA+ models of the three Rust sources of the repository. Each model is checked with TLC.

| Source | What it holds |
|---|---|
| `src/romeo/src/bitcoin_client.rs` | The Bitcoin chain client: construction, RPC execution, broadcast, height and block fetch, status polling, and transaction building over a shared wallet. |
| `src/sbtc-core/src/operations/construction/utils.rs` | Wallet setup, OP_RETURN scripts, and output reordering. |
| `src/stacks-core/src/address.rs` | Stacks address derivation. |

## The system and its parts

| Component | Source | Module | Status |
|---|---|---|---|
| StatusResolver (`get_tx_status`) | bitcoin_client.rs 115-144 | `TxStatus` | modelled |
| TransactionBuilder (`sign_and_broadcast`) | bitcoin_client.rs 214-253 | `TransactionBuilder`, `MC_TransactionBuilder`, `SerializedBuilder` (abstract) | modelled |
| Block polling (`get_block`) | bitcoin_client.rs 147-197 | `BlockPolling`, composed into `ClientSession` | modelled |
| `Client::new`, `execute`, `broadcast`, `get_height` | bitcoin_client.rs 46-112, 200-206 | `ClientSession` | modelled |
| OutputReorderer (`reorder_outputs`) | utils.rs 47-70 | `ConstructionUtils` | modelled |
| `build_op_return_script` | utils.rs 40-45 | `OpReturnScript`, `ConstructionUtils` | modelled |
| `init_blockchain`, `setup_wallet`, `magic_bytes` | utils.rs 14-38, 72-78 | `ConstructionUtils` | modelled |
| AddressDeriver (`from_public_keys`, `hash_*`, `TryFrom<&str>`) | address.rs 15-194 | `AddressDerivation` | partly (the c32 codec is outside `src/`; `Display` only calls its encoder and is not modelled) |

### How the parts interact

- **Construction.** A `Client` is built once from the node URL, which carries the RPC credentials as userinfo.
- **RPC calls.** Every RPC goes through `execute`:
  - it strips the credentials from a copy of the URL;
  - it opens a fresh connection with HTTP basic auth;
  - it runs the call on the blocking pool.
- **Transaction building.** `sign_and_broadcast` is called concurrently by romeo's tasks.
  - All calls share one `Arc<Mutex<Wallet>>`.
  - Each call runs a `spawn_blocking` closure. The closure locks the wallet, syncs it from an Electrum server, builds the transaction, reorders its outputs with `reorder_outputs`, and signs it.
  - The closure returns, which drops the guard. The call then broadcasts.
- **Status polling.** `get_tx_status` makes two separate RPCs.
- **Block polling.** `get_block` polls `getblockhash` until the height exists.
- **Interleaving sources.** Three things can interleave with a call:
  - the node mining, reorganising and evicting;
  - the Electrum index lagging the node;
  - other callers.

## Modules: state and actions

### `TxStatus`

- **State.**
  - `txLoc`: where the node holds the transaction (none, mempool or chain).
  - `pc`: the poller's program point.
  - `isConfirmed` and `inMempool`: the two RPC results.
  - `during`: a history of where the transaction was during the call.
  - `status`: the last returned status.
- **Actions.**
  - `GetRawTransactionInfo`: lines 119-125.
  - `GetMempoolEntry`: lines 127-143, ending in the panic arm or in `Classify` (lines 132-139).
  - Node actions: `Mine`, `Reorg`, `Evict` and `Rebroadcast`.
- **Faults.** Any RPC may fail at the transport level (`RpcFailures`). The code turns such an error into `false`, and so does the model.

### `TransactionBuilder`, `MC_TransactionBuilder`, `SerializedBuilder`

State:
- Per-caller `pc`, `attempts` and `draft`.
- The mutex `lockHolder`.
- The wallet database `walletUtxos`.
- The node's `mempool` and `chain`.
- Electrum's `indexed` set.
- `signedTxs`, a history of signed transactions.

Actions:

| Action | Lines | What it covers |
|---|---|---|
| `Invoke` | 214-221 | The call and its 3 s sleep. |
| `Lock` | 224-227 | Taking the wallet mutex. |
| `Sync` | 229 | The Electrum sync, or an error that drops the guard. |
| `Build` | 231-240 | Coin selection, or InsufficientFunds. |
| `Sign` | 242-246 | Signing. Drops the guard on both paths. |
| `Broadcast` | 248-252 | Four outcomes: accepted; accepted with the answer lost; refused; unreachable. |

The node follows `sendrawtransaction` policy:
- a transaction already in the mempool is accepted again;
- a mined transaction is refused;
- a conflicting spend is refused.

Refinement:
- `SerializedBuilder` is the abstract promise of spec 4.4 and 5:
  - an invocation waits;
  - it runs its sync+build+sign span while no other invocation is inside one;
  - it then broadcasts and returns.
- `AbstractStage` maps each caller's `pc` onto those stages, and `SB == INSTANCE SerializedBuilder WITH stage <- AbstractStage`.
- The passing run checks `RefinesSerializedBuilder == SB!Spec`, fairness included.

### `BlockPolling` and `ClientSession`

`BlockPolling` has one action per arm of the loop's match:

| Action | Arm |
|---|---|
| `GetBlockHashFound` | `Ok` |
| `GetBlockHashNotFound` | RPC error `-8` |
| `GetBlockHashRpcError` | any other RPC error code (when `RpcErrors`), or any other error |
| `GetBlockHashTransportError` | a transport error |
| `Sleep` | the 5 s sleep before the next poll |
| `GetBlockOk` / `GetBlockError` | the final `getblock`. `GetBlockOk` returns the block of the hash the loop broke out with. |

`Mine` grows the tip.

`ClientSession` models one client's life:
- **URLs.** `Urls` is what `url::Url` parses for the URLs a configuration can hold:
  - an empty password reads as `None`;
  - a cannot-be-a-base URL has no host and no credentials.
- **`New`.** Lines 46-79: the username check, then the password check.
- **`ExecutePanics`.** The `set_username`/`set_password` unwraps of `execute`, which fail on a URL without a host.
- **`Authorized`.** The request's `Auth::UserPass` matches the node's rpcuser/rpcpassword. Any other credentials get HTTP 401, which the jsonrpc crate reports as a Transport error.
- **Calls.** `Broadcast` and `GetHeight` are one `execute` each.
- **`get_block`.** `GetBlock` starts the loop. The loop's steps are `BlockPolling`'s actions, reached through `BP == INSTANCE BlockPolling WITH pc <- blockPc, error <- blockError`. The steps a node only takes for an authorised request are guarded by `Authorized`.

### `ConstructionUtils` and `OpReturnScript`

- **`ReorderOutputs`.** It translates `reorder_outputs`:
  - a HashMap from each declared pair to its *last* index;
  - a BTreeMap that keeps one output per key;
  - the key `usize::MAX` for unmatched outputs.
- **`SpecReorder`.** The reference: a stable sort by each pair's first index.
- **`Produced`.** What bdk's `finish()` returns: the declared outputs in any order, with or without a change output.
- **`OpReturnScript`.** Holds `BuildOpReturnScript` and rust-bitcoin's `PushSlice`: a direct push, then PUSHDATA1/2/4 with little-endian lengths. It also holds the reference `ScriptOps`, which is the node's `GetScriptOp` loop, written RECURSIVE.
- **`SetupWallet`.** Lines 14-38: `init_blockchain` (the Electrum `Client::new`, which connects at once), `Wallet::new` and one `sync`. Each step can fail, and the first error is returned with `?`.
- **`MagicBytes`.** Lines 72-78: the network table.
- **Calls.** Each behaviour makes one call: `Reorder`, `BuildOpReturn`, `SetupWalletCall` or `MagicBytesCall`.

### `AddressDerivation`

- A byte string is a sequence of atoms: bytes, 33-byte keys, and 20/32-byte digests.
- The digests are injective constructors, so the model assumes no hash collisions.
- Every script and witness program is laid out byte for byte.
- `PushInt` is `push_int`.
- `U8PlusEighty` is the `as u8 + 80` of `hash_p2wsh`.
- `FromPublicKeys` has the argument checks in order, then the dispatch on the hash mode.
- **Text.** `TryFromStr` is `TryFrom<&str>` (lines 110-128): `decode_address`'s error, then the length check of line 117, then the copy.
  - The c32 codec is outside `src/`, so it is modelled from spec section 2 as an injective encoding. A string is the record `decode_address` recovers from it: the version character, the payload's 20-byte value and its length, and whether the checksum verifies.
  - `TryFromStrCall` parses one string around the derived hash, with every version plus 0, payload lengths 19..21, and both checksum outcomes.

## Runs

| Run | Expect | What it shows |
|---|---|---|
| `status_witnessed` | pass | `ReportWitnessed`: Confirmed or Broadcasted only for a place the tx really was in during the call. This holds under mining, reorgs, eviction, re-broadcast and RPC faults. |
| `status_atomic` | violation | `StatusOfSomeInstant`: a tx mined between the two RPCs is reported Rejected, and a reorg between them reaches the panic arm. |
| `builder_returns` | pass | `RefinesSerializedBuilder`: with two callers, re-invocations and faults, the spans never overlap, each is followed by broadcast or an error, and every invocation returns. |
| `builder_conflict` | violation | `NoConflictingSignedTxs`: two invocations sign transactions spending the same coin. The guard is dropped before broadcast and Electrum lags. |
| `builder_retry_double_pay` | violation | `AtMostOnePaymentPerRequest`: re-invoking after a lost broadcast answer pays twice. |
| `client_session` | pass | Two properties hold: `ExecuteNeverPanics`, and `PollingResolves` (the loop leaves with the hash, or with a non-retryable error). |
| `client_wrong_password` | violation | `GetBlockReturns`: with a wrong password every poll is answered 401, a Transport error. TLC's counterexample is a cycle of poll, 401, sleep and poll again, with the block already mined. |
| `getblock_transport_fault` | violation | `GetBlockReturnsBlock`: the node answers no non-retryable RPC error, yet a transport error on the `getblock` after a resolved hash fails the call (line 194). Only the `getblockhash` loop retries, and spec 7 lists transport errors as transient faults that are retried indefinitely. |
| `construction_utils` | pass | `ReorderMatchesSpec` holds for distinct outputs. `ParsesAsOpReturnPush`: every OP_RETURN script parses as OP_RETURN plus one push of the whole payload. |
| `reorder_duplicates` | violation | `OutputCountPreserved`: a pair declared twice loses an output. |
| `address_injective` | pass | `DerivationInjective`: no two accepted argument lists derive the same address. |

Each passing property has a mutant in `PROJECT.json`. The mutant is a plausible bug in the mapped code that makes TLC report the property violated:

| Property | Mutant | Replaces | The bug |
|---|---|---|---|
| `ReportWitnessed` | `ClassifySwapped` | `Classify` | The match arms are swapped. |
| `RefinesSerializedBuilder` | `BuildReleasesGuard` | `Build` | The guard is dropped before signing. |
| `ExecuteNeverPanics` | `NewNoCredentialChecks` | `New` | The credential checks are missing. |
| `PollingResolves` | `GetBlockHashNotFoundFatal` | `GetBlockHashNotFound` | `-8` is returned as an error. |
| `ReorderMatchesSpec` | `ReorderChangeAtZero` | `ReorderOutputs` | `unwrap_or(&0)` is used instead of `usize::MAX`. |
| `ParsesAsOpReturnPush` | `PushSliceBigEndian` | `PushSlice` | The PUSHDATA2 length is written big-endian. |
| `DerivationInjective` | `HashP2wpkhUnwrapped` | `HashP2wpkh` | The witness-program wrapper is missing. |

The findings are in `PROJECT.json`.

## Bounds

- **TxStatus.** It has three locations and one poller. The transaction starts in any location. This gives every sequence of node moves within a call.
- **TransactionBuilder.**
  - The bound is two callers, two coins and two attempts per caller, about 87k states.
  - Two callers are what a race or an overlap of spans needs.
  - Two coins let a rebuild pick a different coin, which is the double-payment case.
  - Two attempts give one re-invocation.
- **ClientSession.**
  - The URL is chosen from every combination of the username "" or "user" and the password absent, "", "pwd" or "wrong", plus a hostless URL.
  - The block height is 2 and the tip starts in 0..4. This covers polls before and after the block exists.
  - The passing run leaves out the wrong password, and the violation run includes it.
  - The `getblock_transport_fault` run sets `RpcErrors = FALSE`: every error the node can give is transient, so the run shows that one of them still ends the call.
- **ConstructionUtils.**
  - Up to 3 declared pairs over 2 scripts × 2 amounts, in every shuffle, with and without change. Three outputs are needed for change to land between two declared ones.
  - Payload lengths 0..300 and 65535/65536. These cover every push-encoding boundary except 2^32, where push_slice panics.
- **AddressDerivation.**
  - Two keys, lists of up to two keys, 0..2 signatures, and every version and mode.
  - Collisions between modes and between key orders need two keys.
  - Payload lengths 19, 20 and 21 are the two sides of the length check, and version 0 is one that `AddressVersion::try_from` refuses.

## Fairness

- **TransactionBuilder.**
  - Each started invocation's steps are weakly fair. The justification:
    - the blocking pool runs the closure;
    - every path releases the guard;
    - the HTTP transport times out.
  - Invoking, mining and indexing are not fair.
  - `SerializedBuilder` asks weak fairness of entering, leaving and returning, which is the same promise.
- **ClientSession.**
  - Every request gets an answer: the node replies, or the HTTP transport reports an error or times out. So the steps that answer a pending `getblockhash` (`PollAnswer`) or `getblock` (`FetchAnswer`) are weakly fair as a whole, whichever answer comes. Without this, a liveness counterexample could stop at a pending request.
  - The timer (`Sleep`) and mining are weakly fair.
  - The answers of an authorised request (`PollFound`, `PollNotFound`, `FetchOk`) are strongly fair. A transport error is possible at every poll, so these answers are only intermittently enabled. The assumption is that the node is not down forever.
  - A 401 is not a transient fault, so no fairness makes an unauthorised request succeed.
- **Other modules.** `TxStatus`, `ConstructionUtils` and `AddressDerivation` check safety only.

## Not modelled

- **The c32 codec's internals** (the base-32 alphabet and the checksum). They are outside `src/`, so decoding is modelled as an injective map from strings to (version, payload, checksum). `Display` and `TryFrom<&StacksAddress> for String` only call the encoder, so a model of them would check the codec rather than this code.
- **The `u8 + 80` bytes of `hash_p2wsh` with 0 signatures.** The hash follows spec 4.1's `(80+threshold)` formula bit for bit, and Stacks recomputes the same preimage, so no property separates it from `push_int`.
- **Reorganisations inside `get_block`.** A reorg between `getblockhash` and `getblock` makes the call return a block that is no longer on the main chain. Spec 4.3 promises only the block of the resolved hash, so this is left to the callers.
- **The Electrum server `init_blockchain` connects to.** It is a fixed address, whatever the key's network.
- **The unit tests** (address.rs 195-337, the `tests` module of bitcoin_client.rs). They are test code: their expected hashes and error strings are byte-level and wording detail that the models abstract.
- **Imports and type declarations** (the heads of the three files). They hold no behaviour.
- **Change outputs re-spent by a later build.**
- **Amounts and fees.**

## Plan for later sittings

1. Build: feed the builder's outputs through `ReorderOutputs`, and model change outputs that a later build re-spends.
2. Add an abstract status oracle, a single atomic read, for `TxStatus`. Record where the detailed spec departs from it.
3. Wallet mutex poisoning. Version/hash-mode mismatch in `from_public_keys`.
