-------------------------- MODULE ConstructionUtils --------------------------
(***************************************************************************)
(* The helpers of src/sbtc-core/src/operations/construction/utils.rs:      *)
(* setup_wallet (with init_blockchain), build_op_return_script            *)
(* (OpReturnScript.tla), reorder_outputs and magic_bytes.                 *)
(*                                                                         *)
(* reorder_outputs (src/sbtc-core/src/operations/construction/utils.rs),   *)
(* as sign_and_broadcast calls it: the declared outputs are the caller's   *)
(* (script, amount) pairs in order; the produced outputs are what the      *)
(* wallet's tx builder returned, the same pairs in shuffled order          *)
(* (bdk's default TxOrdering::Shuffle) and possibly one change output.     *)
(*                                                                         *)
(* A TxOut is the pair <<script, amount>>: its two fields.  Indices are    *)
(* 0-based as in the code; UsizeMax stands for usize::MAX and only needs   *)
(* to exceed every index.                                                  *)
(***************************************************************************)
EXTENDS Naturals, Sequences, SequencesExt, OpReturnScript

CONSTANTS
  Scripts,          \* script_pubkeys a caller may pay
  Amounts,          \* amounts in satoshi
  ChangeScript,     \* the wallet's own script, used for change
  MaxOutputs,       \* longest declared output list
  UsizeMax,         \* usize::MAX
  DistinctOutputs,  \* TRUE: callers never declare the same pair twice
  MaxShortLen,      \* OP_RETURN payloads of every length 0..MaxShortLen
  LongLens          \* and of these lengths

ASSUME ChangeScript \notin Scripts
ASSUME MaxOutputs \in Nat /\ UsizeMax > MaxOutputs
ASSUME DistinctOutputs \in BOOLEAN

Pairs == Scripts \X Amounts

\* Declared output lists a caller can pass.
Declared ==
  {s \in SeqOf(Pairs, MaxOutputs) :
     DistinctOutputs => \A i, j \in DOMAIN s : i # j => s[i] # s[j]}

\* All orderings of a sequence.
Shuffles(s) ==
  {[k \in DOMAIN s |-> s[p[k]]] :
     p \in {f \in [DOMAIN s -> DOMAIN s] : \A i, j \in DOMAIN s : i # j => f[i] # f[j]}}

\* What build_tx()...finish() returns for the declared outputs: the
\* recipients, with or without a change output, in any order.
Produced(order) ==
  UNION {Shuffles(order \o extra) :
           extra \in {<<>>} \cup {<<<<ChangeScript, a>>>> : a \in Amounts}}

(***************************************************************************)
(* Spec 4.2, the reference: each produced output gets the index of the     *)
(* FIRST declared pair equal to it, unmatched outputs a "last" index; a    *)
(* stable sort by that index.  Count is preserved; unmatched outputs keep  *)
(* their relative order after all matched ones.                            *)
(***************************************************************************)
SpecReorder(outputs, order) ==
  LET idx(i) == LET j == SelectInSeq(order, LAMBDA p : p = outputs[i])
                IN IF j = 0 THEN Len(order) ELSE j - 1
      before(i, k) == idx(i) < idx(k) \/ (idx(i) = idx(k) /\ i < k)
      perm == SortSeq([k \in 1..Len(outputs) |-> k], before)
  IN [k \in 1..Len(outputs) |-> outputs[perm[k]]]

\* A faulty variant of ReorderOutputs with unwrap_or(&0) for unmatched
\* outputs instead of unwrap_or(&usize::MAX).
ReorderChangeAtZero(outputs, order) ==
  LET key(i) == LET j == SelectLastInSeq(order, LAMBDA p : p = outputs[i])
                IN IF j = 0 THEN 0 ELSE j - 1
      kept == {i \in 1..Len(outputs) :
                 \A j \in i + 1..Len(outputs) : key(j) # key(i)}
      keys == SetToSortSeq({key(i) : i \in kept}, <)
  IN [k \in 1..Len(keys) |-> outputs[CHOOSE i \in kept : key(i) = keys[k]]]

(***************************************************************************)
(* Lines 47-70.  The HashMap is collected from order.enumerate(): a later  *)
(* equal pair overwrites an earlier one, so a pair maps to its LAST index. *)
(* The BTreeMap is collected from the outputs keyed by that index (or      *)
(* usize::MAX): a later output with an equal key overwrites an earlier     *)
(* one.  into_values() yields the survivors in ascending key order.        *)
(***************************************************************************)
ReorderOutputs(outputs, order) ==
  LET key(i) == LET j == SelectLastInSeq(order, LAMBDA p : p = outputs[i])
                IN IF j = 0 THEN UsizeMax ELSE j - 1
      kept == {i \in 1..Len(outputs) :
                 \A j \in i + 1..Len(outputs) : key(j) # key(i)}
      keys == SetToSortSeq({key(i) : i \in kept}, <)
  IN [k \in 1..Len(keys) |-> outputs[CHOOSE i \in kept : key(i) = keys[k]]]

(***************************************************************************)
(* Lines 14-20: init_blockchain.  electrum_client::Client::new connects to *)
(* the fixed server at once; its error is returned as ElectrumError.       *)
(***************************************************************************)
InitBlockchain(connect) == IF connect THEN "ok" ELSE "ElectrumError"

(***************************************************************************)
(* Lines 22-38: setup_wallet.  The blockchain first, then a P2WPKH wallet  *)
(* over a fresh MemoryDatabase, then one sync against the blockchain;      *)
(* the first error is returned with ?, and the wallet, synced, otherwise.  *)
(***************************************************************************)
SetupWallet(connect, open, sync) ==
  CASE InitBlockchain(connect) # "ok" -> InitBlockchain(connect)
    [] ~open -> "OpenError"
    [] ~sync -> "SyncError"
    [] OTHER -> "synced"

\* bitcoin::Network.
Networks == {"Bitcoin", "Testnet", "Signet", "Regtest"}

\* Lines 72-78: magic_bytes, the two-byte tag for a network.
MagicBytes(network) ==
  CASE network = "Bitcoin" -> <<"X", "2">>
    [] network = "Testnet" -> <<"T", "2">>
    [] OTHER -> <<"i", "d">>

VARIABLES
  magic,    \* what magic_bytes returned (<<>> before the call)
  wallet,   \* what setup_wallet returned ("none" before the call)
  order,    \* the declared outputs of the last call
  outputs,  \* the produced outputs of the last call
  result,   \* what reorder_outputs returned
  payloadLen, \* the OP_RETURN payload length of the last call
  script,   \* what build_op_return_script returned
  called    \* has the call happened?

vars == <<magic, wallet, order, outputs, result, payloadLen, script, called>>

TypeOK ==
  /\ order \in Seq(Pairs)
  /\ outputs \in Seq(Pairs \cup ({ChangeScript} \X Amounts))
  /\ result \in Seq(Pairs \cup ({ChangeScript} \X Amounts))
  /\ payloadLen \in Nat
  /\ called \in BOOLEAN
  /\ magic \in {<<>>} \cup {MagicBytes(n) : n \in Networks}
  /\ wallet \in {"none", "ElectrumError", "OpenError", "SyncError", "synced"}

Init ==
  /\ magic = <<>>
  /\ wallet = "none"
  /\ order = <<>>
  /\ outputs = <<>>
  /\ result = <<>>
  /\ payloadLen = 0
  /\ script = <<>>
  /\ called = FALSE

\* Line 239-240 of romeo's bitcoin_client.rs: one call of reorder_outputs
\* on the unsigned transaction's outputs.  Calls are independent (the
\* function is pure), so each behaviour makes one.
Reorder ==
  /\ ~called
  /\ called' = TRUE
  /\ \E o \in Declared :
       \E p \in Produced(o) :
        /\ order' = o
        /\ outputs' = p
        /\ result' = ReorderOutputs(p, o)
  /\ UNCHANGED <<magic, wallet, payloadLen, script>>

\* Lines 40-45: one call of build_op_return_script.
BuildOpReturn ==
  /\ ~called
  /\ called' = TRUE
  /\ \E n \in (0..MaxShortLen) \cup LongLens :
       /\ payloadLen' = n
       /\ script' = BuildOpReturnScript(n)
  /\ UNCHANGED <<magic, wallet, order, outputs, result>>

\* One call of setup_wallet: whether the Electrum connection, the wallet
\* construction and the sync succeed is the environment's choice.
SetupWalletCall ==
  /\ ~called
  /\ called' = TRUE
  /\ \E connect, open, sync \in BOOLEAN : wallet' = SetupWallet(connect, open, sync)
  /\ UNCHANGED <<magic, order, outputs, result, payloadLen, script>>

\* One call of magic_bytes.
MagicBytesCall ==
  /\ ~called
  /\ called' = TRUE
  /\ \E network \in Networks : magic' = MagicBytes(network)
  /\ UNCHANGED <<wallet, order, outputs, result, payloadLen, script>>

Next == Reorder \/ BuildOpReturn \/ SetupWalletCall \/ MagicBytesCall

Spec == Init /\ [][Next]_vars

(***************************************************************************)
(* Properties                                                              *)
(***************************************************************************)

\* Spec 4.2: the reordered outputs are exactly the spec's stable sort:
\* every declared pair at its declared position, the change output last,
\* nothing lost or duplicated.
ReorderMatchesSpec == result = SpecReorder(outputs, order)

\* Spec 4.2 (a) and 8: reorder_outputs preserves the output count, so the
\* signed transaction pays every output the caller declared.
OutputCountPreserved == Len(result) = Len(outputs)

\* A node reads every built OP_RETURN script back as exactly two
\* operations: OP_RETURN and one push of the whole payload, at every
\* push-size boundary of push_slice.
ParsesAsOpReturnPush ==
  script # <<>> =>
    LET ops == ScriptOps(script)
    IN /\ Len(ops) = 2
       /\ ops[1] = [op |-> OP_RETURN, len |-> 0]
       /\ ops[2].op <= OP_PUSHDATA4 /\ ops[2].len = payloadLen

=============================================================================
