---------------------------- MODULE ClientSession ----------------------------
(***************************************************************************)
(* The life of one romeo Client (src/romeo/src/bitcoin_client.rs): it is   *)
(* constructed from the node URL (Client::new), and then serves calls,     *)
(* each of which opens a fresh connection through execute with the URL's   *)
(* userinfo as HTTP basic authentication: broadcast, get_height, and the   *)
(* get_block polling loop of BlockPolling.tla, composed here by INSTANCE.  *)
(*                                                                         *)
(* The node accepts a request only with its rpcuser/rpcpassword; any other *)
(* credentials get HTTP 401, which the jsonrpc crate reports as a          *)
(* Transport error.                                                        *)
(***************************************************************************)
EXTENDS Naturals

CONSTANTS
  Height, MaxTip, RpcErrors,  \* as in BlockPolling
  UrlUsers,       \* usernames written in the configured URL ("" for none)
  UrlPasswords,   \* passwords written in it ("" for "user:@host")
  NodeUser,       \* the node's rpcuser
  NodePassword    \* the node's rpcpassword

VARIABLES
  url,         \* the parsed url::Url the client was configured with
  client,      \* "unbuilt", "built", or the error Client::new returned
  pc,          \* the caller: "idle" between calls, or "panicked"
  result,      \* outcome of the last broadcast / get_height: "none", "ok", "err"
  tip, blockPc, blockError   \* the node's tip and the get_block call

vars == <<url, client, pc, result, tip, blockPc, blockError>>

BP == INSTANCE BlockPolling WITH pc <- blockPc, error <- blockError

(***************************************************************************)
(* What url::Url::parse yields for the URLs a configuration can hold.  An  *)
(* http URL has a host; its username() is "" when absent and password() is *)
(* None when absent or empty (the serializer drops "user:@" to "user@").   *)
(* A cannot-be-a-base URL such as "unix:user:pwd@sock" has no host and no  *)
(* credentials: the whole rest is its path.                                *)
(***************************************************************************)
None == "None"
Urls ==
  {[user |-> u, password |-> IF p = "" THEN None ELSE p, host |-> TRUE] :
     u \in UrlUsers, p \in UrlPasswords \cup {""}}
  \cup {[user |-> "", password |-> None, host |-> FALSE]}

\* Client::new with lines 66-72, both credential checks, left out.
NewNoCredentialChecks(u) == "built"

(***************************************************************************)
(* Lines 46-79: Client::new.  The P2TR wallet over a MemoryDatabase is     *)
(* built first (it cannot fail for a template over a valid key), then the  *)
(* username and the password are checked, in that order.                   *)
(***************************************************************************)
New(u) ==
  IF u.user = "" THEN "username_empty"
  ELSE IF u.password = None THEN "password_empty"
  ELSE "built"

(***************************************************************************)
(* Lines 92-101: execute takes the credentials out of the URL and clears   *)
(* them with set_username("").unwrap() and set_password(None).unwrap(),    *)
(* which fail (a panic) on a URL without a host.  Its request carries      *)
(* Auth::UserPass(username, password.unwrap_or_default()).                 *)
(***************************************************************************)
ExecutePanics == ~url.host

Authorized ==
  /\ url.user = NodeUser
  /\ (IF url.password = None THEN "" ELSE url.password) = NodePassword

Init ==
  /\ url \in Urls
  /\ client = "unbuilt"
  /\ pc = "idle"
  /\ result = "none"
  /\ tip \in 0..MaxTip
  /\ blockPc = "done"
  /\ blockError = "none"

Construct ==
  /\ client = "unbuilt"
  /\ client' = New(url)
  /\ UNCHANGED <<url, pc, result, tip, blockPc, blockError>>

\* A call starts only on a built client, from a caller not inside get_block.
CallStart == client = "built" /\ pc = "idle" /\ blockPc \in {"done", "failed"}

(***************************************************************************)
(* Lines 107-112 (broadcast) and 200-206 (get_height): one execute, both   *)
(* error layers propagated with ??.  The RPC succeeds only when the node   *)
(* authorises the request, the transport does not fail, and, for          *)
(* sendrawtransaction, the node accepts the transaction.                   *)
(***************************************************************************)
SingleCall ==
  /\ CallStart
  /\ IF ExecutePanics
       THEN pc' = "panicked" /\ UNCHANGED result
       ELSE /\ result' \in IF Authorized THEN {"ok", "err"} ELSE {"err"}
            /\ UNCHANGED pc
  /\ UNCHANGED <<url, client, tip, blockPc, blockError>>

Broadcast == SingleCall

GetHeight == SingleCall

\* Line 147: get_block enters its polling loop.
GetBlock ==
  /\ CallStart
  /\ IF ExecutePanics
       THEN pc' = "panicked" /\ UNCHANGED <<blockPc, blockError>>
       ELSE /\ blockPc' = "get_block_hash"
            /\ blockError' = "none"
            /\ UNCHANGED pc
  /\ UNCHANGED <<url, client, result, tip>>

(***************************************************************************)
(* The steps of get_block's loop are BlockPolling's; a request the node    *)
(* refuses with 401 can only be a transport error, on getblockhash         *)
(* (retried) and on getblock (returned).                                   *)
(***************************************************************************)
Session == UNCHANGED <<url, client, pc, result>>

PollFound == Authorized /\ BP!GetBlockHashFound /\ Session

PollNotFound == Authorized /\ BP!GetBlockHashNotFound /\ Session

PollRpcError == Authorized /\ BP!GetBlockHashRpcError /\ Session

FetchOk == Authorized /\ BP!GetBlockOk /\ Session

PollStep ==
  /\ \/ BP!GetBlockHashTransportError
     \/ BP!Sleep
     \/ BP!GetBlockError
  /\ Session

Mine == BP!Mine /\ Session

Next ==
  \/ Construct
  \/ Broadcast
  \/ GetHeight
  \/ GetBlock
  \/ PollFound
  \/ PollNotFound
  \/ PollRpcError
  \/ FetchOk
  \/ PollStep
  \/ Mine

\* BlockPolling's fairness: every request gets an answer (the node's, or
\* the transport's error or timeout; for a request the node refuses, its
\* 401), the timer fires, the chain grows, and a request the node would
\* answer is eventually not lost to a transport error.
PollAnswer ==
  \/ PollFound \/ PollNotFound \/ PollRpcError
  \/ (BP!GetBlockHashTransportError /\ Session)

FetchAnswer == FetchOk \/ (BP!GetBlockError /\ Session)

Fairness ==
  /\ WF_vars(PollAnswer)
  /\ WF_vars(FetchAnswer)
  /\ WF_vars(BP!Sleep /\ Session)
  /\ WF_vars(Mine)
  /\ SF_vars(PollFound)
  /\ SF_vars(PollNotFound)
  /\ SF_vars(FetchOk)

Spec == Init /\ [][Next]_vars /\ Fairness

(***************************************************************************)
(* Properties                                                              *)
(***************************************************************************)

\* The unwraps in execute (lines 97-98) never panic: Client::new refuses
\* every URL on which clearing the credentials would fail, so no call of a
\* constructed client aborts the task.
ExecuteNeverPanics == pc # "panicked"

\* Spec 4.3 and 7, BlockPolling's loop inside a client: "not found" and
\* transport errors are absorbed; the loop leaves with the hash once the
\* height exists, and gives up only on a non-retryable RPC error.
PollingResolves == BP!PollingResolves

\* Spec 4.3 and 7: get_block blocks only until the height exists or a
\* non-retryable error occurs; configuration faults are fatal at
\* construction.  Once the block exists, a get_block call of a constructed
\* client returns.
GetBlockReturns ==
  (blockPc \in {"get_block_hash", "sleep"} /\ Height <= tip)
    ~> blockPc \in {"done", "failed"}

=============================================================================
