---------------------------- MODULE OpReturnScript ----------------------------
(***************************************************************************)
(* build_op_return_script (src/sbtc-core/src/operations/construction/      *)
(* utils.rs): OP_RETURN followed by one push of the payload, built with    *)
(* rust-bitcoin's Builder::push_slice, checked against the way a Bitcoin   *)
(* node splits a script into operations (GetScriptOp).                     *)
(*                                                                         *)
(* A script is a sequence of atoms: a single byte, or a run of payload     *)
(* bytes of a given length (their values never matter, only how many the  *)
(* parser takes).  A payload is its length.  Operators only: the call is  *)
(* an action of ConstructionUtils.tla.                                     *)
(***************************************************************************)
EXTENDS Naturals, Sequences

OP_RETURN == 106
OP_PUSHDATA1 == 76
OP_PUSHDATA2 == 77
OP_PUSHDATA4 == 78

Byte(v) == [kind |-> "byte", val |-> v]
Payload(n) == IF n = 0 THEN <<>> ELSE <<[kind |-> "data", val |-> n]>>

\* The n-byte little-endian encoding of x.
LE(x, n) == [i \in 1..n |-> Byte((x \div (256 ^ (i - 1))) % 256)]

\* A faulty variant of PushSlice that writes the 2-byte length big-endian.
PushSliceBigEndian(n) ==
  CASE n < OP_PUSHDATA1 -> <<Byte(n)>> \o Payload(n)
    [] n < 256 -> <<Byte(OP_PUSHDATA1), Byte(n)>> \o Payload(n)
    [] n < 65536 -> <<Byte(OP_PUSHDATA2), Byte(n \div 256), Byte(n % 256)>> \o Payload(n)
    [] OTHER -> <<Byte(OP_PUSHDATA4)>> \o LE(n, 4) \o Payload(n)

(***************************************************************************)
(* Builder::push_slice: a direct push below OP_PUSHDATA1, else the         *)
(* smallest PUSHDATA whose little-endian length field holds the length;    *)
(* then the bytes.  (Lengths of 2^32 and more panic; payloads are far      *)
(* shorter.)                                                               *)
(***************************************************************************)
PushSlice(n) ==
  CASE n < OP_PUSHDATA1 -> <<Byte(n)>> \o Payload(n)
    [] n < 256 -> <<Byte(OP_PUSHDATA1)>> \o LE(n, 1) \o Payload(n)
    [] n < 65536 -> <<Byte(OP_PUSHDATA2)>> \o LE(n, 2) \o Payload(n)
    [] OTHER -> <<Byte(OP_PUSHDATA4)>> \o LE(n, 4) \o Payload(n)

\* Lines 40-45.
BuildOpReturnScript(n) == <<Byte(OP_RETURN)>> \o PushSlice(n)

(***************************************************************************)
(* The reference: the node's GetScriptOp, applied until the script ends.   *)
(* An operation is [op, len]: its opcode and the length of the data it     *)
(* pushes.  A truncated length field or payload is a parse failure.        *)
(***************************************************************************)
Fail == [op |-> 256, len |-> 0]

FieldLen(op) ==
  CASE op = OP_PUSHDATA1 -> 1 [] op = OP_PUSHDATA2 -> 2 [] op = OP_PUSHDATA4 -> 4 [] OTHER -> 0

ReadLE(s) == LET RECURSIVE R(_) R(i) == IF i = 0 THEN 0 ELSE s[i].val * 256 ^ (i - 1) + R(i - 1)
             IN R(Len(s))

RECURSIVE ScriptOps(_)
ScriptOps(s) ==
  IF s = <<>> THEN <<>>
  ELSE LET op == Head(s).val
           k == FieldLen(op)
           field == SubSeq(s, 2, 1 + k)
       IN IF Len(s) < 1 + k \/ \E i \in DOMAIN field : field[i].kind # "byte"
          THEN <<Fail>>
          ELSE LET size == IF op < OP_PUSHDATA1 THEN op ELSE IF k > 0 THEN ReadLE(field) ELSE 0
                   rest == SubSeq(s, 2 + k, Len(s))
               IN IF size = 0 THEN <<[op |-> op, len |-> 0]>> \o ScriptOps(rest)
                  ELSE IF rest # <<>> /\ Head(rest) = [kind |-> "data", val |-> size]
                    THEN <<[op |-> op, len |-> size]>> \o ScriptOps(Tail(rest))
                    ELSE <<Fail>>

=============================================================================
