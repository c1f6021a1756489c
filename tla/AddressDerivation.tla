--------------------------- MODULE AddressDerivation ---------------------------
(***************************************************************************)
(* StacksAddress::from_public_keys and the four hash_* functions           *)
(* (src/stacks-core/src/address.rs).                                       *)
(*                                                                         *)
(* A byte string is a sequence of atoms: a byte (0..255) or an opaque      *)
(* blob of known length (a serialized public key, a digest).  Hash160 and  *)
(* SHA256 are injective constructors: two digests are equal exactly when   *)
(* the hashed byte strings are (no collisions).  The byte layout of every  *)
(* script and witness program is modelled byte for byte around the blobs. *)
(***************************************************************************)
EXTENDS Naturals, Sequences, SequencesExt

CONSTANTS
  Keys,     \* public keys (model values)
  MaxKeys,  \* longest public key list passed
  MaxSigs,  \* largest signature count passed
  NoKey     \* model value: the key field of an atom that is not a key

ASSUME MaxKeys \in Nat /\ MaxSigs \in Nat /\ MaxSigs < 17

\* AddressVersion (lines 15-23).
Versions == {22, 20, 26, 21}

\* AddressHashMode (lines 33-39).
HashModes == {"SerializeP2PKH", "SerializeP2SH", "SerializeP2WPKH", "SerializeP2WSH"}

OP_CHECKMULTISIG == 174

\* Atoms of a byte string, all of one record shape: a byte, a serialized
\* key, or a digest of a byte string.
Atom(kind, val, key, data) == [kind |-> kind, val |-> val, key |-> key, data |-> data]
AtomLen == [byte |-> 1, pubkey |-> 33, hash160 |-> 20, sha256 |-> 32]

\* A byte string from a sequence of byte values.
Bytes(vals) == [i \in DOMAIN vals |-> Atom("byte", vals[i], NoKey, <<>>)]

\* PublicKey::serialize(): the 33-byte compressed encoding.
Serialize(k) == <<Atom("pubkey", 0, k, <<>>)>>

\* Hash160::new and SHA256Hash::new: digests of 20 and 32 bytes.
Hash160(bytes) == Atom("hash160", 0, NoKey, bytes)
SHA256(bytes) == Atom("sha256", 0, NoKey, bytes)

\* Length in bytes of a byte string (as .len() of the Rust buffer).
ByteLen(s) == FoldLeft(LAMBDA n, a : n + AtomLen[a.kind], 0, s)

\* `x as u8 + 80` in release builds (u8 arithmetic wraps).
U8PlusEighty(x) == ((x % 256) + 80) % 256

(***************************************************************************)
(* Builder::push_int (rust-bitcoin), as called at lines 143 and 149: 0 is  *)
(* OP_0, 1..16 are OP_1..OP_16 (0x51..0x60), larger values a minimal data  *)
(* push (one byte up to 127, all this model passes).                       *)
(***************************************************************************)
PushInt(n) ==
  Bytes(IF n = 0 THEN <<0>> ELSE IF n <= 16 THEN <<80 + n>> ELSE <<1, n>>)

\* Builder::push_slice of a serialized key: a direct push of 33 bytes.
PushKey(k) == Bytes(<<ByteLen(Serialize(k))>>) \o Serialize(k)

\* Lines 136-138.
HashP2pkh(k) == Hash160(Serialize(k))

\* The legacy multisig redeem script built at lines 141-152.
P2shScript(m, ks) ==
  PushInt(m) \o FoldLeft(LAMBDA s, k : s \o PushKey(k), <<>>, ks)
    \o PushInt(Len(ks)) \o Bytes(<<OP_CHECKMULTISIG>>)

\* Lines 140-156.
HashP2sh(m, ks) == Hash160(P2shScript(m, ks))

\* A faulty variant of HashP2wpkh that returns the key hash itself instead
\* of the hash of the witness program built around it.
HashP2wpkhUnwrapped(k) == Hash160(Serialize(k))

\* Lines 158-169: Hash160 of 0x00 ∥ len ∥ Hash160(key).
HashP2wpkh(k) ==
  LET keyHash == <<Hash160(Serialize(k))>>
  IN Hash160(Bytes(<<0, ByteLen(keyHash) % 256>>) \o keyHash)

\* The witness script built byte by byte at lines 172-183.
P2wshScript(m, ks) ==
  Bytes(<<U8PlusEighty(m)>>)
    \o FoldLeft(LAMBDA s, k : s \o Bytes(<<ByteLen(Serialize(k)) % 256>>) \o Serialize(k),
                <<>>, ks)
    \o Bytes(<<U8PlusEighty(Len(ks)), 174>>)

\* Lines 171-194: Hash160 of 0x00 ∥ len ∥ SHA256(witness script).
HashP2wsh(m, ks) ==
  LET digest == <<SHA256(P2wshScript(m, ks))>>
  IN Hash160(Bytes(<<0, ByteLen(digest) % 256>>) \o digest)

\* A StacksResult: a StacksAddress (err = "") or an InvalidArguments error.
Error(why) == [err |-> why, version |-> 0, hash |-> Atom("none", 0, NoKey, <<>>)]

(***************************************************************************)
(* Lines 60-99: from_public_keys.  The three argument checks in order,     *)
(* each an InvalidArguments error; then the hash for the mode.  The        *)
(* version is not checked against the mode.                                *)
(***************************************************************************)
FromPublicKeys(version, ks, m, mode) ==
  IF Len(ks) < m THEN Error("TooManySignatures")
  ELSE IF mode \in {"SerializeP2PKH", "SerializeP2WPKH"} /\ Len(ks) # 1
    THEN Error("TooManyKeys")
  ELSE IF mode \in {"SerializeP2PKH", "SerializeP2WPKH"} /\ m # 1
    THEN Error("TooManySignatures")
  ELSE [err |-> "", version |-> version,
        hash |-> CASE mode = "SerializeP2PKH" -> HashP2pkh(ks[1])
                   [] mode = "SerializeP2SH" -> HashP2sh(m, ks)
                   [] mode = "SerializeP2WPKH" -> HashP2wpkh(ks[1])
                   [] mode = "SerializeP2WSH" -> HashP2wsh(m, ks)]

\* The arguments a caller can pass.
Calls ==
  [version : Versions, keys : SeqOf(Keys, MaxKeys), sigs : 0..MaxSigs, mode : HashModes]

Derive(c) == FromPublicKeys(c.version, c.keys, c.sigs, c.mode)

NoCall == [version |-> 0, keys |-> <<>>, sigs |-> 0, mode |-> "none"]

(***************************************************************************)
(* The c32 textual codec (stacks-core's c32 module, outside this source    *)
(* tree; modelled from spec section 2, a lossless encoding).  A string is  *)
(* what c32 decoding recovers from it: the version character (0..31), the  *)
(* payload, kept as the 20-byte value it starts with plus its length in    *)
(* bytes, and whether the checksum verifies.  Distinct strings decode to   *)
(* distinct triples, so a string is the record itself.                     *)
(***************************************************************************)
Text(v, h, len, ok) == [version |-> v, hash |-> h, len |-> len, checksum |-> ok]

\* Lines 25-31: AddressVersion::try_from, which decode_address applies to
\* the version character.
VersionTryFrom(v) == IF v \in Versions THEN "" ELSE "InvalidAddressVersion"

\* decode_address: a bad checksum, then an unknown version, is an error;
\* otherwise the version and the payload bytes, of whatever length.
DecodeAddress(t) ==
  IF ~t.checksum THEN "BadChecksum" ELSE VersionTryFrom(t.version)

(***************************************************************************)
(* Lines 110-128: TryFrom<&str> for StacksAddress.  decode_address's error *)
(* is propagated; a payload that is not HASH160_LENGTH bytes is refused    *)
(* (line 117) before copy_from_slice (line 124), which panics on a length  *)
(* mismatch, copies it into the 20-byte hash.                              *)
(***************************************************************************)
TryFromStr(t) ==
  IF DecodeAddress(t) # "" THEN Error(DecodeAddress(t))
  ELSE IF t.len # 20 THEN Error("InvalidArguments")
  ELSE [err |-> "", version |-> t.version, hash |-> t.hash]

\* The strings a caller can pass, over the payload value h: every valid
\* version and one that is not, payloads one byte short, exact and one
\* byte long, with a good or a bad checksum.
Texts(h) == {Text(v, h, len, ok) : v \in Versions \cup {0}, len \in 19..21, ok \in BOOLEAN}

NoText == Text(0, Atom("none", 0, NoKey, <<>>), 0, FALSE)

VARIABLES
  call,    \* the arguments of the call (NoCall before it)
  result,  \* the StacksAddress returned, or the error (Error("") before it)
  text,    \* the string passed to TryFrom<&str> (NoText before it)
  parsed   \* what TryFrom<&str> returned (Error("") before it)

vars == <<call, result, text, parsed>>

TypeOK ==
  /\ call \in Calls \cup {NoCall}
  /\ result.err \in {"", "TooManySignatures", "TooManyKeys"}
  /\ result.version \in Versions \cup {0}
  /\ text \in Texts(result.hash) \cup {NoText}
  /\ parsed.err \in {"", "BadChecksum", "InvalidAddressVersion", "InvalidArguments"}

Init ==
  /\ call = NoCall
  /\ result = Error("")
  /\ text = NoText
  /\ parsed = Error("")

\* One call of from_public_keys; calls are independent (the function is
\* pure), so each behaviour makes one.
FromPublicKeysCall ==
  /\ call = NoCall
  /\ \E c \in Calls :
       /\ call' = c
       /\ result' = Derive(c)
  /\ UNCHANGED <<text, parsed>>

\* One call of TryFrom<&str>, on a string around the derived hash (so that
\* a parsed address can be compared with a derived one).
TryFromStrCall ==
  /\ call # NoCall /\ text = NoText
  /\ \E t \in Texts(result.hash) :
       /\ text' = t
       /\ parsed' = TryFromStr(t)
  /\ UNCHANGED <<call, result>>

Next == FromPublicKeysCall \/ TryFromStrCall

Spec == Init /\ [][Next]_vars

(***************************************************************************)
(* Properties                                                              *)
(***************************************************************************)

\* Spec 4.1: an address determines its spend policy: no other accepted
\* arguments (version, keys in order, signature count, hash mode) derive
\* the same address, so reordering keys, or wrapping the same keys in
\* another mode, never lands on an address spendable another way.
DerivationInjective ==
  (call # NoCall /\ result.err = "") =>
    \A c \in Calls : Derive(c) = result => c = call

=============================================================================
