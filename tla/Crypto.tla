------------------------------- MODULE Crypto -------------------------------
(***************************************************************************)
(* qcoin-crypto: keys and signatures tagged with their scheme, the byte    *)
(* encoding that blocks, witnesses and key files carry them in, and the    *)
(* registry that signs and verifies.                                       *)
(*                                                                         *)
(* The machine is one deserialisation: the visitor collects bytes one by   *)
(* one and decodes what it has when the input ends.  The reader may be     *)
(* given any bytes.  Byte is the number of values of a byte and the        *)
(* library sizes are parameters, so that every input can be enumerated.    *)
(***************************************************************************)
EXTENDS Naturals, Sequences

CONSTANTS
    Byte,            \* number of values of a byte (256)
    PublicKeyBytes, SecretKeyBytes, SignatureBytes,   \* library sizes, by scheme
    Keypair,         \* what the library's keypair() returned, by scheme
    DetachedSign,    \* what its secret key signs, by scheme and message
    Messages,
    MaxInput         \* bound: length of the input

Schemes == {"Dilithium2", "Falcon512"}

ASSUME CryptoConstants ==
    /\ Byte \in Nat \ {0, 1, 2}
    /\ {PublicKeyBytes, SecretKeyBytes, SignatureBytes} \subseteq [Schemes -> Nat]
    /\ \A s \in Schemes :
          /\ Len(Keypair[s].public) = PublicKeyBytes[s]
          /\ Len(Keypair[s].secret) = SecretKeyBytes[s]
          /\ \A m \in Messages : Len(DetachedSign[s][m]) <= SignatureBytes[s]
    /\ MaxInput \in Nat

Ok(v) == [ok |-> TRUE, value |-> v]
Err(error) == [ok |-> FALSE, error |-> error]

(***************************************************************************)
(* SignatureSchemeId is Dilithium2, Falcon512 or Unknown(u16).             *)
(***************************************************************************)
Dilithium2 == [name |-> "Dilithium2", id |-> 1]
Falcon512  == [name |-> "Falcon512", id |-> 2]
Unknown(id) == [name |-> "Unknown", id |-> id]

FromU16(id) == CASE id = 1 -> Dilithium2
                 [] id = 2 -> Falcon512
                 [] OTHER  -> Unknown(id)
ToU16(scheme) == scheme.id

SchemeOf(s) == IF s = "Dilithium2" THEN Dilithium2 ELSE Falcon512

(***************************************************************************)
(* The three kinds of item: the size the scheme prescribes, whether a      *)
(* shorter payload is allowed, and the error of a malformed one.           *)
(***************************************************************************)
Kinds == {"PublicKey", "PrivateKey", "Signature"}

SizeFn(kind) == CASE kind = "PublicKey"  -> PublicKeyBytes
                  [] kind = "PrivateKey" -> SecretKeyBytes
                  [] kind = "Signature"  -> SignatureBytes
AllowShorter(kind) == kind = "Signature"
MismatchError(kind) == CASE kind = "PublicKey"  -> "InvalidPublicKey"
                         [] kind = "PrivateKey" -> "InvalidSecretKey"
                         [] kind = "Signature"  -> "InvalidSignature"

ValidateKeySize(kind, scheme, len) ==
    IF scheme.name \notin Schemes THEN Err("UnsupportedScheme")
    ELSE LET expected == SizeFn(kind)[scheme.name]
         IN  IF \/ ~AllowShorter(kind) /\ len = expected
                \/ AllowShorter(kind) /\ len <= expected
             THEN Ok(len)
             ELSE Err(MismatchError(kind))

New(kind, scheme, bytes) ==
    LET size == ValidateKeySize(kind, scheme, Len(bytes))
    IN  IF size.ok THEN Ok([scheme |-> scheme, bytes |-> bytes]) ELSE size

(***************************************************************************)
(* Little-endian integers: two bytes for the scheme, four for the length.  *)
(***************************************************************************)
PrefixLen == 2 + 4

U16ToLe(n) == <<n % Byte, (n \div Byte) % Byte>>
U32ToLe(n) == U16ToLe(n) \o U16ToLe(n \div (Byte * Byte))

U16FromLe(b) == b[1] + Byte * b[2]
U32FromLe(b) == U16FromLe(<<b[1], b[2]>>) + Byte * Byte * U16FromLe(<<b[3], b[4]>>)

EncodeWithScheme(kind, item) ==
    LET size == ValidateKeySize(kind, item.scheme, Len(item.bytes))
    IN  IF ~size.ok THEN size
        ELSE Ok(U16ToLe(ToU16(item.scheme)) \o U32ToLe(Len(item.bytes))
                \o item.bytes)

\* A mutant: bytes behind the payload are ignored.
MutDecodeWithScheme(kind, encoded) ==
    IF Len(encoded) < PrefixLen THEN Err(MismatchError(kind))
    ELSE LET len == U32FromLe(SubSeq(encoded, 3, 6))
         IN  IF Len(encoded) < PrefixLen + len THEN Err(MismatchError(kind))
             ELSE Ok([scheme |-> FromU16(U16FromLe(SubSeq(encoded, 1, 2))),
                      bytes |-> SubSeq(encoded, PrefixLen + 1, PrefixLen + len)])
DecodeWithScheme(kind, encoded) ==
    IF Len(encoded) < PrefixLen THEN Err(MismatchError(kind))
    ELSE IF Len(encoded) # PrefixLen + U32FromLe(SubSeq(encoded, 3, 6))
         THEN Err(MismatchError(kind))
    ELSE Ok([scheme |-> FromU16(U16FromLe(SubSeq(encoded, 1, 2))),
             bytes |-> SubSeq(encoded, PrefixLen + 1, Len(encoded))])

ToBytes(kind, item) == EncodeWithScheme(kind, item)

FromBytes(kind, encoded) ==
    LET decoded == DecodeWithScheme(kind, encoded)
        size == ValidateKeySize(kind, decoded.value.scheme, Len(decoded.value.bytes))
    IN  IF ~decoded.ok THEN decoded
        ELSE IF ~size.ok THEN size ELSE decoded

(***************************************************************************)
(* The two schemes.  The registry holds both; an unknown scheme has none.  *)
(***************************************************************************)
Registered(scheme) == scheme.name \in Schemes

Keygen(s) == [public |-> New("PublicKey", SchemeOf(s), Keypair[s].public),
              secret |-> New("PrivateKey", SchemeOf(s), Keypair[s].secret)]

\* External: the library knows the signatures of its own keys only.
VerifyDetached(s, sigBytes, msg, pkBytes) ==
    pkBytes = Keypair[s].public /\ sigBytes = DetachedSign[s][msg]

SchemeSign(s, sk, msg) ==
    IF sk.scheme # SchemeOf(s) THEN Err("WrongScheme")
    ELSE IF Len(sk.bytes) # SecretKeyBytes[s] THEN Err("InvalidSecretKey")
    ELSE New("Signature", SchemeOf(s), DetachedSign[s][msg])

\* A mutant: the scheme of the signature is not compared.
MutSchemeVerify(s, pk, msg, sig) ==
    IF pk.scheme # SchemeOf(s) THEN Err("WrongScheme")
    ELSE IF Len(pk.bytes) # PublicKeyBytes[s] THEN Err("InvalidPublicKey")
    ELSE IF Len(sig.bytes) > SignatureBytes[s] THEN Err("InvalidSignature")
    ELSE IF VerifyDetached(s, sig.bytes, msg, pk.bytes) THEN Ok(msg)
    ELSE Err("InvalidSignature")
SchemeVerify(s, pk, msg, sig) ==
    IF pk.scheme # SchemeOf(s) \/ sig.scheme # SchemeOf(s) THEN Err("WrongScheme")
    ELSE IF Len(pk.bytes) # PublicKeyBytes[s] THEN Err("InvalidPublicKey")
    ELSE IF Len(sig.bytes) > SignatureBytes[s] THEN Err("InvalidSignature")
    ELSE IF VerifyDetached(s, sig.bytes, msg, pk.bytes) THEN Ok(msg)
    ELSE Err("InvalidSignature")

(***************************************************************************)
(* One deserialisation after the other.                                    *)
(***************************************************************************)
VARIABLES
    bytes,    \* the bytes the visitor has collected
    result    \* << >> while reading, then what each kind's from_bytes makes of them

cryptoVars == <<bytes, result>>

CryptoInit == bytes = << >> /\ result = << >>

\* visit_seq: the next element.
NextElement ==
    /\ result = << >>
    /\ Len(bytes) < MaxInput
    /\ \E b \in 0..(Byte - 1) : bytes' = Append(bytes, b)
    /\ UNCHANGED result

\* The end of the input: visit_seq, visit_bytes and visit_byte_buf decode.
Deserialize ==
    /\ result = << >>
    /\ \E kind \in Kinds : result' = <<[kind |-> kind, item |-> FromBytes(kind, bytes)]>>
    /\ UNCHANGED bytes

NextItem == result # << >> /\ bytes' = << >> /\ result' = << >>

CryptoNext == NextElement \/ Deserialize \/ NextItem

-----------------------------------------------------------------------------
Decoded(kind) == result # << >> /\ result[1].kind = kind /\ result[1].item.ok

(***************************************************************************)
(* A key or a signature has one encoding: what from_bytes accepts, for     *)
(* whatever input, is exactly what to_bytes writes for the value it        *)
(* returns, and what new() accepts is read back from what to_bytes writes. *)
(* Scripts and witnesses carry these bytes, and script hashes cover them,  *)
(* so a second spelling of a key would be another script.                  *)
(***************************************************************************)
Canonical ==
    /\ \A kind \in Kinds :
          Decoded(kind) => ToBytes(kind, result[1].item.value) = Ok(bytes)
    /\ \A kind \in Kinds, s \in Schemes :
          LET item == New(kind, SchemeOf(s), bytes)
          IN  item.ok => FromBytes(kind, ToBytes(kind, item.value).value) = item

(***************************************************************************)
(* A signature that arrives as bytes verifies under a key, through the     *)
(* registered scheme of that key, only as the very bytes its holder sent:  *)
(* neither truncated nor padded nor retagged with the other scheme.        *)
(***************************************************************************)
AcceptedAsSent ==
    Decoded("Signature") =>
        \A s \in Schemes, m \in Messages :
            LET keys == Keygen(s)
                sent == SchemeSign(s, keys.secret.value, m)
            IN  /\ Registered(result[1].item.value.scheme)
                /\ SchemeVerify(s, keys.public.value, m, result[1].item.value).ok
                => bytes = ToBytes("Signature", sent.value).value
=============================================================================
