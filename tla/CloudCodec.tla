----------------------------- MODULE CloudCodec -----------------------------
(***************************************************************************)
(* The wire format of the cloud link (CloudMessage of                      *)
(* pkg/rockrobo/cloud.go): a header with the length of the packet, modulo  *)
(* the size of its field, and a checksum, and a body that is padded to     *)
(* whole blocks and encrypted.  A message without a body is a header only, *)
(* which is not verified.                                                  *)
(*                                                                         *)
(* Bytes are numbers.  Encryption keeps the number of bytes and is undone  *)
(* by its own key only; a checksum is told apart from every other one.     *)
(***************************************************************************)
EXTENDS Integers, Sequences, SequencesExt

CONSTANTS
  HeaderSize,   \* bytes of a header (32)
  Block,        \* bytes of a block (16)
  Word,         \* values of the length field (2^16)
  Keys,         \* keys of devices
  Bodies        \* bodies of messages

ASSUME CodecAssumption ==
  /\ HeaderSize \in Nat /\ Block \in Nat \ {0} /\ Word \in Nat /\ HeaderSize < Word
  /\ Bodies \subseteq Seq(Nat)

Fail == [ok |-> FALSE]

-----------------------------------------------------------------------------
Padding(body) == Block - (Len(body) % Block)

PadIncomplete(body) ==  \* variant: a body of whole blocks is not padded
  body \o [i \in 1..(Padding(body) % Block) |-> Padding(body)]
pad(body) == body \o [i \in 1..Padding(body) |-> Padding(body)]

(* The last byte tells how many are removed; none if it is zero.           *)
unpad(body) ==
  IF Last(body) > Len(body) THEN Fail
  ELSE [ok |-> TRUE, body |-> SubSeq(body, 1, Len(body) - Last(body))]

(* bytes.Trim removes zero bytes at both ends.                             *)
Trim(body) ==
  LET kept == {i \in DOMAIN body : body[i] # 0}
      first == CHOOSE i \in kept : \A j \in kept : i <= j
      last  == CHOOSE i \in kept : \A j \in kept : j <= i
  IN IF kept = {} THEN <<>> ELSE SubSeq(body, first, last)

(* Cipher bytes; with another key the blocks decrypt to bytes that have    *)
(* nothing to do with the plain ones.                                      *)
Encrypt(body, key) == [i \in DOMAIN body |-> [by |-> key, byte |-> body[i]]]
Decrypt(body, key) == [i \in DOMAIN body |-> IF body[i].by = key THEN body[i].byte ELSE 1]

(* The checksum covers the first half of the header, which has no checksum *)
(* in it, the key and the encrypted body.                                  *)
Checksum(header, key, body) == [length |-> header.length, device |-> header.device, key |-> key, body |-> body]
NoChecksum == [length |-> 0]

-----------------------------------------------------------------------------
Write(m, key) ==
  LET body == IF m.body = <<>> THEN <<>> ELSE Encrypt(pad(m.body), key)
      header == [length |-> (HeaderSize + Len(body)) % Word, device |-> m.device]
  IN [header |-> header, body |-> body,
      checksum |-> IF body = <<>> THEN NoChecksum ELSE Checksum(header, key, body)]

ReadUnverified(p, key) ==   \* variant: the checksum is not looked at
  LET plain == unpad(Decrypt(p.body, key))
  IN IF p.header.length = HeaderSize THEN [ok |-> TRUE, device |-> p.header.device, body |-> p.body]
     ELSE IF ~plain.ok THEN Fail
     ELSE [ok |-> TRUE, device |-> p.header.device, body |-> Trim(plain.body)]

(* What is not header only by its length is verified before it is decoded. *)
Sized(p)    == p.header.length = (HeaderSize + Len(p.body)) % Word
Verified(p, key) == p.checksum = Checksum(p.header, key, p.body)

Read(p, key) ==
  IF ~Sized(p) THEN Fail
  ELSE IF p.header.length = HeaderSize
    THEN [ok |-> TRUE, device |-> p.header.device, body |-> p.body]
  ELSE IF ~Verified(p, key) THEN Fail
  ELSE LET plain == unpad(Decrypt(p.body, key))
       IN IF plain.ok
            THEN [ok |-> TRUE, device |-> p.header.device, body |-> Trim(plain.body)]
            ELSE Fail

-----------------------------------------------------------------------------
(* Properties.                                                             *)

(* A length that wraps to that of a header makes the body an unverified    *)
(* one; packets of the network are shorter than that.                      *)
Wraps(body) == body # <<>> /\ Len(pad(body)) % Word = 0

(* What is read is what was written, up to zero bytes at the ends of the   *)
(* body, whatever the length of the body is to that of a block; with       *)
(* another key nothing but a header is accepted (cloud.go:55, 108).        *)
ReadAsWritten ==
  \A body \in Bodies, k, l \in Keys :
    LET m == [device |-> 1, body |-> body]
        r == Read(Write(m, k), l)
    IN ~Wraps(body) =>
         IF k = l \/ body = <<>>
           THEN r = [ok |-> TRUE, device |-> 1, body |-> Trim(body)]
           ELSE r = Fail
=============================================================================
