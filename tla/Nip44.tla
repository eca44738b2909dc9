-------------------------------- MODULE Nip44 --------------------------------
(***************************************************************************)
(* A direct message between a browser and a daemon, as NIP-44 payload:     *)
(* encrypt and decrypt of browser/src/nip44-browser.js with their keys,    *)
(* padding and sizes.  daemon/nip44.py does the same; the one place where  *)
(* they may differ, the padded length, is compared below.                  *)
(*                                                                         *)
(* Keys are symbolic: the shared secret of two parties is the set of the   *)
(* two, the keys of a message are that secret with the nonce, a cipher     *)
(* text is its key with the padded bytes.  The padding is byte for byte.   *)
(***************************************************************************)
EXTENDS Integers, Sequences

CONSTANTS
    Parties,
    Nonces,
    Texts,     \* the plain texts, as bytes (0 is also the padding)
    Byte,      \* 256, the number of values of a byte
    IntBits    \* 32, the width of the operands of <<

ExtendedPrefixThreshold == Byte * Byte
MaxPlaintextSize == ExtendedPrefixThreshold * ExtendedPrefixThreshold - 1

\* pad throws for a text of any other length.
Nip44Assumption ==
    /\ Byte \in Nat \ {0, 1} /\ IntBits \in Nat \ {0, 1}
    /\ Texts \subseteq {t \in Seq(0..(Byte - 1)) : Len(t) \in 1..MaxPlaintextSize}

VARIABLES
    sender, recipient,
    text,      \* the plain text
    payload,   \* what was published; <<>> before
    reader, claimed,  \* who decrypts, and whose key it takes the sender's to be
    outcome    \* what decrypt returned or threw

vars == <<sender, recipient, text, payload, reader, claimed, outcome>>

NonceSize == 32
MacSize   == 32
MinData    == 99     \* decodePayload
MinPayload == 132

Times(byte, n) == [i \in 1..n |-> byte]

\* setUint16 and setUint32: the bytes of a number, the highest first.
Uint16(n) == <<(n \div Byte) % Byte, n % Byte>>
Uint32(n) == Uint16(n \div ExtendedPrefixThreshold) \o Uint16(n % ExtendedPrefixThreshold)

\* getUint16 and getUint32: the number in the bytes from the given one on.
AsUint16(bytes, at) == bytes[at] * Byte + bytes[at + 1]
AsUint32(bytes, at) == AsUint16(bytes, at) * ExtendedPrefixThreshold + AsUint16(bytes, at + 2)

FloorLog2(n) == CHOOSE k \in 0..n : 2^k <= n /\ n < 2^(k + 1)

\* 1 << k in JavaScript.
Shifted(k) ==
    LET bit == k % IntBits IN IF bit = IntBits - 1 THEN -(2^bit) ELSE 2^bit

\* n made a multiple of the chunk that belongs to the next power of two.
InChunks(n, nextPower) ==
    LET chunk == IF nextPower <= 256 THEN 32 ELSE nextPower \div 8
    IN  chunk * ((n - 1) \div chunk + 1)

\* calcPaddedLen
PaddedLen(n) == IF n <= 32 THEN 32 ELSE InChunks(n, Shifted(FloorLog2(n - 1) + 1))

\* calc_padded_len of daemon/nip44.py.
PaddedLenOfDaemon(n) == IF n <= 32 THEN 32 ELSE InChunks(n, 2^(FloorLog2(n - 1) + 1))

\* Fault: the long prefix begins one byte late.
PadShortPrefix(bytes) ==
    LET n == Len(bytes)
        prefix == IF n > ExtendedPrefixThreshold THEN <<0, 0>> \o Uint32(n) ELSE Uint16(n)
    IN  prefix \o bytes \o Times(0, PaddedLen(n) - n)

Pad(bytes) ==
    LET n == Len(bytes)
        prefix == IF n >= ExtendedPrefixThreshold THEN <<0, 0>> \o Uint32(n) ELSE Uint16(n)
    IN  prefix \o bytes \o Times(0, PaddedLen(n) - n)

Thrown(error) == [error |-> error, text |-> <<>>]

\* unpad
Unpad(padded) ==
    LET extended == AsUint16(padded, 1) = 0
        n        == IF extended THEN AsUint32(padded, 3) ELSE AsUint16(padded, 1)
        prefix   == IF extended THEN 6 ELSE 2
    IN  IF \/ extended /\ n < ExtendedPrefixThreshold
           \/ Len(padded) # prefix + PaddedLen(n)
        THEN Thrown("invalid padding")
        ELSE [error |-> "none", text |-> SubSeq(padded, prefix + 1, prefix + n)]

-----------------------------------------------------------------------------
(* Keys and payloads                                                       *)

\* getConversationKey: the secret of Diffie and Hellman is the same from both sides.
ConversationKey(mine, theirs) == {mine, theirs}

\* getMessageKeys: cipher and MAC have keys of their own, derived from both.
MessageKeys(conversation, nonce) == [conversation |-> conversation, nonce |-> nonce]

Mac(keys, ciphertext, nonce) == <<keys, ciphertext, nonce>>

\* Sizes of the payload as bytes, and of its base64 text.
DataSize(p)    == 1 + NonceSize + Len(p.ciphertext.bytes) + MacSize
Base64Size(n)  == 4 * ((n + 2) \div 3)

Init ==
    /\ sender \in Parties /\ recipient \in Parties
    /\ text \in Texts
    /\ payload = <<>>
    /\ reader \in Parties /\ claimed \in Parties
    /\ outcome = Thrown("unread")

Encrypt ==
    /\ payload = <<>>
    /\ \E nonce \in Nonces :
        LET keys == MessageKeys(ConversationKey(sender, recipient), nonce)
            ciphertext == [keys |-> keys, bytes |-> Pad(text)]
        IN  payload' = <<[nonce |-> nonce, ciphertext |-> ciphertext,
                          mac |-> Mac(keys, ciphertext, nonce)]>>
    /\ UNCHANGED <<sender, recipient, text, reader, claimed, outcome>>

\* The checks of sizes in decodePayload.
Acceptable(p) == Base64Size(DataSize(p)) >= MinPayload /\ DataSize(p) >= MinData

Decrypt ==
    /\ payload # <<>> /\ outcome.error = "unread"
    /\ LET p == payload[1]
           keys == MessageKeys(ConversationKey(reader, claimed), p.nonce)
       IN  outcome' =
               CASE ~Acceptable(p)                           -> Thrown("invalid size")
                 [] Mac(keys, p.ciphertext, p.nonce) # p.mac -> Thrown("invalid MAC")
                 [] OTHER                                    -> Unpad(p.ciphertext.bytes)
    /\ UNCHANGED <<sender, recipient, text, payload, reader, claimed>>

Next == Encrypt \/ Decrypt

Spec == Init /\ [][Next]_vars

-----------------------------------------------------------------------------

Read == outcome.error # "unread"

\* Whoever holds the keys of the two parties reads the text, whatever its length and bytes:
\* the texts at the borders of a chunk, of the short prefix and of the least payload, and
\* texts of zeros, which look like padding.  The two may be one, and may change sides.
RoundTrip ==
    Read /\ {reader, claimed} = {sender, recipient} => outcome = [error |-> "none", text |-> text]

\* Read under any other pair of keys a message is refused for its MAC and never for its
\* padding, and no text comes out.
OthersRefuse ==
    Read /\ {reader, claimed} # {sender, recipient} => outcome = Thrown("invalid MAC")

\* Of two texts the longer one never has the shorter payload.
LongerIsNotShorter ==
    \A other \in Texts : Len(other) <= Len(text) => PaddedLen(Len(other)) <= PaddedLen(Len(text))

\* Padding adds less than a quarter of a long text, and less than 32 bytes to a short one.
PaddingIsBounded ==
    LET n == Len(text) IN PaddedLen(n) - n < (IF n <= 128 THEN 32 ELSE (n + 3) \div 4)

\* The holders of the two keys read the text, whatever its length and bytes, all others are
\* refused for the MAC, and the padding is monotone and bounded.
MessagesAreRead == RoundTrip /\ OthersRefuse /\ LongerIsNotShorter /\ PaddingIsBounded

\* "Mirrors nip44.py:calc_padded_len exactly" (nip44-browser.js).
MirrorsDaemon == PaddedLen(Len(text)) = PaddedLenOfDaemon(Len(text))

=============================================================================
