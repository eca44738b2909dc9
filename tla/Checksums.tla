------------------------------ MODULE Checksums ------------------------------
(***************************************************************************)
(* The check sums of browser/src/ip-checksum.js, from the packet they are  *)
(* written into to the receiver that sums it up again (RFC 1071).          *)
(*                                                                         *)
(* A packet is a sequence of bytes whose check sum field is the second     *)
(* word; the addresses and the protocol of the pseudo header are constants *)
(* of both ends.                                                           *)
(***************************************************************************)
EXTENDS Integers, Sequences

CONSTANTS
    Byte,              \* 256, the number of values of a byte
    Pseudo,            \* the pseudo header without the length, as words
    IpHeaders,         \* the headers that are sent, their check sum still 0
    TransportSegments  \* the same of TCP segments and UDP datagrams

ChecksumsAssumption ==
    /\ Byte \in Nat \ {0, 1} /\ Pseudo \in Seq(Nat)
    /\ \A bytes \in IpHeaders \cup TransportSegments :
        bytes \in Seq(0..(Byte - 1)) /\ Len(bytes) >= 4 /\ bytes[3] = 0 /\ bytes[4] = 0
    /\ \A bytes \in IpHeaders : Len(bytes) % 2 = 0

VARIABLES
    kind,     \* "ip", "tcp", "udp"
    packet,
    sent,     \* the packet as it was sent
    stage     \* "made", "sent", "received"

vars == <<kind, packet, sent, stage>>

Word == Byte * Byte
Full == Word - 1     \* 0xFFFF

Sum(words) ==
    LET total[i \in 0..Len(words)] == IF i = 0 THEN 0 ELSE total[i - 1] + words[i]
    IN  total[Len(words)]

\* Fault: the carries are added once only.
CarriedOnce(sum) == (sum % Word) + (sum \div Word)

Carried(sum) ==
    LET carried[n \in Nat] == IF n > Full THEN carried[(n % Word) + (n \div Word)] ELSE n
    IN  carried[sum]

\* The words of a segment; an odd last byte is the high byte of its word.
Words(bytes) ==
    [i \in 1..((Len(bytes) + 1) \div 2) |->
        bytes[2 * i - 1] * Byte + IF 2 * i <= Len(bytes) THEN bytes[2 * i] ELSE 0]

\* ipChecksum sums up the header, the other two a pseudo header in front of the segment.
Total(bytes) ==
    IF kind = "ip" THEN Sum(Words(bytes)) ELSE Sum(Pseudo) + Len(bytes) + Sum(Words(bytes))

\* ~sum & 0xFFFF
Complement(sum) == (Full - Carried(sum)) % Word

\* ipChecksum, tcpChecksum and udpChecksum, which does not return 0.
Checksum(bytes) ==
    LET result == Complement(Total(bytes))
    IN  IF kind = "udp" /\ result = 0 THEN Full ELSE result

Written(bytes, sum) == [bytes EXCEPT ![3] = sum \div Byte, ![4] = sum % Byte]
Field(bytes) == bytes[3] * Byte + bytes[4]

Init ==
    /\ kind \in {"ip", "tcp", "udp"}
    /\ packet \in IF kind = "ip" THEN IpHeaders ELSE TransportSegments
    /\ sent = <<>>
    /\ stage = "made"

Send ==
    /\ stage = "made" /\ stage' = "sent"
    /\ packet' = Written(packet, Checksum(packet))
    /\ sent' = packet'
    /\ UNCHANGED kind

\* One byte is changed on the way.
Corrupt ==
    /\ stage = "sent" /\ packet = sent
    /\ \E i \in DOMAIN packet : \E v \in 0..(Byte - 1) : packet' = [packet EXCEPT ![i] = v]
    /\ UNCHANGED <<kind, sent, stage>>

Receive ==
    /\ stage = "sent" /\ stage' = "received"
    /\ UNCHANGED <<kind, packet, sent>>

Next == Send \/ Corrupt \/ Receive

Spec == Init /\ [][Next]_vars

-----------------------------------------------------------------------------

\* What a receiver does: everything, the check sum with it, is a multiple of 0xFFFF.  A
\* datagram whose field is 0 has no check sum and is taken.
Weighed(bytes) == [i \in DOMAIN bytes |-> IF i % 2 = 1 THEN bytes[i] * Byte ELSE bytes[i]]

Adds(bytes) == Sum(Weighed(bytes)) + (IF kind = "ip" THEN 0 ELSE Sum(Pseudo) + Len(bytes))

Taken(bytes) == Adds(bytes) % Full = 0 \/ (kind = "udp" /\ Field(bytes) = 0)

\* A receiver takes every packet that arrives as it was sent, of even and of odd length.
SentIsTaken == stage = "received" /\ packet = sent => Taken(packet)

\* It takes no packet in which a byte has changed, as far as the field says there is a sum.
ChangeIsNoticed ==
    stage = "received" /\ packet # sent /\ ~(kind = "udp" /\ Field(packet) = 0) => ~Taken(packet)

\* No datagram is sent as one without a check sum ("If result is 0, return 0xFFFF").
DatagramsAreChecked == kind = "udp" /\ stage # "made" => Field(sent) # 0

\* A packet is taken if it arrives as it was sent, of even and of odd length, and not if a
\* byte has changed; no datagram is sent as one without a check sum.
PacketsAreChecked == SentIsTaken /\ ChangeIsNoticed /\ DatagramsAreChecked

=============================================================================
