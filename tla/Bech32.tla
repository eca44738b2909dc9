------------------------------- MODULE Bech32 -------------------------------
(***************************************************************************)
(* The identifiers npub1... and nsec1...: bech32Decode, bech32Encode and   *)
(* convertBits of browser/src/client.js.  Somebody writes an identifier    *)
(* down, it may be damaged on the way, and it is typed in again.           *)
(*                                                                         *)
(* A string is its human readable part, as character codes, the symbols of *)
(* its data part (their index in BECH32_CHARSET, or NoSymbol), and its     *)
(* case.  The check sum is the real one.                                   *)
(***************************************************************************)
EXTENDS Integers, Sequences, SequencesExt, Bitwise

CONSTANTS
    Payloads,   \* what identifiers stand for, as bytes
    Fives,      \* data parts without check sum, which need not be encodings of bytes
    Changes     \* by how much a damaged symbol differs from the one it was

Bech32Assumption ==
    /\ Payloads \subseteq Seq(0..255) /\ Fives \subseteq Seq(0..31) /\ Changes \subseteq 1..31

VARIABLES
    kind,     \* what was written down, and where it is typed in: "npub" or "nsec"
    bytes,    \* the payload that was encoded, or Unknown
    string,   \* the string, as it is now
    damaged,
    outcome   \* what npubToHex or nsecToHex returned or threw

vars == <<kind, bytes, string, damaged, outcome>>

NoSymbol == 32
Unknown  == <<-1>>
Kinds    == {"npub", "nsec"}
Npub     == <<110, 112, 117, 98>>
Nsec     == <<110, 115, 101, 99>>
Hrp(k)   == IF k = "npub" THEN Npub ELSE Nsec

Bech32mConst == 734539939
Gen == <<996825010, 642813549, 513874426, 1027748829, 705979059>>

Bit(n, i) == (n \div 2^i) % 2

\* Fault: top is shifted before its bits are looked at.
PolymodStepEarly(chk, v) ==
    LET top == chk \div 2^26
        flip(c, i) == IF Bit(top, i - 1) = 1 THEN c ^^ Gen[i] ELSE c
    IN  FoldLeft(flip, ((chk % 2^25) * 32) ^^ v, <<1, 2, 3, 4, 5>>)

\* One round of bech32Polymod.
PolymodStep(chk, v) ==
    LET top == chk \div 2^25
        flip(c, i) == IF Bit(top, i - 1) = 1 THEN c ^^ Gen[i] ELSE c
    IN  FoldLeft(flip, ((chk % 2^25) * 32) ^^ v, <<1, 2, 3, 4, 5>>)

Polymod(values) == FoldLeft(PolymodStep, 1, values)

HrpExpand(hrp) ==
    [i \in DOMAIN hrp |-> hrp[i] \div 32] \o <<0>> \o [i \in DOMAIN hrp |-> hrp[i] % 32]

\* The loop of convertBits: what is left of the accumulator, and the words that are full.
Regrouped(data, from, to) ==
    LET word(acc, bits) == (acc \div 2^bits) % 2^to
        take(s, v) ==
            LET acc  == (s.acc * 2^from + v) % 2^(from + to - 1)
                all  == s.bits + from
                full == all \div to
            IN  [acc |-> acc, bits |-> all % to,
                 words |-> s.words \o [k \in 1..full |-> word(acc, all - k * to)]]
    IN  FoldLeft(take, [acc |-> 0, bits |-> 0, words |-> <<>>], data)

\* convertBits(data, 8, 5, true)
ToFives(data) ==
    LET r == Regrouped(data, 8, 5)
    IN  IF r.bits = 0 THEN r.words
        ELSE Append(r.words, (r.acc * 2^(5 - r.bits)) % 32)

\* convertBits(data, 5, 8, false): at most four bits may be left, and they are zero.
Eights(data) ==
    LET r == Regrouped(data, 5, 8)
    IN  [ok |-> r.bits < 5 /\ (r.acc * 2^(8 - r.bits)) % 256 = 0, words |-> r.words]

Checksum(hrp, fives) ==
    LET chk == Polymod(HrpExpand(hrp) \o fives \o <<0, 0, 0, 0, 0, 0>>) ^^ Bech32mConst
    IN  [i \in 1..6 |-> (chk \div 2^(5 * (6 - i))) % 32]

\* A string with a check sum that is right, of any symbols.
Signed(hrp, fives) == [hrp |-> hrp, data |-> fives \o Checksum(hrp, fives), form |-> "lower"]

\* bech32Encode
Encode(hrp, data) == Signed(hrp, ToFives(data))

Thrown(error) == [error |-> error, bytes |-> <<>>]

\* bech32Decode, and npubToHex or nsecToHex, which asks for its own prefix.
Decode(k, s) ==
    LET body == SubSeq(s.data, 1, Len(s.data) - 6)
    IN  CASE s.form = "mixed"                            -> Thrown("mixed case")
          [] Len(s.data) < 6                             -> Thrown("separator")
          [] \E i \in DOMAIN s.data : s.data[i] = NoSymbol -> Thrown("character")
          [] Polymod(HrpExpand(s.hrp) \o s.data) # Bech32mConst -> Thrown("checksum")
          [] s.hrp # Hrp(k)                              -> Thrown("kind")
          [] ~Eights(body).ok                            -> Thrown("padding")
          [] OTHER                                       -> [error |-> "none", bytes |-> Eights(body).words]

-----------------------------------------------------------------------------

Init ==
    /\ kind \in Kinds
    /\ \/ /\ bytes \in Payloads /\ string = Encode(Hrp(kind), bytes)
       \/ /\ bytes = Unknown /\ \E fives \in Fives : string = Signed(Hrp(kind), fives)
    /\ damaged = FALSE
    /\ outcome = Thrown("unread")

\* It may be written in capitals, and is the same then.
Capitalise ==
    /\ outcome.error = "unread" /\ string.form = "lower"
    /\ string' = [string EXCEPT !.form = "upper"]
    /\ UNCHANGED <<kind, bytes, damaged, outcome>>

Damage(s) ==
    \/ \E i \in DOMAIN s.data : \E d \in Changes :
        string' = [s EXCEPT !.data[i] = @ ^^ d]
    \/ \E i \in DOMAIN s.data : string' = [s EXCEPT !.data[i] = NoSymbol]
    \/ string' = [s EXCEPT !.form = "mixed"]
    \/ \E k \in Kinds : Hrp(k) # s.hrp /\ string' = [s EXCEPT !.hrp = Hrp(k)]
    \/ \E n \in 0..5 : string' = [s EXCEPT !.data = SubSeq(@, 1, n)]

DamageOnce ==
    /\ outcome.error = "unread" /\ ~damaged
    /\ damaged' = TRUE
    /\ Damage(string)
    /\ UNCHANGED <<kind, bytes, outcome>>

TypeIn(k) ==
    /\ outcome.error = "unread"
    /\ outcome' = Decode(k, string)
    /\ kind' = k
    /\ UNCHANGED <<bytes, string, damaged>>

Next == Capitalise \/ DamageOnce \/ \E k \in Kinds : TypeIn(k)

Spec == Init /\ [][Next]_vars

-----------------------------------------------------------------------------

Accepted == outcome.error = "none"
Read     == outcome.error # "unread"

\* An identifier that was not damaged stands for what was encoded, in either case.
RoundTrip ==
    Read /\ ~damaged /\ bytes # Unknown /\ string.hrp = Hrp(kind) =>
        outcome = [error |-> "none", bytes |-> bytes]

\* One symbol that is wrong or unreadable, a change of case, of the prefix or of the length
\* is noticed, wherever it is.
DamageIsNoticed == damaged => ~Accepted

\* There is one string for every key: what is accepted is what encoding it gives.
OneSpelling == Accepted => Encode(string.hrp, outcome.bytes).data = string.data

=============================================================================
