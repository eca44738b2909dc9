------------------------------ MODULE MCParts ------------------------------
(***************************************************************************)
(* The small components in one run.  Five write something down at one end  *)
(* and read it at the other: HttpExchange, Cookies, Nip44, Bech32,         *)
(* Checksums.  Four apply rules to what they are told: Admission,          *)
(* PortRouting, Diagnostics, CountryFlags.  They share no state, so a      *)
(* behaviour is a behaviour of one of them, whose variables are the slots  *)
(* v1 to v9.                                                               *)
(***************************************************************************)
EXTENDS Naturals, Sequences

VARIABLES
    part,                               \* the component
    v1, v2, v3, v4, v5, v6, v7, v8, v9  \* its variables

slots == <<v1, v2, v3, v4, v5, v6, v7, v8, v9>>
vars  == <<part, slots>>

-----------------------------------------------------------------------------
(* HTTP: callers that set headers in either spelling, backends with up to  *)
(* two headers, bodies that hold an empty line, bytes of four values.      *)

Header(name, form, value) == [name |-> name, form |-> form, value |-> value]

CallerHeaders ==
    {Header("host", "lower", 1), Header("host", "Title", 1),
     Header("content-length", "lower", 9), Header("cookie", "lower", 1)}

\* Two spellings of one name are two headers; nobody passes both.
SomeCallers ==
    {<<>>} \cup {<<g>> : g \in CallerHeaders}
        \cup {<<p[1], p[2]>> : p \in {q \in CallerHeaders \X CallerHeaders : q[1].name # q[2].name}}

BackendHeaders ==
    {Header("set-cookie", "Title", 1), Header("set-cookie", "lower", 2),
     Header("via", "Title", 1), Header("connection", "lower", 1), Header("server", "Title", 1)}

SomeBackends ==
    {<<>>} \cup {<<g>> : g \in BackendHeaders} \cup {<<g, h>> : g, h \in BackendHeaders}

Break      == <<"crlf">>
SomeBodies == {<<>>, <<Break, Break, <<"text">>>>, <<<<"text">>, Break, Break>>}

Http == INSTANCE HttpExchange WITH
    StreamIds <- {1, 15}, StreamPorts <- {8}, Byte <- 4, Callers <- SomeCallers,
    Backends <- SomeBackends, Bodies <- SomeBodies, Lengths <- {7}, Stripped <- {"via", "connection"},
    phase <- v1, call <- v2, wire <- v3, asked <- v4, answer <- v5, chunks <- v6, result <- v7

-----------------------------------------------------------------------------
(* Cookies: two spellings of Domain, a path and a blank attribute, with    *)
(* and without a gap, between two other headers.                           *)

SomeLower == [k \in {"domain", "Domain", "path", ""} |-> IF k = "Domain" THEN "domain" ELSE k]

Jar == INSTANCE Cookies WITH
    CookieNames <- {"sid", "PECK_vault", ""}, CookieValues <- {"1"}, Keys <- DOMAIN SomeLower,
    Lower <- SomeLower, Domains <- {"", "x", "y"}, MaxAttributes <- 2, OwnNames <- {"PECK_vault"},
    Others <- <<"content-type", "x-frame-options">>,
    headers <- v1, message <- v2, setCookies <- v3, forwarded <- v4, cookies <- v5, logActions <- v6

-----------------------------------------------------------------------------
(* NIP-44: lengths at the borders of the padding scheme.  A byte has 16    *)
(* values, so that the long prefix begins at 256.                          *)

BorderLengths ==
    {1, 2, 31, 32, 33, 63, 64, 65, 96, 97, 128, 129, 191, 192, 193, 224, 225, 255, 256, 257, 258,
     319, 320, 321, 448, 449, 511, 512, 513, 576, 577, 640, 641}

\* Texts of one byte each: of zeros, which look like padding, and of another.
SomeTexts == {[i \in 1..n |-> byte] : byte \in {0, 7}, n \in BorderLengths}

Dm == INSTANCE Nip44 WITH
    Parties <- {"browser", "daemon", "other"}, Nonces <- {"n1", "n2"}, Texts <- SomeTexts,
    Byte <- 16, IntBits <- 16,
    sender <- v1, recipient <- v2, text <- v3, payload <- v4, reader <- v5, claimed <- v6,
    outcome <- v7

-----------------------------------------------------------------------------
(* Bech32: payloads of up to five bytes, whose last symbols carry every    *)
(* number of padding bits, and data parts that nobody encoded.             *)

SomePayloads ==
    {<<>>, <<0>>, <<255>>, <<1, 128>>, <<170, 85, 1>>, <<255, 0, 255, 1>>, <<1, 2, 3, 4, 255>>}

SomeFives ==
    {<<a, b>> : a \in {0, 31}, b \in {0, 1, 4, 28}} \cup {<<7>>, <<9, 0, 16>>}
        \cup {<<a, 3, 5, b>> : a \in {1, 16}, b \in {0, 1, 8, 16}}

Key == INSTANCE Bech32 WITH
    Payloads <- SomePayloads, Fives <- SomeFives, Changes <- {1, 2, 16, 31},
    kind <- v1, bytes <- v2, string <- v3, damaged <- v4, outcome <- v5

-----------------------------------------------------------------------------
(* Check sums: bytes of four values, words of sixteen, packets of up to    *)
(* seven bytes.                                                            *)

Octets == {0, 1, 3}

SomeHeaders ==
    {<<a, b, 0, 0>> : a, b \in Octets} \cup {<<a, b, 0, 0, c, d>> : a, b, c, d \in Octets}

SomeSegments ==
    SomeHeaders \cup {<<a, b, 0, 0, c>> : a, b, c \in Octets}
        \cup {<<a, b, 0, 0, c, d, a>> : a, b, c, d \in Octets}

Packet == INSTANCE Checksums WITH
    Byte <- 4, Pseudo <- <<5, 14, 11, 7, 2>>, IpHeaders <- SomeHeaders,
    TransportSegments <- SomeSegments,
    kind <- v1, packet <- v2, sent <- v3, stage <- v4

-----------------------------------------------------------------------------
(* Admission: two clients, two addresses.  The second content of the file  *)
(* blocks an address, the third one admits a single client.                *)

Tight == [perClient |-> 1, global |-> 0]
Wide  == [perClient |-> 2, global |-> 3]
Free  == [perClient |-> 0, global |-> 3]

Open    == [rules |-> <<>>, default |-> "allow", limits |-> Free]
Blocked == [rules |-> <<[clients |-> {}, addresses |-> {"away"}, effect |-> "loud-deny"]>>,
            default |-> "allow", limits |-> Wide]
Private == [rules |-> <<[clients |-> {"c1"}, addresses |-> {}, effect |-> "allow"],
                        [clients |-> {}, addresses |-> {"home"}, effect |-> "deny"]>>,
            default |-> "deny", limits |-> Tight]

Gate == INSTANCE Admission WITH
    Clients <- {"c1", "c2"}, Addresses <- {"home", "away"}, NoAddress <- "no address",
    Contents <- {Open, Blocked, Private}, Window <- 2, Cooldown <- 1,
    MaxNow <- 4, MaxLog <- 4,
    now <- v1, times <- v2, tracked <- v3, globalTimes <- v4, limits <- v5, policy <- v6,
    file <- v7, log <- v8, last <- v9

-----------------------------------------------------------------------------
(* Ports: two ports files, one with the page's default port as another's   *)
(* default; paths with and without a prefix, with one that has no number,  *)
(* that is no port, and that is not configured; redirects of each form.    *)

SomePorts == [s \in {"_p80", "_p90", "_p70", "_p99"} |->
                CASE s = "_p80" -> 80 [] s = "_p90" -> 90 [] s = "_p70" -> 70 [] OTHER -> 99]

SomeConfigs == {[ports |-> {80, 90}, default |-> 90], [ports |-> {90}, default |-> 90]}

SomeNavs == {"first", "second"}

SomeHrefs == {<<"">>, <<"_p90", "a">>, <<"_p70">>, <<"_p99", "a">>, <<"_p90", "_p80", "a">>, <<"_p90", "_px">>}

SomeRedirects == {[form |-> "absolute", path |-> <<"b">>], [form |-> "relative", path |-> <<"b">>],
                  [form |-> "url", path |-> <<"_p90", "a">>]}

Ports == INSTANCE PortRouting WITH
    Navs <- SomeNavs, Segments <- {"", "a", "b", "_px"} \cup DOMAIN SomePorts,
    Hrefs <- SomeHrefs, Redirects <- SomeRedirects, Configs <- SomeConfigs,
    PortOf <- SomePorts, Marked <- DOMAIN SomePorts \cup {"_px"}, DefaultPort <- 80,
    MaxPort <- 98, MaxRedirects <- 1,
    config <- v1, currentPort <- v2, nav <- v3, pageOn <- v4

-----------------------------------------------------------------------------
(* Diagnostics: two hosts; a host, and an address that a peer saw first; a *)
(* relay and a translated address.                                         *)

Pairs       == {"lan", "open", "turn"}
SomeLocals  == [p \in Pairs |-> IF p = "turn" THEN "relayA" ELSE "hostA"]
SomeRemotes == [p \in Pairs |-> CASE p = "lan" -> "hostB" [] p = "open" -> "prflxB" [] OTHER -> "srflxB"]
SomeTypes   == [c \in {"hostA", "relayA", "hostB", "prflxB", "srflxB"} |->
                   CASE c \in {"hostA", "hostB"} -> "host" [] c = "relayA" -> "relay"
                     [] c = "prflxB" -> "prflx" [] OTHER -> "srflx"]

Diag == INSTANCE Diagnostics WITH
    Pairs <- Pairs, LocalOf <- SomeLocals, RemoteOf <- SomeRemotes, TypeOf <- SomeTypes,
    MaxBytes <- 1,
    state <- v1, selected <- v2, inUse <- v3, sent <- v4, order <- v5, shown <- v6

-----------------------------------------------------------------------------
(* Flags: addresses of four bits, tables of up to four blocks, with and    *)
(* without gaps, and one that covers everything.                           *)

SomeTables ==
    {<<>>,
     <<<<0, 0, "A">>>>,
     <<<<8, 1, "A">>>>,
     <<<<0, 4, "A">>, <<1, 4, "B">>, <<2, 3, "A">>>>,
     <<<<2, 3, "A">>, <<4, 2, "B">>, <<12, 3, "C">>, <<15, 4, "A">>>>}

Flags == INSTANCE CountryFlags WITH
    Bits <- 4, Tables <- SomeTables, Addresses <- {0, 3, 7, 14, 15, 99}, Other <- {99},
    Unknown <- "unknown", MaxLists <- 2,
    table <- v1, loading <- v2, imports <- v3, own <- v4, exits <- v5, scheduled <- v6,
    waiting <- v7, arrived <- v8

-----------------------------------------------------------------------------

ASSUME PartsAssumption ==
    /\ Http!ExchangeAssumption /\ Jar!CookieAssumption /\ Dm!Nip44Assumption
    /\ Key!Bech32Assumption /\ Packet!ChecksumsAssumption
    /\ Gate!AdmissionAssumption /\ Ports!RoutingAssumption
    /\ Diag!DiagnosticsAssumption /\ Flags!FlagsAssumption

\* The slots from some number on, which a component does not use.
Unused(slot) == slot = "unused"
From9 == Unused(v9)
From8 == Unused(v8) /\ From9
From7 == Unused(v7) /\ From8
From6 == Unused(v6) /\ From7
From5 == Unused(v5) /\ From6

Init ==
    \/ part = "http"   /\ Http!Init   /\ From8
    \/ part = "jar"    /\ Jar!Init    /\ From7
    \/ part = "dm"     /\ Dm!Init     /\ From8
    \/ part = "key"    /\ Key!Init    /\ From6
    \/ part = "packet" /\ Packet!Init /\ From5
    \/ part = "gate"   /\ Gate!Init
    \/ part = "ports"  /\ Ports!Init  /\ From5
    \/ part = "diag"   /\ Diag!Init   /\ From7
    \/ part = "flags"  /\ Flags!Init  /\ From9

\* What the steps of CountryFlags, the one component with fairness, leave alone.
OfFlags == part = "flags" /\ UNCHANGED <<part, v9>>

Next ==
    \/ OfFlags /\ Flags!Next
    \/ /\ UNCHANGED part
       /\ \/ part = "http"   /\ Http!Next   /\ UNCHANGED <<v8, v9>>
          \/ part = "jar"    /\ Jar!Next    /\ UNCHANGED <<v7, v8, v9>>
          \/ part = "dm"     /\ Dm!Next     /\ UNCHANGED <<v8, v9>>
          \/ part = "key"    /\ Key!Next    /\ UNCHANGED <<v6, v7, v8, v9>>
          \/ part = "packet" /\ Packet!Next /\ UNCHANGED <<v5, v6, v7, v8, v9>>
          \/ part = "gate"   /\ Gate!Next
          \/ part = "ports"  /\ Ports!Next  /\ UNCHANGED <<v5, v6, v7, v8, v9>>
          \/ part = "diag"   /\ Diag!Next   /\ UNCHANGED <<v7, v8, v9>>

\* The fairness of CountryFlags.
Fairness ==
    /\ WF_vars(OfFlags /\ (Flags!ImportEnds \/ Flags!ImportFails))
    /\ WF_vars(OfFlags /\ Flags!Rerender)

Spec == Init /\ [][Next]_vars /\ Fairness

-----------------------------------------------------------------------------

\* HttpExchange: the daemon reads what the caller asked, with one Host header, and the
\* caller gets the status, the body and the headers that may pass, with one length, the
\* backend's own or else the true one, whatever the body consists of; nothing internal gets
\* out.
HttpArrives == part = "http" => Http!HttpArrives

\* Cookies: a cookie reaches the page with the meaning it had, but without the domains that
\* are named with no gap; the page is told exactly of those that lose something; filtering
\* twice changes nothing.
CookiesKeepMeaning == part = "jar" => Jar!CookiesKeepMeaning

\* Nip44: the holders of the two keys read the text, whatever its length and bytes, all
\* others are refused for the MAC, and the padding is monotone and bounded.
MessagesAreRead == part = "dm" => Dm!MessagesAreRead

\* Bech32: an identifier stands for what was encoded, in capitals too, has no other
\* spelling, and one wrong symbol is noticed wherever it is.
KeysAreRead == part = "key" => Key!RoundTrip /\ Key!DamageIsNoticed /\ Key!OneSpelling

\* Checksums: a packet is taken if it arrives as it was sent, of even and of odd length,
\* and not if a byte has changed; no datagram is sent as one without a check sum.
PacketsAreChecked == part = "packet" => Packet!PacketsAreChecked

\* Admission: in no window do more announces pass than are allowed, of one client and of
\* all, and only announces that passed use it up; a client that hides its address is not let
\* in where some address is not.
GateHolds ==
    part = "gate" => /\ Gate!TypeOK /\ Gate!WindowsHold
                     /\ Gate!RefusedOnlyAtLimit /\ Gate!HidingGainsNothing

\* PortRouting: the prefix of a path decides who answers, a number that is no port is
\* refused, a redirect without a port is followed on the port that answered unless another
\* navigation took the page elsewhere.
PortsHold ==
    [][part = "ports" => Ports!PrefixDecidesStep /\ Ports!RedirectKeepsPort]_vars

\* Diagnostics: a pair that the browser flags is the one that is shown, and the path is
\* shown for what its two addresses are.
PathIsTrue ==
    /\ [](part = "diag" => Diag!NatIsTrue)
    /\ [][part = "diag" => Diag!FlaggedPairShown]_vars

\* CountryFlags: no address is shown with a country that is not its own, the table is asked
\* for once, and every country appears in the end unless the table cannot be loaded.
CountriesHold ==
    /\ [](part = "flags" => Flags!ShownIsTrue /\ Flags!LoadedOnce /\ Flags!NoGapIsLeft)
    /\ <>[](part = "flags" => Flags!AllShown)

=============================================================================
