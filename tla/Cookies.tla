------------------------------- MODULE Cookies -------------------------------
(***************************************************************************)
(* What the service worker does to the headers of a tunnelled response     *)
(* before it builds a Response: the header loop of the reply's handler and *)
(* sanitizeSetCookie of browser/sw.js.  When the handler runs is           *)
(* ServiceWorker.                                                          *)
(*                                                                         *)
(* A Set-Cookie header is kept as what lies between its semicolons: a pair *)
(* (the name before the first "=", "" if there is none) and attributes,    *)
(* of which a key is kept as it is spelled.  "no value" is an attribute    *)
(* without "=".  White space around the parts is trimmed away, but not a   *)
(* gap between the key and its "=".                                        *)
(***************************************************************************)
EXTENDS Naturals, Sequences, FiniteSets, SequencesExt

CONSTANTS
    CookieNames, CookieValues,
    Keys,          \* spellings of the keys of attributes
    Lower,         \* the lower case form of each key
    Domains,       \* the values an attribute may have
    MaxAttributes, \* how many attributes a cookie has (a bound)
    OwnNames,      \* names that start with peck_, in capitals or not
    Others         \* the names of the other headers of the responses

CookieAssumption ==
    /\ OwnNames \subseteq CookieNames /\ "" \notin OwnNames
    /\ DOMAIN Lower = Keys
    /\ MaxAttributes \in Nat
    /\ Others \in Seq({Others[i] : i \in DOMAIN Others})
    /\ \A i \in DOMAIN Others : Others[i] # "set-cookie"

VARIABLES
    headers,    \* what is left of the message's headers
    message,    \* the headers of the message
    setCookies, \* setCookies of the handler
    forwarded,  \* the headers of the Response, other than cookies
    cookies,    \* the cookies of the Response
    logActions  \* the lines for the page

vars == <<headers, message, setCookies, forwarded, cookies, logActions>>

\* A key with its value, and whether there is a gap before the "=".
Attributes ==
    {a \in [key : Keys, gap : BOOLEAN, value : Domains \cup {"no value"}] :
        a.gap => a.key # "" /\ a.value # "no value"}

Cookie == [name : CookieNames, value : CookieValues,
           attributes : UNION {[1..n -> Attributes] : n \in 0..MaxAttributes}]

Nothing == [name |-> "", value |-> "", attributes |-> <<>>]

Blank == [key |-> "", gap |-> FALSE, value |-> "no value"]

\* attrLower.startsWith('domain=')
IsDomain(a) == Lower[a.key] = "domain" /\ ~a.gap /\ a.value # "no value"

\* Array.filter: what is in the set, in its order.
Filter(seq, set) ==
    LET kept[i \in 0..Len(seq)] ==
            IF i = 0 THEN <<>>
            ELSE IF seq[i] \in set THEN Append(kept[i - 1], seq[i]) ELSE kept[i - 1]
    IN  kept[Len(seq)]

DomainsAt(attributes) == {i \in DOMAIN attributes : IsDomain(attributes[i])}

\* Fault: the filter ends at the attribute it looks for.
KeptUntilDomain(attributes) ==
    LET before == {i \in DOMAIN attributes : \A j \in DomainsAt(attributes) : i < j}
    IN  Filter(SubSeq(attributes, 1, Cardinality(before)), Attributes \ {Blank})

\* keptAttrs
Kept(attributes) == Filter(attributes, {a \in Attributes : a # Blank /\ ~IsDomain(a)})

\* strippedDomain: the last one, of which "" counts for none.
StrippedDomain(attributes) ==
    LET at == DomainsAt(attributes)
    IN  IF at = {} THEN "" ELSE attributes[CHOOSE i \in at : \A j \in at : j <= i].value

\* sanitizeSetCookie; the cookie is a sequence of at most one.
SanitizeSetCookie(raw) ==
    IF raw.name = "" THEN [action |-> "drop", cookie |-> <<>>]
    ELSE IF raw.name \in OwnNames THEN [action |-> "block", cookie |-> <<>>]
    ELSE [action |-> IF StrippedDomain(raw.attributes) # "" THEN "strip" ELSE "pass",
          cookie |-> <<[raw EXCEPT !.attributes = Kept(@)]>>]

-----------------------------------------------------------------------------

\* A header: its name and, of Set-Cookie alone, what it says.
Header(key, says) == [key |-> key, says |-> says]

Other == [i \in DOMAIN Others |-> Header(Others[i], Nothing)]

\* The page passes on an object, so a message has at most one Set-Cookie, at any place.
Messages ==
    {InsertAt(Other, k, Header("set-cookie", c)) : k \in 1..(Len(Other) + 1), c \in Cookie}
        \cup {Other}

IsCookie(h) == h.key = "set-cookie"

Init ==
    /\ message \in Messages
    /\ headers = message
    /\ setCookies = <<>>
    /\ forwarded = <<>>
    /\ cookies = <<>>
    /\ logActions = <<>>

\* One round of the loop over the headers.
SortHeader ==
    /\ headers # <<>>
    /\ headers' = Tail(headers)
    /\ IF IsCookie(Head(headers))
       THEN setCookies' = Append(setCookies, Head(headers).says) /\ UNCHANGED forwarded
       ELSE forwarded' = Append(forwarded, Head(headers)) /\ UNCHANGED setCookies
    /\ UNCHANGED <<message, cookies, logActions>>

\* One round of the loop over the cookies.
FilterCookie ==
    /\ headers = <<>> /\ setCookies # <<>>
    /\ LET raw    == Head(setCookies)
           result == SanitizeSetCookie(raw)
       IN  /\ cookies' = cookies \o result.cookie
           /\ logActions' = IF result.action \in {"block", "strip"}
                            THEN Append(logActions, <<result.action, raw.name>>) ELSE logActions
    /\ setCookies' = Tail(setCookies)
    /\ UNCHANGED <<headers, message, forwarded>>

Next == SortHeader \/ FilterCookie

Spec == Init /\ [][Next]_vars

-----------------------------------------------------------------------------
(* How a browser reads a cookie: of the attributes with a key the last one *)
(* counts, with or without a gap, and a Domain without a value counts for  *)
(* none.                                                                   *)

Counting(k) ==
    {a \in Attributes : /\ a # Blank /\ Lower[a.key] = k
                        /\ k = "domain" => a.value \notin {"", "no value"}}

\* The last element that is in the set, as a set of at most one.
LastIn(seq, set) ==
    {seq[i] : i \in {j \in DOMAIN seq : seq[j] \in set /\ \A n \in j+1..Len(seq) : seq[n] \notin set}}

Understood(raw) ==
    [name |-> raw.name, value |-> raw.value,
     means |-> [k \in {Lower[l] : l \in Keys} |-> {a.value : a \in LastIn(raw.attributes, Counting(k))}]]

Done == headers = <<>> /\ setCookies = <<>>

RawCookies == {message[i].says : i \in {j \in DOMAIN message : IsCookie(message[j])}}

\* The last Domain with a gap before its "=", as a set of at most one: the filter does not see
\* it, but a browser does.
Unseen(c) == LastIn(c.attributes, {a \in Counting("domain") : a.gap})

\* A cookie of the backend reaches the page with the meaning it had, except that it belongs
\* to the page's own host alone or to the domain it names with a gap, unless it has one of
\* the page's own names.
MeaningIsKept ==
    LET foreign == {c \in RawCookies : c.name \notin OwnNames \cup {""}}
        own(c)  == [Understood(c) EXCEPT !.means["domain"] = {a.value : a \in Unseen(c)}]
    IN  Done => /\ {Understood(cookies[i]) : i \in DOMAIN cookies} = {own(c) : c \in foreign}
                /\ Len(cookies) <= 1

\* The page is told of a cookie exactly if it is kept back or loses the last word on its
\* domain, as far as the filter sees it, and of a malformed one never.
LogTellsTheReason ==
    Done => \A c \in RawCookies :
        LET named == \E k \in DomainsAt(c.attributes) :
                         /\ c.attributes[k].value # ""
                         /\ \A n \in DomainsAt(c.attributes) : n <= k
        IN  (logActions # <<>>) <=> (c.name # "" /\ (c.name \in OwnNames \/ named))

\* A response that is filtered once more, as after a second tunnel, loses nothing.
FilterIsStable ==
    \A i \in DOMAIN cookies :
        SanitizeSetCookie(cookies[i]) = [action |-> "pass", cookie |-> <<cookies[i]>>]

\* A cookie reaches the page with the meaning it had, but without the domains that are named
\* with no gap; the page is told exactly of those that lose something; filtering twice
\* changes nothing.
CookiesKeepMeaning == MeaningIsKept /\ LogTellsTheReason /\ FilterIsStable

\* "2. Domain attribute present -> strip it (scope to current subdomain)" (sw.js).
OwnHostAlone == \A i \in DOMAIN cookies : Understood(cookies[i]).means["domain"] = {}

\* "3. Everything else -> pass through unchanged" (sw.js): what is reported as passed has
\* every attribute it had.
PassedUnchanged ==
    (Done /\ cookies # <<>> /\ logActions = <<>>) =>
        \A c \in RawCookies : cookies[1].attributes = Filter(c.attributes, Attributes \ {Blank})

=============================================================================
