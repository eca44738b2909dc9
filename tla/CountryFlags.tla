---------------------------- MODULE CountryFlags ----------------------------
(***************************************************************************)
(* The countries of the addresses that the page lists: the lazily loaded   *)
(* table of browser/src/wg-country-codes.js and the page's lists of its    *)
(* own addresses and of the daemon's (browser/client.html).                *)
(*                                                                         *)
(* An address is a number of Bits bits, or one that the table does not     *)
(* know about (IPv6).  A list is a function of its addresses; its order,   *)
(* the labels and the mark of the selected pair are left out.              *)
(***************************************************************************)
EXTENDS Integers, Sequences, FiniteSets

CONSTANTS
    Bits,      \* 32
    Tables,    \* contents of geoip-data.js: sequences of <<start, prefix, country>>, sorted,
               \* disjoint, and each start is the first address of its block
    Addresses, \* the addresses that may be listed
    Other,     \* those of them that are not IPv4
    Unknown,   \* null
    MaxLists   \* how many lists arrive (a bound)

\* The numbers that an entry stands for.
Block(entry) ==
    LET size == 2^(Bits - entry[2]) IN {a \in 0..(2^Bits - 1) : a \div size = entry[1] \div size}

FlagsAssumption ==
    /\ Bits \in Nat \ {0} /\ MaxLists \in Nat
    /\ Addresses \subseteq 0..(2^Bits - 1) \cup Other /\ Other \cap 0..(2^Bits - 1) = {}
    /\ \A data \in Tables :
        /\ data \in Seq((0..(2^Bits - 1)) \X (0..Bits) \X {data[i][3] : i \in DOMAIN data})
        /\ \A i \in DOMAIN data : data[i][1] % 2^(Bits - data[i][2]) = 0
        /\ \A i, j \in DOMAIN data :
            i < j => data[i][1] < data[j][1] /\ Block(data[i]) \cap Block(data[j]) = {}

VARIABLES
    table,      \* what the data file holds
    loading,    \* _geoipLoaded and _geoipLoadPromise: "no", "underway", "loaded", "failed"
    imports,    \* history: how often the file was asked for
    own, exits, \* ownExitIPs and daemonExitIPs: the country of each listed address
    scheduled,  \* window._geoipRerenderScheduled
    waiting,    \* the render that was scheduled is still to come
    arrived     \* how many lists have arrived (a bound)

vars == <<table, loading, imports, own, exits, scheduled, waiting, arrived>>

-----------------------------------------------------------------------------
(* The table                                                               *)

\* The binary search, at lo, hi and result: the last entry that does not start above a, or 0.
Search(a) ==
    LET n == Len(table)
        rest[at \in (1..(n + 1)) \X (0..n) \X (0..n)] ==
            LET mid == (at[1] + at[2]) \div 2
            IN  IF at[1] > at[2] THEN at[3]
                ELSE IF table[mid][1] <= a THEN rest[<<mid + 1, at[2], mid>>]
                ELSE rest[<<at[1], mid - 1, at[3]>>]
    IN  rest[<<1, n, 0>>]

\* Fault: one bit of the network is taken for the host.
MaskedWide(a, prefix) == IF prefix = 0 THEN 0 ELSE a - (a % 2^(Bits - prefix + 1))

Masked(a, prefix) == a - (a % 2^(Bits - prefix))

\* _doLookup
DoLookup(a) ==
    IF a \in Other THEN Unknown
    ELSE LET i == Search(a)
         IN  IF i = 0 THEN Unknown
             ELSE IF Masked(a, table[i][2]) = Masked(table[i][1], table[i][2]) THEN table[i][3]
             ELSE Unknown

\* lookupCountry, apart from the loading it may start.
LookupCountry(a) == IF loading = "loaded" THEN DoLookup(a) ELSE Unknown

\* _ensureGeoip: what becomes of the loading, and how many times the file is asked for.
\* A load that failed is not tried again.
EnsureGeoip == IF loading = "no" THEN <<"underway", 1>> ELSE <<loading, 0>>

-----------------------------------------------------------------------------
(* The page                                                                *)

\* The list with what can be looked up by now.
Filled(list) ==
    [a \in DOMAIN list |-> IF list[a] = Unknown THEN LookupCountry(a) ELSE list[a]]

Gaps(list) == {a \in DOMAIN list : list[a] = Unknown}

\* The end of renderIpList, for a list as it is shown: if a country is missing, one more
\* render is scheduled, once in the life of the page.
Schedule(list) ==
    IF Gaps(list) # {} /\ ~scheduled
    THEN scheduled' = TRUE /\ waiting' = TRUE
    ELSE UNCHANGED <<scheduled, waiting>>

\* Looking up anything starts the loading.
Load(list) ==
    IF Gaps(list) # {}
    THEN loading' = EnsureGeoip[1] /\ imports' = imports + EnsureGeoip[2]
    ELSE UNCHANGED <<loading, imports>>

Blank(addresses) == [a \in addresses |-> Unknown]

\* parseOfferSdp: the daemon's addresses replace the list.
OfferSdp(addresses) ==
    /\ exits' = Filled(Blank(addresses))
    /\ Load(Blank(addresses)) /\ Schedule(exits')
    /\ UNCHANGED <<table, own>>

\* parseAnswerSdp
AnswerSdp(addresses) ==
    /\ own' = Filled(Blank(addresses))
    /\ Load(Blank(addresses)) /\ Schedule(own')
    /\ UNCHANGED <<table, exits>>

\* handleOwnIpsFromStun: what is known of an address is kept.
OwnIpsFromStun(addresses) ==
    LET list == [a \in addresses |-> IF a \in DOMAIN own THEN own[a] ELSE Unknown]
    IN  /\ addresses # {}
        /\ own' = Filled(list)
        /\ Load(list) /\ Schedule(own')
        /\ UNCHANGED <<table, exits>>

ListArrives ==
    /\ arrived < MaxLists /\ arrived' = arrived + 1
    /\ \E addresses \in SUBSET Addresses :
        OfferSdp(addresses) \/ AnswerSdp(addresses) \/ OwnIpsFromStun(addresses)

ImportEnds ==
    /\ loading = "underway"
    /\ loading' = "loaded"
    /\ UNCHANGED <<table, imports, own, exits, scheduled, waiting, arrived>>

\* The file cannot be fetched.
ImportFails ==
    /\ loading = "underway"
    /\ loading' = "failed"
    /\ UNCHANGED <<table, imports, own, exits, scheduled, waiting, arrived>>

\* _whenGeoipReady().then(...): both lists are rendered once more, if the file was loaded.
Rerender ==
    /\ waiting /\ loading \in {"loaded", "failed"} /\ waiting' = FALSE
    /\ IF loading = "loaded" THEN own' = Filled(own) /\ exits' = Filled(exits)
       ELSE UNCHANGED <<own, exits>>
    /\ UNCHANGED <<table, loading, imports, scheduled, arrived>>

Init ==
    /\ table \in Tables
    /\ loading = "no" /\ imports = 0
    /\ own = Blank({}) /\ exits = Blank({})
    /\ scheduled = FALSE /\ waiting = FALSE
    /\ arrived = 0

Next == ListArrives \/ ImportEnds \/ ImportFails \/ Rerender

\* The import settles, and the microtask of its promise runs.
Fairness == WF_vars(ImportEnds \/ ImportFails) /\ WF_vars(Rerender)

Spec == Init /\ [][Next]_vars /\ Fairness

-----------------------------------------------------------------------------

\* The country of an address: that of the entry whose block has it.
Country(a) ==
    IF \E i \in DOMAIN table : a \in Block(table[i])
    THEN LET i == CHOOSE j \in DOMAIN table : a \in Block(table[j]) IN table[i][3]
    ELSE Unknown

Listed(a) == {list[a] : list \in {l \in {own, exits} : a \in DOMAIN l}}

\* No address is shown with a country that is not its own, next to the first, the last and
\* the edges of the blocks, and in the gaps between them.
ShownIsTrue == \A a \in Addresses : Listed(a) \subseteq {Unknown, Country(a)}

\* The file has two and a half megabytes: it is asked for once, and only if a list needs it.
LoadedOnce == imports <= 1 /\ (imports = 1 <=> loading # "no")

\* Once the file is there and the scheduled render is over, every list shows every country,
\* whether it arrived before the file, while it was loaded, or after.
NoGapIsLeft ==
    loading = "loaded" /\ ~waiting => \A a \in Addresses : Listed(a) \subseteq {Country(a)}

AllShown == loading # "failed" => \A a \in Addresses : Listed(a) \subseteq {Country(a)}

\* The countries appear, unless the file cannot be loaded.
CountriesAppear == <>[]AllShown

=============================================================================
