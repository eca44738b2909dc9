---------------------------- MODULE PartsProofs -----------------------------
(***************************************************************************)
(* Proofs about parts of the system that share no state: PortRouting, for  *)
(* any paths, prefixes, ports files and redirects; Diagnostics, for any    *)
(* candidates and any order of the report; Admission, for any rules,       *)
(* limits and clients; Nip44, for any texts; CountryFlags, for any table   *)
(* of countries; HttpExchange, for any headers and bodies; Checksums, for  *)
(* any packets; and Cookies, for any attributes in any order.              *)
(***************************************************************************)
EXTENDS Integers, Sequences, SequenceTheorems, FiniteSetTheorems, FunctionTheorems,
        WellFoundedInduction, TLAPS

CONSTANTS
    Navs, Segments, Hrefs, Redirects, Configs, PortOf, Marked, DefaultPort, MaxPort, MaxRedirects

VARIABLES config, currentPort, nav, pageOn

Ports == INSTANCE PortRouting

CONSTANTS Pairs, LocalOf, RemoteOf, TypeOf, MaxBytes

VARIABLES state, selected, inUse, sent, order, shown

Diag == INSTANCE Diagnostics

CONSTANTS
    Clients, Addresses, NoAddress, Contents, Window, Cooldown, MaxNow, MaxLog

VARIABLES now, times, tracked, globalTimes, limits, policy, file, log, last

Gate == INSTANCE Admission

CONSTANTS Parties, Nonces, Texts, Byte, IntBits

VARIABLES sender, recipient, text, payload, reader, claimed, outcome

Dm == INSTANCE Nip44

CONSTANTS Bits, Tables, Other, Unknown, MaxLists

VARIABLES table, loading, imports, own, exits, scheduled, waiting, arrived

Flags == INSTANCE CountryFlags

CONSTANTS StreamIds, StreamPorts, Callers, Backends, Bodies, Lengths, Stripped

VARIABLES phase, call, wire, asked, answer, chunks, result

Http == INSTANCE HttpExchange

CONSTANTS Pseudo, IpHeaders, TransportSegments

VARIABLES kind, packet, packetSent, stage

Sums == INSTANCE Checksums WITH sent <- packetSent

CONSTANTS CookieNames, CookieValues, Keys, Lower, Domains, MaxAttributes, OwnNames, Others

VARIABLES jarHeaders, jarMessage, setCookies, forwarded, cookies, logActions

Jar == INSTANCE Cookies WITH headers <- jarHeaders, message <- jarMessage

-----------------------------------------------------------------------------
(* Paths                                                                   *)

\* What a path is.
LEMMA PathFacts ==
    ASSUME NEW path \in Ports!Paths
    PROVE  path \in Seq(Segments) /\ Len(path) \in Nat \ {0} /\ Head(path) \in Segments
<1>1. path \in Seq(Segments) /\ path # <<>>
  BY DEF Ports!Paths
<1> QED BY <1>1

\* Segments that are not none are a path.
LEMMA IsPath == ASSUME NEW path \in Seq(Segments), Len(path) # 0 PROVE path \in Ports!Paths
<1>1. path # <<>>
  OBVIOUS
<1> QED BY <1>1 DEF Ports!Paths

\* A single segment is a path.
LEMMA OneSegment ==
    ASSUME NEW s \in Segments
    PROVE  <<s>> \in Seq(Segments) /\ Len(<<s>>) = 1 /\ <<s>> \in Ports!Paths
<1>1. <<s>> \in Seq(Segments) /\ Len(<<s>>) = 1 /\ <<s>> # <<>>
  OBVIOUS
<1> QED BY <1>1 DEF Ports!Paths

\* What the assumption says of prefixes and of the empty segment.
LEMMA SomeSegments ==
    ASSUME Ports!RoutingAssumption
    PROVE  DOMAIN PortOf \subseteq Marked /\ Marked \subseteq Segments /\ "" \in Segments /\ "" \notin Marked
BY DEF Ports!RoutingAssumption

\* A path without its first segment is a path.
LEMMA RestIsPath ==
    ASSUME Ports!RoutingAssumption, NEW path \in Ports!Paths
    PROVE  Ports!Rest(path) \in Ports!Paths
<1>1. path \in Seq(Segments) /\ Len(path) \in Nat \ {0}
  BY PathFacts
<1>2. <<"">> \in Ports!Paths
  BY SomeSegments, OneSegment
<1>3. Len(path) # 1 => Tail(path) \in Ports!Paths
  <2>1. path # <<>>
    BY <1>1
  <2>2. Tail(path) \in Seq(Segments) /\ Len(Tail(path)) = Len(path) - 1
    BY <1>1, <2>1, HeadTailProperties
  <2>3. Len(path) # 1 => Len(Tail(path)) # 0
    BY <1>1, <2>2
  <2> QED BY <2>2, <2>3, IsPath
<1> QED BY <1>2, <1>3 DEF Ports!Rest

\* What the page reads in a path: a port, or none, and the path that is left.
LEMMA ParsedPath ==
    ASSUME Ports!RoutingAssumption, NEW path \in Ports!Paths
    PROVE  LET parsed == Ports!ParsePortPrefix(path)
           IN  /\ parsed.port \in {Ports!Null} \cup 1..MaxPort /\ parsed.path \in Ports!Paths
               /\ Ports!ValidPort(Head(path)) => /\ parsed.port = PortOf[Head(path)]
                                                 /\ parsed.path = Ports!Rest(path)
               /\ ~Ports!ValidPort(Head(path)) => parsed.port = Ports!Null /\ parsed.path = path
BY RestIsPath DEF Ports!ParsePortPrefix, Ports!ValidPort

\* A link that gets the port of the page is a path.
LEMMA BuiltIsPath ==
    ASSUME Ports!RoutingAssumption, NEW target \in Ports!Paths, NEW port \in {Ports!Null} \cup 1..MaxPort,
           \A p \in {port} \ {Ports!Null} : \E s \in DOMAIN PortOf : PortOf[s] = p
    PROVE  Ports!BuildPortPath(target, port) \in Ports!Paths
<1>1. target \in Seq(Segments) /\ Len(target) \in Nat \ {0}
  BY PathFacts
<1>2. CASE Head(target) \in DOMAIN PortOf \/ port \in {Ports!Null, DefaultPort}
  BY <1>2 DEF Ports!BuildPortPath
<1>3. CASE ~(Head(target) \in DOMAIN PortOf \/ port \in {Ports!Null, DefaultPort})
  <2> DEFINE s == CHOOSE s \in DOMAIN PortOf : PortOf[s] = port
  <2>1. s \in Segments
    BY <1>3, SomeSegments
  <2>2. Ports!BuildPortPath(target, port) = <<s>> \o target
    BY <1>3 DEF Ports!BuildPortPath
  <2> HIDE DEF s
  <2>3. <<s>> \in Seq(Segments) /\ Len(<<s>>) = 1
    BY <2>1, OneSegment
  <2>4. <<s>> \o target \in Seq(Segments) /\ Len(<<s>> \o target) = 1 + Len(target)
    BY <1>1, <2>3, ConcatProperties
  <2>5. Len(<<s>> \o target) # 0
    BY <1>1, <2>4
  <2> QED BY <2>2, <2>4, <2>5, IsPath
<1> QED BY <1>2, <1>3

\* The port that the page takes for a path without one.
LEMMA ParsedKnown ==
    ASSUME Ports!RoutingAssumption, NEW path \in Ports!Paths
    PROVE  \A p \in {Ports!ParsePortPrefix(path).port} \ {Ports!Null} : \E s \in DOMAIN PortOf : PortOf[s] = p
BY ParsedPath DEF Ports!ValidPort

-----------------------------------------------------------------------------
(* Navigations                                                             *)

Answers == [form : {"none", "absolute", "relative", "url"}, path : Ports!Paths]

Navigations ==
    [phase : {"idle", "sent", "answered", "done"}, path : Ports!Paths, wire : Nat,
     asked : Ports!Paths, hops : Nat, by : {"nobody", "status", "backend"} \X Nat, to : Answers]

\* A port that the page has read somewhere.
Known(port) ==
    /\ port \in {Ports!Null} \cup 1..MaxPort
    /\ \A p \in {port} \ {Ports!Null} : \E s \in DOMAIN PortOf : PortOf[s] = p

NavTypes == config \in Configs /\ nav \in [Navs -> Navigations] /\ Known(currentPort)

\* What a navigation has sent is what the page has read in its path.
SentAsParsed ==
    \A n \in Navs : nav[n].phase # "idle" =>
        /\ nav[n].wire = Ports!Or(Ports!ParsePortPrefix(nav[n].path).port, DefaultPort)
        /\ nav[n].asked = Ports!ParsePortPrefix(nav[n].path).path

NavInv == NavTypes /\ SentAsParsed

\* A known port is a number.
LEMMA PortNumbers ==
    ASSUME Ports!RoutingAssumption
    PROVE  MaxPort \in Nat /\ DefaultPort \in 1..MaxPort /\ MaxRedirects \in Nat
BY DEF Ports!RoutingAssumption

\* Before anything is asked.
LEMMA IdleType == ASSUME Ports!RoutingAssumption PROVE Ports!Idle \in Navigations /\ Ports!Idle.to \in Answers
<1>1. <<"">> \in Ports!Paths
  BY SomeSegments, OneSegment
<1>2. <<"nobody", Ports!Null>> \in {"nobody", "status", "backend"} \X Nat /\ Ports!Null \in Nat
  BY DEF Ports!Null
<1> QED BY <1>1, <1>2 DEF Ports!Idle, Navigations, Answers

\* navigate, up to its await.
LEMMA SendFacts ==
    ASSUME Ports!RoutingAssumption, NavInv, NEW n \in Navs, NEW path \in Ports!Paths,
           NEW hops \in Nat, Ports!Send(n, path, hops)
    PROVE  /\ nav' \in [Navs -> Navigations] /\ Known(currentPort') /\ SentAsParsed'
           /\ currentPort' = Ports!ParsePortPrefix(path).port
           /\ nav'[n].phase = "sent" /\ nav'[n].path = path
           /\ nav'[n].wire = Ports!Or(Ports!ParsePortPrefix(path).port, DefaultPort)
           /\ \A m \in Navs : m # n => nav'[m] = nav[m]
<1> DEFINE parsed == Ports!ParsePortPrefix(path)
           sentNow == [Ports!Idle EXCEPT !.phase = "sent", !.path = path, !.hops = hops,
                           !.wire = Ports!Or(parsed.port, DefaultPort), !.asked = parsed.path]
<1>1. currentPort' = parsed.port /\ nav' = [nav EXCEPT ![n] = sentNow]
  BY DEF Ports!Send
<1>2. parsed.port \in {Ports!Null} \cup 1..MaxPort /\ parsed.path \in Ports!Paths /\ Known(parsed.port)
  BY ParsedPath, ParsedKnown DEF Known
<1>3. Ports!Or(parsed.port, DefaultPort) \in Nat
  BY <1>2, PortNumbers DEF Ports!Or
<1>4. /\ sentNow \in Navigations /\ sentNow.phase = "sent" /\ sentNow.path = path
      /\ sentNow.wire = Ports!Or(parsed.port, DefaultPort) /\ sentNow.asked = parsed.path
  BY <1>2, <1>3, IdleType DEF Navigations
<1> HIDE DEF sentNow, parsed
<1>5. /\ nav' \in [Navs -> Navigations] /\ nav'[n] = sentNow
      /\ \A m \in Navs : m # n => nav'[m] = nav[m]
  BY <1>1, <1>4 DEF NavInv, NavTypes
<1>6. SentAsParsed'
  <2> SUFFICES ASSUME NEW m \in Navs, nav'[m].phase # "idle"
               PROVE  /\ nav'[m].wire = Ports!Or(Ports!ParsePortPrefix(nav'[m].path).port, DefaultPort)
                      /\ nav'[m].asked = Ports!ParsePortPrefix(nav'[m].path).path
    BY DEF SentAsParsed, Ports!Or, Ports!ParsePortPrefix, Ports!ValidPort, Ports!Rest
  <2>1. CASE m = n
    BY <1>4, <1>5, <2>1 DEF parsed
  <2>2. CASE m # n
    BY <1>5, <2>2 DEF NavInv, SentAsParsed
  <2> QED BY <2>1, <2>2
<1> QED BY <1>1, <1>2, <1>4, <1>5, <1>6 DEF parsed

\* Where a redirect leads is a path again.
LEMMA TargetIsPath ==
    ASSUME Ports!RoutingAssumption, NavInv, NEW path \in Ports!Paths, NEW to \in Answers
    PROVE  Ports!Target(path, to) \in Ports!Paths
<1>1. path \in Seq(Segments) /\ Len(path) \in Nat \ {0} /\ to.path \in Ports!Paths
  BY PathFacts DEF Answers
<1>2. to.path \in Seq(Segments) /\ Len(to.path) \in Nat \ {0}
  BY <1>1, PathFacts
<1>3. Ports!Front(path) \in Seq(Segments) /\ Len(Ports!Front(path)) \in Nat
  <2>1. \A i \in 1..(Len(path) - 1) : path[i] \in Segments
    BY <1>1
  <2>2. SubSeq(path, 1, Len(path) - 1) \in Seq(Segments)
    BY <1>1, <2>1, SubSeqProperties
  <2> QED BY <2>2 DEF Ports!Front
<1>4. Ports!Front(path) \o to.path \in Ports!Paths
  <2>1. /\ Ports!Front(path) \o to.path \in Seq(Segments)
        /\ Len(Ports!Front(path) \o to.path) = Len(Ports!Front(path)) + Len(to.path)
    BY <1>2, <1>3, ConcatProperties
  <2>2. Len(Ports!Front(path) \o to.path) # 0
    BY <1>2, <1>3, <2>1
  <2> QED BY <2>1, <2>2, IsPath
<1>5. Known(currentPort)
  BY DEF NavInv, NavTypes
<1>6. \A target \in Ports!Paths : Ports!BuildPortPath(target, currentPort) \in Ports!Paths
  BY <1>5, BuiltIsPath DEF Known
<1> QED BY <1>1, <1>4, <1>6 DEF Ports!Target

\* What a backend's answer may be.
LEMMA AnswerType ==
    ASSUME Ports!RoutingAssumption, NavInv, NEW n \in Navs
    PROVE  /\ Redirects \cup {Ports!Idle.to} \subseteq Answers
           /\ Ports!RoutedTo(nav[n].asked, nav[n].wire) \in {"nobody", "status", "backend"} \X Nat
<1>1. Redirects \subseteq Answers
  BY DEF Ports!RoutingAssumption, Answers
<1>2. config.ports \subseteq 1..MaxPort /\ MaxPort \in Nat
  BY PortNumbers DEF Ports!RoutingAssumption, NavInv, NavTypes
<1> DEFINE port == Ports!ResolvePortAndPath(nav[n].asked, nav[n].wire).port
<1>3. \/ Ports!RoutedTo(nav[n].asked, nav[n].wire) = <<"status", 400>>
      \/ Ports!RoutedTo(nav[n].asked, nav[n].wire) = <<"status", 404>>
      \/ port \in config.ports /\ Ports!RoutedTo(nav[n].asked, nav[n].wire) = <<"backend", port>>
  BY DEF Ports!RoutedTo
<1> HIDE DEF port
<1>4. port \in config.ports => port \in Nat
  BY <1>2
<1>5. Ports!RoutedTo(nav[n].asked, nav[n].wire) \in {"nobody", "status", "backend"} \X Nat
  BY <1>3, <1>4
<1> QED BY <1>1, <1>5, IdleType

\* Everything that happens to a navigation after its request has been sent, but for the
\* redirect that sends another one.
OnlyAnswered(n) ==
    \/ Ports!Proxy(n) \/ Ports!Reject(n) \/ Ports!Render(n)
    \/ Ports!Follow(n) /\ nav[n].hops + 1 > MaxRedirects

\* A step that only answers leaves where a navigation goes and how it is asked.
LEMMA AnsweredFacts ==
    ASSUME Ports!RoutingAssumption, NavInv, NEW n \in Navs, OnlyAnswered(n)
    PROVE  /\ nav' \in [Navs -> Navigations] /\ UNCHANGED <<config, currentPort>>
           /\ nav[n].phase \in {"sent", "answered"}
           /\ \A m \in Navs : /\ \/ nav'[m].phase = "idle"
                                 \/ /\ nav'[m].path = nav[m].path /\ nav'[m].wire = nav[m].wire
                                    /\ nav'[m].asked = nav[m].asked
                              /\ m # n => nav'[m] = nav[m]
<1>1. nav \in [Navs -> Navigations]
  BY DEF NavInv, NavTypes
<1>2. CASE Ports!Proxy(n)
  <2>1. PICK to \in Answers, by \in {"nobody", "status", "backend"} \X Nat :
           nav' = [nav EXCEPT ![n].phase = "answered", ![n].by = by, ![n].to = to]
    BY <1>2, AnswerType DEF Ports!Proxy
  <2>2. nav[n].phase = "sent" /\ UNCHANGED <<config, currentPort>>
    BY <1>2 DEF Ports!Proxy
  <2> DEFINE answered == [nav[n] EXCEPT !.phase = "answered", !.by = by, !.to = to]
  <2>3. nav[n] \in Navigations
    BY <1>1
  <2>4. /\ answered \in Navigations /\ answered.path = nav[n].path
        /\ answered.wire = nav[n].wire /\ answered.asked = nav[n].asked
    BY <2>3 DEF Navigations
  <2>5. nav' = [nav EXCEPT ![n] = answered]
    BY <1>1, <2>1, <2>3 DEF Navigations
  <2> HIDE DEF answered
  <2> QED BY <1>1, <2>2, <2>4, <2>5, SMTT(30)
<1>3. CASE Ports!Reject(n) \/ Ports!Render(n) \/ (Ports!Follow(n) /\ nav[n].hops + 1 > MaxRedirects)
  <2>1. nav' = [nav EXCEPT ![n] = Ports!Idle] /\ UNCHANGED <<config, currentPort>>
        /\ nav[n].phase \in {"sent", "answered"}
    BY <1>3 DEF Ports!Reject, Ports!Render, Ports!Follow, Ports!Ended
  <2>2. Ports!Idle \in Navigations /\ Ports!Idle.phase = "idle"
    BY IdleType DEF Ports!Idle
  <2> QED BY <1>1, <2>1, <2>2
<1> QED BY <1>2, <1>3 DEF OnlyAnswered

\* Every step is one of these.
LEMMA NavStep ==
    ASSUME Ports!RoutingAssumption, NavInv, Ports!Next
    PROVE  \/ \E n \in Navs : OnlyAnswered(n)
           \/ /\ UNCHANGED config
              /\ \E n \in Navs : \E path \in Ports!Paths : \E hops \in Nat : Ports!Send(n, path, hops)
           \/ UNCHANGED <<nav, currentPort>> /\ config' \in Configs
<1>0. nav \in [Navs -> Navigations] /\ config \in Configs /\ Known(currentPort)
  BY DEF NavInv, NavTypes
<1>1. ASSUME NEW n \in Navs, NEW href \in Hrefs, Ports!Click(n, href) \/ Ports!Visit(n, href)
      PROVE  UNCHANGED config /\ \E path \in Ports!Paths : Ports!Send(n, path, 0)
  <2>1. href \in Ports!Paths
    BY DEF Ports!RoutingAssumption
  <2>2. Ports!BuildPortPath(href, currentPort) \in Ports!Paths
    BY <1>0, <2>1, BuiltIsPath DEF Known
  <2> QED BY <1>1, <2>1, <2>2 DEF Ports!Click, Ports!Visit
<1>2. ASSUME NEW n \in Navs, Ports!Follow(n), ~(nav[n].hops + 1 > MaxRedirects)
      PROVE  /\ UNCHANGED config
             /\ \E path \in Ports!Paths : \E hops \in Nat : Ports!Send(n, path, hops)
  <2>1. nav[n].path \in Ports!Paths /\ nav[n].to \in Answers /\ nav[n].hops + 1 \in Nat
    BY <1>0 DEF Navigations
  <2>2. Ports!Target(nav[n].path, nav[n].to) \in Ports!Paths
    BY <2>1, TargetIsPath
  <2> QED BY <1>2, <2>1, <2>2 DEF Ports!Follow
<1>3. Ports!Reload => UNCHANGED <<nav, currentPort>> /\ config' \in Configs
  BY DEF Ports!Reload
<1> QED BY <1>0, <1>1, <1>2, <1>3 DEF Ports!Next, OnlyAnswered

\* Every step keeps what is known of navigations.
LEMMA NextNav ==
    ASSUME Ports!RoutingAssumption, NavInv, [Ports!Next]_(Ports!vars)
    PROVE  NavInv'
<1>0. NavTypes /\ SentAsParsed
  BY DEF NavInv
<1>1. ASSUME UNCHANGED <<nav, currentPort>>, config' \in Configs PROVE NavInv'
  <2>1. NavTypes'
    BY <1>0, <1>1, SMTT(30) DEF NavTypes, Known
  <2>2. SentAsParsed'
    BY <1>0, <1>1 DEF SentAsParsed, Ports!Or, Ports!ParsePortPrefix, Ports!ValidPort, Ports!Rest
  <2> QED BY <2>1, <2>2 DEF NavInv
<1>2. ASSUME NEW n \in Navs, OnlyAnswered(n) PROVE NavInv'
  <2>1. /\ nav' \in [Navs -> Navigations] /\ UNCHANGED <<config, currentPort>>
        /\ nav[n].phase \in {"sent", "answered"}
        /\ \A m \in Navs : /\ \/ nav'[m].phase = "idle"
                              \/ /\ nav'[m].path = nav[m].path /\ nav'[m].wire = nav[m].wire
                                 /\ nav'[m].asked = nav[m].asked
                           /\ m # n => nav'[m] = nav[m]
    BY <1>2, AnsweredFacts
  <2>2. NavTypes'
    BY <1>0, <2>1 DEF NavTypes, Known
  <2>3. \A m \in Navs : nav'[m].phase # "idle" => nav[m].phase # "idle"
    BY <2>1
  <2>4. SentAsParsed'
    <3> SUFFICES ASSUME NEW m \in Navs, nav'[m].phase # "idle"
                 PROVE  /\ nav'[m].wire = Ports!Or(Ports!ParsePortPrefix(nav'[m].path).port, DefaultPort)
                        /\ nav'[m].asked = Ports!ParsePortPrefix(nav'[m].path).path
      BY DEF SentAsParsed, Ports!Or, Ports!ParsePortPrefix, Ports!ValidPort, Ports!Rest
    <3> QED BY <1>0, <2>1, <2>3, SMTT(30) DEF SentAsParsed
  <2> QED BY <2>2, <2>4 DEF NavInv
<1>3. ASSUME UNCHANGED config, NEW n \in Navs, NEW path \in Ports!Paths, NEW hops \in Nat,
             Ports!Send(n, path, hops)
      PROVE  NavInv'
  <2>1. nav' \in [Navs -> Navigations] /\ Known(currentPort') /\ SentAsParsed'
    BY <1>3, SendFacts
  <2>2. NavTypes'
    BY <1>0, <1>3, <2>1 DEF NavTypes, Known
  <2> QED BY <2>1, <2>2 DEF NavInv
<1>4. CASE UNCHANGED Ports!vars
  BY <1>0, <1>1, <1>4 DEF Ports!vars, NavTypes
<1>5. CASE Ports!Next
  BY <1>1, <1>2, <1>3, <1>5, NavStep
<1> QED BY <1>4, <1>5

\* What is known of navigations holds in every reachable state.
LEMMA NavInvariance == ASSUME Ports!RoutingAssumption PROVE Ports!Spec => []NavInv
<1>1. Ports!Init => NavInv
  <2> SUFFICES ASSUME Ports!Init PROVE NavInv
    OBVIOUS
  <2>1. NavTypes
    BY IdleType DEF Ports!Init, NavTypes, Known
  <2>2. SentAsParsed
    BY DEF Ports!Init, Ports!Idle, SentAsParsed
  <2> QED BY <2>1, <2>2 DEF NavInv
<1>2. NavInv /\ [Ports!Next]_(Ports!vars) => NavInv'
  BY NextNav
<1> QED BY <1>1, <1>2, PTL DEF Ports!Spec

-----------------------------------------------------------------------------
(* Which backend answers                                                   *)

\* A number that is no port is refused, whatever came with it.
LEMMA NoPortIsRefused ==
    ASSUME Ports!RoutingAssumption, NEW path, NEW carried,
           Head(path) \in DOMAIN PortOf, ~Ports!ValidPort(Head(path))
    PROVE  Ports!RoutedTo(path, carried) = <<"status", 400>>
<1>1. Head(path) \in Marked
  BY SomeSegments
<1>2. Ports!ResolvePortAndPath(path, carried) = [port |-> Ports!Null, path |-> path]
  BY <1>1 DEF Ports!ResolvePortAndPath
<1> QED BY <1>2 DEF Ports!RoutedTo

\* The prefix on the wire decides who answers, whatever became of the page meanwhile.
LEMMA PrefixStep ==
    ASSUME Ports!RoutingAssumption, NavInv
    PROVE  Ports!PrefixDecidesStep
<1> SUFFICES ASSUME NEW n \in Navs, Ports!Proxy(n)
             PROVE  LET first  == Head(nav[n].path)
                        behind == Ports!Rest(nav[n].path)
                        second == Head(behind)
                        seen   == Ports!ResolvePortAndPath(nav[n].asked, nav[n].wire)
                    IN  /\ (Ports!ValidPort(first) /\ second \notin DOMAIN PortOf)
                             => seen = [port |-> IF second \notin Marked /\ PortOf[first] \in config.ports
                                                 THEN PortOf[first] ELSE config.default,
                                        path |-> behind]
                        /\ (Ports!ValidPort(first) /\ Ports!ValidPort(second))
                             => seen = [port |-> PortOf[second], path |-> Ports!Rest(behind)]
                        /\ LET last_ == IF Ports!ValidPort(first) THEN second ELSE first
                           IN  (last_ \in DOMAIN PortOf /\ ~Ports!ValidPort(last_))
                                 => nav'[n].by = <<"status", 400>>
  BY DEF Ports!PrefixDecidesStep
<1> DEFINE path == nav[n].path
           requested == nav[n].asked
           carried == nav[n].wire
           parsed == Ports!ParsePortPrefix(path)
           first == Head(path)
           behind == Ports!Rest(path)
           second == Head(behind)
<1>1. /\ nav \in [Navs -> Navigations] /\ path \in Ports!Paths /\ nav[n].phase = "sent"
      /\ DOMAIN PortOf \subseteq Marked
  BY SomeSegments DEF NavInv, NavTypes, Navigations, Ports!Proxy
<1>2. carried = Ports!Or(parsed.port, DefaultPort) /\ requested = parsed.path
  BY <1>1 DEF NavInv, SentAsParsed
<1>3. ASSUME Ports!ValidPort(first) PROVE requested = behind /\ carried = PortOf[first]
  <2>1. parsed.port = PortOf[first] /\ requested = behind /\ PortOf[first] \in 1..MaxPort
    BY <1>1, <1>2, <1>3, ParsedPath DEF Ports!ValidPort
  <2> QED BY <1>2, <2>1, PortNumbers DEF Ports!Or, Ports!Null
<1>4. ASSUME ~Ports!ValidPort(first) PROVE requested = path
  BY <1>1, <1>2, <1>4, ParsedPath
<1>5. ASSUME Ports!ValidPort(first), second \notin DOMAIN PortOf
      PROVE  Ports!ResolvePortAndPath(requested, carried)
               = [port |-> IF second \notin Marked /\ PortOf[first] \in config.ports
                           THEN PortOf[first] ELSE config.default,
                  path |-> behind]
  <2>1. ~Ports!ValidPort(Head(requested)) /\ Head(requested) = second /\ requested = behind
        /\ carried = PortOf[first]
    BY <1>3, <1>5 DEF Ports!ValidPort
  <2> HIDE DEF requested, carried, path, parsed, first, behind, second
  <2> QED BY <1>5, <2>1 DEF Ports!ResolvePortAndPath
<1>6. ASSUME Ports!ValidPort(first), Ports!ValidPort(second)
      PROVE  Ports!ResolvePortAndPath(requested, carried) = [port |-> PortOf[second], path |-> Ports!Rest(behind)]
  <2>1. Ports!ValidPort(Head(requested)) /\ Head(requested) = second /\ requested = behind
        /\ Head(requested) \in DOMAIN PortOf /\ Head(requested) \in Marked
    BY <1>1, <1>3, <1>6 DEF Ports!ValidPort
  <2> HIDE DEF requested, carried, path, parsed, first, behind, second
  <2> QED BY <2>1 DEF Ports!ResolvePortAndPath
<1>7. ASSUME Head(requested) \in DOMAIN PortOf, ~Ports!ValidPort(Head(requested))
      PROVE  nav'[n].by = <<"status", 400>>
  <2>1. Ports!RoutedTo(nav[n].asked, nav[n].wire) = <<"status", 400>>
    BY <1>7, NoPortIsRefused
  <2>2. PICK to : nav' = [nav EXCEPT ![n].phase = "answered", ![n].by = <<"status", 400>>, ![n].to = to]
    BY <2>1 DEF Ports!Proxy
  <2> QED BY <1>1, <2>2 DEF Navigations
<1>8. Head(requested) = IF Ports!ValidPort(first) THEN second ELSE first
  BY <1>3, <1>4
<1> QED BY <1>5, <1>6, <1>7, <1>8

\* The prefix of a path decides which backend answers, through both parsers; of two prefixes
\* the second one; behind a prefix of a port that is not configured, or before one that is
\* none, the default; and a number that is no port is refused: for any paths and ports files,
\* however many navigations overlap, and although the ports file may change between the two
\* parsers.
THEOREM PrefixDecidesHolds == ASSUME Ports!RoutingAssumption PROVE Ports!Spec => Ports!PrefixDecides
<1>1. NavInv /\ [Ports!Next]_(Ports!vars) => [Ports!PrefixDecidesStep]_(Ports!vars)
  BY PrefixStep
<1> QED BY <1>1, NavInvariance, PTL DEF Ports!Spec, Ports!PrefixDecides

-----------------------------------------------------------------------------
(* Redirects                                                               *)

\* What begins a path that is put behind another one.
LEMMA HeadOfConcat ==
    ASSUME NEW S, NEW p \in Seq(S), NEW q \in Seq(S), q # <<>>
    PROVE  Head(p \o q) = IF p = <<>> THEN Head(q) ELSE Head(p)
<1>1. p \o q \in Seq(S) /\ Len(p \o q) = Len(p) + Len(q)
      /\ \A i \in 1..Len(p) + Len(q) : (p \o q)[i] = IF i <= Len(p) THEN p[i] ELSE q[i - Len(p)]
  BY ConcatProperties
<1>2. Len(p) \in Nat /\ Len(q) \in Nat \ {0} /\ (p = <<>> <=> Len(p) = 0)
  OBVIOUS
<1>3. (p \o q)[1] = IF Len(p) = 0 THEN q[1] ELSE p[1]
  BY <1>1, <1>2
<1>4. Head(p \o q) = (p \o q)[1]
  BY <1>1, <1>2
<1> QED BY <1>2, <1>3, <1>4

\* The first segment of a path is that of its front, if it has one.
LEMMA HeadOfFront ==
    ASSUME NEW path \in Ports!Paths, Ports!Front(path) # <<>>
    PROVE  Ports!Front(path) \in Seq(Segments) /\ Head(Ports!Front(path)) = Head(path)
<1>1. path \in Seq(Segments) /\ Len(path) \in Nat \ {0}
  BY PathFacts
<1>2. \A i \in 1..(Len(path) - 1) : path[i] \in Segments
  BY <1>1
<1> DEFINE front == SubSeq(path, 1, Len(path) - 1)
<1>3. /\ front \in Seq(Segments) /\ Len(front) = IF 1 <= Len(path) - 1 THEN Len(path) - 1 ELSE 0
      /\ \A i \in 1..(Len(path) - 1) - 1 + 1 : front[i] = path[1 + i - 1]
  BY <1>1, <1>2, SubSeqProperties
<1>4. front # <<>>
  BY DEF Ports!Front
<1> HIDE DEF front
<1>5. Len(front) # 0 /\ 1 <= Len(path) - 1
  BY <1>1, <1>3, <1>4
<1>6. front[1] = path[1]
  BY <1>1, <1>3, <1>5
<1>7. Head(front) = front[1] /\ Head(path) = path[1]
  BY <1>1, <1>3, <1>5
<1> QED BY <1>3, <1>6, <1>7 DEF front, Ports!Front

\* A path that gets the port is read with that port.
LEMMA BuiltIsRead ==
    ASSUME Ports!RoutingAssumption, NEW target \in Ports!Paths, NEW port, Known(port),
           Head(target) \notin Marked
    PROVE  Ports!Or(Ports!ParsePortPrefix(Ports!BuildPortPath(target, port)).port, DefaultPort)
             = Ports!Or(port, DefaultPort)
<1>1. /\ Head(target) \notin DOMAIN PortOf /\ DefaultPort # Ports!Null
      /\ DOMAIN PortOf \subseteq Segments /\ Ports!Null \notin 1..MaxPort
  <2>1. Head(target) \notin DOMAIN PortOf /\ DOMAIN PortOf \subseteq Segments
    BY SomeSegments
  <2>2. DefaultPort # Ports!Null /\ Ports!Null \notin 1..MaxPort
    BY PortNumbers DEF Ports!Null
  <2> QED BY <2>1, <2>2
<1>2. CASE port \in {Ports!Null, DefaultPort}
  <2>1. Ports!BuildPortPath(target, port) = target
    BY <1>2 DEF Ports!BuildPortPath
  <2>2. Ports!ParsePortPrefix(target).port = Ports!Null
    BY <1>1, ParsedPath DEF Ports!ValidPort
  <2> QED BY <1>2, <2>1, <2>2 DEF Ports!Or
<1>3. CASE port \notin {Ports!Null, DefaultPort}
  <2> DEFINE s == CHOOSE s \in DOMAIN PortOf : PortOf[s] = port
  <2>1. s \in DOMAIN PortOf /\ PortOf[s] = port /\ port \in 1..MaxPort
    BY <1>3 DEF Known
  <2>2. Ports!BuildPortPath(target, port) = <<s>> \o target
    BY <1>1, <1>3 DEF Ports!BuildPortPath
  <2> HIDE DEF s
  <2>3. Ports!BuildPortPath(target, port) \in Ports!Paths
    BY BuiltIsPath DEF Known
  <2>4. Head(<<s>> \o target) = s
    <3>1. <<s>> \in Seq(Segments) /\ target \in Seq(Segments) /\ target # <<>> /\ <<s>> # <<>> /\ Head(<<s>>) = s
      BY <1>1, <2>1, OneSegment DEF Ports!Paths
    <3> QED BY <3>1, HeadOfConcat
  <2>5. Ports!ParsePortPrefix(<<s>> \o target).port = port
    BY <2>1, <2>2, <2>3, <2>4, ParsedPath DEF Ports!ValidPort
  <2> QED BY <2>2, <2>5
<1> QED BY <1>2, <1>3

\* A redirect to a path without a port leads to the port that answered.
LEMMA TargetKeepsPort ==
    ASSUME Ports!RoutingAssumption, NavInv, NEW path \in Ports!Paths, NEW to \in Answers,
           currentPort = Ports!ParsePortPrefix(path).port,
           to.form \notin {"none", "url"}, Head(to.path) \notin Marked
    PROVE  Ports!Or(Ports!ParsePortPrefix(Ports!Target(path, to)).port, DefaultPort)
             = Ports!Or(currentPort, DefaultPort)
<1>1. to.path \in Ports!Paths /\ Known(currentPort) /\ to.form \in {"absolute", "relative"}
  BY DEF Answers, NavInv, NavTypes
<1>2. CASE to.form = "absolute"
  <2>1. Ports!Target(path, to) = Ports!BuildPortPath(to.path, currentPort)
    BY <1>2 DEF Ports!Target
  <2> QED BY <1>1, <2>1, BuiltIsRead
<1>3. CASE to.form = "relative"
  <2> DEFINE front == Ports!Front(path)
             target == front \o to.path
  <2>1. Ports!Target(path, to) = Ports!BuildPortPath(target, currentPort)
    BY <1>3 DEF Ports!Target
  <2>2. to.path \in Seq(Segments) /\ to.path # <<>>
    BY <1>1 DEF Ports!Paths
  <2>3. CASE front = <<>>
    <3>1. target = to.path
      BY <2>2, <2>3, ConcatEmptySeq
    <3> QED BY <1>1, <2>1, <3>1, BuiltIsRead
  <2>4. CASE front # <<>>
    <3>1. front \in Seq(Segments) /\ Head(front) = Head(path)
      BY <2>4, HeadOfFront
    <3> HIDE DEF front
    <3>2. Head(target) = Head(path)
      BY <2>2, <2>4, <3>1, HeadOfConcat
    <3>3. target \in Ports!Paths
      <4>1. target \in Seq(Segments) /\ Len(target) = Len(front) + Len(to.path)
        BY <2>2, <3>1, ConcatProperties
      <4>2. Len(target) # 0
        BY <2>2, <3>1, <4>1
      <4> QED BY <4>1, <4>2, IsPath
    <3> HIDE DEF target
    <3>4. CASE Ports!ValidPort(Head(path))
      <4>1. currentPort = PortOf[Head(path)] /\ Head(target) \in DOMAIN PortOf
        BY <3>2, <3>4, ParsedPath DEF Ports!ValidPort
      <4>2. Ports!BuildPortPath(target, currentPort) = target
        BY <4>1 DEF Ports!BuildPortPath
      <4>3. Ports!ParsePortPrefix(target).port = currentPort
        BY <3>2, <3>3, <3>4, <4>1, ParsedPath
      <4> QED BY <2>1, <4>2, <4>3
    <3>5. CASE ~Ports!ValidPort(Head(path))
      <4>1. currentPort = Ports!Null
        BY <3>5, ParsedPath
      <4>2. Ports!BuildPortPath(target, currentPort) = target
        BY <4>1 DEF Ports!BuildPortPath
      <4>3. Ports!ParsePortPrefix(target).port = currentPort
        BY <3>2, <3>3, <3>5, <4>1, ParsedPath
      <4> QED BY <2>1, <4>2, <4>3
    <3> QED BY <3>4, <3>5
  <2> QED BY <2>3, <2>4
<1> QED BY <1>1, <1>2, <1>3

\* A redirect to a path without a prefix is asked under the same prefix.
LEMMA RedirectStep ==
    ASSUME Ports!RoutingAssumption, NavInv
    PROVE  Ports!RedirectKeepsPort
<1> SUFFICES ASSUME NEW n \in Navs, Ports!Undisturbed(n), Ports!Follow(n), nav'[n].phase = "sent", nav[n].to.form # "url",
                    Head(nav[n].to.path) \notin Marked
             PROVE  nav'[n].wire = nav[n].wire
  BY DEF Ports!RedirectKeepsPort, Ports!KeepsPort
<1>1. /\ nav \in [Navs -> Navigations] /\ nav[n].phase = "answered" /\ nav[n].to.form # "none"
      /\ nav[n].path \in Ports!Paths /\ nav[n].to \in Answers /\ nav[n].hops + 1 \in Nat
  BY DEF NavInv, NavTypes, Navigations, Ports!Follow
<1> DEFINE target == Ports!Target(nav[n].path, nav[n].to)
<1>2. Ports!Send(n, target, nav[n].hops + 1)
  <2>1. ~(nav[n].hops + 1 > MaxRedirects)
    <3> SUFFICES ASSUME nav' = [nav EXCEPT ![n] = Ports!Idle] PROVE FALSE
      BY DEF Ports!Follow, Ports!Ended
    <3> QED BY <1>1 DEF Ports!Idle
  <2> QED BY <2>1 DEF Ports!Follow
<1>3. target \in Ports!Paths
  BY <1>1, TargetIsPath
<1>4. nav'[n].wire = Ports!Or(Ports!ParsePortPrefix(target).port, DefaultPort)
  BY <1>1, <1>2, <1>3, SendFacts
<1>5. currentPort = Ports!ParsePortPrefix(nav[n].path).port
  BY DEF Ports!Undisturbed
<1>6. nav[n].wire = Ports!Or(currentPort, DefaultPort)
  BY <1>1, <1>5 DEF NavInv, SentAsParsed
<1>7. Ports!Or(Ports!ParsePortPrefix(target).port, DefaultPort) = Ports!Or(currentPort, DefaultPort)
  BY <1>1, <1>5, TargetKeepsPort
<1> QED BY <1>4, <1>6, <1>7

\* A redirect without a port is followed on the port that answered, for any paths and ports
\* and however many navigations overlap, unless one of them has taken the page to another
\* port meanwhile.  (Then it is not: they share currentPort.)
THEOREM RedirectKeepsPortHolds ==
    ASSUME Ports!RoutingAssumption
    PROVE  Ports!Spec => [][Ports!RedirectKeepsPort]_(Ports!vars)
<1>1. NavInv /\ [Ports!Next]_(Ports!vars) => [Ports!RedirectKeepsPort]_(Ports!vars)
  BY RedirectStep
<1> QED BY <1>1, NavInvariance, PTL DEF Ports!Spec

-----------------------------------------------------------------------------
(* The pair that is shown                                                  *)

\* Every set of numbers that is not empty has a least one.
LEMMA LeastNumber == ASSUME NEW S \in SUBSET Nat, S # {} PROVE \E m \in S : \A k \in S : m <= k
<1> DEFINE below == {ss \in Nat \X Nat : ss[1] < ss[2]}
<1>1. IsWellFoundedOn(below, Nat)
  BY NatLessThanWellFounded, Zenon DEF OpToRel
<1> HIDE DEF below
<1>2. PICK m \in S : \A k \in S : <<k, m>> \notin below
  BY <1>1, WFMin
<1>3. ASSUME NEW k \in S, k < m PROVE FALSE
  <2>1. <<k, m>> \in below
    BY <1>3 DEF below
  <2> QED BY <1>2, <2>1
<1> QED BY <1>3

\* The first of some pairs in a report is one of them, or there is none.
LEMMA FirstIsOne == ASSUME NEW some PROVE Diag!FirstOf(some) \in some \cup {Diag!Nothing}
<1> DEFINE at == {i \in 1..Len(order) : order[i] \in some}
           first == CHOOSE i \in at : \A j \in at : i <= j
<1>1. Diag!FirstOf(some) = IF at = {} \/ first = 0 THEN Diag!Nothing ELSE order[first]
  <2>1. Diag!FirstOf(some) = LET i == IF at # {} THEN first ELSE 0
                             IN  IF i = 0 THEN Diag!Nothing ELSE order[i]
    BY Zenon DEF Diag!FirstOf, Diag!SelectInSeq, Diag!Min
  <2> HIDE DEF at, first
  <2> QED BY <2>1, Zenon
<1>2. at # {} => first \in at
  <2>1. at \in SUBSET Nat
    OBVIOUS
  <2> HIDE DEF at
  <2> QED BY <2>1, LeastNumber
<1> QED BY <1>1, <1>2

\* If some pair of them is in the report, there is a first one.
LEMMA FirstIsThere ==
    ASSUME NEW some, \E i \in 1..Len(order) : order[i] \in some
    PROVE  Diag!FirstOf(some) \in some
<1> DEFINE at == {i \in 1..Len(order) : order[i] \in some}
           first == CHOOSE i \in at : \A j \in at : i <= j
<1>1. at # {}
  OBVIOUS
<1>2. first \in at /\ first # 0
  <2>1. at \in SUBSET Nat
    OBVIOUS
  <2>2. \A i \in at : i # 0
    OBVIOUS
  <2> HIDE DEF at
  <2>3. first \in at
    BY <1>1, <2>1, LeastNumber
  <2> QED BY <2>2, <2>3
<1>3. Diag!FirstOf(some) = LET i == IF at # {} THEN first ELSE 0
                           IN  IF i = 0 THEN Diag!Nothing ELSE order[i]
  BY Zenon DEF Diag!FirstOf, Diag!SelectInSeq, Diag!Min
<1>4. order[first] \in some
  BY <1>2
<1> HIDE DEF at, first
<1>5. Diag!FirstOf(some) = order[first]
  BY <1>1, <1>2, <1>3, Zenon
<1> QED BY <1>4, <1>5

\* The browser flags the pair in use, if any, and reports it once it is there.
Flagged ==
    /\ order \in Seq(Pairs \cup {Diag!Transport})
    /\ state \in [Pairs -> {"frozen", "checking", "succeeded", "failed"}]
    /\ \A p \in Pairs : state[p] # "frozen" => \E i \in 1..Len(order) : order[i] = p
    /\ selected \subseteq Pairs /\ \A p \in selected : p = inUse /\ state[p] # "frozen"

\* What is shown is what there is to show of one pair.
ShownIsOfPair ==
    shown.local # Diag!Nothing => \E p \in Pairs :
        /\ shown.local = LocalOf[p] /\ shown.remote = RemoteOf[p]
        /\ shown.nat = Diag!InferNatType(TypeOf[LocalOf[p]], TypeOf[RemoteOf[p]])

DiagInv == Flagged /\ ShownIsOfPair

\* parseStats chooses the pair that is flagged, if one is, and else some pair or none.
LEMMA ChosenIsFlagged ==
    ASSUME Diag!DiagnosticsAssumption, DiagInv
    PROVE  /\ Diag!Chosen \in Pairs \cup {Diag!Nothing}
           /\ selected # {} => Diag!Chosen = inUse /\ inUse \in Pairs
<1> DEFINE working == {p \in Pairs : state[p] = "succeeded"}
<1>1. Diag!Chosen = IF Diag!FirstOf(selected) # Diag!Nothing THEN Diag!FirstOf(selected)
                    ELSE Diag!FirstOf(working)
  BY DEF Diag!Chosen
<1>2. Diag!FirstOf(selected) \in selected \cup {Diag!Nothing}
  BY FirstIsOne
<1>3. Diag!FirstOf(working) \in working \cup {Diag!Nothing}
  BY FirstIsOne
<1>4. selected \subseteq Pairs /\ \A p \in selected : p = inUse
  BY DEF DiagInv, Flagged
<1>5. ASSUME selected # {} PROVE Diag!FirstOf(selected) # Diag!Nothing
  <2>1. PICK p \in selected : state[p] # "frozen" /\ p \in Pairs
    BY <1>5 DEF DiagInv, Flagged
  <2>2. \E i \in 1..Len(order) : order[i] \in selected
    BY <2>1 DEF DiagInv, Flagged
  <2>3. Diag!FirstOf(selected) \in selected
    BY <2>2, FirstIsThere
  <2>4. Diag!Nothing \notin Pairs
    BY DEF Diag!DiagnosticsAssumption
  <2> QED BY <1>4, <2>3, <2>4
<1> QED BY <1>1, <1>2, <1>3, <1>4, <1>5

\* What is shown when the page asks.
LEMMA PollShows ==
    ASSUME Diag!DiagnosticsAssumption, DiagInv, Diag!Poll
    PROVE  /\ ShownIsOfPair'
           /\ selected # {} => shown'.local = LocalOf[inUse] /\ shown'.remote = RemoteOf[inUse]
<1>1. CASE Diag!Chosen = Diag!Nothing
  <2>1. shown'.local = Diag!Nothing
    BY <1>1 DEF Diag!Poll, Diag!ParseStats, Diag!NoDiagnostics
  <2>2. selected = {}
    BY <1>1, ChosenIsFlagged DEF Diag!DiagnosticsAssumption
  <2> QED BY <2>1, <2>2 DEF ShownIsOfPair, Diag!Nothing
<1>2. CASE Diag!Chosen # Diag!Nothing
  <2> DEFINE p == Diag!Chosen
  <2>1. p \in Pairs /\ (selected # {} => p = inUse)
    BY <1>2, ChosenIsFlagged
  <2>2. shown' = [local  |-> LocalOf[p], remote |-> RemoteOf[p],
                  nat    |-> Diag!InferNatType(TypeOf[LocalOf[p]], TypeOf[RemoteOf[p]]),
                  bytes  |-> Diag!BytesSent]
    BY <1>2 DEF Diag!Poll, Diag!ParseStats
  <2> HIDE DEF p
  <2>3. ShownIsOfPair'
    BY <2>1, <2>2 DEF ShownIsOfPair, Diag!InferNatType
  <2> QED BY <2>1, <2>2, <2>3
<1> QED BY <1>1, <1>2

\* A pair that is listed anew takes none from the report.
LEMMA ListedStay ==
    ASSUME Flagged, NEW p \in Pairs, NEW k \in 1..(Len(order) + 1), order' = Diag!InsertAt(order, k, p)
    PROVE  /\ order' \in Seq(Pairs \cup {Diag!Transport})
           /\ \A i \in 1..Len(order) : \E j \in 1..Len(order') : order'[j] = order[i]
<1> DEFINE S == Pairs \cup {Diag!Transport}
           front == SubSeq(order, 1, k - 1)
           back == SubSeq(order, k, Len(order))
<1>1. order \in Seq(S) /\ Len(order) \in Nat /\ \A i \in 1..Len(order) : order[i] \in S
  BY DEF Flagged
<1>2. /\ front \in Seq(S) /\ Len(front) = k - 1
      /\ \A i \in 1..(k - 1) : front[i] = order[i]
  <2>1. \A i \in 1..(k - 1) : order[i] \in S
    BY <1>1
  <2>2. /\ front \in Seq(S)
        /\ Len(front) = IF 1 <= k - 1 THEN k - 1 - 1 + 1 ELSE 0
        /\ \A i \in 1..(k - 1) - 1 + 1 : front[i] = order[1 + i - 1]
    BY <1>1, <2>1, SubSeqProperties
  <2> HIDE DEF front
  <2> QED BY <2>2
<1>3. /\ back \in Seq(S) /\ Len(back) = Len(order) - k + 1
      /\ \A i \in 1..(Len(order) - k + 1) : back[i] = order[k + i - 1]
  <2>1. \A i \in k..Len(order) : order[i] \in S
    BY <1>1
  <2>2. /\ back \in Seq(S)
        /\ Len(back) = IF k <= Len(order) THEN Len(order) - k + 1 ELSE 0
        /\ \A i \in 1..Len(order) - k + 1 : back[i] = order[k + i - 1]
    BY <1>1, <2>1, SubSeqProperties
  <2> HIDE DEF back
  <2> QED BY <1>1, <2>2
<1>4. order' = front \o <<p>> \o back
  BY DEF Diag!InsertAt
<1>5. <<p>> \in Seq(S) /\ Len(<<p>>) = 1
  OBVIOUS
<1> HIDE DEF front, back, S
<1>6. /\ front \o <<p>> \in Seq(S) /\ Len(front \o <<p>>) = k
      /\ \A i \in 1..(k - 1) : (front \o <<p>>)[i] = order[i]
  <2> DEFINE one == <<p>>
             joined == front \o one
  <2> HIDE DEF one
  <2>1. one \in Seq(S) /\ Len(one) = 1
    BY <1>5 DEF one
  <2>2. /\ joined \in Seq(S) /\ Len(joined) = Len(front) + Len(one)
        /\ \A i \in 1..Len(front) + Len(one) :
              joined[i] = IF i <= Len(front) THEN front[i] ELSE one[i - Len(front)]
    BY <1>2, <2>1, ConcatProperties
  <2> HIDE DEF joined
  <2>3. /\ joined \in Seq(S) /\ Len(joined) = k
        /\ \A i \in 1..(k - 1) : joined[i] = order[i]
    BY <1>1, <1>2, <2>1, <2>2
  <2> QED BY <2>3 DEF joined, one
<1>7. /\ order' \in Seq(S) /\ Len(order') = Len(order) + 1
      /\ \A i \in 1..Len(order) + 1 : order'[i] = IF i <= k THEN (front \o <<p>>)[i] ELSE back[i - k]
  <2>1. /\ (front \o <<p>>) \o back \in Seq(S) /\ Len((front \o <<p>>) \o back) = k + Len(back)
        /\ \A i \in 1..k + Len(back) :
              ((front \o <<p>>) \o back)[i] = IF i <= k THEN (front \o <<p>>)[i] ELSE back[i - k]
    <3> DEFINE joined == front \o <<p>>
    <3>1. joined \in Seq(S) /\ Len(joined) = k /\ back \in Seq(S)
      BY <1>3, <1>6
    <3> HIDE DEF joined
    <3>2. /\ joined \o back \in Seq(S) /\ Len(joined \o back) = k + Len(back)
          /\ \A i \in 1..k + Len(back) : (joined \o back)[i] = IF i <= k THEN joined[i] ELSE back[i - k]
      BY <3>1, ConcatProperties
    <3> QED BY <3>2 DEF joined
  <2>2. k + Len(back) = Len(order) + 1
    BY <1>1, <1>3
  <2> QED BY <1>4, <2>1, <2>2
<1>8. ASSUME NEW i \in 1..Len(order) PROVE \E j \in 1..Len(order') : order'[j] = order[i]
  <2>1. CASE i < k
    <3>1. i \in 1..Len(order') /\ i \in 1..Len(order) + 1 /\ i <= k /\ i \in 1..(k - 1)
      BY <1>1, <1>7, <2>1
    <3>2. order'[i] = (front \o <<p>>)[i]
      BY <1>7, <3>1
    <3>3. (front \o <<p>>)[i] = order[i]
      BY <1>6, <3>1
    <3> QED BY <3>1, <3>2, <3>3
  <2>2. CASE i >= k
    <3>1. i + 1 \in 1..Len(order') /\ ~(i + 1 <= k) /\ i + 1 - k \in 1..(Len(order) - k + 1)
      BY <1>1, <1>7, <2>2
    <3>2. order'[i + 1] = back[i + 1 - k]
      BY <1>7, <3>1
    <3>3. back[i + 1 - k] = order[k + (i + 1 - k) - 1]
      BY <1>3, <3>1
    <3>4. k + (i + 1 - k) - 1 = i
      BY <1>1
    <3> QED BY <3>1, <3>2, <3>3, <3>4
  <2> QED BY <1>1, <2>1, <2>2
<1> QED BY <1>7, <1>8 DEF S

\* Every step keeps the flag with the pair in use, and what is shown that of a pair.
LEMMA NextDiag == Diag!DiagnosticsAssumption /\ DiagInv /\ [Diag!Next]_(Diag!vars) => DiagInv'
<1> SUFFICES ASSUME Diag!DiagnosticsAssumption, DiagInv, [Diag!Next]_(Diag!vars) PROVE DiagInv'
  OBVIOUS
<1>1. UNCHANGED shown => ShownIsOfPair'
  BY DEF DiagInv, ShownIsOfPair, Diag!InferNatType, Diag!Nothing
<1>2. ASSUME UNCHANGED <<state, selected, inUse, order>> PROVE Flagged'
  BY <1>2 DEF DiagInv, Flagged, Diag!Transport
<1>3. CASE Diag!Poll
  <2>1. UNCHANGED <<state, selected, inUse, order>>
    BY <1>3 DEF Diag!Poll
  <2> QED BY <1>2, <1>3, <2>1, PollShows DEF DiagInv
<1>4. ASSUME NEW p \in Pairs, Diag!Form(p) PROVE DiagInv'
  <2>1. UNCHANGED <<state, selected, inUse, shown>>
        /\ \E k \in 1..(Len(order) + 1) : order' = Diag!InsertAt(order, k, p)
    BY <1>4 DEF Diag!Form
  <2>2. /\ order' \in Seq(Pairs \cup {Diag!Transport})
        /\ \A i \in 1..Len(order) : \E j \in 1..Len(order') : order'[j] = order[i]
    BY <2>1, ListedStay DEF DiagInv
  <2>3. Flagged'
    <3>1. ASSUME NEW q \in Pairs, state'[q] # "frozen" PROVE \E j \in 1..Len(order') : order'[j] = q
      <4>1. PICK i \in 1..Len(order) : order[i] = q
        BY <2>1, <3>1 DEF DiagInv, Flagged
      <4> QED BY <2>2, <4>1
    <3> QED BY <2>1, <2>2, <3>1 DEF DiagInv, Flagged, Diag!Transport
  <2> QED BY <1>1, <2>1, <2>3 DEF DiagInv
<1>5. ASSUME NEW p \in Pairs, Diag!Check(p) PROVE DiagInv'
  <2>1. /\ UNCHANGED <<selected, inUse, order, shown>>
        /\ \E s \in {"checking", "succeeded", "failed"} : state' = [state EXCEPT ![p] = s]
        /\ \E i \in 1..Len(order) : order[i] = p
    <3>1. p \in {order[i] : i \in DOMAIN order} /\ UNCHANGED <<selected, inUse, order, shown>>
          /\ \E s \in Diag!Outcomes(state[p]) : state' = [state EXCEPT ![p] = s]
      BY <1>5 DEF Diag!Check, Diag!ToSet
    <3>2. DOMAIN order = 1..Len(order)
      BY DEF DiagInv, Flagged
    <3>3. Diag!Outcomes(state[p]) \subseteq {"checking", "succeeded", "failed"}
      BY DEF Diag!Outcomes
    <3> QED BY <3>1, <3>2, <3>3
  <2>2. PICK s \in {"checking", "succeeded", "failed"} : state' = [state EXCEPT ![p] = s]
    BY <2>1
  <2>3. state' \in [Pairs -> {"frozen", "checking", "succeeded", "failed"}]
    BY <2>2 DEF DiagInv, Flagged
  <2>4. ASSUME NEW q \in Pairs, state'[q] # "frozen" PROVE \E i \in 1..Len(order) : order[i] = q
    <3>1. CASE q = p
      BY <2>1, <3>1
    <3>2. CASE q # p
      BY <2>2, <2>4, <3>2 DEF DiagInv, Flagged
    <3> QED BY <3>1, <3>2
  <2>5. \A q \in selected : q = inUse /\ state'[q] # "frozen"
    BY <2>2 DEF DiagInv, Flagged
  <2>6. Flagged'
    BY <2>1, <2>3, <2>4, <2>5 DEF DiagInv, Flagged, Diag!Transport
  <2> QED BY <1>1, <2>1, <2>6 DEF DiagInv
<1>6. ASSUME NEW p \in Pairs, Diag!Select(p) PROVE DiagInv'
  <2>1. /\ state[p] = "succeeded" /\ inUse' = p /\ selected' \subseteq {p}
        /\ UNCHANGED <<state, order, shown>>
    BY <1>6 DEF Diag!Select
  <2>2. Flagged'
    BY <2>1 DEF DiagInv, Flagged, Diag!Transport
  <2> QED BY <1>1, <2>1, <2>2 DEF DiagInv
<1>7. Diag!Carry \/ UNCHANGED Diag!vars => UNCHANGED <<state, selected, inUse, order, shown>>
  BY DEF Diag!Carry, Diag!vars
<1> QED BY <1>1, <1>2, <1>3, <1>4, <1>5, <1>6, <1>7 DEF Diag!Next, DiagInv

\* The flag is with the pair in use in every reachable state.
LEMMA DiagInvariance == ASSUME Diag!DiagnosticsAssumption PROVE Diag!Spec => []DiagInv
<1>1. Diag!Init => DiagInv
  <2> SUFFICES ASSUME Diag!Init PROVE DiagInv
    OBVIOUS
  <2>1. order \in Seq(Pairs \cup {Diag!Transport})
    <3>1. \A S : \A t \in S : <<>> \in Seq(S) /\ <<t>> \in Seq(S)
      OBVIOUS
    <3>2. Diag!Transport \in Pairs \cup {Diag!Transport} /\ order \in {<<>>, <<Diag!Transport>>}
      BY DEF Diag!Init
    <3> QED BY <3>1, <3>2, Zenon
  <2> QED BY <2>1 DEF Diag!Init, Diag!NoDiagnostics, DiagInv, Flagged, ShownIsOfPair
<1>2. DiagInv /\ [Diag!Next]_(Diag!vars) => DiagInv'
  BY NextDiag
<1> QED BY <1>1, <1>2, PTL DEF Diag!Spec

\* In a browser that flags the selected pair, the two addresses that are shown are those of
\* that pair when the page asked: for any candidates, in whatever order the pairs are listed,
\* whichever of them succeeded, and whether or not the selected one has failed by then.
THEOREM FlaggedIsShownHolds == ASSUME Diag!DiagnosticsAssumption PROVE Diag!Spec => Diag!FlaggedIsShown
<1>1. DiagInv /\ [Diag!Next]_(Diag!vars) => [Diag!FlaggedPairShown]_(Diag!vars)
  <2> SUFFICES ASSUME DiagInv, Diag!Next PROVE Diag!FlaggedPairShown
    OBVIOUS
  <2>1. CASE Diag!Poll
    BY <2>1, PollShows DEF Diag!FlaggedPairShown, Diag!ShowsPairInUse
  <2>2. CASE UNCHANGED shown
    BY <2>2 DEF Diag!FlaggedPairShown, Diag!ShowsPairInUse
  <2> QED BY <2>1, <2>2 DEF Diag!Next, Diag!Carry, Diag!Form, Diag!Check, Diag!Select
<1> QED BY <1>1, DiagInvariance, PTL DEF Diag!Spec, Diag!FlaggedIsShown

\* A path is shown as direct exactly if neither side is translated or relayed, as relayed
\* exactly if one is, and as unknown exactly if it is neither and a peer saw a side first.
THEOREM NatIsTrueHolds ==
    ASSUME Diag!DiagnosticsAssumption
    PROVE  Diag!Spec => []Diag!NatIsTrue
<1>1. DiagInv => Diag!NatIsTrue
  <2> SUFFICES ASSUME DiagInv, shown.local # Diag!Nothing PROVE Diag!NatIsTrue
    BY DEF Diag!NatIsTrue
  <2>1. PICK p \in Pairs : /\ shown.local = LocalOf[p] /\ shown.remote = RemoteOf[p]
                           /\ shown.nat = Diag!InferNatType(TypeOf[LocalOf[p]], TypeOf[RemoteOf[p]])
    BY DEF DiagInv, ShownIsOfPair
  <2>2. TypeOf[LocalOf[p]] \in Diag!CandidateTypes /\ TypeOf[RemoteOf[p]] \in Diag!CandidateTypes
    BY DEF Diag!DiagnosticsAssumption, Diag!Candidates
  <2>3. \A l, r \in Diag!CandidateTypes :
          /\ Diag!InferNatType(l, r) = "direct (no NAT)" <=> {l, r} = {"host"}
          /\ Diag!InferNatType(l, r) = "symmetric-nat (TURN)" <=> "relay" \in {l, r}
          /\ Diag!InferNatType(l, r) = "unknown" <=> "prflx" \in {l, r} /\ "relay" \notin {l, r}
    BY DEF Diag!InferNatType, Diag!CandidateTypes
  <2>4. /\ shown.nat = Diag!InferNatType(TypeOf[shown.local], TypeOf[shown.remote])
        /\ TypeOf[shown.local] \in Diag!CandidateTypes
        /\ TypeOf[shown.remote] \in Diag!CandidateTypes
    BY <2>1, <2>2, Zenon
  <2> DEFINE l == TypeOf[shown.local]
             r == TypeOf[shown.remote]
  <2>5. /\ shown.nat = "direct (no NAT)" <=> {l, r} = {"host"}
        /\ shown.nat = "symmetric-nat (TURN)" <=> "relay" \in {l, r}
        /\ shown.nat = "unknown" <=> "prflx" \in {l, r} /\ "relay" \notin {l, r}
    <3>1. shown.nat = Diag!InferNatType(l, r) /\ l \in Diag!CandidateTypes /\ r \in Diag!CandidateTypes
      BY <2>4
    <3>2. /\ Diag!InferNatType(l, r) = "direct (no NAT)" <=> {l, r} = {"host"}
          /\ Diag!InferNatType(l, r) = "symmetric-nat (TURN)" <=> "relay" \in {l, r}
          /\ Diag!InferNatType(l, r) = "unknown" <=> "prflx" \in {l, r} /\ "relay" \notin {l, r}
      BY <2>3, <3>1
    <3> HIDE DEF l, r
    <3> QED BY <3>1, <3>2, Zenon
  <2> QED BY <2>5 DEF Diag!NatIsTrue
<1> QED BY <1>1, DiagInvariance, PTL

\* What the page shows of the path is true: both of the above.
THEOREM PathIsTrueHolds == ASSUME Diag!DiagnosticsAssumption PROVE Diag!Spec => Diag!PathIsTrue
BY FlaggedIsShownHolds, NatIsTrueHolds, PTL DEF Diag!PathIsTrue

-----------------------------------------------------------------------------
(* The policy                                                              *)

\* Without rules about addresses, an address makes no difference.
LEMMA AddressesAreAlike ==
    ASSUME ~Gate!HasIpRules, NEW c, NEW a, NEW b
    PROVE  Gate!Decide(c, a) = Gate!Decide(c, b)
<1> DEFINE Hits(x) == {i \in 1..Len(policy.rules) : Gate!Matches(policy.rules[i], c, x)}
<1>1. Hits(a) = Hits(b)
  BY DEF Gate!HasIpRules, Gate!Matches
<1>2. \A x : Gate!Decide(c, x) = IF Hits(x) = {} THEN policy.default
             ELSE policy.rules[CHOOSE i \in Hits(x) : \A j \in Hits(x) : i <= j].effect
  BY DEF Gate!Decide
<1> HIDE DEF Hits
<1> QED BY <1>1, <1>2

\* The same policy decides the same.
LEMMA PolicyDecides ==
    ASSUME UNCHANGED policy, NEW c, NEW a
    PROVE  Gate!Decide(c, a)' = Gate!Decide(c, a)
<1> DEFINE hits == {i \in 1..Len(policy.rules) : Gate!Matches(policy.rules[i], c, a)}
           decided == IF hits = {} THEN policy.default
                      ELSE policy.rules[CHOOSE i \in hits : \A j \in hits : i <= j].effect
<1>1. hits' = hits
  BY DEF Gate!Matches
<1>2. Gate!Decide(c, a) = decided /\ Gate!Decide(c, a)' = decided'
  BY DEF Gate!Decide
<1> HIDE DEF hits
<1>3. decided' = decided
  BY <1>1
<1> QED BY <1>2, <1>3

\* No step lets in a client that hides its address where the policy would not have.
LEMMA HidingStep ==
    ASSUME Gate!HidingGainsNothing, [Gate!Next]_(Gate!vars)
    PROVE  Gate!HidingGainsNothing'
<1>1. ASSUME UNCHANGED <<policy, last>> PROVE Gate!HidingGainsNothing'
  <2>1. \A c, a : Gate!Decide(c, a)' = Gate!Decide(c, a)
    BY <1>1, PolicyDecides
  <2> QED BY <1>1, <2>1 DEF Gate!HidingGainsNothing
<1>2. ASSUME last'.effect # "allow" PROVE Gate!HidingGainsNothing'
  BY <1>2 DEF Gate!HidingGainsNothing
<1>3. ASSUME NEW c \in Clients, NEW address \in Addresses \cup {NoAddress}, Gate!HandleAnnounce(c, address)
      PROVE  Gate!HidingGainsNothing'
  <2>1. UNCHANGED policy
    BY <1>3 DEF Gate!HandleAnnounce
  <2>2. CASE last' = [who |-> {c}, address |-> NoAddress, effect |-> "refused"]
    BY <1>2, <2>2
  <2>3. CASE last' = [who |-> {c}, address |-> address, effect |-> Gate!Verdict(c, address)]
    <3> SUFFICES ASSUME Gate!Verdict(c, address) = "allow", address = NoAddress, NEW a \in Addresses
                 PROVE  Gate!Decide(c, a)' = "allow"
      BY <2>3 DEF Gate!HidingGainsNothing
    <3>1. ~Gate!HasIpRules /\ Gate!Decide(c, NoAddress) = "allow"
      BY DEF Gate!Verdict
    <3> QED BY <2>1, <3>1, AddressesAreAlike, PolicyDecides
  <2> QED BY <1>3, <2>2, <2>3 DEF Gate!HandleAnnounce, Gate!Refuse
<1>4. Gate!Reload \/ Gate!Tick => last'.effect # "allow"
  BY DEF Gate!Reload, Gate!Tick, Gate!NoVerdict
<1>5. Gate!EditFile \/ UNCHANGED Gate!vars => UNCHANGED <<policy, last>>
  BY DEF Gate!EditFile, Gate!vars
<1> QED BY <1>1, <1>2, <1>3, <1>4, <1>5 DEF Gate!Next

\* A client that keeps its address to itself is let in only where it would be with every
\* address, for any policies and however they are reloaded.
THEOREM HidingGainsNothingHolds == Gate!Spec => []Gate!HidingGainsNothing
<1>1. Gate!Init => Gate!HidingGainsNothing
  BY DEF Gate!Init, Gate!NoVerdict, Gate!HidingGainsNothing
<1> QED BY <1>1, HidingStep, PTL DEF Gate!Spec

-----------------------------------------------------------------------------
(* The announce limits                                                     *)

\* Cardinality of the instance is that of FiniteSets.
LEMMA Counting == \A S : Gate!Cardinality(S) = Cardinality(S) /\ (Gate!IsFiniteSet(S) <=> IsFiniteSet(S))
<1>1. \A S : Gate!IsFiniteSet(S) <=> IsFiniteSet(S)
  BY DEF Gate!IsFiniteSet, IsFiniteSet
<1>2. \A S : Gate!Cardinality(S) = Cardinality(S)
  BY DEF Gate!Cardinality, Cardinality
<1> QED BY <1>1, <1>2

\* One more element is one more at most.
LEMMA OneMore ==
    ASSUME NEW S, IsFiniteSet(S), NEW x
    PROVE  /\ Cardinality(S) \in Nat /\ Cardinality(S \cup {x}) \in Nat
           /\ Cardinality(S \cup {x}) <= Cardinality(S) + 1
<1>1. Cardinality(S) \in Nat /\ IsFiniteSet(S \cup {x})
  BY FS_CardinalityType, FS_AddElement
<1>2. Cardinality(S \cup {x}) \in Nat
  BY <1>1, FS_CardinalityType
<1>3. Cardinality(S \cup {x}) = IF x \in S THEN Cardinality(S) ELSE Cardinality(S) + 1
  BY FS_AddElement
<1> QED BY <1>1, <1>2, <1>3

\* The announces of one client that passed in the window.
OfClient(c) == {e \in log : e.who = c}

\* What the limiter keeps of a window is what passed in it.
Counted ==
    /\ limits.perClient > 0 => \A c \in Clients : Gate!Prune(times[c]) = OfClient(c)
    /\ limits.global > 0 => Gate!Prune(globalTimes) = log

\* The announces that passed at this time.
Here == {e \in log : e.time = now}

\* The log is of the last window, and those of one time are numbered.
LogInv ==
    /\ IsFiniteSet(log) /\ log \subseteq Gate!Announces
    /\ \A e \in log : now - e.time < Window /\ e.time <= now
    /\ \A e \in Here : e.nth <= Cardinality(Here)

\* The inductive invariant of the admission of announces.
GateInv ==
    /\ Gate!TypeOK /\ LogInv /\ Counted
    /\ Gate!WindowsHold /\ Gate!RefusedOnlyAtLimit

\* The types of what the limiter reads.
LEMMA GateTypes ==
    ASSUME Gate!AdmissionAssumption, Gate!TypeOK
    PROVE  /\ now \in Nat /\ limits \in [perClient : Int, global : Int]
           /\ Window \in Nat \ {0} /\ MaxLog \in Nat /\ MaxNow \in Nat
           /\ times \in [Clients -> SUBSET Gate!Announces] /\ globalTimes \subseteq Gate!Announces
<1>1. now \in Nat
  BY DEF Gate!TypeOK
<1>2. limits \in [perClient : Int, global : Int]
  BY DEF Gate!TypeOK, Gate!AdmissionAssumption
<1> QED BY <1>1, <1>2 DEF Gate!TypeOK, Gate!AdmissionAssumption

\* The number of announces of one client is a number, and no greater than that of all.
LEMMA CountFacts ==
    ASSUME LogInv, NEW S \in SUBSET log
    PROVE  IsFiniteSet(S) /\ Cardinality(S) \in Nat /\ Cardinality(log) \in Nat /\ Cardinality(S) <= Cardinality(log)
<1>1. IsFiniteSet(log)
  BY DEF LogInv
<1>2. IsFiniteSet(S) /\ Cardinality(S) <= Cardinality(log)
  BY <1>1, FS_Subset
<1> QED BY <1>1, <1>2, FS_CardinalityType

\* Entries of one time are numbered, so that an announce that passes gets a new one.
LEMMA NewEntry ==
    LogInv => \A c \in Clients : /\ Gate!Entry(c) = [who |-> c, time |-> now, nth |-> Cardinality(Here) + 1]
                                /\ Gate!Entry(c) \notin log
<1> SUFFICES ASSUME LogInv, NEW c \in Clients
             PROVE  /\ Gate!Entry(c) = [who |-> c, time |-> now, nth |-> Cardinality(Here) + 1]
                    /\ Gate!Entry(c) \notin log
  OBVIOUS
<1> DEFINE n == Cardinality(Here) + 1
<1>1. Gate!Entry(c) = [who |-> c, time |-> now, nth |-> n]
  BY Counting DEF Gate!Entry, Here
<1>2. Gate!Entry(c) \notin log
  <2> SUFFICES ASSUME Gate!Entry(c) \in log PROVE FALSE
    OBVIOUS
  <2>1. Gate!Entry(c) \in Here /\ Gate!Entry(c).nth = n
    BY <1>1 DEF Here
  <2>2. Gate!Entry(c).nth <= Cardinality(Here)
    BY <2>1 DEF LogInv
  <2>3. Cardinality(Here) \in Nat
    <3>1. Here \in SUBSET log
      BY DEF Here
    <3> QED BY <3>1, CountFacts
  <2> QED BY <2>1, <2>2, <2>3
<1> QED BY <1>1, <1>2

\* That much as a fact of every state, to be read of the next one.
LEMMA EntriesAreNew == LogInv => \A c \in Clients : Gate!Entry(c) \notin log
BY NewEntry

\* The entry of an announce that passes is one of the announces.
LEMMA EntryFacts ==
    ASSUME Gate!AdmissionAssumption, Gate!TypeOK, LogInv, NEW c \in Clients, Cardinality(log) < MaxLog
    PROVE  Gate!Entry(c) \in Gate!Announces
<1> DEFINE n == Cardinality(Here) + 1
<1>1. Cardinality(Here) \in Nat /\ Cardinality(log) \in Nat /\ Cardinality(Here) <= Cardinality(log)
  <2>1. Here \in SUBSET log
    BY DEF Here
  <2> QED BY <2>1, CountFacts
<1>2. MaxLog \in Nat /\ now \in 0..MaxNow
  BY GateTypes DEF Gate!TypeOK
<1>3. Gate!Entry(c) = [who |-> c, time |-> now, nth |-> n]
  BY NewEntry
<1>4. n \in 1..MaxLog
  BY <1>1, <1>2
<1> HIDE DEF n
<1> QED BY <1>2, <1>3, <1>4 DEF Gate!Announces

\* Steps that leave the limiter alone.
LEMMA LimiterAlone ==
    ASSUME GateInv, UNCHANGED <<now, times, globalTimes, limits, log>>
    PROVE  LogInv' /\ Counted' /\ Gate!WindowsHold'
<1>1. LogInv'
  BY DEF GateInv, LogInv, Here, Gate!Announces
<1>2. Counted'
  BY DEF GateInv, Counted, OfClient, Gate!Prune
<1>3. Gate!WindowsHold'
  BY DEF GateInv, Gate!WindowsHold, Gate!Recent
<1> QED BY <1>1, <1>2, <1>3

\* An announce that passes is counted, and only passes where there is room.
LEMMA PassStep ==
    ASSUME Gate!AdmissionAssumption, GateInv, NEW c \in Clients, Cardinality(log) < MaxLog,
           Gate!WithinOwn(c), Gate!WithinAll, Gate!Record(c), log' = log \cup {Gate!Entry(c)},
           UNCHANGED <<now, limits>>
    PROVE  LogInv' /\ Counted' /\ Gate!WindowsHold'
<1> DEFINE entry == Gate!Entry(c)
<1>1. /\ entry \in Gate!Announces /\ entry.who = c /\ entry.time = now
      /\ entry.nth = Cardinality(Here) + 1 /\ entry \notin log
  BY EntryFacts, NewEntry DEF GateInv
<1>2. /\ now \in Nat /\ Window \in Nat \ {0} /\ limits \in [perClient : Int, global : Int]
      /\ times \in [Clients -> SUBSET Gate!Announces]
  BY GateTypes DEF GateInv
<1> HIDE DEF entry
<1>3. log' = log \cup {entry}
  BY DEF entry
<1>4. LogInv'
  <2>1. IsFiniteSet(log') /\ log' \subseteq Gate!Announces
    BY <1>1, <1>3, FS_AddElement DEF GateInv, LogInv
  <2>2. \A e \in log' : now - e.time < Window /\ e.time <= now
    BY <1>1, <1>2, <1>3 DEF GateInv, LogInv
  <2>3. Here' = Here \cup {entry} /\ entry \notin Here
    BY <1>1, <1>3 DEF Here
  <2>4. IsFiniteSet(Here) /\ Cardinality(Here) \in Nat
    <3>1. Here \in SUBSET log /\ LogInv
      BY DEF Here, GateInv
    <3> QED BY <3>1, CountFacts
  <2>5. Cardinality(Here') = Cardinality(Here) + 1
    BY <2>3, <2>4, FS_AddElement
  <2>6. \A e \in Here' : e.nth <= Cardinality(Here')
    <3>1. \A e \in Here : e.nth \in Nat /\ e.nth <= Cardinality(Here)
      BY DEF GateInv, LogInv, Here, Gate!Announces
    <3> QED BY <3>1, <2>3, <2>4, <2>5, <1>1
  <2> QED BY <2>1, <2>2, <2>6 DEF LogInv, Gate!Announces
<1>5. \A d : OfClient(d)' = IF d = c THEN OfClient(c) \cup {entry} ELSE OfClient(d)
  BY <1>1, <1>3 DEF OfClient
<1>6. \A ts : Gate!Prune(ts)' = Gate!Prune(ts)
  BY DEF Gate!Prune
<1>7. \A ts : Gate!Prune(Gate!Prune(ts) \cup {entry}) = Gate!Prune(ts) \cup {entry}
  BY <1>1, <1>2 DEF Gate!Prune
<1>8. Counted'
  <2>1. ASSUME limits.perClient > 0, NEW d \in Clients PROVE Gate!Prune(times'[d]) = OfClient(d)'
    <3>1. times' = [times EXCEPT ![c] = Gate!Prune(@) \cup {entry}]
      BY <2>1 DEF Gate!Record, entry
    <3>2. Gate!Prune(times[d]) = OfClient(d) /\ Gate!Prune(times[c]) = OfClient(c)
      BY <2>1 DEF GateInv, Counted
    <3>3. CASE d = c
      <4>1. times'[d] = Gate!Prune(times[c]) \cup {entry}
        BY <3>1, <3>3, <1>2
      <4> QED BY <4>1, <3>2, <3>3, <1>5, <1>7
    <3>4. CASE d # c
      BY <3>1, <3>2, <3>4, <1>2, <1>5
    <3> QED BY <3>3, <3>4
  <2>2. ASSUME limits.global > 0 PROVE Gate!Prune(globalTimes') = log'
    <3>1. globalTimes' = Gate!Prune(globalTimes) \cup {entry}
      BY <2>2 DEF Gate!Record, entry
    <3>2. Gate!Prune(globalTimes) = log
      BY <2>2 DEF GateInv, Counted
    <3> QED BY <3>1, <3>2, <1>3, <1>7
  <2> QED BY <2>1, <2>2 DEF Counted, Gate!Prune, OfClient
<1>9. Gate!WindowsHold'
  <2>1. ASSUME limits.perClient > 0, NEW d \in Clients PROVE Gate!Recent(d)' <= limits.perClient
    <3>1. \A x \in Clients : Cardinality(OfClient(x)) <= limits.perClient
      BY <2>1, Counting DEF GateInv, Gate!WindowsHold, Gate!Recent, OfClient
    <3>2. Gate!Recent(d)' = Cardinality(OfClient(d)')
      BY Counting DEF Gate!Recent, OfClient
    <3>3. CASE d = c
      <4>1. Gate!Prune(times[c]) = OfClient(c)
        BY <2>1 DEF GateInv, Counted
      <4>2. Cardinality(OfClient(c)) < limits.perClient
        BY <2>1, <4>1, Counting DEF Gate!WithinOwn
      <4>3. IsFiniteSet(OfClient(c)) /\ Cardinality(OfClient(c)) \in Nat
        <5>1. OfClient(c) \in SUBSET log /\ LogInv
          BY DEF OfClient, GateInv
        <5> QED BY <5>1, CountFacts
      <4>4. /\ Cardinality(OfClient(c) \cup {entry}) <= Cardinality(OfClient(c)) + 1
            /\ Cardinality(OfClient(c) \cup {entry}) \in Nat
        BY <4>3, OneMore
      <4>5. Gate!Recent(d)' = Cardinality(OfClient(c) \cup {entry})
        BY <3>2, <3>3, <1>5
      <4> QED BY <4>2, <4>3, <4>4, <4>5, <1>2
    <3>4. CASE d # c
      BY <3>1, <3>2, <3>4, <1>5
    <3> QED BY <3>3, <3>4
  <2>2. ASSUME limits.global > 0 PROVE Cardinality(log') <= limits.global
    <3>1. Cardinality(log) < limits.global
      BY <2>2, Counting DEF GateInv, Counted, Gate!WithinAll
    <3>2. IsFiniteSet(log) /\ Cardinality(log) \in Nat
      BY FS_CardinalityType DEF GateInv, LogInv
    <3>3. Cardinality(log') <= Cardinality(log) + 1 /\ Cardinality(log') \in Nat
      BY <3>2, <1>3, OneMore
    <3> QED BY <3>1, <3>2, <3>3, <1>2
  <2>3. Gate!Cardinality(log') = Cardinality(log')
    BY Counting
  <2> QED BY <2>1, <2>2, <2>3 DEF Gate!WindowsHold
<1> QED BY <1>4, <1>8, <1>9

\* When the clock moves, the log and what the limiter would keep lose the same announces.
LEMMA TickStep ==
    ASSUME Gate!AdmissionAssumption, GateInv, Gate!Tick
    PROVE  LogInv' /\ Counted' /\ Gate!WindowsHold'
<1>1. /\ now' = now + 1 /\ log' = {e \in log : now' - e.time < Window}
      /\ UNCHANGED <<times, globalTimes, limits>>
  BY DEF Gate!Tick
<1>2. /\ now \in Nat /\ Window \in Nat \ {0} /\ limits \in [perClient : Int, global : Int]
      /\ times \in [Clients -> SUBSET Gate!Announces] /\ globalTimes \subseteq Gate!Announces
      /\ MaxNow \in Nat
  BY GateTypes DEF GateInv
<1>3. \A e \in Gate!Announces : e.time \in Nat
  BY <1>2 DEF Gate!Announces
<1>4. LogInv'
  <2>1. log' \in SUBSET log /\ LogInv
    BY <1>1 DEF GateInv
  <2>2. IsFiniteSet(log') /\ log' \subseteq Gate!Announces
    BY <2>1, CountFacts DEF LogInv
  <2>3. \A e \in log : e.time \in Nat /\ e.time <= now
    BY <1>3, <2>1 DEF LogInv
  <2>4. \A e \in log' : now' - e.time < Window /\ e.time <= now'
    BY <1>1, <1>2, <2>3
  <2>5. Here' = {}
    BY <1>1, <1>2, <2>1, <2>3 DEF Here
  <2> QED BY <2>2, <2>4, <2>5 DEF LogInv, Gate!Announces
<1>5. ASSUME NEW ts \in SUBSET Gate!Announces
      PROVE  Gate!Prune(ts)' = {e \in Gate!Prune(ts) : now' - e.time < Window}
  BY <1>1, <1>2, <1>3 DEF Gate!Prune
<1>6. Counted'
  <2>1. ASSUME limits.perClient > 0, NEW c \in Clients PROVE Gate!Prune(times[c])' = OfClient(c)'
    <3>1. Gate!Prune(times[c]) = OfClient(c) /\ times[c] \in SUBSET Gate!Announces /\ times'[c] = times[c]
      BY <2>1, <1>1, <1>2 DEF GateInv, Counted
    <3>2. Gate!Prune(times[c])' = {e \in OfClient(c) : now' - e.time < Window}
      BY <3>1, <1>1, <1>5 DEF Gate!Prune
    <3> QED BY <3>2, <1>1 DEF OfClient
  <2>2. ASSUME limits.global > 0 PROVE Gate!Prune(globalTimes)' = log'
    <3>1. Gate!Prune(globalTimes) = log /\ globalTimes' = globalTimes
      BY <2>2, <1>1 DEF GateInv, Counted
    <3>2. Gate!Prune(globalTimes)' = {e \in Gate!Prune(globalTimes) : now' - e.time < Window}
      BY <3>1, <1>2, <1>5 DEF Gate!Prune
    <3> QED BY <3>1, <3>2, <1>1
  <2> QED BY <2>1, <2>2, <1>1 DEF Counted
<1>7. Gate!WindowsHold'
  <2>1. ASSUME NEW c \in Clients
        PROVE  /\ Gate!Recent(c)' <= Gate!Recent(c) /\ Gate!Recent(c)' \in Nat /\ Gate!Recent(c) \in Nat
    <3>1. Gate!Recent(c) = Cardinality(OfClient(c)) /\ Gate!Recent(c)' = Cardinality(OfClient(c)')
      BY Counting DEF Gate!Recent, OfClient
    <3>2. OfClient(c)' \in SUBSET OfClient(c) /\ OfClient(c) \in SUBSET log
      BY <1>1 DEF OfClient
    <3>3. IsFiniteSet(OfClient(c)) /\ Cardinality(OfClient(c)) \in Nat
      BY <3>2, CountFacts DEF GateInv
    <3>4. Cardinality(OfClient(c)') <= Cardinality(OfClient(c)) /\ Cardinality(OfClient(c)') \in Nat
      BY <3>2, <3>3, FS_Subset, FS_CardinalityType
    <3> QED BY <3>1, <3>3, <3>4
  <2>2. Cardinality(log') <= Cardinality(log) /\ Cardinality(log') \in Nat /\ Cardinality(log) \in Nat
    <3>1. IsFiniteSet(log) /\ log' \in SUBSET log
      BY <1>1 DEF GateInv, LogInv
    <3> QED BY <3>1, FS_Subset, FS_CardinalityType
  <2>3. Gate!Cardinality(log') = Cardinality(log') /\ Gate!Cardinality(log) = Cardinality(log)
    BY Counting
  <2> QED BY <2>1, <2>2, <2>3, <1>1, <1>2 DEF GateInv, Gate!WindowsHold
<1> QED BY <1>4, <1>6, <1>7

\* An announce that is refused finds its window full, of its client's or of all announces.
LEMMA RefusedStep ==
    ASSUME Gate!AdmissionAssumption, GateInv, NEW c \in Clients,
           ~(Gate!WithinOwn(c) /\ Gate!WithinAll), Gate!Refuse(c), UNCHANGED limits
    PROVE  Gate!RefusedOnlyAtLimit'
<1>1. last'.who = {c} /\ log' = log /\ limits' = limits
  BY DEF Gate!Refuse
<1>2. limits \in [perClient : Int, global : Int]
  BY GateTypes DEF GateInv
<1>3. Gate!Recent(c)' = Cardinality(OfClient(c)) /\ Cardinality(OfClient(c)) \in Nat
  <2>1. OfClient(c) \in SUBSET log
    BY DEF OfClient
  <2>2. Cardinality(OfClient(c)) \in Nat
    BY <2>1, CountFacts DEF GateInv
  <2> QED BY <1>1, <2>2, Counting DEF Gate!Recent, OfClient
<1>4. Gate!Cardinality(log') = Cardinality(log) /\ Cardinality(log) \in Nat
  BY <1>1, Counting, FS_CardinalityType DEF GateInv, LogInv
<1>5. CASE ~Gate!WithinOwn(c)
  <2>1. limits.perClient > 0 /\ Gate!Prune(times[c]) = OfClient(c)
    BY <1>5, <1>2 DEF Gate!WithinOwn, GateInv, Counted
  <2>2. limits.perClient > 0 /\ Cardinality(OfClient(c)) >= limits.perClient
    BY <1>5, <2>1, <1>2, <1>3, Counting DEF Gate!WithinOwn
  <2> QED BY <2>2, <1>1, <1>3 DEF Gate!RefusedOnlyAtLimit
<1>6. CASE ~Gate!WithinAll
  <2>1. limits.global > 0 /\ Gate!Prune(globalTimes) = log
    BY <1>6, <1>2 DEF Gate!WithinAll, GateInv, Counted
  <2>2. limits.global > 0 /\ Cardinality(log) >= limits.global
    BY <1>6, <2>1, <1>2, <1>4, Counting DEF Gate!WithinAll
  <2> QED BY <2>2, <1>1, <1>4 DEF Gate!RefusedOnlyAtLimit
<1> QED BY <1>5, <1>6

\* The types of what the limiter keeps.
LimiterTypes ==
    /\ now \in 0..MaxNow
    /\ times \in [Clients -> SUBSET Gate!Announces] /\ globalTimes \subseteq Gate!Announces
    /\ tracked \subseteq Clients /\ \A c \in Clients : times[c] # {} => c \in tracked

\* The types of what is read from the file.
FileTypes ==
    /\ limits \in {content.limits : content \in Contents}
    /\ policy \in {Gate!Parsed(content) : content \in Contents} \cup {Gate!AllowAll}
    /\ file \in [state : {"ok"} \cup Gate!BadFiles, content : Contents]

\* Every step keeps the types of the lists of times.
LEMMA NextLimiter ==
    ASSUME Gate!AdmissionAssumption, GateInv, [Gate!Next]_(Gate!vars)
    PROVE  LimiterTypes'
<1>1. /\ LimiterTypes /\ MaxNow \in Nat
  BY DEF GateInv, Gate!TypeOK, Gate!AdmissionAssumption, LimiterTypes
<1>2. ASSUME UNCHANGED <<now, times, globalTimes, tracked>> PROVE LimiterTypes'
  BY <1>1, <1>2 DEF LimiterTypes, Gate!Announces
<1>3. ASSUME NEW c \in Clients, Gate!Record(c), Cardinality(log) < MaxLog, UNCHANGED now PROVE LimiterTypes'
  <2>1. Gate!Entry(c) \in Gate!Announces
    BY <1>3, EntryFacts DEF GateInv
  <2>2. \A ts \in SUBSET Gate!Announces : Gate!Prune(ts) \cup {Gate!Entry(c)} \in SUBSET Gate!Announces
    BY <2>1 DEF Gate!Prune
  <2>3. /\ times' \in [Clients -> SUBSET Gate!Announces] /\ tracked' \subseteq Clients
        /\ \A d \in Clients : times'[d] # {} => d \in tracked'
    <3>1. CASE limits.perClient > 0
      BY <3>1, <1>1, <1>3, <2>2 DEF Gate!Record, LimiterTypes
    <3>2. CASE ~(limits.perClient > 0)
      BY <3>2, <1>1, <1>3 DEF Gate!Record, LimiterTypes
    <3> QED BY <3>1, <3>2
  <2>4. globalTimes' \subseteq Gate!Announces
    BY <1>1, <1>3, <2>2 DEF Gate!Record, LimiterTypes
  <2> QED BY <1>1, <1>3, <2>3, <2>4 DEF LimiterTypes, Gate!Announces
<1>4. ASSUME NEW c \in Clients, NEW address \in Addresses \cup {NoAddress}, Gate!HandleAnnounce(c, address)
      PROVE  LimiterTypes'
  <2>1. CASE Gate!WithinOwn(c) /\ Gate!WithinAll
    BY <1>3, <1>4, <2>1, Counting DEF Gate!HandleAnnounce
  <2>2. CASE ~(Gate!WithinOwn(c) /\ Gate!WithinAll)
    BY <1>2, <1>4, <2>2 DEF Gate!HandleAnnounce, Gate!Refuse
  <2> QED BY <2>1, <2>2
<1>5. ASSUME Gate!Tick PROVE LimiterTypes'
  BY <1>1, <1>5 DEF Gate!Tick, LimiterTypes, Gate!Announces
<1>6. Gate!EditFile \/ Gate!Reload \/ UNCHANGED Gate!vars => UNCHANGED <<now, times, globalTimes, tracked>>
  BY DEF Gate!EditFile, Gate!Reload, Gate!vars
<1> QED BY <1>2, <1>4, <1>5, <1>6 DEF Gate!Next

\* Every step keeps the types of the file and of what was read from it.
LEMMA NextFile ==
    ASSUME FileTypes, [Gate!Next]_(Gate!vars)
    PROVE  FileTypes'
<1>1. CASE Gate!EditFile
  BY <1>1 DEF Gate!EditFile, FileTypes, Gate!Parsed, Gate!AllowAll
<1>2. CASE Gate!Reload
  <2>1. file.content \in Contents /\ UNCHANGED <<limits, file>>
    BY <1>2 DEF Gate!Reload, FileTypes
  <2>2. policy' \in {Gate!Parsed(file.content), Gate!AllowAll, policy}
    BY <1>2 DEF Gate!Reload
  <2> QED BY <2>1, <2>2 DEF FileTypes, Gate!Parsed, Gate!AllowAll
<1>3. CASE UNCHANGED <<limits, policy, file>>
  BY <1>3 DEF FileTypes, Gate!Parsed, Gate!AllowAll
<1> QED BY <1>1, <1>2, <1>3 DEF Gate!Next, Gate!HandleAnnounce, Gate!Tick, Gate!vars

\* The policy in force decides as the file may say, and never refuses as the limiter does.
LEMMA DecideEffects ==
    ASSUME Gate!AdmissionAssumption, FileTypes, NEW c, NEW a
    PROVE  Gate!Decide(c, a) \in Gate!Effects
<1>1. policy.default \in Gate!Effects /\ Len(policy.rules) \in Nat
      /\ \A i \in 1..Len(policy.rules) : policy.rules[i].effect \in Gate!Effects
  <2> DEFINE Rule == [clients : SUBSET Clients, addresses : SUBSET Addresses, effect : Gate!Effects]
  <2>1. \A content \in Contents : content.default \in Gate!Effects /\ content.rules \in Seq(Rule)
    BY DEF Gate!AdmissionAssumption
  <2>2. \A r \in Rule : r.effect \in Gate!Effects
    OBVIOUS
  <2> HIDE DEF Rule
  <2>3. policy.default \in Gate!Effects /\ policy.rules \in Seq(Rule)
    <3>1. CASE policy = Gate!AllowAll
      BY <3>1 DEF Gate!AllowAll, Gate!Effects
    <3>2. CASE policy \in {Gate!Parsed(content) : content \in Contents}
      <4>1. PICK content \in Contents : policy = Gate!Parsed(content)
        BY <3>2
      <4>2. policy.default = content.default /\ policy.rules = content.rules
        BY <4>1 DEF Gate!Parsed
      <4> QED BY <2>1, <4>2
    <3> QED BY <3>1, <3>2 DEF FileTypes
  <2>4. Len(policy.rules) \in Nat
    BY <2>3
  <2>5. ASSUME NEW i \in 1..Len(policy.rules) PROVE policy.rules[i].effect \in Gate!Effects
    <3>1. policy.rules[i] \in Rule
      BY <2>3, ElementOfSeq
    <3> QED BY <2>2, <3>1
  <2> QED BY <2>3, <2>4, <2>5
<1> DEFINE hits == {i \in 1..Len(policy.rules) : Gate!Matches(policy.rules[i], c, a)}
           first == CHOOSE i \in hits : \A j \in hits : i <= j
<1>2. hits # {} => first \in hits
  <2>1. hits \in SUBSET Nat
    BY <1>1
  <2> HIDE DEF hits
  <2> QED BY <2>1, LeastNumber
<1>3. Gate!Decide(c, a) = IF hits = {} THEN policy.default ELSE policy.rules[first].effect
  BY DEF Gate!Decide
<1>4. hits \subseteq 1..Len(policy.rules)
  OBVIOUS
<1> HIDE DEF hits, first
<1> QED BY <1>1, <1>2, <1>3, <1>4

\* The invariant is inductive: an announce that passes, one that is refused, and the rest.
LEMMA NextGate == Gate!AdmissionAssumption /\ GateInv /\ [Gate!Next]_(Gate!vars) => GateInv'
<1> SUFFICES ASSUME Gate!AdmissionAssumption, GateInv, [Gate!Next]_(Gate!vars) PROVE GateInv'
  OBVIOUS
<1>1. LogInv' /\ Counted' /\ Gate!WindowsHold' /\ Gate!RefusedOnlyAtLimit'
  <2>1. ASSUME last'.effect # "refused" PROVE Gate!RefusedOnlyAtLimit'
    BY <2>1 DEF Gate!RefusedOnlyAtLimit
  <2>2. ASSUME NEW c \in Clients, NEW address \in Addresses \cup {NoAddress}, Gate!HandleAnnounce(c, address),
               Gate!WithinOwn(c) /\ Gate!WithinAll
        PROVE  LogInv' /\ Counted' /\ Gate!WindowsHold' /\ Gate!RefusedOnlyAtLimit'
    <3>1. LogInv' /\ Counted' /\ Gate!WindowsHold'
      BY <2>2, PassStep, Counting DEF Gate!HandleAnnounce
    <3>2. last'.effect = Gate!Verdict(c, address)
      BY <2>2 DEF Gate!HandleAnnounce
    <3>3. Gate!Verdict(c, address) # "refused"
      <4>1. Gate!Decide(c, address) \in Gate!Effects
        BY DecideEffects DEF GateInv, Gate!TypeOK, FileTypes
      <4> QED BY <4>1 DEF Gate!Verdict, Gate!Effects
    <3> QED BY <2>1, <3>1, <3>2, <3>3
  <2>3. ASSUME NEW c \in Clients, NEW address \in Addresses \cup {NoAddress}, Gate!HandleAnnounce(c, address),
               ~(Gate!WithinOwn(c) /\ Gate!WithinAll)
        PROVE  LogInv' /\ Counted' /\ Gate!WindowsHold' /\ Gate!RefusedOnlyAtLimit'
    <3>1. Gate!Refuse(c) /\ UNCHANGED <<now, limits>>
      BY <2>3 DEF Gate!HandleAnnounce
    <3>2. UNCHANGED <<times, globalTimes, log>>
      BY <3>1 DEF Gate!Refuse
    <3> QED BY <2>3, <3>1, <3>2, LimiterAlone, RefusedStep
  <2>4. ASSUME Gate!EditFile \/ UNCHANGED Gate!vars
        PROVE  LogInv' /\ Counted' /\ Gate!WindowsHold' /\ Gate!RefusedOnlyAtLimit'
    <3>1. UNCHANGED <<now, times, globalTimes, limits, log, last>>
      BY <2>4 DEF Gate!EditFile, Gate!vars
    <3>2. Gate!RefusedOnlyAtLimit'
      BY <3>1 DEF GateInv, Gate!RefusedOnlyAtLimit, Gate!Recent
    <3> QED BY <3>1, <3>2, LimiterAlone
  <2>5. ASSUME Gate!Reload PROVE LogInv' /\ Counted' /\ Gate!WindowsHold' /\ Gate!RefusedOnlyAtLimit'
    <3>1. UNCHANGED <<now, times, globalTimes, limits, log>> /\ last' = Gate!NoVerdict
      BY <2>5 DEF Gate!Reload
    <3> QED BY <3>1, <2>1, LimiterAlone DEF Gate!NoVerdict
  <2>6. ASSUME Gate!Tick PROVE LogInv' /\ Counted' /\ Gate!WindowsHold' /\ Gate!RefusedOnlyAtLimit'
    <3>1. last' = Gate!NoVerdict
      BY <2>6 DEF Gate!Tick
    <3> QED BY <2>6, <3>1, <2>1, TickStep DEF Gate!NoVerdict
  <2> QED BY <2>2, <2>3, <2>4, <2>5, <2>6 DEF Gate!Next
<1>2. LimiterTypes' /\ FileTypes'
  <2>1. FileTypes
    BY DEF GateInv, Gate!TypeOK, FileTypes
  <2> QED BY <2>1, NextLimiter, NextFile
<1>3. Gate!TypeOK'
  <2>1. log' \subseteq Gate!Announces
    BY <1>1 DEF LogInv, Gate!Announces
  <2>2. (\A c \in Clients : Gate!Entry(c) \notin log)'
    BY <1>1, EntriesAreNew, PTL
  <2> QED BY <1>2, <2>1, <2>2 DEF Gate!TypeOK, LimiterTypes, FileTypes, Gate!Announces
<1> QED BY <1>1, <1>3 DEF GateInv

\* RateLimiter.check_announce, for any limits, window and clients: in no window do more
\* announces pass than are allowed, and an announce is refused only if its window is full of
\* announces that passed.
THEOREM LimitsHold ==
    ASSUME Gate!AdmissionAssumption
    PROVE  Gate!Spec => [](Gate!TypeOK /\ Gate!WindowsHold /\ Gate!RefusedOnlyAtLimit)
<1>1. Gate!Init => GateInv
  <2> SUFFICES ASSUME Gate!Init PROVE GateInv
    OBVIOUS
  <2>1. log = {} /\ Cardinality(log) = 0 /\ Gate!Cardinality(log) = 0 /\ IsFiniteSet(log)
    BY FS_EmptySet, Counting DEF Gate!Init
  <2>2. \A c : Gate!Recent(c) = 0
    <3>1. \A c : {e \in log : e.who = c} = {}
      BY <2>1
    <3> QED BY <3>1, FS_EmptySet, Counting DEF Gate!Recent
  <2>3. LogInv /\ Counted
    BY <2>1 DEF Gate!Init, LogInv, Here, Counted, OfClient, Gate!Prune
  <2>4. Gate!WindowsHold /\ Gate!RefusedOnlyAtLimit
    <3>1. limits \in [perClient : Int, global : Int]
      BY DEF Gate!Init, Gate!AdmissionAssumption
    <3> QED BY <2>1, <2>2, <3>1 DEF Gate!Init, Gate!NoVerdict, Gate!WindowsHold, Gate!RefusedOnlyAtLimit
  <2>5. Gate!TypeOK
    BY <2>1 DEF Gate!Init, Gate!TypeOK, Gate!AdmissionAssumption
  <2> QED BY <2>3, <2>4, <2>5 DEF GateInv
<1>2. GateInv => Gate!TypeOK /\ Gate!WindowsHold /\ Gate!RefusedOnlyAtLimit
  BY DEF GateInv
<1> QED BY <1>1, <1>2, NextGate, PTL DEF Gate!Spec

\* Limits and policy let in whom they should, whatever becomes of the file: all of the above.
THEOREM GateHoldsTheorem == ASSUME Gate!AdmissionAssumption PROVE Gate!Spec => Gate!GateHolds
BY LimitsHold, HidingGainsNothingHolds, PTL DEF Gate!GateHolds

-----------------------------------------------------------------------------
(* Powers of two, of which the provers know nothing but that 2^n is the    *)
(* number of subsets of a set of n elements.                               *)

\* The subsets of 1..k, and how many they are.
LEMMA SubsetsCount ==
    ASSUME NEW k \in Nat
    PROVE  IsFiniteSet(SUBSET (1..k)) /\ Cardinality(SUBSET (1..k)) = 2^k /\ 2^k \in Nat
<1>1. IsFiniteSet(1..k) /\ Cardinality(1..k) = k
  BY FS_Interval
<1>2. IsFiniteSet(SUBSET (1..k)) /\ Cardinality(SUBSET (1..k)) = 2^k
  BY <1>1, FS_SUBSET
<1> QED BY <1>2, FS_CardinalityType

\* The empty set has one subset.
LEMMA PowerOfZero == 2^0 = 1
<1>1. SUBSET (1..0) = {{}}
  OBVIOUS
<1> QED BY <1>1, SubsetsCount, FS_Singleton

\* The subsets of 1..k+1 are those of 1..k, without k+1 and with it.
LEMMA Doubling == ASSUME NEW k \in Nat PROVE 2^(k + 1) = 2^k + 2^k
<1> DEFINE without == SUBSET (1..k)
           with    == {A \cup {k + 1} : A \in without}
           add     == [A \in without |-> A \cup {k + 1}]
<1>1. IsFiniteSet(without) /\ Cardinality(without) = 2^k /\ 2^k \in Nat
  BY SubsetsCount
<1>2. ExistsBijection(without, with)
  <2>1. \A A \in without : k + 1 \notin A
    OBVIOUS
  <2>2. \A A, B \in without : A \cup {k + 1} = B \cup {k + 1} => A = B
    BY <2>1
  <2>3. add \in [without -> with] /\ DOMAIN add = without /\ \A A \in without : add[A] = A \cup {k + 1}
    BY Zenon
  <2>4. \A B \in with : \E A \in without : add[A] = B
    BY Zenon
  <2> HIDE DEF add, without, with
  <2>5. add \in Injection(without, with)
    BY <2>2, <2>3 DEF Injection, IsInjective
  <2>6. add \in Surjection(without, with)
    BY <2>3, <2>4, Zenon DEF Surjection
  <2> QED BY <2>5, <2>6 DEF ExistsBijection, Bijection
<1>3. IsFiniteSet(with) /\ Cardinality(with) = 2^k
  BY <1>1, <1>2, FS_Bijection
<1>4. without \cap with = {}
  OBVIOUS
<1>5. without \cup with = SUBSET (1..(k + 1))
  <2>1. 1..(k + 1) = (1..k) \cup {k + 1}
    OBVIOUS
  <2>2. ASSUME NEW A \in SUBSET (1..(k + 1)) PROVE A \in without \cup with
    <3>1. CASE k + 1 \notin A
      BY <3>1, <2>1
    <3>2. CASE k + 1 \in A
      <4>1. A \ {k + 1} \in without /\ A = (A \ {k + 1}) \cup {k + 1}
        BY <3>2, <2>1
      <4> QED BY <4>1
    <3> QED BY <3>1, <3>2
  <2>3. without \cup with \subseteq SUBSET (1..(k + 1))
    BY <2>1
  <2> QED BY <2>2, <2>3
<1>6. Cardinality(without \cup with) = 2^k + 2^k
  <2> HIDE DEF without, with
  <2>1. Cardinality(without \cup with) = Cardinality(without) + Cardinality(with) - 0
    BY <1>1, <1>3, <1>4, FS_Union, FS_EmptySet
  <2> QED BY <2>1, <1>1, <1>3
<1>7. Cardinality(SUBSET (1..(k + 1))) = 2^(k + 1)
  <2>1. k + 1 \in Nat
    OBVIOUS
  <2> QED BY <2>1, SubsetsCount
<1> QED BY <1>5, <1>6, <1>7

\* Powers of two grow: by the least exponent that would not.
LEMMA PowersGrow == ASSUME NEW j \in Nat, NEW k \in Nat, j <= k PROVE 2^j <= 2^k
<1> DEFINE bad == {n \in Nat : j <= n /\ ~(2^j <= 2^n)}
<1>1. \A n \in Nat : 2^n \in Nat /\ 2^(n + 1) = 2^n + 2^n
  BY SubsetsCount, Doubling
<1>2. CASE bad = {}
  BY <1>2
<1>3. CASE bad # {}
  <2>1. PICK n \in bad : \A i \in bad : n <= i
    BY <1>3, LeastNumber
  <2>2. n # j /\ n - 1 \in Nat
    BY <2>1, <1>1
  <2>3. n - 1 \notin bad /\ j <= n - 1
    BY <2>1, <2>2
  <2>4. 2^j <= 2^(n - 1)
    BY <2>2, <2>3
  <2>5. 2^n = 2^(n - 1) + 2^(n - 1)
    <3>1. (n - 1) + 1 = n
      BY <2>1
    <3> QED BY <2>2, <1>1, <3>1
  <2> QED BY <2>1, <2>2, <2>4, <2>5, <1>1
<1> QED BY <1>2, <1>3

\* A power of two exceeds its exponent: by the least one that would not.
LEMMA PowersExceed == ASSUME NEW k \in Nat PROVE k < 2^k
<1> DEFINE bad == {n \in Nat : ~(n < 2^n)}
<1>1. \A n \in Nat : 2^n \in Nat /\ 2^(n + 1) = 2^n + 2^n
  BY SubsetsCount, Doubling
<1>2. CASE bad = {}
  BY <1>2
<1>3. CASE bad # {}
  <2>1. PICK n \in bad : \A i \in bad : n <= i
    BY <1>3, LeastNumber
  <2>2. n # 0 /\ n - 1 \in Nat
    <3>1. 0 \notin bad
      BY PowerOfZero
    <3>2. n \in Nat
      BY <2>1
    <3> HIDE DEF bad
    <3> QED BY <2>1, <3>1, <3>2
  <2>3. n - 1 < 2^(n - 1)
    BY <2>1, <2>2
  <2>4. 2^n = 2^(n - 1) + 2^(n - 1)
    <3>1. (n - 1) + 1 = n
      BY <2>1
    <3> QED BY <2>2, <1>1, <3>1
  <2> QED BY <2>1, <2>2, <2>3, <2>4, <1>1
<1> QED BY <1>2, <1>3

\* floorLog2 finds what it looks for.
LEMMA LogFacts ==
    ASSUME NEW n \in Nat \ {0}
    PROVE  /\ Dm!FloorLog2(n) \in 0..n
           /\ 2^Dm!FloorLog2(n) <= n /\ n < 2^(Dm!FloorLog2(n) + 1)
<1> DEFINE above == {k \in Nat : n < 2^(k + 1)}
<1>1. n \in above
  BY PowersExceed, Doubling, SubsetsCount
<1>2. PICK k \in above : \A i \in above : k <= i
  BY <1>1, LeastNumber
<1>3. 2^k <= n
  <2>1. CASE k = 0
    BY <2>1, PowerOfZero
  <2>2. CASE k # 0
    <3>1. k - 1 \in Nat /\ k - 1 \notin above /\ (k - 1) + 1 = k
      BY <1>2, <2>2
    <3>2. ~(n < 2^k)
      BY <3>1
    <3> QED BY <3>2, <1>2, SubsetsCount
  <2> QED BY <2>1, <2>2
<1>4. k \in 0..n
  BY <1>1, <1>2
<1>5. 2^k <= n /\ n < 2^(k + 1)
  BY <1>2, <1>3
<1> QED BY <1>4, <1>5, Zenon DEF Dm!FloorLog2

-----------------------------------------------------------------------------
(* The padded length                                                       *)

\* Division of a natural number.
LEMMA DivisionFacts ==
    ASSUME NEW n \in Nat, NEW c \in Nat \ {0}
    PROVE  /\ n \div c \in Nat /\ n % c \in 0..(c - 1)
           /\ n = c * (n \div c) + (n % c)
           /\ n \div c <= n /\ n % c <= n
<1>1. n \div c \in Nat /\ n % c \in 0..(c - 1) /\ n = c * (n \div c) + (n % c)
  OBVIOUS
<1> DEFINE q == n \div c
           r == n % c
<1>2. q \in Nat /\ r \in Nat /\ n = c * q + r
  BY <1>1
<1> HIDE DEF q, r
<1>3. q <= n /\ r <= n
  <2>1. c * q >= q /\ c * q \in Nat
    BY <1>2
  <2> QED BY <1>2, <2>1
<1> QED BY <1>1, <1>3 DEF q, r

\* n made a multiple of a chunk: less than a chunk is added.
LEMMA MultipleFacts ==
    ASSUME NEW n \in Nat \ {0}, NEW c \in Nat \ {0}
    PROVE  /\ c * ((n - 1) \div c + 1) \in Nat
           /\ n <= c * ((n - 1) \div c + 1) /\ c * ((n - 1) \div c + 1) < n + c
<1> DEFINE q == (n - 1) \div c
           r == (n - 1) % c
<1>1. q \in Nat /\ r \in 0..(c - 1) /\ n - 1 = c * q + r
  <2>1. n - 1 \in Nat
    OBVIOUS
  <2> QED BY <2>1, DivisionFacts
<1> HIDE DEF q, r
<1>2. c * (q + 1) = c * q + c /\ c * q \in Nat
  BY <1>1
<1>3. c * (q + 1) \in Nat /\ n <= c * (q + 1) /\ c * (q + 1) < n + c
  BY <1>1, <1>2
<1> QED BY <1>3 DEF q

\* 1 << k is 2^k, or less where it leaves the width.
LEMMA ShiftedFacts ==
    ASSUME IntBits \in Nat \ {0, 1}, NEW k \in Nat
    PROVE  Dm!Shifted(k) \in Int /\ Dm!Shifted(k) <= 2^k
<1> DEFINE bit == k % IntBits
<1>1. bit \in Nat /\ bit <= k
  BY DivisionFacts
<1> HIDE DEF bit
<1>2. 2^bit \in Nat /\ 2^bit <= 2^k /\ 2^k \in Nat
  BY <1>1, PowersGrow, SubsetsCount
<1>3. Dm!Shifted(k) = IF bit = IntBits - 1 THEN -(2^bit) ELSE 2^bit
  BY DEF Dm!Shifted, bit
<1> QED BY <1>2, <1>3

\* The padded length is no shorter than the text, and only so much longer.
LEMMA PaddedFacts ==
    ASSUME IntBits \in Nat \ {0, 1}, NEW n \in Nat \ {0}
    PROVE  /\ Dm!PaddedLen(n) \in Nat /\ 32 <= Dm!PaddedLen(n) /\ n <= Dm!PaddedLen(n)
           /\ Dm!PaddedLen(n) - n < IF n <= 128 THEN 32 ELSE (n + 3) \div 4
<1>1. CASE n <= 32
  BY <1>1 DEF Dm!PaddedLen
<1>2. CASE n > 32
  <2> DEFINE k == Dm!FloorLog2(n - 1)
             next == Dm!Shifted(k + 1)
             c == IF next <= 256 THEN 32 ELSE next \div 8
  <2>1. k \in Nat /\ 2^k <= n - 1 /\ 2^k \in Nat
    <3>1. n - 1 \in Nat \ {0}
      BY <1>2
    <3>2. k \in 0..(n - 1) /\ 2^k <= n - 1
      BY <3>1, LogFacts
    <3> HIDE DEF k
    <3>3. k \in Nat
      BY <3>2
    <3> QED BY <3>2, <3>3, SubsetsCount
  <2> HIDE DEF k
  <2>2. next \in Int /\ next <= 2 * (n - 1)
    <3>1. k + 1 \in Nat
      BY <2>1
    <3>2. next \in Int /\ next <= 2^(k + 1)
      BY <3>1, ShiftedFacts
    <3>3. 2^(k + 1) = 2^k + 2^k
      BY <2>1, Doubling
    <3> HIDE DEF next
    <3> QED BY <2>1, <3>2, <3>3
  <2>3. Dm!PaddedLen(n) = c * ((n - 1) \div c + 1)
    BY <1>2 DEF Dm!PaddedLen, Dm!InChunks, k
  <2> HIDE DEF next
  <2>4. c \in Nat /\ 32 <= c /\ (c = 32 \/ 4 * c <= n - 1)
    BY <2>2
  <2>5. n <= 128 => c = 32
    BY <2>2
  <2> HIDE DEF c
  <2>6. Dm!PaddedLen(n) \in Nat /\ n <= Dm!PaddedLen(n) /\ Dm!PaddedLen(n) < n + c
    <3>1. c \in Nat \ {0}
      BY <2>4
    <3> QED BY <1>2, <2>3, <3>1, MultipleFacts
  <2> QED BY <1>2, <2>4, <2>5, <2>6
<1> QED BY <1>1, <1>2

-----------------------------------------------------------------------------
(* Padding and unpadding                                                   *)

TextBytes == 0..(Byte - 1)

\* A threshold is the number of values of two bytes.
LEMMA ThresholdFacts ==
    ASSUME Dm!Nip44Assumption
    PROVE  /\ Byte \in Nat \ {0, 1} /\ 0 \in TextBytes
           /\ Dm!ExtendedPrefixThreshold = Byte * Byte /\ Dm!ExtendedPrefixThreshold \in Nat \ {0}
<1>1. Byte \in Nat \ {0, 1}
  BY DEF Dm!Nip44Assumption
<1>2. Byte * Byte \in Nat \ {0}
  BY <1>1
<1> QED BY <1>1, <1>2 DEF TextBytes, Dm!ExtendedPrefixThreshold

\* Half of a number has half of the digits.
LEMMA HalfFits ==
    ASSUME NEW b \in Nat \ {0}, NEW n \in Nat, n < b * b
    PROVE  n \div b \in 0..(b - 1)
<1> DEFINE q == n \div b
           r == n % b
<1>1. q \in Nat /\ r \in Nat /\ n = b * q + r
  BY DivisionFacts
<1> HIDE DEF q, r
<1>2. q < b
  <2>1. SUFFICES ASSUME q >= b PROVE FALSE
    BY <1>1
  <2>2. b * q >= b * b
    BY <2>1, <1>1
  <2> QED BY <2>2, <1>1
<1> QED BY <1>1, <1>2 DEF q

\* Two bytes that stand for a number.
LEMMA Uint16Facts ==
    ASSUME Dm!Nip44Assumption, NEW n \in Nat, n < Byte * Byte
    PROVE  /\ Dm!Uint16(n) \in Seq(TextBytes) /\ Len(Dm!Uint16(n)) = 2
           /\ Dm!Uint16(n)[1] * Byte + Dm!Uint16(n)[2] = n
<1>1. Byte \in Nat \ {0}
  BY ThresholdFacts
<1> DEFINE q == n \div Byte
           r == n % Byte
<1>2. q \in TextBytes /\ r \in TextBytes /\ n = Byte * q + r
  BY <1>1, HalfFits, DivisionFacts DEF TextBytes
<1>3. q % Byte = q
  BY <1>1, <1>2 DEF TextBytes
<1> HIDE DEF q, r
<1>4. Dm!Uint16(n) = <<q, r>>
  BY <1>3 DEF Dm!Uint16, q, r
<1>5. Byte * q = q * Byte
  BY <1>1, <1>2 DEF TextBytes
<1>6. q \in Int /\ r \in Int /\ q * Byte + r = n
  BY <1>1, <1>2, <1>5 DEF TextBytes
<1>7. <<q, r>> \in Seq(TextBytes) /\ Len(<<q, r>>) = 2 /\ <<q, r>>[1] = q /\ <<q, r>>[2] = r
  BY <1>2
<1> QED BY <1>4, <1>6, <1>7

\* Two bytes and two bytes are four bytes.
LEMMA FourBytes ==
    ASSUME NEW S, NEW high \in Seq(S), NEW low \in Seq(S), Len(high) = 2, Len(low) = 2
    PROVE  /\ high \o low \in Seq(S) /\ Len(high \o low) = 4
           /\ (high \o low)[1] = high[1] /\ (high \o low)[2] = high[2]
           /\ (high \o low)[3] = low[1] /\ (high \o low)[4] = low[2]
<1>1. high \o low \in Seq(S) /\ Len(high \o low) = Len(high) + Len(low)
  BY ConcatProperties
<1>2. \A i \in 1..(Len(high) + Len(low)) :
        (high \o low)[i] = IF i <= Len(high) THEN high[i] ELSE low[i - Len(high)]
  BY ConcatProperties
<1> QED BY <1>1, <1>2

\* Four bytes that stand for a number.
LEMMA Uint32Facts ==
    ASSUME Dm!Nip44Assumption, NEW n \in Nat, n <= Dm!MaxPlaintextSize
    PROVE  /\ Dm!Uint32(n) \in Seq(TextBytes) /\ Len(Dm!Uint32(n)) = 4
           /\ (Dm!Uint32(n)[1] * Byte + Dm!Uint32(n)[2]) * Dm!ExtendedPrefixThreshold
                  + (Dm!Uint32(n)[3] * Byte + Dm!Uint32(n)[4]) = n
<1> DEFINE t == Dm!ExtendedPrefixThreshold
           q == n \div t
           r == n % t
           high == Dm!Uint16(q)
           low == Dm!Uint16(r)
<1>1. t \in Nat \ {0} /\ t = Byte * Byte
  BY ThresholdFacts
<1>2. n < t * t
  BY <1>1 DEF Dm!MaxPlaintextSize
<1> HIDE DEF t
<1>3. q \in 0..(t - 1) /\ r \in 0..(t - 1) /\ n = t * q + r
  BY <1>1, <1>2, HalfFits, DivisionFacts
<1> HIDE DEF q, r
<1>4. /\ high \in Seq(TextBytes) /\ Len(high) = 2 /\ high[1] * Byte + high[2] = q
      /\ low \in Seq(TextBytes) /\ Len(low) = 2 /\ low[1] * Byte + low[2] = r
  <2>1. q \in Nat /\ q < Byte * Byte /\ r \in Nat /\ r < Byte * Byte
    BY <1>1, <1>3
  <2> QED BY <2>1, Uint16Facts
<1> HIDE DEF high, low
<1>5. Dm!Uint32(n) = high \o low
  BY DEF Dm!Uint32, high, low, q, r, t
<1>6. /\ high \o low \in Seq(TextBytes) /\ Len(high \o low) = 4
      /\ (high \o low)[1] = high[1] /\ (high \o low)[2] = high[2]
      /\ (high \o low)[3] = low[1] /\ (high \o low)[4] = low[2]
  BY <1>4, FourBytes
<1>7. q * t + r = n
  BY <1>1, <1>3
<1> QED BY <1>4, <1>5, <1>6, <1>7 DEF t

\* A text between a prefix and a suffix is where the prefix ends.
LEMMA MiddleFacts ==
    ASSUME NEW S, NEW q \in Seq(S), NEW t \in Seq(S), NEW z \in Seq(S)
    PROVE  /\ q \o t \o z \in Seq(S) /\ Len(q \o t \o z) = Len(q) + Len(t) + Len(z)
           /\ \A i \in 1..Len(q) : (q \o t \o z)[i] = q[i]
           /\ SubSeq(q \o t \o z, Len(q) + 1, Len(q) + Len(t)) = t
<1> DEFINE front == q \o t
           all   == front \o z
<1>1. front \in Seq(S) /\ Len(front) = Len(q) + Len(t)
  BY ConcatProperties
<1>2. \A i \in 1..(Len(q) + Len(t)) : front[i] = IF i <= Len(q) THEN q[i] ELSE t[i - Len(q)]
  BY ConcatProperties
<1> HIDE DEF front
<1>3. all \in Seq(S) /\ Len(all) = Len(front) + Len(z)
  BY <1>1, ConcatProperties
<1>4. \A i \in 1..(Len(front) + Len(z)) : all[i] = IF i <= Len(front) THEN front[i] ELSE z[i - Len(front)]
  BY <1>1, ConcatProperties, SMTT(30)
<1> HIDE DEF all
<1>5. Len(q) \in Nat /\ Len(t) \in Nat /\ Len(z) \in Nat
  OBVIOUS
<1>6. ASSUME NEW i \in 1..Len(q) PROVE all[i] = q[i]
  <2>1. Len(front) = Len(q) + Len(t)
    BY <1>1
  <2>2. i \in 1..(Len(front) + Len(z)) /\ i \in 1..(Len(q) + Len(t)) /\ i <= Len(front) /\ i <= Len(q)
    BY <1>5, <2>1
  <2> QED BY <1>2, <1>4, <2>2, Zenon
<1> DEFINE from == Len(q) + 1
           to   == Len(q) + Len(t)
           part == SubSeq(all, from, to)
<1>7. from \in Int /\ to \in Int /\ \A i \in from..to : all[i] \in S
  <2>1. \A i \in from..to : i \in 1..Len(all)
    BY <1>1, <1>3, <1>5
  <2> QED BY <1>3, <1>5, <2>1, ElementOfSeq
<1>8. /\ part \in Seq(S) /\ Len(part) = IF from <= to THEN to - from + 1 ELSE 0
      /\ \A i \in 1..(to - from + 1) : part[i] = all[from + i - 1]
  <2> HIDE DEF from, to
  <2> QED BY <1>7, SubSeqProperties
<1> HIDE DEF part
<1>9. Len(part) = Len(t)
  BY <1>5, <1>8
<1>10. ASSUME NEW i \in 1..Len(t) PROVE part[i] = t[i]
  <2>1. part[i] = all[Len(q) + i]
    BY <1>5, <1>8, SMTT(30)
  <2>2. all[Len(q) + i] = front[Len(q) + i]
    <3>1. Len(front) = Len(q) + Len(t)
      BY <1>1
    <3>2. Len(q) + i \in 1..(Len(front) + Len(z)) /\ Len(q) + i <= Len(front)
      BY <1>5, <3>1
    <3> QED BY <1>4, <3>2, Zenon
  <2>3. front[Len(q) + i] = t[i]
    <3>1. Len(q) + i \in 1..(Len(q) + Len(t)) /\ ~(Len(q) + i <= Len(q)) /\ (Len(q) + i) - Len(q) = i
      BY <1>5
    <3> QED BY <1>2, <3>1, Zenon
  <2> QED BY <2>1, <2>2, <2>3
<1>11. part = t
  BY <1>8, <1>9, <1>10, SeqEqual
<1> QED BY <1>1, <1>3, <1>6, <1>11 DEF part, all, front

\* unpad returns what pad was given, for every text pad takes.
LEMMA UnpadsWhatWasPadded ==
    ASSUME Dm!Nip44Assumption, NEW t \in Seq(TextBytes), Len(t) \in 1..Dm!MaxPlaintextSize
    PROVE  /\ Dm!Unpad(Dm!Pad(t)) = [error |-> "none", text |-> t]
           /\ Len(Dm!Pad(t)) \in Nat /\ Len(Dm!Pad(t)) >= 34
<1> DEFINE n == Len(t)
           p == Dm!PaddedLen(n)
           z == Dm!Times(0, p - n)
<1>1. n \in Nat \ {0} /\ n <= Dm!MaxPlaintextSize
  OBVIOUS
<1>2. Byte \in Nat \ {0, 1} /\ 0 \in TextBytes /\ Dm!ExtendedPrefixThreshold = Byte * Byte
  BY ThresholdFacts
<1>3. p \in Nat /\ 32 <= p /\ n <= p
  BY <1>1, PaddedFacts DEF Dm!Nip44Assumption
<1> HIDE DEF p
<1>4. z \in Seq(TextBytes) /\ Len(z) = p - n
  <2>1. p - n \in Nat
    BY <1>1, <1>3
  <2> DEFINE m == p - n
  <2> HIDE DEF m
  <2>2. [i \in 1..m |-> 0] \in Seq(TextBytes) /\ Len([i \in 1..m |-> 0]) = m
    BY <2>1, <1>2 DEF m
  <2> QED BY <2>2 DEF m, Dm!Times
<1> HIDE DEF z
<1>5. CASE n < Byte * Byte
  <2> DEFINE q   == Dm!Uint16(n)
             all == q \o t \o z
  <2>1. q \in Seq(TextBytes) /\ Len(q) = 2 /\ q[1] * Byte + q[2] = n
    BY <1>1, <1>5, Uint16Facts
  <2>2. Dm!Pad(t) = all
    <3>1. ~(Len(t) >= Dm!ExtendedPrefixThreshold)
      BY <1>1, <1>2, <1>5
    <3> QED BY <3>1, Zenon DEF Dm!Pad, z, p
  <2> HIDE DEF q
  <2>3. /\ Len(all) = 2 + p /\ all[1] = q[1] /\ all[2] = q[2]
        /\ SubSeq(all, 3, 2 + n) = t
    <3>1. /\ Len(all) = Len(q) + Len(t) + Len(z) /\ \A i \in 1..Len(q) : all[i] = q[i]
          /\ SubSeq(all, Len(q) + 1, Len(q) + Len(t)) = t
      <4>1. q \in Seq(TextBytes) /\ t \in Seq(TextBytes) /\ z \in Seq(TextBytes)
        BY <2>1, <1>4
      <4> QED BY <4>1, MiddleFacts
    <3>2. 1 \in 1..2 /\ 2 \in 1..2 /\ 2 + 1 = 3
      OBVIOUS
    <3> HIDE DEF all
    <3> QED BY <3>1, <3>2, <2>1, <1>1, <1>3, <1>4
  <2> HIDE DEF all
  <2>4. Dm!AsUint16(all, 1) = n
    BY <2>1, <2>3 DEF Dm!AsUint16
  <2>5. Dm!Unpad(all) = [error |-> "none", text |-> SubSeq(all, 3, 2 + n)]
    <3>1. ~(Dm!AsUint16(all, 1) = 0) /\ Len(all) = 2 + Dm!PaddedLen(Dm!AsUint16(all, 1)) /\ 2 + 1 = 3
      BY <2>3, <2>4, <1>1 DEF p
    <3> QED BY <3>1, <2>4, Zenon DEF Dm!Unpad
  <2>6. Len(all) \in Nat /\ Len(all) >= 34
    BY <2>3, <1>3
  <2> QED BY <2>2, <2>3, <2>5, <2>6
<1>6. CASE ~(n < Byte * Byte)
  <2> DEFINE u   == Dm!Uint32(n)
             q   == <<0, 0>> \o u
             all == q \o t \o z
             x   == Dm!ExtendedPrefixThreshold
  <2>1. u \in Seq(TextBytes) /\ Len(u) = 4 /\ (u[1] * Byte + u[2]) * x + (u[3] * Byte + u[4]) = n
    BY <1>1, Uint32Facts
  <2>2. Dm!Pad(t) = all
    <3>1. Len(t) >= Dm!ExtendedPrefixThreshold
      BY <1>1, <1>2, <1>6
    <3> QED BY <3>1, Zenon DEF Dm!Pad, z, p
  <2> HIDE DEF u
  <2>3. /\ q \in Seq(TextBytes) /\ Len(q) = 6 /\ q[1] = 0 /\ q[2] = 0
        /\ q[3] = u[1] /\ q[4] = u[2] /\ q[5] = u[3] /\ q[6] = u[4]
    <3> DEFINE zeros == <<0, 0>>
    <3>1. zeros \in Seq(TextBytes) /\ Len(zeros) = 2 /\ zeros[1] = 0 /\ zeros[2] = 0
      BY <1>2
    <3> HIDE DEF zeros
    <3>2. zeros \o u \in Seq(TextBytes) /\ Len(zeros \o u) = Len(zeros) + Len(u)
      BY <3>1, <2>1, ConcatProperties
    <3>3. \A i \in 1..(Len(zeros) + Len(u)) :
            (zeros \o u)[i] = IF i <= Len(zeros) THEN zeros[i] ELSE u[i - Len(zeros)]
      <4>1. zeros \in Seq(TextBytes) /\ u \in Seq(TextBytes)
        BY <3>1, <2>1
      <4> QED BY <4>1, ConcatProperties
    <3>4. q = zeros \o u
      BY DEF zeros
    <3> HIDE DEF q
    <3>5. \A i \in 1..6 : q[i] = IF i <= 2 THEN zeros[i] ELSE u[i - 2]
      <4>1. Len(zeros) = 2 /\ Len(u) = 4 /\ 2 + 4 = 6
        BY <2>1, <3>1
      <4> QED BY <3>3, <3>4, <4>1, Zenon
    <3>6. q[1] = zeros[1] /\ q[2] = zeros[2]
      BY <3>5
    <3>7. q[3] = u[1] /\ q[4] = u[2] /\ q[5] = u[3] /\ q[6] = u[4]
      BY <3>5
    <3>8. q \in Seq(TextBytes) /\ Len(q) = 6
      BY <2>1, <3>1, <3>2, <3>4
    <3> QED BY <3>1, <3>6, <3>7, <3>8, Zenon
  <2> HIDE DEF q
  <2>4. /\ Len(all) = 6 + p /\ \A i \in 1..6 : all[i] = q[i]
        /\ SubSeq(all, 7, 6 + n) = t
    <3>1. /\ Len(all) = Len(q) + Len(t) + Len(z) /\ \A i \in 1..Len(q) : all[i] = q[i]
          /\ SubSeq(all, Len(q) + 1, Len(q) + Len(t)) = t
      <4>1. q \in Seq(TextBytes) /\ t \in Seq(TextBytes) /\ z \in Seq(TextBytes)
        BY <2>3, <1>4
      <4> QED BY <4>1, MiddleFacts
    <3>2. 6 + 1 = 7
      OBVIOUS
    <3> HIDE DEF all
    <3> QED BY <3>1, <3>2, <2>3, <1>1, <1>3, <1>4
  <2> HIDE DEF all
  <2>5. Dm!AsUint16(all, 1) = 0
    BY <2>3, <2>4, <1>2 DEF Dm!AsUint16
  <2>6. Dm!AsUint32(all, 3) = n
    <3>1. all[3] = u[1] /\ all[4] = u[2] /\ all[5] = u[3] /\ all[6] = u[4]
      BY <2>3, <2>4
    <3> HIDE DEF x
    <3> QED BY <3>1, <2>1 DEF Dm!AsUint32, Dm!AsUint16, x
  <2>7. Dm!Unpad(all) = [error |-> "none", text |-> SubSeq(all, 7, 6 + n)]
    <3>1. /\ ~(Dm!AsUint32(all, 3) < Dm!ExtendedPrefixThreshold)
          /\ Len(all) = 6 + Dm!PaddedLen(Dm!AsUint32(all, 3)) /\ 6 + 1 = 7
      BY <2>4, <2>6, <1>1, <1>2, <1>6 DEF p
    <3> QED BY <3>1, <2>5, <2>6, Zenon DEF Dm!Unpad
  <2>8. Len(all) \in Nat /\ Len(all) >= 34
    BY <2>4, <1>3
  <2> QED BY <2>2, <2>4, <2>7, <2>8
<1> QED BY <1>5, <1>6

-----------------------------------------------------------------------------
(* Who reads what                                                          *)

\* A payload is the padded text under the keys of its two parties.
PayloadIsText ==
    payload # <<>> =>
        \E nonce \in Nonces :
            LET keys == Dm!MessageKeys(Dm!ConversationKey(sender, recipient), nonce)
                ciphertext == [keys |-> keys, bytes |-> Dm!Pad(text)]
            IN  payload[1] = [nonce |-> nonce, ciphertext |-> ciphertext,
                              mac |-> Dm!Mac(keys, ciphertext, nonce)]

DmInv == text \in Texts /\ PayloadIsText /\ Dm!RoundTrip /\ Dm!OthersRefuse

\* A text is one that pad takes.
LEMMA TextFacts ==
    ASSUME Dm!Nip44Assumption, text \in Texts
    PROVE  text \in Seq(TextBytes) /\ Len(text) \in 1..Dm!MaxPlaintextSize
BY DEF Dm!Nip44Assumption, TextBytes

\* What is decrypted has the size decodePayload asks for, and the MAC tells the keys.
LEMMA DecryptReads ==
    ASSUME Dm!Nip44Assumption, DmInv, Dm!Decrypt
    PROVE  outcome' = IF {reader, claimed} = {sender, recipient} THEN [error |-> "none", text |-> text]
                      ELSE Dm!Thrown("invalid MAC")
<1>1. PICK nonce \in Nonces :
        LET keys == Dm!MessageKeys(Dm!ConversationKey(sender, recipient), nonce)
            ciphertext == [keys |-> keys, bytes |-> Dm!Pad(text)]
        IN  payload[1] = [nonce |-> nonce, ciphertext |-> ciphertext,
                          mac |-> Dm!Mac(keys, ciphertext, nonce)]
  BY DEF DmInv, PayloadIsText, Dm!Decrypt
<1> DEFINE p    == payload[1]
           mine == Dm!MessageKeys(Dm!ConversationKey(reader, claimed), p.nonce)
           keys == Dm!MessageKeys(Dm!ConversationKey(sender, recipient), nonce)
<1>2. /\ p.nonce = nonce /\ p.ciphertext.bytes = Dm!Pad(text)
      /\ p.mac = Dm!Mac(keys, p.ciphertext, nonce)
  BY <1>1
<1>3. Len(Dm!Pad(text)) \in Nat /\ Len(Dm!Pad(text)) >= 34 /\ Dm!Unpad(Dm!Pad(text)) = [error |-> "none", text |-> text]
  BY TextFacts, UnpadsWhatWasPadded DEF DmInv
<1>4. Dm!Acceptable(p)
  BY <1>2, <1>3 DEF Dm!Acceptable, Dm!Base64Size, Dm!DataSize, Dm!NonceSize, Dm!MacSize, Dm!MinPayload, Dm!MinData
<1>5. outcome' = CASE ~Dm!Acceptable(p) -> Dm!Thrown("invalid size")
                   [] Dm!Mac(mine, p.ciphertext, p.nonce) # p.mac -> Dm!Thrown("invalid MAC")
                   [] OTHER -> Dm!Unpad(p.ciphertext.bytes)
  BY DEF Dm!Decrypt
<1>6. (Dm!Mac(mine, p.ciphertext, p.nonce) = p.mac) <=> {reader, claimed} = {sender, recipient}
  <2>1. \A a, b, c, d : Dm!Mac(a, c, d) = Dm!Mac(b, c, d) <=> a = b
    BY DEF Dm!Mac
  <2>2. \A a, b, d : Dm!MessageKeys(a, d) = Dm!MessageKeys(b, d) <=> a = b
    BY DEF Dm!MessageKeys
  <2>3. mine = Dm!MessageKeys(Dm!ConversationKey(reader, claimed), nonce)
    BY <1>2
  <2> HIDE DEF p, mine
  <2>4. mine = keys <=> Dm!ConversationKey(reader, claimed) = Dm!ConversationKey(sender, recipient)
    BY <2>2, <2>3, Zenon
  <2>5. mine = keys <=> {reader, claimed} = {sender, recipient}
    BY <2>4, Zenon DEF Dm!ConversationKey
  <2> HIDE DEF keys
  <2> QED BY <1>2, <2>1, <2>5
<1> HIDE DEF p, mine
<1>7. CASE {reader, claimed} = {sender, recipient}
  BY <1>2, <1>3, <1>4, <1>5, <1>6, <1>7
<1>8. CASE {reader, claimed} # {sender, recipient}
  BY <1>4, <1>5, <1>6, <1>8
<1> QED BY <1>7, <1>8

\* Every step keeps what is known of a message.
LEMMA NextDm == Dm!Nip44Assumption /\ DmInv /\ [Dm!Next]_(Dm!vars) => DmInv'
<1> SUFFICES ASSUME Dm!Nip44Assumption, DmInv, [Dm!Next]_(Dm!vars) PROVE DmInv'
  OBVIOUS
<1>1. CASE Dm!Encrypt
  <2>1. UNCHANGED <<sender, recipient, text, reader, claimed, outcome>>
    BY <1>1 DEF Dm!Encrypt
  <2>2. PayloadIsText'
    <3>1. PICK nonce \in Nonces :
            LET keys == Dm!MessageKeys(Dm!ConversationKey(sender, recipient), nonce)
                ciphertext == [keys |-> keys, bytes |-> Dm!Pad(text)]
            IN  payload' = <<[nonce |-> nonce, ciphertext |-> ciphertext,
                              mac |-> Dm!Mac(keys, ciphertext, nonce)]>>
      BY <1>1 DEF Dm!Encrypt
    <3> DEFINE keys == Dm!MessageKeys(Dm!ConversationKey(sender, recipient), nonce)
               ciphertext == [keys |-> keys, bytes |-> Dm!Pad(text)]
    <3>2. payload'[1] = [nonce |-> nonce, ciphertext |-> ciphertext,
                         mac |-> Dm!Mac(keys, ciphertext, nonce)]
      BY <3>1
    <3>3. sender' = sender /\ recipient' = recipient /\ text' = text
      BY <2>1
    <3> QED BY <3>2, <3>3, Zenon DEF PayloadIsText
  <2> QED BY <2>1, <2>2 DEF DmInv, Dm!RoundTrip, Dm!OthersRefuse, Dm!Read
<1>2. CASE Dm!Decrypt
  <2>1. UNCHANGED <<sender, recipient, text, payload, reader, claimed>>
    BY <1>2 DEF Dm!Decrypt
  <2>2. outcome' = IF {reader, claimed} = {sender, recipient} THEN [error |-> "none", text |-> text]
                   ELSE Dm!Thrown("invalid MAC")
    BY <1>2, DecryptReads
  <2>3. PayloadIsText'
    BY <2>1 DEF DmInv, PayloadIsText
  <2> QED BY <2>1, <2>2, <2>3 DEF DmInv, Dm!RoundTrip, Dm!OthersRefuse, Dm!Read
<1>3. CASE UNCHANGED Dm!vars
  BY <1>3 DEF Dm!vars, DmInv, PayloadIsText, Dm!RoundTrip, Dm!OthersRefuse, Dm!Read
<1> QED BY <1>1, <1>2, <1>3 DEF Dm!Next

\* Messages between a browser and a daemon (encrypt, decrypt, pad and unpad of
\* nip44-browser.js): whatever the text, its length and its bytes, who holds the keys of the
\* two parties reads it, everybody else is refused for the MAC, and padding stays within its
\* bounds, with numbers that leave the width of << too.
THEOREM TextIsReadHolds ==
    ASSUME Dm!Nip44Assumption
    PROVE  Dm!Spec => [](Dm!RoundTrip /\ Dm!OthersRefuse /\ Dm!PaddingIsBounded)
<1>1. Dm!Init => DmInv
  BY DEF Dm!Init, DmInv, PayloadIsText, Dm!RoundTrip, Dm!OthersRefuse, Dm!Read, Dm!Thrown
<1>2. DmInv => Dm!PaddingIsBounded
  <2> SUFFICES ASSUME text \in Texts PROVE Dm!PaddingIsBounded
    BY DEF DmInv
  <2>1. Len(text) \in Nat \ {0} /\ IntBits \in Nat \ {0, 1}
    BY TextFacts DEF Dm!Nip44Assumption
  <2> QED BY <2>1, PaddedFacts DEF Dm!PaddingIsBounded
<1>3. DmInv => Dm!RoundTrip /\ Dm!OthersRefuse
  BY DEF DmInv
<1>4. DmInv /\ [Dm!Next]_(Dm!vars) => DmInv'
  BY NextDm
<1> QED BY <1>1, <1>2, <1>3, <1>4, PTL DEF Dm!Spec

-----------------------------------------------------------------------------
(* Texts for which << is wide enough                                       *)

\* The logarithm grows with the number, and a power of two tells a bound for it.
LEMMA LogBounds ==
    ASSUME NEW n \in Nat \ {0}, NEW j \in Nat
    PROVE  /\ n < 2^j => Dm!FloorLog2(n) < j
           /\ 2^j <= n => j <= Dm!FloorLog2(n)
<1> DEFINE k == Dm!FloorLog2(n)
<1>1. k \in Nat /\ 2^k <= n /\ n < 2^(k + 1)
  <2>1. k \in 0..n /\ 2^k <= n /\ n < 2^(k + 1)
    BY LogFacts
  <2> HIDE DEF k
  <2> QED BY <2>1
<1> HIDE DEF k
<1>2. 2^j \in Nat /\ 2^k \in Nat /\ 2^(k + 1) \in Nat
  <2>1. k + 1 \in Nat
    BY <1>1
  <2> QED BY <1>1, <2>1, SubsetsCount
<1>3. j <= k => 2^j <= 2^k
  BY <1>1, PowersGrow
<1>4. k + 1 <= j => 2^(k + 1) <= 2^j
  <2>1. k + 1 \in Nat
    BY <1>1
  <2> QED BY <2>1, PowersGrow
<1>5. n < 2^j => k < j
  BY <1>1, <1>2, <1>3
<1>6. 2^j <= n => j <= k
  BY <1>1, <1>2, <1>4
<1> QED BY <1>5, <1>6 DEF k

\* Both programs take the same next power of two.
LEMMA NextPower ==
    ASSUME IntBits \in Nat \ {0, 1}, NEW n \in Nat, 32 < n, n <= 2^(IntBits - 2)
    PROVE  Dm!Shifted(Dm!FloorLog2(n - 1) + 1) = 2^(Dm!FloorLog2(n - 1) + 1)
<1> DEFINE k == Dm!FloorLog2(n - 1)
<1>1. IntBits - 2 \in Nat /\ n - 1 \in Nat \ {0} /\ 2^(IntBits - 2) \in Nat
  <2>1. IntBits - 2 \in Nat /\ n - 1 \in Nat \ {0}
    OBVIOUS
  <2> QED BY <2>1, SubsetsCount
<1>2. n - 1 < 2^(IntBits - 2)
  BY <1>1
<1>3. k < IntBits - 2 /\ k \in Nat
  <2>1. k < IntBits - 2
    BY <1>1, <1>2, LogBounds
  <2>2. k \in 0..(n - 1)
    BY <1>1, LogFacts
  <2> HIDE DEF k
  <2> QED BY <2>1, <2>2
<1> HIDE DEF k
<1>4. (k + 1) % IntBits = k + 1 /\ k + 1 # IntBits - 1
  BY <1>3
<1>5. Dm!Shifted(k + 1) = 2^(k + 1)
  BY <1>4 DEF Dm!Shifted
<1> QED BY <1>5 DEF k

\* The chunk of a text, and the power of two it is a part of: padding never goes beyond that.
LEMMA WithinPower ==
    ASSUME IntBits \in Nat \ {0, 1}, NEW n \in Nat, 32 < n, n <= 2^(IntBits - 2)
    PROVE  Dm!PaddedLen(n) <= 2^(Dm!FloorLog2(n - 1) + 1)
<1> DEFINE k    == Dm!FloorLog2(n - 1)
           next == 2^(k + 1)
           c    == IF next <= 256 THEN 32 ELSE next \div 8
           q    == (n - 1) \div c
           r    == (n - 1) % c
<1>1. Dm!PaddedLen(n) = c * (q + 1)
  BY NextPower DEF Dm!PaddedLen, Dm!InChunks
<1>2. k \in Nat /\ 5 <= k /\ n - 1 < next
  <2>1. n - 1 \in Nat \ {0}
    OBVIOUS
  <2>2. k \in 0..(n - 1) /\ n - 1 < next
    BY <2>1, LogFacts
  <2>3. 2^5 = 32
    BY PowerOfZero, Doubling
  <2>4. 5 <= k
    <3>1. 2^5 <= n - 1 /\ 5 \in Nat
      BY <2>3
    <3> QED BY <2>1, <3>1, LogBounds
  <2> HIDE DEF k
  <2> QED BY <2>2, <2>4
<1> HIDE DEF k
<1>3. PICK j \in Nat : k = j + 5
  <2>1. k - 5 \in Nat /\ k = (k - 5) + 5
    BY <1>2
  <2> QED BY <2>1
<1>4. next = 64 * 2^j /\ 2^j \in Nat
  <2>1. \A i \in Nat : 2^i \in Nat /\ 2^(i + 1) = 2^i + 2^i
    BY SubsetsCount, Doubling
  <2>2. /\ 2^(j + 1) = 2 * 2^j /\ 2^(j + 1 + 1) = 4 * 2^j /\ 2^(j + 1 + 1 + 1) = 8 * 2^j
        /\ 2^(j + 1 + 1 + 1 + 1) = 16 * 2^j /\ 2^(j + 1 + 1 + 1 + 1 + 1) = 32 * 2^j
        /\ 2^(j + 1 + 1 + 1 + 1 + 1 + 1) = 64 * 2^j
    BY <2>1
  <2>3. k + 1 = j + 1 + 1 + 1 + 1 + 1 + 1
    BY <1>3
  <2> QED BY <2>1, <2>2, <2>3
<1> HIDE DEF next
<1>5. PICK e \in Nat : next = c * e /\ c \in Nat \ {0}
  <2>1. CASE next <= 256
    BY <2>1, <1>4
  <2>2. CASE ~(next <= 256)
    <3>1. next \div 8 = 8 * 2^j
      BY <1>4
    <3> QED BY <3>1, <2>2, <1>4
  <2> QED BY <2>1, <2>2
<1> HIDE DEF c
<1>6. q \in Nat /\ r \in Nat /\ n - 1 = c * q + r
  <2>1. n - 1 \in Nat
    OBVIOUS
  <2> QED BY <2>1, <1>5, DivisionFacts
<1> HIDE DEF q, r
<1>7. q + 1 <= e
  <2> SUFFICES ASSUME e <= q PROVE FALSE
    BY <1>5, <1>6
  <2>1. c * e <= c * q /\ c * q \in Nat
    BY <1>5, <1>6
  <2> QED BY <2>1, <1>2, <1>5, <1>6
<1>8. c * (q + 1) <= c * e
  BY <1>5, <1>6, <1>7
<1> QED BY <1>1, <1>5, <1>8 DEF next, k

\* Rounding up to a multiple keeps the order.
LEMMA MultiplesGrow ==
    ASSUME NEW a \in Nat, NEW b \in Nat, a <= b, NEW c \in Nat \ {0}
    PROVE  c * (a \div c + 1) <= c * (b \div c + 1)
<1> DEFINE qa == a \div c
           ra == a % c
           qb == b \div c
           rb == b % c
<1>1. qa \in Nat /\ ra \in 0..(c - 1) /\ a = c * qa + ra
  BY DivisionFacts
<1>2. qb \in Nat /\ rb \in 0..(c - 1) /\ b = c * qb + rb
  BY DivisionFacts
<1> HIDE DEF qa, ra, qb, rb
<1>3. qa <= qb
  <2> SUFFICES ASSUME qb + 1 <= qa PROVE FALSE
    BY <1>1, <1>2
  <2>1. c * (qb + 1) <= c * qa /\ c * (qb + 1) = c * qb + c /\ c * qa \in Nat /\ c * qb \in Nat
    BY <1>1, <1>2
  <2> QED BY <2>1, <1>1, <1>2
<1>4. c * (qa + 1) <= c * (qb + 1)
  BY <1>1, <1>2, <1>3
<1> QED BY <1>4 DEF qa, qb

\* The padded length grows with the length.
LEMMA PaddingGrows ==
    ASSUME IntBits \in Nat \ {0, 1}, NEW n \in Nat \ {0}, NEW m \in Nat \ {0},
           n <= m, m <= 2^(IntBits - 2)
    PROVE  Dm!PaddedLen(n) <= Dm!PaddedLen(m)
<1> DEFINE kn == Dm!FloorLog2(n - 1)
           km == Dm!FloorLog2(m - 1)
<1>1. /\ Dm!PaddedLen(n) \in Nat /\ Dm!PaddedLen(m) \in Nat
      /\ 32 <= Dm!PaddedLen(m) /\ m <= Dm!PaddedLen(m)
  BY PaddedFacts
<1>2. CASE n <= 32
  BY <1>1, <1>2 DEF Dm!PaddedLen
<1>3. CASE 32 < n
  <2>1. n - 1 \in Nat \ {0} /\ m - 1 \in Nat \ {0} /\ n - 1 <= m - 1
    BY <1>3
  <2>2. n <= 2^(IntBits - 2)
    <3>1. IntBits - 2 \in Nat
      OBVIOUS
    <3> QED BY <3>1, SubsetsCount
  <2>3. /\ kn \in Nat /\ km \in Nat /\ 2^kn <= n - 1 /\ 2^km <= m - 1
        /\ n - 1 < 2^(kn + 1) /\ m - 1 < 2^(km + 1)
    <3>1. kn \in 0..(n - 1) /\ km \in 0..(m - 1)
      BY <2>1, LogFacts
    <3>2. 2^kn <= n - 1 /\ 2^km <= m - 1 /\ n - 1 < 2^(kn + 1) /\ m - 1 < 2^(km + 1)
      BY <2>1, LogFacts
    <3> HIDE DEF kn, km
    <3> QED BY <3>1, <3>2
  <2>4. CASE kn = km
    <3> DEFINE next == 2^(kn + 1)
               c    == IF next <= 256 THEN 32 ELSE next \div 8
    <3>1. Dm!PaddedLen(n) = c * ((n - 1) \div c + 1)
      BY <1>3, <2>2, NextPower DEF Dm!PaddedLen, Dm!InChunks
    <3>2. Dm!PaddedLen(m) = c * ((m - 1) \div c + 1)
      <4>1. Dm!Shifted(km + 1) = next /\ 32 < m
        BY <1>3, <2>4, NextPower
      <4> QED BY <4>1 DEF Dm!PaddedLen, Dm!InChunks
    <3>3. c \in Nat \ {0}
      <4> HIDE DEF kn
      <4>1. next \in Nat
        <5>1. kn + 1 \in Nat
          BY <2>3
        <5> QED BY <5>1, SubsetsCount
      <4> HIDE DEF next
      <4> QED BY <4>1
    <3> HIDE DEF c
    <3> QED BY <2>1, <3>1, <3>2, <3>3, MultiplesGrow
  <2>5. CASE kn # km
    <3> HIDE DEF kn, km
    <3>1. 2^km \in Nat /\ 2^kn \in Nat /\ 2^(kn + 1) \in Nat /\ 2^(km + 1) \in Nat
      <4>1. kn + 1 \in Nat /\ km + 1 \in Nat
        BY <2>3
      <4> QED BY <2>3, <4>1, SubsetsCount
    <3>2. kn < km
      <4> SUFFICES ASSUME km + 1 <= kn PROVE FALSE
        BY <2>3, <2>5
      <4>1. km + 1 \in Nat /\ 2^(km + 1) <= 2^kn
        BY <2>3, PowersGrow
      <4> QED BY <4>1, <2>1, <2>3, <3>1
    <3>3. 2^(kn + 1) <= 2^km
      <4>1. kn + 1 \in Nat /\ kn + 1 <= km
        BY <2>3, <3>2
      <4> QED BY <4>1, <2>3, PowersGrow
    <3>4. Dm!PaddedLen(n) <= 2^(kn + 1)
      BY <1>3, <2>2, WithinPower DEF kn
    <3> QED BY <1>1, <2>1, <2>3, <3>1, <3>3, <3>4
  <2> QED BY <2>4, <2>5
<1> QED BY <1>2, <1>3

\* As long as the length of a text leaves two bits of << (below a gigabyte), a longer text
\* never has the shorter payload either, and browser and daemon pad it to the same length:
\* the comment at calcPaddedLen is true up to there.
THEOREM MessagesAreReadHolds ==
    ASSUME Dm!Nip44Assumption, \A t \in Texts : Len(t) <= 2^(IntBits - 2)
    PROVE  Dm!Spec => [](Dm!MessagesAreRead /\ Dm!MirrorsDaemon)
<1>1. Dm!Init => text \in Texts
  BY DEF Dm!Init
<1>2. text \in Texts /\ [Dm!Next]_(Dm!vars) => (text \in Texts)'
  BY DEF Dm!Next, Dm!Encrypt, Dm!Decrypt, Dm!vars
<1>3. text \in Texts => Dm!LongerIsNotShorter /\ Dm!MirrorsDaemon
  <2> SUFFICES ASSUME text \in Texts PROVE Dm!LongerIsNotShorter /\ Dm!MirrorsDaemon
    OBVIOUS
  <2>1. IntBits \in Nat \ {0, 1} /\ \A t \in Texts : Len(t) \in Nat \ {0}
    BY DEF Dm!Nip44Assumption
  <2>2. Dm!LongerIsNotShorter
    BY <2>1, PaddingGrows DEF Dm!LongerIsNotShorter
  <2>3. Dm!MirrorsDaemon
    <3> DEFINE n == Len(text)
    <3>1. n \in Nat /\ n <= 2^(IntBits - 2)
      BY <2>1
    <3> HIDE DEF n
    <3>2. CASE n <= 32
      BY <3>2 DEF Dm!PaddedLen, Dm!PaddedLenOfDaemon, Dm!MirrorsDaemon, n
    <3>3. CASE 32 < n
      <4>1. Dm!Shifted(Dm!FloorLog2(n - 1) + 1) = 2^(Dm!FloorLog2(n - 1) + 1)
        BY <2>1, <3>1, <3>3, NextPower
      <4>2. Dm!PaddedLen(n) = Dm!PaddedLenOfDaemon(n)
        BY <3>1, <3>3, <4>1, Zenon DEF Dm!PaddedLen, Dm!PaddedLenOfDaemon
      <4> QED BY <4>2 DEF Dm!MirrorsDaemon, n
    <3> QED BY <3>1, <3>2, <3>3
  <2> QED BY <2>2, <2>3
<1>4. Dm!RoundTrip /\ Dm!OthersRefuse /\ Dm!PaddingIsBounded /\ Dm!LongerIsNotShorter => Dm!MessagesAreRead
  BY DEF Dm!MessagesAreRead
<1> QED BY <1>1, <1>2, <1>3, <1>4, TextIsReadHolds, PTL DEF Dm!Spec


-----------------------------------------------------------------------------
(* The table of countries                                                  *)

\* What the assumption says of a table.
LEMMA TableFacts ==
    ASSUME Flags!FlagsAssumption, table \in Tables
    PROVE  /\ Len(table) \in Nat /\ DOMAIN table = 1..Len(table)
           /\ \A i \in 1..Len(table) :
                 /\ table[i][1] \in 0..(2^Bits - 1) /\ table[i][1] \in Nat /\ table[i][2] \in 0..Bits
                 /\ table[i][1] % 2^(Bits - table[i][2]) = 0
           /\ \A i, j \in 1..Len(table) :
                 i < j => /\ table[i][1] < table[j][1]
                          /\ Flags!Block(table[i]) \cap Flags!Block(table[j]) = {}
<1> DEFINE Countries == {table[i][3] : i \in DOMAIN table}
           Entries == (0..(2^Bits - 1)) \X (0..Bits) \X Countries
<1>1. /\ table \in Seq(Entries)
      /\ \A i \in DOMAIN table : table[i][1] % 2^(Bits - table[i][2]) = 0
      /\ \A i, j \in DOMAIN table :
            i < j => table[i][1] < table[j][1] /\ Flags!Block(table[i]) \cap Flags!Block(table[j]) = {}
  BY DEF Flags!FlagsAssumption
<1> HIDE DEF Countries
<1>2. \A e \in Entries : e[1] \in 0..(2^Bits - 1) /\ e[2] \in 0..Bits
  OBVIOUS
<1>3. 0..(2^Bits - 1) \subseteq Nat
  <2>1. 2^Bits \in Nat
    BY SubsetsCount DEF Flags!FlagsAssumption
  <2> QED BY <2>1
<1> HIDE DEF Entries
<1>4. /\ Len(table) \in Nat /\ DOMAIN table = 1..Len(table)
      /\ \A i \in 1..Len(table) : table[i] \in Entries
  BY <1>1
<1> QED BY <1>1, <1>2, <1>3, <1>4

\* The entries that do not start above a number are the first ones.
LEMMA StartsBelow ==
    ASSUME Flags!FlagsAssumption, table \in Tables, NEW a \in Nat
    PROVE  \E b \in 0..Len(table) : \A k \in 1..Len(table) : table[k][1] <= a <=> k <= b
<1> DEFINE n == Len(table)
           above == {k \in 1..n : ~(table[k][1] <= a)}
<1>1. /\ n \in Nat /\ \A i \in 1..n : table[i][1] \in Nat
      /\ \A i, j \in 1..n : i < j => table[i][1] < table[j][1]
  BY TableFacts
<1> SUFFICES \E b \in 0..n : \A k \in 1..n : table[k][1] <= a <=> k <= b
  OBVIOUS
<1> HIDE DEF n
<1>2. CASE above = {}
  <2>1. n \in 0..n /\ \A k \in 1..n : table[k][1] <= a <=> k <= n
    BY <1>1, <1>2
  <2> QED BY <2>1
<1>3. CASE above # {}
  <2>1. PICK m \in above : \A k \in above : m <= k
    <3>1. above \in SUBSET Nat
      BY <1>1
    <3> QED BY <1>3, <3>1, LeastNumber
  <2>2. m - 1 \in 0..n
    BY <1>1, <2>1
  <2>3. \A k \in 1..n : table[k][1] <= a <=> k <= m - 1
    <3> SUFFICES ASSUME NEW k \in 1..n PROVE table[k][1] <= a <=> k <= m - 1
      OBVIOUS
    <3>1. CASE k < m
      BY <1>1, <2>1, <3>1
    <3>2. CASE k = m
      BY <1>1, <2>1, <3>2
    <3>3. CASE m < k
      <4>1. table[m][1] < table[k][1] /\ ~(table[m][1] <= a) /\ table[m][1] \in Nat /\ table[k][1] \in Nat
        BY <1>1, <2>1, <3>3
      <4> QED BY <4>1, <3>3, <2>1, <1>1
    <3> QED BY <3>1, <3>2, <3>3, <2>1, <1>1
  <2> QED BY <2>2, <2>3
<1> QED BY <1>2, <1>3

\* The binary search returns the last entry that does not start above the number.  The
\* recursion has a closed form (found), so there is a function that satisfies it; every
\* such function is that one, by induction on the width of the interval that is left.
LEMMA SearchFinds ==
    ASSUME Flags!FlagsAssumption, table \in Tables, NEW a \in Nat
    PROVE  /\ Flags!Search(a) \in 0..Len(table)
           /\ \A k \in 1..Len(table) : table[k][1] <= a <=> k <= Flags!Search(a)
<1> DEFINE n == Len(table)
           Loops == (1..(n + 1)) \X (0..n) \X (0..n)
           Body(f, at) ==
             LET mid == (at[1] + at[2]) \div 2
             IN  IF at[1] > at[2] THEN at[3]
                 ELSE IF table[mid][1] <= a THEN f[<<mid + 1, at[2], mid>>]
                 ELSE f[<<at[1], mid - 1, at[3]>>]
           rest == CHOOSE f : f = [at \in Loops |-> Body(f, at)]
<1>1. n \in Nat
  BY TableFacts
<1>2. PICK b \in 0..n : \A k \in 1..n : table[k][1] <= a <=> k <= b
  BY StartsBelow
<1>5. Flags!Search(a) = rest[<<1, n, 0>>]
  BY Zenon DEF Flags!Search
<1> HIDE DEF n
<1> DEFINE Closed(at) == IF at[1] > at[2] \/ b < at[1] THEN at[3] ELSE IF b > at[2] THEN at[2] ELSE b
           found == [at \in Loops |-> Closed(at)]
<1>3. \A at \in Loops : at[1] \in 1..(n + 1) /\ at[2] \in 0..n /\ at[3] \in 0..n /\ Closed(at) \in 0..n
  BY <1>1
<1>4. ASSUME NEW at \in Loops, at[1] <= at[2], NEW mid, mid = (at[1] + at[2]) \div 2
      PROVE  /\ mid \in 1..n /\ mid \in at[1]..at[2]
             /\ table[mid][1] <= a <=> mid <= b
             /\ <<mid + 1, at[2], mid>> \in Loops /\ <<at[1], mid - 1, at[3]>> \in Loops
  <2>1. mid \in Int /\ mid >= at[1] /\ mid <= at[2]
    BY <1>1, <1>3, <1>4
  <2>2. /\ mid \in 1..n /\ mid \in at[1]..at[2]
        /\ mid + 1 \in 1..(n + 1) /\ mid - 1 \in 0..n /\ mid \in 0..n
    BY <1>1, <1>3, <2>1
  <2>3. <<mid + 1, at[2], mid>> \in Loops /\ <<at[1], mid - 1, at[3]>> \in Loops
    BY <1>3, <2>2
  <2>4. table[mid][1] <= a <=> mid <= b
    BY <1>2, <2>2, SMTT(30)
  <2> QED BY <2>2, <2>3, <2>4
<1>6. \A at \in Loops : Closed(at) = Body(found, at)
  <2> SUFFICES ASSUME NEW at \in Loops PROVE Closed(at) = Body(found, at)
    OBVIOUS
  <2>1. CASE at[1] > at[2]
    BY <2>1
  <2>2. CASE at[1] <= at[2]
    <3> DEFINE mid == (at[1] + at[2]) \div 2
    <3>1. /\ mid \in 1..n /\ mid \in at[1]..at[2]
          /\ table[mid][1] <= a <=> mid <= b
          /\ <<mid + 1, at[2], mid>> \in Loops /\ <<at[1], mid - 1, at[3]>> \in Loops
      BY <1>4, <2>2
    <3>2. Body(found, at) = IF mid <= b THEN Closed(<<mid + 1, at[2], mid>>)
                            ELSE Closed(<<at[1], mid - 1, at[3]>>)
      <4>1. /\ found[<<mid + 1, at[2], mid>>] = Closed(<<mid + 1, at[2], mid>>)
            /\ found[<<at[1], mid - 1, at[3]>>] = Closed(<<at[1], mid - 1, at[3]>>)
        BY <3>1, Zenon
      <4>2. ~(at[1] > at[2])
        BY <1>3, <2>2
      <4> HIDE DEF found, Closed, Loops
      <4> QED BY <3>1, <4>1, <4>2
    <3>3. Closed(at) = IF mid <= b THEN Closed(<<mid + 1, at[2], mid>>)
                       ELSE Closed(<<at[1], mid - 1, at[3]>>)
      <4> HIDE DEF mid
      <4> QED BY <1>1, <1>3, <2>2, <3>1
    <3> HIDE DEF mid, Body, Closed, found
    <3> QED BY <3>2, <3>3
  <2> QED BY <1>3, <2>1, <2>2, SMTT(30)
<1>7. rest = [at \in Loops |-> Body(rest, at)]
  <2>1. found = [at \in Loops |-> Body(found, at)]
    <3> HIDE DEF Body, Closed, Loops
    <3> QED BY <1>6
  <2> HIDE DEF Body, found, Loops
  <2> QED BY <2>1
<1> HIDE DEF rest, found
<1>8. \A at \in Loops : rest[at] = Closed(at)
  <2> DEFINE Width(at) == IF at[1] > at[2] THEN 0 ELSE at[2] - at[1] + 1
             bad == {w \in Nat : \E at \in Loops : rest[at] # Closed(at) /\ w = Width(at)}
  <2>1. \A at \in Loops : Width(at) \in Nat
    BY <1>1, <1>3
  <2>2. CASE bad = {}
    <3> HIDE DEF Width, Loops, Closed
    <3> QED BY <2>1, <2>2
  <2>3. CASE bad # {}
    <3>1. PICK w \in bad : \A k \in bad : w <= k
      BY <2>3, LeastNumber
    <3>2. PICK at \in Loops : rest[at] # Closed(at) /\ w = Width(at)
      OBVIOUS
    <3>3. \A x \in Loops : Width(x) < w => rest[x] = Closed(x)
      <4> HIDE DEF Loops, Closed, Width
      <4> QED BY <2>1, <3>1
    <3>4. rest[at] = Body(rest, at)
      <4> HIDE DEF Loops, Body
      <4> QED BY <1>7
    <3>5. CASE at[1] > at[2]
      BY <3>2, <3>4, <3>5
    <3>6. CASE at[1] <= at[2]
      <4> DEFINE mid == (at[1] + at[2]) \div 2
                 right == <<mid + 1, at[2], mid>>
                 left == <<at[1], mid - 1, at[3]>>
      <4>1. /\ mid \in 1..n /\ mid \in at[1]..at[2]
            /\ table[mid][1] <= a <=> mid <= b
            /\ right \in Loops /\ left \in Loops
        BY <1>4, <3>6
      <4>2. Width(right) < Width(at) /\ Width(left) < Width(at)
        <5> HIDE DEF mid
        <5> QED BY <1>1, <1>3, <3>6, <4>1
      <4>3. rest[right] = Closed(right) /\ rest[left] = Closed(left)
        <5> HIDE DEF right, left, Closed, Width, Loops
        <5> QED BY <3>2, <3>3, <4>1, <4>2
      <4>4. found[right] = Closed(right) /\ found[left] = Closed(left)
        <5> HIDE DEF right, left, Closed, Loops
        <5> QED BY <4>1 DEF found
      <4>5. Body(rest, at) = Body(found, at)
        BY <4>3, <4>4
      <4>6. Closed(at) = Body(found, at)
        <5> HIDE DEF Body, Closed, Loops
        <5> QED BY <1>6
      <4> HIDE DEF Body, Closed
      <4> QED BY <3>2, <3>4, <4>5, <4>6
    <3> QED BY <1>3, <3>5, <3>6
  <2> QED BY <2>2, <2>3
<1>9. <<1, n, 0>> \in Loops
  BY <1>1
<1>10. Flags!Search(a) = b
  <2>1. Flags!Search(a) = Closed(<<1, n, 0>>)
    BY <1>5, <1>8, <1>9
  <2> QED BY <1>1, <2>1
<1> QED BY <1>2, <1>10 DEF n

\* The number of a block: a number is in it exactly if it is masked like its start.
LEMMA BlockFacts ==
    ASSUME Flags!FlagsAssumption, table \in Tables, NEW i \in 1..Len(table), NEW a \in 0..(2^Bits - 1)
    PROVE  /\ a \in Flags!Block(table[i])
                <=> Flags!Masked(a, table[i][2]) = Flags!Masked(table[i][1], table[i][2])
           /\ a \in Flags!Block(table[i]) => table[i][1] <= a
           /\ table[i][1] \in Flags!Block(table[i])
           /\ \A b \in 0..(2^Bits - 1) :
                a \in Flags!Block(table[i]) /\ table[i][1] <= b /\ b <= a => b \in Flags!Block(table[i])
<1> DEFINE size == 2^(Bits - table[i][2])
           start == table[i][1]
           qs == start \div size
           qa == a \div size
<1>1. /\ start \in 0..(2^Bits - 1) /\ start \in Nat /\ table[i][2] \in 0..Bits
      /\ start % size = 0
  BY TableFacts
<1>2. Bits \in Nat /\ 2^Bits \in Nat /\ size \in Nat \ {0}
  <2>1. Bits \in Nat /\ Bits - table[i][2] \in Nat
    <3>1. Bits \in Nat
      BY DEF Flags!FlagsAssumption
    <3>2. \A m \in 0..Bits : Bits - m \in Nat
      BY <3>1
    <3> QED BY <1>1, <3>1, <3>2, Zenon
  <2>2. 2^(Bits - table[i][2]) \in Nat /\ Bits - table[i][2] < 2^(Bits - table[i][2]) /\ 2^Bits \in Nat
    BY <2>1, SubsetsCount, PowersExceed
  <2>3. \A e, p \in Nat : e < p => p \in Nat \ {0}
    OBVIOUS
  <2> QED BY <2>1, <2>2, <2>3, Zenon
<1>3. a \in Nat /\ \A b \in 0..(2^Bits - 1) : b \in Nat
  BY <1>2
<1>4. Flags!Block(table[i]) = {b \in 0..(2^Bits - 1) : b \div size = qs}
  BY DEF Flags!Block
<1>5. Flags!Masked(a, table[i][2]) = a - (a % size) /\ Flags!Masked(start, table[i][2]) = start - (start % size)
  BY DEF Flags!Masked
<1> HIDE DEF size, start
<1>6. \A b \in Nat : /\ b \div size \in Nat /\ b % size \in 0..(size - 1)
                     /\ b = size * (b \div size) + (b % size)
  BY <1>2, DivisionFacts
<1>7. start = size * qs /\ qs \in Nat /\ size * qs \in Nat
  <2>1. qs \in Nat /\ start = size * qs + (start % size)
    BY <1>1, <1>2, DivisionFacts
  <2> HIDE DEF qs
  <2>2. size * qs \in Nat
    BY <1>2, <2>1
  <2> QED BY <1>1, <2>1, <2>2, SMTT(30)
<1>8. qa \in Nat /\ a = size * qa + (a % size) /\ a % size \in 0..(size - 1)
  BY <1>3, <1>6
<1>9. Flags!Masked(a, table[i][2]) = size * qa /\ Flags!Masked(start, table[i][2]) = size * qs
  <2> HIDE DEF qa, qs
  <2>1. size * qa \in Nat /\ size * qs \in Nat
    BY <1>2, <1>7, <1>8
  <2> QED BY <1>1, <1>5, <1>7, <1>8, <2>1, SMTT(30)
<1>10. a \in Flags!Block(table[i]) <=> qa = qs
  BY <1>4
<1>11. size * qa = size * qs <=> qa = qs
  <2> HIDE DEF qa, qs
  <2>1. ASSUME NEW x \in Nat, NEW y \in Nat, x < y PROVE size * x < size * y
    <3>1. size * y = size * x + size * (y - x) /\ size * (y - x) \in Nat \ {0} /\ size * x \in Nat
      BY <1>2, <2>1
    <3> QED BY <3>1, <1>2
  <2>2. qa < qs => size * qa < size * qs
    BY <1>7, <1>8, <2>1
  <2>3. qs < qa => size * qs < size * qa
    BY <1>7, <1>8, <2>1
  <2> QED BY <1>2, <1>7, <1>8, <2>2, <2>3
<1>12. a \in Flags!Block(table[i]) <=> Flags!Masked(a, table[i][2]) = Flags!Masked(start, table[i][2])
  BY <1>9, <1>10, <1>11
<1>13. qa = qs => start <= a
  <2> HIDE DEF qa, qs
  <2> QED BY <1>7, <1>8
<1>14. start \in Flags!Block(table[i])
  BY <1>1, <1>4
<1>15. ASSUME NEW b \in 0..(2^Bits - 1), qa = qs, start <= b, b <= a
       PROVE  b \div size = qs
  <2> DEFINE qb == b \div size
             rb == b % size
             ra == a % size
  <2>1. qb \in Nat /\ b = size * qb + rb /\ rb \in 0..(size - 1) /\ b \in Nat
    BY <1>3, <1>6
  <2>2. a = size * qs + ra /\ ra \in 0..(size - 1)
    BY <1>8, <1>15
  <2> HIDE DEF qb, rb, ra, qs, qa
  <2>3. size * qs <= size * qb + rb /\ size * qb + rb <= size * qs + ra
    BY <1>7, <1>15, <2>1, <2>2
  <2>4. ~(qb < qs)
    <3> SUFFICES ASSUME qb + 1 <= qs PROVE FALSE
      BY <2>1, <1>7
    <3>1. size * (qb + 1) <= size * qs /\ size * (qb + 1) = size * qb + size /\ size * qs \in Nat /\ size * qb \in Nat
      BY <1>2, <1>7, <2>1
    <3> QED BY <1>2, <2>1, <2>3, <3>1
  <2>5. ~(qs < qb)
    <3> SUFFICES ASSUME qs + 1 <= qb PROVE FALSE
      BY <2>1, <1>7
    <3>1. size * (qs + 1) <= size * qb /\ size * (qs + 1) = size * qs + size /\ size * qs \in Nat /\ size * qb \in Nat
      BY <1>2, <1>7, <2>1
    <3> QED BY <1>2, <2>1, <2>2, <2>3, <3>1, SMTT(30)
  <2>6. qb = qs
    BY <1>7, <2>1, <2>4, <2>5
  <2> QED BY <2>6 DEF qb
<1> QED BY <1>4, <1>10, <1>12, <1>13, <1>14, <1>15 DEF start

\* What the page looks up is the country of the address.
LEMMA LookupIsCountry ==
    ASSUME Flags!FlagsAssumption, table \in Tables, NEW a \in Addresses
    PROVE  Flags!DoLookup(a) = Flags!Country(a)
<1>1. DOMAIN table = 1..Len(table) /\ Len(table) \in Nat
  BY TableFacts
<1>2. CASE a \in Other
  <2>1. a \notin 0..(2^Bits - 1)
    BY <1>2 DEF Flags!FlagsAssumption
  <2>2. \A i \in DOMAIN table : a \notin Flags!Block(table[i])
    BY <2>1 DEF Flags!Block
  <2> QED BY <1>2, <2>2 DEF Flags!DoLookup, Flags!Country
<1>3. CASE a \notin Other
  <2>1. a \in 0..(2^Bits - 1)
    BY <1>3 DEF Flags!FlagsAssumption
  <2>2. a \in Nat
    <3>1. 2^Bits \in Nat
      BY SubsetsCount DEF Flags!FlagsAssumption
    <3> QED BY <2>1, <3>1
  <2> DEFINE i == Flags!Search(a)
  <2>3. i \in 0..Len(table) /\ \A k \in 1..Len(table) : table[k][1] <= a <=> k <= i
    BY <2>2, SearchFinds
  <2>4. Flags!DoLookup(a) =
            IF i = 0 THEN Unknown
            ELSE IF Flags!Masked(a, table[i][2]) = Flags!Masked(table[i][1], table[i][2]) THEN table[i][3]
            ELSE Unknown
    BY <1>3 DEF Flags!DoLookup
  <2> HIDE DEF i
  <2>5. ASSUME NEW j \in 1..Len(table), a \in Flags!Block(table[j]) PROVE i # 0 /\ j = i
    <3>1. j <= i
      BY <2>1, <2>3, <2>5, BlockFacts
    <3>2. CASE j < i
      <4>1. i \in 1..Len(table)
        BY <1>1, <2>3, <3>2
      <4>2. table[j][1] < table[i][1] /\ Flags!Block(table[j]) \cap Flags!Block(table[i]) = {}
        BY <3>2, <4>1, TableFacts
      <4>3. table[i][1] <= a /\ table[i][1] \in 0..(2^Bits - 1) /\ table[i][1] \in Nat /\ table[j][1] \in Nat
        BY <1>1, <2>3, <4>1, TableFacts
      <4>4. table[j][1] <= table[i][1]
        BY <4>2, <4>3
      <4>5. table[i][1] \in Flags!Block(table[j])
        BY <2>1, <2>5, <4>3, <4>4, BlockFacts
      <4>6. table[i][1] \in Flags!Block(table[i])
        BY <2>1, <4>1, BlockFacts
      <4> QED BY <4>2, <4>5, <4>6
    <3> QED BY <1>1, <2>3, <3>1, <3>2
  <2>6. CASE i \in 1..Len(table) /\ a \in Flags!Block(table[i])
    <3>1. Flags!DoLookup(a) = table[i][3]
      BY <1>1, <2>1, <2>4, <2>5, <2>6, BlockFacts
    <3>2. (CHOOSE j \in DOMAIN table : a \in Flags!Block(table[j])) = i
      BY <1>1, <2>5, <2>6
    <3> QED BY <1>1, <2>6, <3>1, <3>2 DEF Flags!Country
  <2>7. CASE ~(i \in 1..Len(table) /\ a \in Flags!Block(table[i]))
    <3>1. \A j \in DOMAIN table : a \notin Flags!Block(table[j])
      BY <1>1, <2>5, <2>7
    <3>2. i = 0 \/ i \in 1..Len(table)
      BY <1>1, <2>3
    <3>3. i \in 1..Len(table) => ~(Flags!Masked(a, table[i][2]) = Flags!Masked(table[i][1], table[i][2]))
      BY <2>1, <2>7, BlockFacts
    <3>4. Flags!DoLookup(a) = Unknown
      BY <2>4, <3>2, <3>3
    <3> QED BY <3>1, <3>4 DEF Flags!Country
  <2> QED BY <2>6, <2>7
<1> QED BY <1>2, <1>3

-----------------------------------------------------------------------------
(* The lists of addresses                                                  *)

\* The loading, the lists and the render that is scheduled, in every reachable state: a
\* country that is missing though the table has it is still to be rendered, or the table
\* cannot be loaded.
Listing ==
    /\ table \in Tables /\ loading \in {"no", "underway", "loaded", "failed"}
    /\ imports \in {0, 1} /\ (imports = 1 <=> loading # "no")
    /\ scheduled \in BOOLEAN /\ waiting \in BOOLEAN
    /\ scheduled => loading # "no"
    /\ scheduled => waiting \/ loading \in {"loaded", "failed"}

AreTrue(list) ==
    /\ DOMAIN list \subseteq Addresses
    /\ \A a \in DOMAIN list : list[a] \in {Unknown, Flags!Country(a)}

Complete(list) == \A a \in DOMAIN list : list[a] = Flags!Country(a)

FlagsInv ==
    /\ Listing
    /\ AreTrue(own) /\ AreTrue(exits)
    /\ waiting \/ loading = "failed" \/ (Complete(own) /\ Complete(exits))

\* A list with what can be looked up filled in is as true as before, and complete once the
\* table is there.
LEMMA FilledFacts ==
    ASSUME Flags!FlagsAssumption, table \in Tables, NEW list, AreTrue(list)
    PROVE  /\ AreTrue(Flags!Filled(list))
           /\ loading = "loaded" => Complete(Flags!Filled(list))
           /\ Flags!Gaps(Flags!Filled(list)) \subseteq Flags!Gaps(list)
           /\ Flags!Gaps(Flags!Filled(list)) = {} => Complete(Flags!Filled(list))
           /\ loading # "loaded" => Flags!Gaps(Flags!Filled(list)) = Flags!Gaps(list)
<1>1. \A a \in DOMAIN list : Flags!DoLookup(a) = Flags!Country(a)
  BY LookupIsCountry DEF AreTrue
<1>2. DOMAIN Flags!Filled(list) = DOMAIN list
  BY DEF Flags!Filled
<1>3. \A a \in DOMAIN list :
        Flags!Filled(list)[a] =
            IF list[a] # Unknown THEN list[a]
            ELSE IF loading = "loaded" THEN Flags!Country(a) ELSE Unknown
  BY <1>1 DEF Flags!Filled, Flags!LookupCountry
<1> QED BY <1>2, <1>3 DEF AreTrue, Complete, Flags!Gaps

\* The table does not change.
LEMMA CountryStays ==
    ASSUME UNCHANGED table
    PROVE  \A a : Flags!Country(a)' = Flags!Country(a)
BY DEF Flags!Country, Flags!Block

\* A list that arrives: what is loaded and rendered because of it.
LEMMA ListStep ==
    ASSUME Flags!FlagsAssumption, FlagsInv, NEW list, AreTrue(list),
           Flags!Load(list), Flags!Schedule(Flags!Filled(list)), UNCHANGED table
    PROVE  /\ Listing' /\ AreTrue(Flags!Filled(list))
           /\ waiting \/ loading = "failed" => waiting' \/ loading' = "failed"
           /\ waiting' \/ loading' = "failed" \/ Complete(Flags!Filled(list))
<1> DEFINE filled == Flags!Filled(list)
<1>1. /\ AreTrue(filled) /\ Flags!Gaps(filled) \subseteq Flags!Gaps(list)
      /\ loading = "loaded" => Complete(filled)
      /\ Flags!Gaps(filled) = {} => Complete(filled)
  BY FilledFacts DEF FlagsInv, Listing
<1>2. Flags!Gaps(filled) # {} /\ ~scheduled => scheduled' = TRUE /\ waiting' = TRUE
  BY DEF Flags!Schedule
<1>3. ~(Flags!Gaps(filled) # {} /\ ~scheduled) => UNCHANGED <<scheduled, waiting>>
  BY DEF Flags!Schedule
<1>4. Flags!Gaps(list) # {} /\ loading = "no" => loading' = "underway" /\ imports' = imports + 1
  BY DEF Flags!Load, Flags!EnsureGeoip
<1>5. Flags!Gaps(list) # {} /\ loading # "no" => loading' = loading /\ imports' = imports + 0
  BY DEF Flags!Load, Flags!EnsureGeoip
<1>6. Flags!Gaps(list) = {} => UNCHANGED <<loading, imports>>
  BY DEF Flags!Load
<1> HIDE DEF filled
<1>7. Listing'
  <2>1. Listing
    BY DEF FlagsInv
  <2>2. table' \in Tables
    BY <2>1 DEF Listing
  <2>3. /\ loading' \in {"no", "underway", "loaded", "failed"} /\ imports' \in {0, 1}
        /\ imports' = 1 <=> loading' # "no"
    BY <2>1, <1>4, <1>5, <1>6 DEF Listing
  <2>4. scheduled' \in BOOLEAN /\ waiting' \in BOOLEAN
    BY <2>1, <1>2, <1>3 DEF Listing
  <2>5. loading # "no" => loading' = loading
    BY <1>5, <1>6
  <2>6. Flags!Gaps(filled) # {} => loading' # "no"
    BY <1>1, <1>4, <1>5
  <2>7. scheduled' => loading' # "no"
    BY <2>1, <2>5, <2>6, <1>2, <1>3 DEF Listing
  <2>8. scheduled' => waiting' \/ loading' \in {"loaded", "failed"}
    BY <2>1, <2>5, <1>2, <1>3 DEF Listing
  <2> QED BY <2>2, <2>3, <2>4, <2>7, <2>8 DEF Listing
<1>8. waiting \/ loading = "failed" => waiting' \/ loading' = "failed"
  BY <1>2, <1>3, <1>4, <1>5, <1>6
<1>9. waiting' \/ loading' = "failed" \/ Complete(filled)
  BY <1>1, <1>2, <1>3, <1>4, <1>5, <1>6 DEF FlagsInv, Listing
<1> QED BY <1>1, <1>7, <1>8, <1>9 DEF filled

\* What a list is does not change while the table does not.
LEMMA ListsStay ==
    ASSUME UNCHANGED table
    PROVE  /\ AreTrue(own') => AreTrue(own)'
           /\ Complete(own') => Complete(own)'
           /\ AreTrue(exits') => AreTrue(exits)'
           /\ Complete(exits') => Complete(exits)'
BY CountryStays DEF AreTrue, Complete

\* Every step of the page keeps the invariant.
LEMMA NextFlags == Flags!FlagsAssumption /\ FlagsInv /\ [Flags!Next]_(Flags!vars) => FlagsInv'
<1> SUFFICES ASSUME Flags!FlagsAssumption, FlagsInv, [Flags!Next]_(Flags!vars) PROVE FlagsInv'
  OBVIOUS
<1> USE DEF FlagsInv
<1>1. \A addresses \in SUBSET Addresses : AreTrue(Flags!Blank(addresses))
  BY DEF AreTrue, Flags!Blank
<1>2. ASSUME NEW addresses \in SUBSET Addresses, Flags!OfferSdp(addresses) PROVE FlagsInv'
  <2> DEFINE list == Flags!Blank(addresses)
  <2>1. /\ exits' = Flags!Filled(list) /\ Flags!Load(list) /\ Flags!Schedule(Flags!Filled(list))
        /\ UNCHANGED table /\ own' = own /\ AreTrue(list)
    BY <1>1, <1>2 DEF Flags!OfferSdp
  <2> HIDE DEF list
  <2>2. /\ Listing' /\ AreTrue(Flags!Filled(list))
        /\ waiting \/ loading = "failed" => waiting' \/ loading' = "failed"
        /\ waiting' \/ loading' = "failed" \/ Complete(Flags!Filled(list))
    BY <2>1, ListStep
  <2>3. AreTrue(exits') /\ (Complete(Flags!Filled(list)) => Complete(exits'))
    BY <2>1, <2>2
  <2>4. AreTrue(own') /\ (Complete(own) => Complete(own'))
    BY <2>1
  <2> QED BY <2>1, <2>2, <2>3, <2>4, ListsStay
<1>3. ASSUME NEW addresses \in SUBSET Addresses, Flags!AnswerSdp(addresses) PROVE FlagsInv'
  <2> DEFINE list == Flags!Blank(addresses)
  <2>1. /\ own' = Flags!Filled(list) /\ Flags!Load(list) /\ Flags!Schedule(Flags!Filled(list))
        /\ UNCHANGED table /\ exits' = exits /\ AreTrue(list)
    BY <1>1, <1>3 DEF Flags!AnswerSdp
  <2> HIDE DEF list
  <2>2. /\ Listing' /\ AreTrue(Flags!Filled(list))
        /\ waiting \/ loading = "failed" => waiting' \/ loading' = "failed"
        /\ waiting' \/ loading' = "failed" \/ Complete(Flags!Filled(list))
    BY <2>1, ListStep
  <2>3. AreTrue(own') /\ (Complete(Flags!Filled(list)) => Complete(own'))
    BY <2>1, <2>2
  <2>4. AreTrue(exits') /\ (Complete(exits) => Complete(exits'))
    BY <2>1
  <2> QED BY <2>1, <2>2, <2>3, <2>4, ListsStay
<1>4. ASSUME NEW addresses \in SUBSET Addresses, Flags!OwnIpsFromStun(addresses) PROVE FlagsInv'
  <2> DEFINE list == [a \in addresses |-> IF a \in DOMAIN own THEN own[a] ELSE Unknown]
  <2>1. /\ own' = Flags!Filled(list) /\ Flags!Load(list) /\ Flags!Schedule(Flags!Filled(list))
        /\ UNCHANGED table /\ exits' = exits
    BY <1>4 DEF Flags!OwnIpsFromStun
  <2>0. AreTrue(list)
    BY DEF AreTrue
  <2> HIDE DEF list
  <2>2. /\ Listing' /\ AreTrue(Flags!Filled(list))
        /\ waiting \/ loading = "failed" => waiting' \/ loading' = "failed"
        /\ waiting' \/ loading' = "failed" \/ Complete(Flags!Filled(list))
    BY <2>0, <2>1, ListStep
  <2>3. AreTrue(own') /\ (Complete(Flags!Filled(list)) => Complete(own'))
    BY <2>1, <2>2
  <2>4. AreTrue(exits') /\ (Complete(exits) => Complete(exits'))
    BY <2>1
  <2> QED BY <2>1, <2>2, <2>3, <2>4, ListsStay
<1>5. CASE Flags!ImportEnds \/ Flags!ImportFails \/ UNCHANGED Flags!vars
  <2>1. /\ UNCHANGED table /\ own' = own /\ exits' = exits /\ UNCHANGED <<imports, scheduled, waiting>>
        /\ \/ loading = "underway" /\ loading' \in {"loaded", "failed"}
           \/ loading' = loading
    BY <1>5 DEF Flags!ImportEnds, Flags!ImportFails, Flags!vars
  <2>2. Listing'
    BY <2>1 DEF Listing
  <2>3. /\ AreTrue(own') /\ (Complete(own) => Complete(own'))
        /\ AreTrue(exits') /\ (Complete(exits) => Complete(exits'))
    BY <2>1
  <2> QED BY <2>1, <2>2, <2>3, ListsStay
<1>6. CASE Flags!Rerender
  <2>1. /\ UNCHANGED table /\ UNCHANGED <<loading, imports, scheduled>> /\ waiting' = FALSE
        /\ loading \in {"loaded", "failed"}
        /\ loading = "loaded" => own' = Flags!Filled(own) /\ exits' = Flags!Filled(exits)
        /\ loading # "loaded" => own' = own /\ exits' = exits
    BY <1>6 DEF Flags!Rerender
  <2>2. Listing'
    BY <2>1 DEF Listing
  <2>3. table \in Tables
    BY DEF Listing
  <2>4. /\ AreTrue(Flags!Filled(own)) /\ AreTrue(Flags!Filled(exits))
        /\ loading = "loaded" => Complete(Flags!Filled(own)) /\ Complete(Flags!Filled(exits))
    BY <2>3, FilledFacts
  <2>5. AreTrue(own') /\ AreTrue(exits')
    BY <2>1, <2>4
  <2>6. loading = "loaded" => Complete(own') /\ Complete(exits')
    BY <2>1, <2>4
  <2> QED BY <2>1, <2>2, <2>5, <2>6, ListsStay
<1> QED BY <1>2, <1>3, <1>4, <1>5, <1>6 DEF Flags!Next, Flags!ListArrives

\* The page keeps the invariant from the start.
LEMMA FlagsInvariance == ASSUME Flags!FlagsAssumption PROVE Flags!Spec => []FlagsInv
<1>1. Flags!Init => FlagsInv
  <2> SUFFICES ASSUME Flags!Init PROVE FlagsInv
    OBVIOUS
  <2>1. DOMAIN own = {} /\ DOMAIN exits = {}
    BY DEF Flags!Init, Flags!Blank
  <2>2. Listing
    <3>1. imports \in {0, 1} /\ imports # 1
      BY DEF Flags!Init
    <3>2. table \in Tables /\ loading = "no" /\ scheduled = FALSE /\ waiting = FALSE
      BY DEF Flags!Init
    <3> QED BY <3>1, <3>2, Zenon DEF Listing
  <2> QED BY <2>1, <2>2 DEF FlagsInv, AreTrue, Complete
<1> QED BY <1>1, NextFlags, PTL DEF Flags!Spec

\* A list shows an address with its own country or with none, whatever the sorted, disjoint
\* table holds: the binary search and the comparison of the networks miss no block and
\* take none for another.
THEOREM ShownIsTrueHolds == ASSUME Flags!FlagsAssumption PROVE Flags!Spec => []Flags!ShownIsTrue
<1>1. FlagsInv => Flags!ShownIsTrue
  BY DEF FlagsInv, AreTrue, Flags!ShownIsTrue, Flags!Listed
<1> QED BY <1>1, FlagsInvariance, PTL

\* The table is asked for once at most, and exactly if some list needed it.
THEOREM LoadedOnceHolds == ASSUME Flags!FlagsAssumption PROVE Flags!Spec => []Flags!LoadedOnce
<1>1. FlagsInv => Flags!LoadedOnce
  BY DEF FlagsInv, Listing, Flags!LoadedOnce
<1> QED BY <1>1, FlagsInvariance, PTL

\* Once the table is there and the render that was scheduled is over, no list lacks a
\* country that the table has, though a render is scheduled once in the life of the page.
THEOREM NoGapIsLeftHolds == ASSUME Flags!FlagsAssumption PROVE Flags!Spec => []Flags!NoGapIsLeft
<1>1. FlagsInv => Flags!NoGapIsLeft
  BY DEF FlagsInv, Complete, Flags!NoGapIsLeft, Flags!Listed
<1> QED BY <1>1, FlagsInvariance, PTL

-----------------------------------------------------------------------------
(* Recursion over the prefixes of a sequence                               *)

\* What holds of 0 and of the next number holds of the numbers up to n.
LEMMA UpTo ==
    ASSUME NEW n \in Nat, NEW S, 0 \in S, \A i \in 1..n : i - 1 \in S => i \in S
    PROVE  \A i \in 0..n : i \in S
<1> DEFINE bad == {i \in 0..n : i \notin S}
<1> SUFFICES ASSUME bad # {} PROVE FALSE
  OBVIOUS
<1>1. PICK m \in bad : \A k \in bad : m <= k
  <2>1. bad \in SUBSET Nat
    OBVIOUS
  <2> QED BY <2>1, LeastNumber, Zenon
<1>2. m \in 1..n /\ m \notin S /\ m - 1 \in 0..n /\ ~(m <= m - 1)
  <2>1. m \in 0..n /\ m \notin S /\ m # 0
    OBVIOUS
  <2> QED BY <2>1
<1>3. m - 1 \in S
  BY <1>1, <1>2, Zenon
<1> QED BY <1>2, <1>3

\* The values of a loop that makes one of another, n times.
Loop(n, X, first, step) ==
    CHOOSE g \in [0..n -> X] : g[0] = first /\ \A i \in 1..n : g[i] = step[i][g[i - 1]]

\* There are such values.
LEMMA PrefixRecursion ==
    ASSUME NEW n \in Nat, NEW X, NEW first \in X, NEW step, \A x \in X, i \in 1..n : step[i][x] \in X
    PROVE  /\ Loop(n, X, first, step) \in [0..n -> X]
           /\ Loop(n, X, first, step)[0] = first
           /\ \A i \in 1..n : Loop(n, X, first, step)[i] = step[i][Loop(n, X, first, step)[i - 1]]
<1> DEFINE Runs(k) == \E g \in [0..k -> X] : g[0] = first /\ \A i \in 1..k : g[i] = step[i][g[i - 1]]
           good == {k \in 0..n : Runs(k)}
<1>1. Runs(0)
  <2> DEFINE g == [i \in 0..0 |-> first]
  <2>1. g \in [0..0 -> X] /\ g[0] = first /\ \A i \in 1..0 : g[i] = step[i][g[i - 1]]
    OBVIOUS
  <2> QED BY <2>1
<1>2. ASSUME NEW k \in 1..n, Runs(k - 1) PROVE Runs(k)
  <2>1. PICK g \in [0..(k - 1) -> X] : g[0] = first /\ \A i \in 1..(k - 1) : g[i] = step[i][g[i - 1]]
    BY <1>2
  <2> DEFINE h == [i \in 0..k |-> IF i = k THEN step[k][g[k - 1]] ELSE g[i]]
  <2>2. g[k - 1] \in X /\ step[k][g[k - 1]] \in X
    OBVIOUS
  <2>3. h \in [0..k -> X]
    BY <2>2
  <2>4. h[0] = first
    BY <2>1, SMTT(30)
  <2>5. \A i \in 1..k : h[i] = step[i][h[i - 1]]
    <3> SUFFICES ASSUME NEW i \in 1..k PROVE h[i] = step[i][h[i - 1]]
      OBVIOUS
    <3>1. h[i - 1] = g[i - 1]
      OBVIOUS
    <3>2. CASE i = k
      <4>1. h[i] = step[i][g[i - 1]]
        BY <3>2
      <4> HIDE DEF h
      <4> QED BY <3>1, <4>1
    <3>3. CASE i # k
      <4>1. h[i] = g[i] /\ g[i] = step[i][g[i - 1]]
        BY <2>1, <3>3
      <4> HIDE DEF h
      <4> QED BY <3>1, <4>1
    <3> HIDE DEF h
    <3> QED BY <3>2, <3>3, Zenon
  <2> HIDE DEF h
  <2> QED BY <2>3, <2>4, <2>5
<1> HIDE DEF Runs
<1>3. 0 \in good /\ n \in 0..n
  BY <1>1
<1>4. \A i \in 1..n : i - 1 \in good => i \in good
  BY <1>2
<1>5. \A i \in 0..n : i \in good
  <2> HIDE DEF good
  <2> QED BY <1>3, <1>4, UpTo
<1>6. Runs(n)
  BY <1>3, <1>5
<1> QED BY <1>6 DEF Runs, Loop

-----------------------------------------------------------------------------
(* HTTP messages                                                           *)

\* Headers whose names are in N.
HeadersOf(N) == [name : N, form : {"lower", "Title"}, value : Nat]

Values(s) == {s[i] : i \in DOMAIN s}

\* A sequence that gets one more element.
LEMMA AppendValues ==
    ASSUME NEW S, NEW s \in Seq(S), NEW e \in S
    PROVE  Append(s, e) \in Seq(S) /\ Values(Append(s, e)) = Values(s) \cup {e}
<1>1. Append(s, e) \in Seq(S) /\ DOMAIN Append(s, e) = 1..(Len(s) + 1)
  OBVIOUS
<1>2. Append(s, e)[Len(s) + 1] = e /\ \A k \in 1..Len(s) : Append(s, e)[k] = s[k]
  OBVIOUS
<1>3. Len(s) \in Nat /\ DOMAIN s = 1..Len(s) /\ 1..(Len(s) + 1) = 1..Len(s) \cup {Len(s) + 1}
  OBVIOUS
<1>4. \A x \in Values(s) \cup {e} : x \in Values(Append(s, e))
  BY <1>1, <1>2, <1>3 DEF Values
<1>5. \A x \in Values(Append(s, e)) : x \in Values(s) \cup {e}
  <2> SUFFICES ASSUME NEW k \in 1..(Len(s) + 1) PROVE Append(s, e)[k] \in Values(s) \cup {e}
    BY <1>1 DEF Values
  <2>1. CASE k \in 1..Len(s)
    BY <1>2, <1>3, <2>1 DEF Values
  <2>2. CASE k = Len(s) + 1
    BY <1>2, <2>2
  <2> QED BY <1>3, <2>1, <2>2
<1> QED BY <1>1, <1>4, <1>5

\* The headers that pass the daemon, in their order.
LEMMA SanitizeFacts ==
    ASSUME NEW N, NEW headers \in Seq(HeadersOf(N))
    PROVE  /\ Http!Sanitize(headers) \in Seq(HeadersOf(N))
           /\ Values(Http!Sanitize(headers)) =
                 {headers[i] : i \in {k \in DOMAIN headers :
                                        headers[k].name \notin Stripped \cup {"transfer-encoding"}}}
<1> DEFINE n == Len(headers)
           dropped == Stripped \cup {"transfer-encoding"}
           Body(f, i) == IF i = 0 THEN <<>>
                         ELSE IF headers[i].name \in dropped THEN f[i - 1]
                         ELSE Append(f[i - 1], headers[i])
           kept == CHOOSE f : f = [i \in 0..n |-> Body(f, i)]
           step == [i \in 1..n |-> [s \in Seq(HeadersOf(N)) |->
                       IF headers[i].name \in dropped THEN s ELSE Append(s, headers[i])]]
           Passed(i) == {headers[k] : k \in {j \in 1..i : headers[j].name \notin dropped}}
<1>1. Http!Sanitize(headers) = kept[n]
  BY Zenon DEF Http!Sanitize
<1>0. n \in Nat
  OBVIOUS
<1>2. n \in Nat /\ DOMAIN headers = 1..n /\ \A i \in 1..n : headers[i] \in HeadersOf(N)
  OBVIOUS
<1> HIDE DEF n, dropped
<1>3. \A s \in Seq(HeadersOf(N)), i \in 1..n :
        /\ step[i][s] = IF headers[i].name \in dropped THEN s ELSE Append(s, headers[i])
        /\ step[i][s] \in Seq(HeadersOf(N))
  BY <1>2
<1>4. kept = [i \in 0..n |-> Body(kept, i)]
  <2>1. <<>> \in Seq(HeadersOf(N))
    OBVIOUS
  <2> DEFINE g == Loop(n, Seq(HeadersOf(N)), <<>>, step)
  <2>2. g \in [0..n -> Seq(HeadersOf(N))] /\ g[0] = <<>> /\ \A i \in 1..n : g[i] = step[i][g[i - 1]]
    <3> DEFINE X == Seq(HeadersOf(N))
    <3>1. <<>> \in X /\ \A x \in X, i \in 1..n : step[i][x] \in X
      BY <1>3, <2>1
    <3> HIDE DEF step, X
    <3>2. Loop(n, X, <<>>, step) \in [0..n -> X]
      BY <1>0, <3>1, PrefixRecursion
    <3>3. Loop(n, X, <<>>, step)[0] = <<>>
      BY <1>0, <3>1, PrefixRecursion
    <3>4. \A i \in 1..n : Loop(n, X, <<>>, step)[i] = step[i][Loop(n, X, <<>>, step)[i - 1]]
      BY <1>0, <3>1, PrefixRecursion
    <3> QED BY <3>2, <3>3, <3>4 DEF X
  <2> HIDE DEF g
  <2>3. \A i \in 0..n : g[i] = Body(g, i)
    <3> SUFFICES ASSUME NEW i \in 0..n PROVE g[i] = Body(g, i)
      OBVIOUS
    <3>1. CASE i = 0
      BY <2>2, <3>1
    <3>2. CASE i # 0
      <4>1. i \in 1..n /\ g[i - 1] \in Seq(HeadersOf(N))
        BY <1>0, <2>2, <3>2
      <4>2. g[i] = step[i][g[i - 1]]
        BY <2>2, <4>1
      <4> HIDE DEF Body
      <4>3. step[i][g[i - 1]] = Body(g, i)
        BY <3>2, <4>1 DEF Body
      <4> QED BY <4>2, <4>3
    <3> QED BY <3>1, <3>2
  <2>4. g = [i \in 0..n |-> Body(g, i)]
    <3> HIDE DEF Body
    <3> QED BY <2>2, <2>3
  <2> HIDE DEF Body
  <2> QED BY <2>4
<1> HIDE DEF kept, step
<1>5. kept[0] = <<>> /\ \A i \in 1..n : kept[i] = IF headers[i].name \in dropped THEN kept[i - 1]
                                                  ELSE Append(kept[i - 1], headers[i])
  <2>1. \A i \in 0..n : kept[i] = Body(kept, i)
    <3> HIDE DEF Body
    <3> QED BY <1>4
  <2> QED BY <1>2, <2>1
<1> DEFINE good == {i \in 0..n : kept[i] \in Seq(HeadersOf(N)) /\ Values(kept[i]) = Passed(i)}
<1>6. 0 \in good
  <2>1. Passed(0) = {} /\ Values(<<>>) = {} /\ <<>> \in Seq(HeadersOf(N)) /\ 0 \in 0..n
    BY <1>0 DEF Values
  <2> HIDE DEF Passed
  <2> QED BY <1>5, <2>1, Zenon
<1>7. ASSUME NEW i \in 1..n, i - 1 \in good PROVE i \in good
  <2>1. kept[i - 1] \in Seq(HeadersOf(N)) /\ Values(kept[i - 1]) = Passed(i - 1)
    BY <1>7
  <2>2. headers[i] \in HeadersOf(N)
    BY <1>2
  <2>3. CASE headers[i].name \in dropped
    <3>1. Passed(i) = Passed(i - 1)
      <4>1. {j \in 1..i : headers[j].name \notin dropped} = {j \in 1..(i - 1) : headers[j].name \notin dropped}
        BY <1>2, <2>3
      <4> QED BY <4>1
    <3>2. kept[i] = kept[i - 1]
      BY <1>5, <2>3
    <3> HIDE DEF Passed
    <3> QED BY <2>1, <3>1, <3>2
  <2>4. CASE headers[i].name \notin dropped
    <3>1. Passed(i) = Passed(i - 1) \cup {headers[i]}
      <4>1. {j \in 1..i : headers[j].name \notin dropped} = {j \in 1..(i - 1) : headers[j].name \notin dropped} \cup {i}
        BY <1>2, <2>4
      <4> QED BY <4>1
    <3>2. kept[i] = Append(kept[i - 1], headers[i])
      BY <1>5, <2>4
    <3>3. kept[i] \in Seq(HeadersOf(N)) /\ Values(kept[i]) = Values(kept[i - 1]) \cup {headers[i]}
      BY <2>1, <2>2, <3>2, AppendValues
    <3> HIDE DEF Passed
    <3>4. i \in 0..n
      BY <1>0
    <3> QED BY <2>1, <3>1, <3>3, <3>4, Zenon
  <2> QED BY <2>3, <2>4
<1>8. n \in good
  <2> HIDE DEF good
  <2> QED BY <1>2, <1>6, <1>7, UpTo, SMTT(30)
<1>9. kept[n] \in Seq(HeadersOf(N)) /\ Values(kept[n]) = Passed(n)
  <2> HIDE DEF Passed
  <2> QED BY <1>8
<1> QED BY <1>1, <1>2, <1>9 DEF dropped

\* The tokens of a message.
Tokens(N, x, T) == {<<"start", x>>, Http!Break} \cup {Http!Line(h) : h \in HeadersOf(N)} \cup T

Message(x, headers, body) ==
    <<<<"start", x>>, Http!Break>> \o Http!Lines(headers) \o <<Http!Break>> \o body

\* message consists of these headers and this body.
Composed(N, T, x, headers, body, m, message) ==
    /\ headers \in Seq(HeadersOf(N)) /\ m = Len(headers) /\ body \in Seq(T)
    /\ message = Message(x, headers, body)

\* Two sequences in a row.
LEMMA Joined ==
    ASSUME NEW S, NEW s \in Seq(S), NEW t \in Seq(S)
    PROVE  /\ s \o t \in Seq(S) /\ Len(s \o t) = Len(s) + Len(t)
           /\ Len(s) \in Nat /\ Len(t) \in Nat
           /\ \A i \in 1..Len(s) : (s \o t)[i] = s[i]
           /\ \A i \in 1..Len(t) : (s \o t)[Len(s) + i] = t[i]
OBVIOUS

\* What follows the first of two sequences is the second.
LEMMA RestOfJoined ==
    ASSUME NEW S, NEW s \in Seq(S), NEW t \in Seq(S)
    PROVE  SubSeq(s \o t, Len(s) + 1, Len(s \o t)) = t
<1> DEFINE r == SubSeq(s \o t, Len(s) + 1, Len(s \o t))
<1>1. /\ s \o t \in Seq(S) /\ Len(s \o t) = Len(s) + Len(t)
      /\ Len(s) \in Nat /\ Len(t) \in Nat
      /\ \A i \in 1..Len(t) : (s \o t)[Len(s) + i] = t[i]
  BY Joined
<1>2. /\ Len(r) = Len(t) /\ r \in Seq(S)
      /\ \A i \in 1..Len(t) : r[i] = (s \o t)[Len(s) + i]
  <2> DEFINE u == s \o t
             a == Len(s) + 1
             b == Len(s) + Len(t)
  <2>1. u \in Seq(S) /\ a \in 1..(Len(u) + 1) /\ b = Len(u) /\ b \in Nat /\ a \in Nat
    BY <1>1
  <2> HIDE DEF u
  <2>2. Len(SubSeq(u, a, b)) = Len(t) /\ SubSeq(u, a, b) \in Seq(S)
    BY <1>1, <2>1
  <2>3. \A i \in 1..Len(t) : SubSeq(u, a, b)[i] = u[Len(s) + i]
    BY <1>1, <2>1
  <2> QED BY <1>1, <2>1, <2>2, <2>3 DEF u
<1>3. \A i \in 1..Len(t) : r[i] = t[i]
  BY <1>1, <1>2
<1> HIDE DEF r
<1>4. r = t
  BY <1>2, <1>3
<1> QED BY <1>4 DEF r

\* What the tokens of a message are.
LEMMA MessageTokens ==
    ASSUME NEW N, NEW T, NEW x, NEW headers, NEW body, NEW m, NEW message,
           Composed(N, T, x, headers, body, m, message)
    PROVE  /\ message \in Seq(Tokens(N, x, T))
           /\ Len(message) \in Nat /\ Len(message) = 2 * m + 3 + Len(body)
           /\ message[1] = <<"start", x>> /\ message[2 * m + 3] = Http!Break
           /\ \A k \in 0..m : message[2 * k + 2] = Http!Break
           /\ \A k \in 1..m : message[2 * k + 1] = Http!Line(headers[k])
           /\ SubSeq(message, 2 * m + 4, Len(message)) = body
<1> DEFINE S == Tokens(N, x, T)
           first == <<"start", x>>
           lines == Http!Lines(headers)
           a == <<first, Http!Break>>
           ab == a \o lines
           abc == ab \o <<Http!Break>>
           raw == abc \o body
<1> USE DEF Composed
<1>1. /\ first \in S /\ Http!Break \in S /\ \A h \in HeadersOf(N) : Http!Line(h) \in S
      /\ body \in Seq(S)
  <2>1. T \subseteq S
    BY DEF Tokens
  <2>2. body \in Seq(S)
    <3> HIDE DEF S
    <3> QED BY <2>1
  <2> QED BY <2>2 DEF Tokens
<1>2. m \in Nat /\ \A k \in 1..m : headers[k] \in HeadersOf(N)
  OBVIOUS
<1> HIDE DEF S, first
<1>3. /\ lines \in Seq(S) /\ Len(lines) = 2 * m
      /\ \A k \in 1..m : lines[2 * k - 1] = Http!Line(headers[k]) /\ lines[2 * k] = Http!Break
  <2>1. lines = [k \in 1..(2 * m) |-> IF k % 2 = 0 THEN Http!Break ELSE Http!Line(headers[(k + 1) \div 2])]
    BY DEF Http!Lines
  <2>2. \A k \in 1..(2 * m) : k % 2 # 0 => (k + 1) \div 2 \in 1..m
    BY <1>2
  <2>3. \A k \in 1..(2 * m) : lines[k] \in S
    BY <1>1, <1>2, <2>1, <2>2
  <2>4. 2 * m \in Nat
    BY <1>2
  <2>5. lines \in Seq(S) /\ Len(lines) = 2 * m
    <3> DEFINE e(k) == IF k % 2 = 0 THEN Http!Break ELSE Http!Line(headers[(k + 1) \div 2])
    <3>1. \A k \in 1..(2 * m) : e(k) \in S
      BY <2>1, <2>3
    <3>2. lines = [k \in 1..(2 * m) |-> e(k)]
      BY <2>1
    <3> HIDE DEF e, lines
    <3> QED BY <2>4, <3>1, <3>2
  <2>6. ASSUME NEW k \in 1..m PROVE lines[2 * k - 1] = Http!Line(headers[k]) /\ lines[2 * k] = Http!Break
    <3>1. /\ 2 * k - 1 \in 1..(2 * m) /\ 2 * k \in 1..(2 * m)
          /\ (2 * k - 1) % 2 = 1 /\ (2 * k) % 2 = 0 /\ ((2 * k - 1) + 1) \div 2 = k
      BY <1>2
    <3> HIDE DEF lines
    <3> QED BY <2>1, <3>1
  <2> QED BY <2>5, <2>6
<1>4. a \in Seq(S) /\ Len(a) = 2 /\ a[1] = first /\ a[2] = Http!Break
  BY <1>1
<1>5. <<Http!Break>> \in Seq(S) /\ Len(<<Http!Break>>) = 1 /\ <<Http!Break>>[1] = Http!Break
  BY <1>1
<1> HIDE DEF lines, a
<1>6. /\ ab \in Seq(S) /\ Len(ab) = 2 * m + 2 /\ ab[1] = first /\ ab[2] = Http!Break
      /\ \A k \in 1..m : ab[2 * k + 1] = Http!Line(headers[k]) /\ ab[2 * k + 2] = Http!Break
  <2>1. /\ ab \in Seq(S) /\ Len(ab) = Len(a) + Len(lines)
        /\ \A i \in 1..Len(a) : ab[i] = a[i]
        /\ \A i \in 1..Len(lines) : ab[Len(a) + i] = lines[i]
    <3>1. a \in Seq(S) /\ lines \in Seq(S)
      BY <1>3, <1>4
    <3> QED BY <3>1, Joined
  <2> HIDE DEF ab
  <2>2. ASSUME NEW k \in 1..m PROVE ab[2 * k + 1] = Http!Line(headers[k]) /\ ab[2 * k + 2] = Http!Break
    <3>1. /\ 2 * k - 1 \in 1..Len(lines) /\ 2 * k \in 1..Len(lines)
          /\ 2 + (2 * k - 1) = 2 * k + 1 /\ 2 + 2 * k = 2 * k + 2
      BY <1>2, <1>3
    <3>2. ab[2 + (2 * k - 1)] = lines[2 * k - 1] /\ ab[2 + 2 * k] = lines[2 * k]
      BY <1>4, <2>1, <3>1
    <3> QED BY <1>3, <3>1, <3>2
  <2> QED BY <1>2, <1>3, <1>4, <2>1, <2>2
<1> HIDE DEF ab
<1>7. /\ abc \in Seq(S) /\ Len(abc) = 2 * m + 3 /\ abc[2 * m + 3] = Http!Break
      /\ \A i \in 1..(2 * m + 2) : abc[i] = ab[i]
  <2>1. /\ abc \in Seq(S) /\ Len(abc) = Len(ab) + 1
        /\ \A i \in 1..Len(ab) : abc[i] = ab[i]
        /\ \A i \in 1..1 : abc[Len(ab) + i] = <<Http!Break>>[i]
    <3>1. ab \in Seq(S) /\ <<Http!Break>> \in Seq(S)
      BY <1>5, <1>6
    <3> QED BY <1>5, <3>1, Joined
  <2> HIDE DEF abc
  <2>2. (2 * m + 2) + 1 = 2 * m + 3
    BY <1>2
  <2> QED BY <1>5, <1>6, <2>1, <2>2
<1> HIDE DEF abc
<1>8. /\ raw \in Seq(S) /\ Len(raw) = 2 * m + 3 + Len(body) /\ Len(body) \in Nat
      /\ \A i \in 1..(2 * m + 3) : raw[i] = abc[i]
      /\ SubSeq(raw, 2 * m + 4, Len(raw)) = body
  <2>1. (2 * m + 3) + 1 = 2 * m + 4
    BY <1>2
  <2>2. SubSeq(raw, Len(abc) + 1, Len(raw)) = body
    BY <1>1, <1>7, RestOfJoined
  <2>3. abc \in Seq(S) /\ body \in Seq(S)
    BY <1>1, <1>7
  <2>4. /\ raw \in Seq(S) /\ Len(raw) = Len(abc) + Len(body) /\ Len(body) \in Nat
        /\ \A i \in 1..Len(abc) : raw[i] = abc[i]
    BY <2>3, Joined
  <2> HIDE DEF raw
  <2> QED BY <1>7, <2>1, <2>2, <2>4
<1>9. raw = message
  BY DEF Message, abc, ab, a, lines, first
<1> HIDE DEF raw
<1>10. /\ raw[1] = first /\ raw[2 * m + 3] = Http!Break
       /\ \A k \in 0..m : raw[2 * k + 2] = Http!Break
       /\ \A k \in 1..m : raw[2 * k + 1] = Http!Line(headers[k])
  <2>1. \A i \in 1..(2 * m + 2) : raw[i] = ab[i]
    BY <1>2, <1>7, <1>8
  <2>2. raw[1] = first /\ raw[2 * m + 3] = Http!Break
    BY <1>2, <1>6, <1>7, <1>8, <2>1
  <2>3. ASSUME NEW k \in 0..m PROVE raw[2 * k + 2] = Http!Break
    <3>1. 2 * k + 2 \in 1..(2 * m + 2) /\ (k = 0 => 2 * k + 2 = 2) /\ (k # 0 => k \in 1..m)
      BY <1>2
    <3> QED BY <1>6, <2>1, <3>1
  <2>4. ASSUME NEW k \in 1..m PROVE raw[2 * k + 1] = Http!Line(headers[k])
    <3>1. 2 * k + 1 \in 1..(2 * m + 2)
      BY <1>2
    <3> QED BY <1>6, <2>1, <3>1
  <2> QED BY <2>2, <2>3, <2>4
<1>11. Len(raw) \in Nat
  BY <1>2, <1>8
<1> QED BY <1>8, <1>9, <1>10, <1>11 DEF S, first

\* The headers of g, at the places of the lines of a message.
Moved(m, f, g) ==
    /\ DOMAIN f = {2 * k + 1 : k \in 1..m} /\ DOMAIN g = 1..m
    /\ \A k \in 1..m : f[2 * k + 1] = g[k]

\* What is read out of a message is what was put into it.
LEMMA MessageRead ==
    ASSUME NEW N, NEW T, NEW x, NEW headers, NEW body, NEW m, NEW raw,
           Composed(N, T, x, headers, body, m, raw)
    PROVE  /\ Http!Boundary(raw) = 2 * m + 2
           /\ Moved(m, Http!HeadersIn(raw, 2 * m + 2), headers)
           /\ Http!BodyAfter(raw, 2 * m + 2) = body
           /\ raw[1][2] = x
<1> DEFINE blank == {i \in 1..(Len(raw) - 1) : raw[i] = Http!Break /\ raw[i + 1] = Http!Break}
<1>1. /\ Len(raw) \in Nat /\ Len(raw) = 2 * m + 3 + Len(body)
      /\ raw[1] = <<"start", x>> /\ raw[2 * m + 3] = Http!Break
      /\ \A k \in 0..m : raw[2 * k + 2] = Http!Break
      /\ \A k \in 1..m : raw[2 * k + 1] = Http!Line(headers[k])
      /\ SubSeq(raw, 2 * m + 4, Len(raw)) = body
  BY MessageTokens, SMTT(30)
<1>2. m \in Nat /\ Len(body) \in Nat /\ DOMAIN headers = 1..m /\ \A k \in 1..m : headers[k] \in HeadersOf(N)
  BY DEF Composed
<1>3. /\ raw[1][1] = "start" /\ raw[1][2] = x
      /\ \A k \in 1..m : /\ raw[2 * k + 1][1] = "header" /\ raw[2 * k + 1][2] = headers[k].name
                         /\ raw[2 * k + 1][3] = headers[k].form /\ raw[2 * k + 1][4] = headers[k].value
      /\ \A k \in 0..m : raw[2 * k + 2][1] = "crlf"
      /\ Http!Break[1] = "crlf"
  BY <1>1, SMTT(30) DEF Http!Line, Http!Break
<1>4. \A i \in 1..(2 * m + 2) : \/ i = 1
                                \/ \E k \in 1..m : i = 2 * k + 1
                                \/ \E k \in 0..m : i = 2 * k + 2
  <2> SUFFICES ASSUME NEW i \in 1..(2 * m + 2)
               PROVE  i = 1 \/ (\E k \in 1..m : i = 2 * k + 1) \/ (\E k \in 0..m : i = 2 * k + 2)
    OBVIOUS
  <2>1. CASE i % 2 = 0
    <3>1. i \div 2 - 1 \in 0..m /\ i = 2 * (i \div 2 - 1) + 2
      BY <1>2, <2>1
    <3> QED BY <3>1
  <2>2. CASE i % 2 = 1 /\ i # 1
    <3>1. i \div 2 \in 1..m /\ i = 2 * (i \div 2) + 1
      BY <1>2, <2>2
    <3> QED BY <3>1
  <2>3. i % 2 = 0 \/ i % 2 = 1
    BY <1>2
  <2> QED BY <2>1, <2>2, <2>3
<1>5. 2 * m + 2 \in blank
  <2>1. raw[2 * m + 2] = Http!Break
    BY <1>1, <1>2
  <2>2. (2 * m + 2) + 1 = 2 * m + 3 /\ 2 * m + 2 \in 1..(Len(raw) - 1)
    BY <1>1, <1>2
  <2> QED BY <1>1, <2>1, <2>2
<1>6. \A i \in blank : 2 * m + 2 <= i
  <2> SUFFICES ASSUME NEW i \in blank, ~(2 * m + 2 <= i) PROVE FALSE
    OBVIOUS
  <2>1. i \in 1..(2 * m + 1) /\ raw[i] = Http!Break /\ raw[i + 1] = Http!Break
    BY <1>1, <1>2
  <2>2. raw[i][1] = "crlf" /\ raw[i + 1][1] = "crlf"
    BY <1>3, <2>1
  <2>3. PICK k \in 0..m : i = 2 * k + 2
    <3>1. i # 1
      BY <1>3, <2>2
    <3>2. ~(\E k \in 1..m : i = 2 * k + 1)
      BY <1>3, <2>2
    <3>3. i \in 1..(2 * m + 2)
      BY <1>2, <2>1
    <3> QED BY <1>4, <3>1, <3>2, <3>3
  <2>4. k + 1 \in 1..m /\ i + 1 = 2 * (k + 1) + 1
    BY <1>2, <2>1, <2>3
  <2>5. raw[2 * (k + 1) + 1][1] = "header"
    BY <1>3, <2>4
  <2> QED BY <2>2, <2>4, <2>5
<1>7. Http!Boundary(raw) = 2 * m + 2
  <2>1. \A i \in blank : i \in Int
    BY <1>1
  <2>2. Http!Boundary(raw) = IF blank = {} THEN 0 ELSE CHOOSE i \in blank : \A j \in blank : i <= j
    BY DEF Http!Boundary
  <2>3. 2 * m + 2 \in Int
    BY <1>2
  <2> HIDE DEF blank
  <2>4. \A i \in blank : (\A j \in blank : i <= j) => i = 2 * m + 2
    BY <1>5, <1>6, <2>1, <2>3
  <2>5. (CHOOSE i \in blank : \A j \in blank : i <= j) = 2 * m + 2
    BY <1>5, <1>6, <2>4
  <2> QED BY <1>5, <2>2, <2>5
<1>8. {i \in 1..((2 * m + 2) - 1) : raw[i][1] = "header"} = {2 * k + 1 : k \in 1..m}
  <2>1. ASSUME NEW i \in 1..((2 * m + 2) - 1), raw[i][1] = "header" PROVE i \in {2 * k + 1 : k \in 1..m}
    <3>1. i \in 1..(2 * m + 2)
      BY <1>2
    <3>2. i # 1 /\ ~(\E k \in 0..m : i = 2 * k + 2)
      BY <1>3, <2>1
    <3> QED BY <1>4, <3>1, <3>2
  <2>2. ASSUME NEW k \in 1..m
        PROVE  2 * k + 1 \in 1..((2 * m + 2) - 1) /\ raw[2 * k + 1][1] = "header"
    <3>1. 2 * k + 1 \in 1..((2 * m + 2) - 1)
      BY <1>2
    <3> QED BY <1>3, <3>1
  <2> QED BY <2>1, <2>2
<1>9. Http!HeadersIn(raw, 2 * m + 2) =
        [i \in {2 * k + 1 : k \in 1..m} |-> Http!Header(raw[i][2], raw[i][3], raw[i][4])]
  BY <1>8 DEF Http!HeadersIn
<1>10. ASSUME NEW k \in 1..m PROVE Http!HeadersIn(raw, 2 * m + 2)[2 * k + 1] = headers[k]
  <2>1. Http!HeadersIn(raw, 2 * m + 2)[2 * k + 1] =
            Http!Header(raw[2 * k + 1][2], raw[2 * k + 1][3], raw[2 * k + 1][4])
    BY <1>9
  <2>2. Http!Header(headers[k].name, headers[k].form, headers[k].value) = headers[k]
    BY <1>2 DEF Http!Header, HeadersOf
  <2> QED BY <1>3, <2>1, <2>2
<1>11. DOMAIN Http!HeadersIn(raw, 2 * m + 2) = {2 * k + 1 : k \in 1..m}
  BY <1>9
<1>12. Http!BodyAfter(raw, 2 * m + 2) = body
  <2>1. (2 * m + 2) + 2 = 2 * m + 4
    BY <1>2
  <2> QED BY <1>1, <2>1 DEF Http!BodyAfter
<1>13. Moved(m, Http!HeadersIn(raw, 2 * m + 2), headers)
  BY <1>2, <1>10, <1>11 DEF Moved
<1> QED BY <1>3, <1>7, <1>12, <1>13

\* A dict has the same headers wherever the lines were, as long as their order is the same.
LEMMA LastOfEachMoved ==
    ASSUME NEW m \in Nat, NEW f, NEW g, Moved(m, f, g)
    PROVE  Http!LastOfEach(f) = Http!LastOfEach(g)
<1> DEFINE IsLast(h, k) == \A j \in DOMAIN h : k < j => h[k].name # h[j].name \/ h[k].form # h[j].form
<1> USE DEF Moved
<1>1. ASSUME NEW k \in 1..m PROVE IsLast(f, 2 * k + 1) <=> IsLast(g, k)
  <2> DEFINE Differ(a, b) == a.name # b.name \/ a.form # b.form
  <2>1. \A j \in 1..m : 2 * k + 1 < 2 * j + 1 <=> k < j
    OBVIOUS
  <2>2. f[2 * k + 1] = g[k] /\ \A j \in 1..m : f[2 * j + 1] = g[j]
    OBVIOUS
  <2>3. IsLast(f, 2 * k + 1) <=> \A j \in 1..m : 2 * k + 1 < 2 * j + 1 => Differ(f[2 * k + 1], f[2 * j + 1])
    <3>1. DOMAIN f = {2 * j + 1 : j \in 1..m}
      OBVIOUS
    <3> QED BY <3>1, Zenon
  <2>4. IsLast(g, k) <=> \A j \in 1..m : k < j => Differ(g[k], g[j])
    <3>1. DOMAIN g = 1..m
      OBVIOUS
    <3> QED BY <3>1, Zenon
  <2> HIDE DEF IsLast, Differ
  <2> QED BY <2>1, <2>2, <2>3, <2>4, Zenon
<1>2. Http!LastOfEach(f) = {f[i] : i \in {k \in DOMAIN f : IsLast(f, k)}}
  BY DEF Http!LastOfEach
<1>3. Http!LastOfEach(g) = {g[i] : i \in {k \in DOMAIN g : IsLast(g, k)}}
  BY DEF Http!LastOfEach
<1> HIDE DEF IsLast
<1>4. \A e : e \in Http!LastOfEach(f) <=> \E k \in 1..m : IsLast(f, 2 * k + 1) /\ e = f[2 * k + 1]
  BY <1>2
<1>5. \A e : e \in Http!LastOfEach(g) <=> \E k \in 1..m : IsLast(g, k) /\ e = g[k]
  BY <1>3
<1> QED BY <1>1, <1>4, <1>5

\* As lower-cased.
Lowered(headers) == [i \in DOMAIN headers |-> Http!Header(headers[i].name, "lower", headers[i].value)]

\* Both ends read the start line, the last header of each name, and the body.
LEMMA MessageParsed ==
    ASSUME NEW N, NEW T, NEW x, NEW headers, NEW body, NEW m, NEW raw,
           Composed(N, T, x, headers, body, m, raw)
    PROVE  /\ Http!Boundary(raw) # 0
           /\ Http!ParseRequest(raw) =
                 [start |-> x, headers |-> Http!LastOfEach(headers), body |-> body]
           /\ Http!ParseResponse(raw) =
                 [start |-> x, headers |-> Http!LastOfEach(Lowered(headers)), body |-> body]
<1> DEFINE found == Http!HeadersIn(raw, 2 * m + 2)
<1>1. /\ Http!Boundary(raw) = 2 * m + 2 /\ Moved(m, found, headers)
      /\ Http!BodyAfter(raw, 2 * m + 2) = body
      /\ raw[1][2] = x
  BY MessageRead
<1>2. m \in Nat
  BY DEF Composed
<1> HIDE DEF found
<1>3. 2 * m + 2 # 0
  BY <1>2
<1>4. Http!LastOfEach(found) = Http!LastOfEach(headers)
  BY <1>1, <1>2, LastOfEachMoved
<1>5. Http!LastOfEach(Lowered(found)) = Http!LastOfEach(Lowered(headers))
  <2>1. Moved(m, Lowered(found), Lowered(headers))
    <3>1. \A k \in 1..m : 2 * k + 1 \in DOMAIN found /\ k \in DOMAIN headers
      BY <1>1 DEF Moved
    <3> QED BY <1>1, <3>1 DEF Moved, Lowered
  <2> QED BY <1>2, <2>1, LastOfEachMoved
<1>6. Http!ParseRequest(raw) = [start |-> x, headers |-> Http!LastOfEach(headers), body |-> body]
  BY <1>1, <1>4 DEF Http!ParseRequest, found
<1>7. Http!ParseResponse(raw) = [start |-> x, headers |-> Http!LastOfEach(Lowered(headers)), body |-> body]
  BY <1>1, <1>5 DEF Http!ParseResponse, found, Lowered
<1> QED BY <1>1, <1>3, <1>6, <1>7

\* A number of two bytes is read as it was written.
LEMMA WordRead ==
    ASSUME NEW b \in Nat \ {0, 1}, NEW n \in 0..(b * b - 1)
    PROVE  ((n \div b) % b) * b + (n % b) = n
<1> DEFINE q == n \div b
           r == n % b
<1>1. n \in Nat
  <2>1. b * b \in Nat
    OBVIOUS
  <2> QED BY <2>1
<1>2. q \in Nat /\ r \in 0..(b - 1) /\ n = b * q + r
  BY <1>1, DivisionFacts
<1> HIDE DEF q, r
<1>3. q < b
  <2> SUFFICES ASSUME b <= q PROVE FALSE
    BY <1>2
  <2>1. b * b <= b * q /\ b * b \in Nat /\ b * q \in Nat
    BY <1>2
  <2> QED BY <1>1, <1>2, <2>1
<1>4. q % b = q
  BY <1>2, <1>3
<1>5. q * b = b * q /\ q * b \in Nat
  BY <1>2
<1>6. (q % b) * b + r = n
  BY <1>2, <1>4, <1>5
<1> QED BY <1>6 DEF q, r

\* The daemon and the browser read the stream, the port and the payload of a frame.
LEMMA FrameRead ==
    ASSUME Http!ExchangeAssumption, NEW id \in StreamIds, NEW port \in StreamPorts, NEW T, NEW rest \in Seq(T)
    PROVE  Http!DecodeFrame(Http!EncodeFrame(id, port, rest)) =
              [id |-> id, port |-> port, payload |-> rest]
<1> DEFINE S == T \cup {<<"byte", v>> : v \in Nat}
           byte(v) == <<"byte", v>>
           hi(n) == byte((n \div Byte) % Byte)
           lo(n) == byte(n % Byte)
           head == Http!Word(id) \o Http!Word(port) \o <<byte(1)>>
           frame == head \o rest
<1>1. /\ Byte \in Nat \ {0, 1} /\ Byte * Byte \in Nat
      /\ id \in 0..(Byte * Byte - 1) /\ port \in 0..(Byte * Byte - 1)
  BY DEF Http!ExchangeAssumption
<1>2. ASSUME NEW n \in 0..(Byte * Byte - 1)
      PROVE  /\ hi(n) \in S /\ lo(n) \in S
             /\ hi(n)[2] * Byte + lo(n)[2] = n
  <2>1. n \in Nat
    BY <1>1
  <2>2. n \div Byte \in Nat /\ n % Byte \in Nat /\ (n \div Byte) % Byte \in Nat
    <3>1. Byte \in Nat \ {0}
      BY <1>1
    <3>2. \A k \in Nat : k \div Byte \in Nat /\ k % Byte \in 0..(Byte - 1)
      BY <3>1, DivisionFacts
    <3>3. \A k \in 0..(Byte - 1) : k \in Nat
      BY <3>1
    <3> QED BY <2>1, <3>2, <3>3, Zenon
  <2>3. hi(n)[2] = (n \div Byte) % Byte /\ lo(n)[2] = n % Byte
    OBVIOUS
  <2>4. ((n \div Byte) % Byte) * Byte + (n % Byte) = n
    BY <1>1, WordRead
  <2>5. hi(n) \in S /\ lo(n) \in S
    BY <2>2
  <2> HIDE DEF hi, lo, S
  <2> QED BY <2>3, <2>4, <2>5
<1>3. Http!Word(id) = <<hi(id), lo(id)>> /\ Http!Word(port) = <<hi(port), lo(port)>>
  BY DEF Http!Word
<1>4. byte(1) \in S /\ rest \in Seq(S)
  <2>1. T \subseteq S /\ byte(1) \in S
    OBVIOUS
  <2> HIDE DEF S, byte
  <2> QED BY <2>1
<1>5. hi(id) \in S /\ lo(id) \in S /\ hi(port) \in S /\ lo(port) \in S
  BY <1>1, <1>2
<1> HIDE DEF S, hi, lo, byte
<1>6. /\ head \in Seq(S) /\ Len(head) = 5
      /\ head[1] = hi(id) /\ head[2] = lo(id) /\ head[3] = hi(port) /\ head[4] = lo(port)
  BY <1>3, <1>4, <1>5
<1>7. Http!EncodeFrame(id, port, rest) = frame
  BY DEF Http!EncodeFrame, byte
<1> HIDE DEF head
<1>8. \A i \in 1..4 : frame[i] = head[i]
  <2>1. head \in Seq(S) /\ rest \in Seq(S)
    BY <1>4, <1>6
  <2>2. \A i \in 1..Len(head) : (head \o rest)[i] = head[i]
    BY <2>1, Joined, Zenon
  <2>3. frame = head \o rest
    OBVIOUS
  <2> HIDE DEF frame
  <2>4. Len(head) = 5
    BY <1>6, Zenon
  <2>5. \A i \in 1..4 : i \in 1..Len(head)
    BY <2>4
  <2> QED BY <2>2, <2>3, <2>5, Zenon
<1>9. SubSeq(frame, 6, Len(frame)) = rest
  <2>1. SubSeq(frame, Len(head) + 1, Len(frame)) = rest
    BY <1>4, <1>6, RestOfJoined
  <2> QED BY <1>6, <2>1
<1> HIDE DEF frame
<1>10. /\ frame[1][2] * Byte + frame[1 + 1][2] = id
       /\ frame[3][2] * Byte + frame[3 + 1][2] = port
  <2>1. 1 + 1 = 2 /\ 3 + 1 = 4
    OBVIOUS
  <2> QED BY <1>1, <1>2, <1>6, <1>8, <2>1
<1> QED BY <1>7, <1>9, <1>10 DEF Http!DecodeFrame

\* The chunks of a response, of which there is one at most.
LEMMA ConcatFacts ==
    ASSUME NEW T, NEW p \in Seq(T)
    PROVE  Http!Concat(<<>>) = <<>> /\ Http!Concat(<<p>>) = p
<1> DEFINE Body(parts, f, i) == IF i = 0 THEN <<>> ELSE f[i - 1] \o parts[i]
           Joined1(parts) == CHOOSE f : f = [i \in 0..Len(parts) |-> Body(parts, f, i)]
<1>1. \A parts : Http!Concat(parts) = Joined1(parts)[Len(parts)]
  BY Zenon DEF Http!Concat
<1>2. Joined1(<<>>)[Len(<<>>)] = <<>>
  <2> DEFINE f == [i \in 0..0 |-> <<>>]
  <2>1. f = [i \in 0..Len(<<>>) |-> Body(<<>>, f, i)]
    OBVIOUS
  <2> HIDE DEF Body, f
  <2>2. Joined1(<<>>) = [i \in 0..Len(<<>>) |-> Body(<<>>, Joined1(<<>>), i)]
    BY <2>1
  <2> HIDE DEF Joined1
  <2>3. Joined1(<<>>)[0] = Body(<<>>, Joined1(<<>>), 0) /\ Len(<<>>) = 0
    BY <2>2
  <2> QED BY <2>3 DEF Body
<1>3. Joined1(<<p>>)[Len(<<p>>)] = p
  <2> DEFINE parts == <<p>>
             f == [i \in 0..1 |-> IF i = 0 THEN <<>> ELSE <<>> \o p]
  <2>1. Len(parts) = 1 /\ parts[1] = p
    OBVIOUS
  <2> HIDE DEF parts
  <2>2. \A i \in 0..1 : f[i] = Body(parts, f, i)
    <3>1. f[0] = Body(parts, f, 0)
      OBVIOUS
    <3>2. f[1] = <<>> \o p /\ f[1 - 1] = <<>>
      OBVIOUS
    <3> HIDE DEF f
    <3>3. f[1] = Body(parts, f, 1)
      <4>1. Body(parts, f, 1) = f[1 - 1] \o parts[1]
        <5>1. 1 # 0
          OBVIOUS
        <5> QED BY <5>1, Zenon
      <4> HIDE DEF Body
      <4> QED BY <2>1, <3>2, <4>1, Zenon
    <3> HIDE DEF Body
    <3> QED BY <3>1, <3>3
  <2>3. f = [i \in 0..Len(parts) |-> Body(parts, f, i)]
    <3> HIDE DEF Body
    <3> QED BY <2>1, <2>2
  <2> HIDE DEF Body, f
  <2>4. Joined1(parts) = [i \in 0..Len(parts) |-> Body(parts, Joined1(parts), i)]
    BY <2>3
  <2> DEFINE g == Joined1(parts)
  <2> HIDE DEF Joined1
  <2>5. g[0] = Body(parts, g, 0) /\ g[1] = Body(parts, g, 1)
    BY <2>1, <2>4
  <2> HIDE DEF g
  <2>6. g[0] = <<>> /\ g[1] = g[1 - 1] \o p
    BY <2>1, <2>5 DEF Body
  <2>7. g[1] = <<>> \o p
    BY <2>6
  <2>8. <<>> \o p = p
    OBVIOUS
  <2> QED BY <2>1, <2>7, <2>8 DEF g, parts
<1> QED BY <1>1, <1>2, <1>3

\* No name occurs twice.
Distinct(s) == \A i, j \in DOMAIN s : i # j => s[i].name # s[j].name

\* t is s with e added in front or at the end.
Added(s, e, t) == t \in {<<e>> \o s, s \o <<e>>}

\* What a list has then, whose names stay distinct if the new one is not among them.
LEMMA OneMoreHeader ==
    ASSUME NEW S, NEW s \in Seq(S), NEW e \in S, NEW t, Added(s, e, t)
    PROVE  /\ t \in Seq(S) /\ Values(t) = Values(s) \cup {e}
           /\ Distinct(s) /\ (\A i \in DOMAIN s : s[i].name # e.name) => Distinct(t)
<1>1. <<e>> \in Seq(S) /\ Len(<<e>>) = 1 /\ <<e>>[1] = e
  OBVIOUS
<1>2. Len(s) \in Nat /\ DOMAIN s = 1..Len(s)
  OBVIOUS
<1> USE DEF Added
<1>3. t \in Seq(S) /\ DOMAIN t = 1..(Len(s) + 1)
  <2>1. CASE t = <<e>> \o s
    BY <1>1, <1>2, <2>1
  <2>2. CASE t = s \o <<e>>
    BY <1>1, <1>2, <2>2, SMTT(30)
  <2> QED BY <2>1, <2>2
\* Where the header is, and where the others were.
<1> DEFINE at == IF t = <<e>> \o s THEN 1 ELSE Len(s) + 1
           from(i) == IF t = <<e>> \o s THEN i - 1 ELSE i
           to(i) == IF t = <<e>> \o s THEN i + 1 ELSE i
<1>4. /\ at \in DOMAIN t /\ t[at] = e
      /\ \A i \in DOMAIN t : i # at => from(i) \in DOMAIN s /\ t[i] = s[from(i)]
      /\ \A i \in DOMAIN s : to(i) \in DOMAIN t /\ t[to(i)] = s[i]
      /\ \A i, j \in DOMAIN t : i # j => from(i) # from(j)
  <2>1. CASE t = <<e>> \o s
    <3>1. /\ \A i \in 1..1 : t[i] = <<e>>[i]
          /\ \A i \in 1..Len(s) : t[1 + i] = s[i]
      BY <1>1, <2>1, Joined
    <3>2. t[1] = e /\ \A i \in 1..Len(s) : t[i + 1] = s[i]
      BY <1>1, <1>2, <3>1
    <3>3. ASSUME NEW i \in 1..(Len(s) + 1), i # 1 PROVE i - 1 \in 1..Len(s) /\ t[i] = s[i - 1]
      <4>1. i - 1 \in 1..Len(s) /\ (i - 1) + 1 = i
        BY <1>2, <3>3
      <4> QED BY <3>2, <4>1
    <3> QED BY <1>2, <1>3, <2>1, <3>2, <3>3
  <2>2. CASE t # <<e>> \o s
    <3>1. t = s \o <<e>>
      BY <2>2
    <3>2. /\ \A i \in 1..Len(s) : t[i] = s[i]
          /\ \A i \in 1..1 : t[Len(s) + i] = <<e>>[i]
      BY <1>1, <3>1, Joined
    <3>3. t[Len(s) + 1] = e
      BY <1>1, <3>2
    <3>4. at = Len(s) + 1 /\ \A i : from(i) = i /\ to(i) = i
      BY <2>2
    <3> HIDE DEF at, from, to
    <3>5. \A i \in 1..(Len(s) + 1) : i # Len(s) + 1 => i \in 1..Len(s)
      BY <1>2
    <3>6. \A i \in 1..Len(s) : i \in 1..(Len(s) + 1)
      BY <1>2
    <3>7. Len(s) + 1 \in 1..(Len(s) + 1)
      BY <1>2
    <3> QED BY <1>2, <1>3, <3>2, <3>3, <3>4, <3>5, <3>6, <3>7
  <2> QED BY <2>1, <2>2
<1> HIDE DEF at, from, to
<1>5. Values(t) = Values(s) \cup {e}
  <2>1. ASSUME NEW i \in DOMAIN t PROVE t[i] \in Values(s) \cup {e}
    <3>1. CASE i = at
      BY <1>4, <3>1, Zenon
    <3>2. CASE i # at
      BY <1>4, <3>2, Zenon DEF Values
    <3> QED BY <3>1, <3>2
  <2>2. ASSUME NEW i \in DOMAIN s PROVE s[i] \in Values(t)
    BY <1>4, Zenon DEF Values
  <2>3. e \in Values(t)
    BY <1>4, Zenon DEF Values
  <2> QED BY <2>1, <2>2, <2>3, Zenon DEF Values
<1>6. ASSUME Distinct(s), \A i \in DOMAIN s : s[i].name # e.name PROVE Distinct(t)
  <2> SUFFICES ASSUME NEW i \in DOMAIN t, NEW j \in DOMAIN t, i # j PROVE t[i].name # t[j].name
    BY DEF Distinct
  <2>1. CASE i = at \/ j = at
    BY <1>4, <1>6, <2>1
  <2>2. CASE i # at /\ j # at
    BY <1>4, <1>6, <2>2 DEF Distinct
  <2> QED BY <2>1, <2>2
<1> QED BY <1>3, <1>5, <1>6

\* Nothing is added.
LEMMA NoMoreHeaders == ASSUME NEW S, NEW s \in Seq(S) PROVE <<>> \o s = s /\ s \o <<>> = s
OBVIOUS

\* A dict keeps every header if no name occurs twice.
LEMMA DistinctKept ==
    ASSUME NEW S, NEW s \in Seq(S), Distinct(s)
    PROVE  Http!LastOfEach(s) = Values(s)
<1>1. ASSUME NEW k \in DOMAIN s, NEW j \in DOMAIN s, k < j PROVE s[k].name # s[j].name
  <2>1. k # j
    <3>1. k \in Int /\ j \in Int
      OBVIOUS
    <3> QED BY <1>1, <3>1
  <2> QED BY <2>1 DEF Distinct
<1> QED BY <1>1 DEF Http!LastOfEach, Values

-----------------------------------------------------------------------------
(* What is read out of requests and responses                              *)

\* The names of a message, with those that the program adds.
NamesOf(headers) == {headers[i].name : i \in DOMAIN headers} \cup Http!FramingNames \cup {"host"}

\* When no header has a name.
LEMMA NamedFacts ==
    ASSUME NEW headers, NEW name
    PROVE  Http!Named(headers, name) = {} <=> \A i \in DOMAIN headers : headers[i].name # name
BY DEF Http!Named

\* The headers and the bodies that are sent.
LEMMA SentTypes ==
    ASSUME Http!ExchangeAssumption
    PROVE  /\ \A headers \in Callers \cup Backends : headers \in Seq(HeadersOf(NamesOf(headers)))
           /\ \A headers \in Callers : Distinct(headers)
           /\ \A headers \in Backends : \A i \in DOMAIN headers : headers[i].name \notin Http!FramingNames
           /\ \A body \in Bodies : body \in Seq(Values(body)) /\ Len(body) \in Nat
<1>1. ASSUME NEW headers \in Callers \cup Backends PROVE headers \in Seq(HeadersOf(NamesOf(headers)))
  <2> DEFINE N == {headers[i].name : i \in DOMAIN headers}
             S == [name : N, form : {"lower", "Title"}, value : Nat]
  <2>1. headers \in Seq(S)
    BY DEF Http!ExchangeAssumption
  <2>2. S \subseteq HeadersOf(NamesOf(headers))
    BY DEF HeadersOf, NamesOf
  <2> HIDE DEF S
  <2> QED BY <2>1, <2>2
<1>2. \A headers \in Callers : Distinct(headers)
  BY DEF Http!ExchangeAssumption, Distinct
<1>3. \A body \in Bodies : body \in Seq(Values(body))
  BY DEF Http!ExchangeAssumption, Values
<1>4. ASSUME NEW body \in Bodies PROVE Len(body) \in Nat
  <2> DEFINE S == Values(body)
  <2>1. body \in Seq(S)
    BY <1>3
  <2> HIDE DEF S
  <2> QED BY <2>1
<1> QED BY <1>1, <1>2, <1>3, <1>4 DEF Http!ExchangeAssumption

\* The daemon reads what was asked, and one Host header.
LEMMA RequestRead ==
    ASSUME Http!ExchangeAssumption, NEW c, c.headers \in Callers, c.body \in Bodies,
           NEW raw, raw = Http!EncodeRequest(c)
    PROVE  /\ raw \in Seq(Tokens(NamesOf(c.headers), "request", Values(c.body)))
           /\ Http!ParseRequest(raw).start = "request" /\ Http!ParseRequest(raw).body = c.body
           /\ \A i \in DOMAIN c.headers : c.headers[i] \in Http!ParseRequest(raw).headers
           /\ \E h : {g \in Http!ParseRequest(raw).headers : g.name = "host"} = {h}
<1> DEFINE N == NamesOf(c.headers)
           S == HeadersOf(N)
           T == Values(c.body)
           hostHeader == Http!Header("host", "Title", 0)
           lengthHeader == Http!Header("content-length", "Title", Len(c.body))
           noHost == Http!Named(c.headers, "host") = {}
           noLength == ~(c.body = <<>> \/ Http!Named(c.headers, "content-length") # {})
           host == IF Http!Named(c.headers, "host") # {} THEN <<>> ELSE <<hostHeader>>
           length == IF c.body = <<>> \/ Http!Named(c.headers, "content-length") # {}
                     THEN <<>> ELSE <<lengthHeader>>
           front == host \o c.headers
           all == front \o length
<1>1. /\ c.headers \in Seq(S) /\ Distinct(c.headers)
      /\ c.body \in Seq(T) /\ Len(c.body) \in Nat
  BY SentTypes
<1>2. /\ hostHeader \in S /\ lengthHeader \in S
      /\ hostHeader.name = "host" /\ lengthHeader.name = "content-length"
  BY <1>1 DEF Http!Header, HeadersOf, NamesOf, Http!FramingNames
<1>3. \A i \in DOMAIN c.headers : c.headers[i] \in Values(c.headers)
  BY DEF Values
<1> HIDE DEF S, T, N, hostHeader, lengthHeader
<1>4. /\ front \in Seq(S) /\ Distinct(front) /\ Values(c.headers) \subseteq Values(front)
      /\ \E h \in Values(front) : h.name = "host"
      /\ \A h \in Values(front) : h \in Values(c.headers) \/ h.name = "host"
  <2>1. CASE noHost
    <3>1. front = <<hostHeader>> \o c.headers
      BY <2>1
    <3>2. \A i \in DOMAIN c.headers : c.headers[i].name # hostHeader.name
      BY <1>2, <2>1, NamedFacts
    <3> HIDE DEF front
    <3>3. c.headers \in Seq(S) /\ hostHeader \in S /\ Added(c.headers, hostHeader, front)
      BY <1>1, <1>2, <3>1 DEF Added
    <3>4. front \in Seq(S) /\ Values(front) = Values(c.headers) \cup {hostHeader}
      BY <3>3, OneMoreHeader
    <3>5. Distinct(front)
      BY <1>1, <3>2, <3>3, OneMoreHeader, Zenon
    <3> QED BY <1>2, <3>4, <3>5
  <2>2. CASE ~noHost
    <3>1. front = c.headers
      BY <1>1, <2>2, NoMoreHeaders
    <3>2. \E i \in DOMAIN c.headers : c.headers[i].name = "host"
      BY <2>2, NamedFacts
    <3> HIDE DEF front
    <3> QED BY <1>1, <1>3, <3>1, <3>2
  <2> QED BY <2>1, <2>2
<1> HIDE DEF front
<1>5. /\ all \in Seq(S) /\ Distinct(all) /\ Values(front) \subseteq Values(all)
  <2>1. CASE noLength
    <3>1. all = front \o <<lengthHeader>>
      BY <2>1
    <3>2. \A i \in DOMAIN front : front[i].name # lengthHeader.name
      <4>1. \A i \in DOMAIN c.headers : c.headers[i].name # "content-length"
        BY <2>1, NamedFacts
      <4>2. \A h \in Values(c.headers) : h.name # "content-length"
        BY <4>1 DEF Values
      <4>3. \A i \in DOMAIN front : front[i] \in Values(front)
        BY DEF Values
      <4> QED BY <1>2, <1>4, <4>2, <4>3
    <3> HIDE DEF all
    <3>3. front \in Seq(S) /\ lengthHeader \in S /\ Added(front, lengthHeader, all)
      BY <1>2, <1>4, <3>1 DEF Added
    <3>4. all \in Seq(S) /\ Values(all) = Values(front) \cup {lengthHeader}
      BY <3>3, OneMoreHeader
    <3>5. Distinct(all)
      BY <1>4, <3>2, <3>3, OneMoreHeader, Zenon
    <3> QED BY <3>4, <3>5
  <2>2. CASE ~noLength
    <3>1. all = front
      BY <1>4, <2>2, NoMoreHeaders
    <3> QED BY <1>4, <3>1
  <2> QED BY <2>1, <2>2
<1>6. raw = Message("request", all, c.body)
  BY DEF Http!EncodeRequest, Message, all, front, hostHeader, lengthHeader
<1> HIDE DEF all
<1>7. Composed(N, T, "request", all, c.body, Len(all), raw)
  BY <1>1, <1>5, <1>6 DEF Composed, S
<1>8. Http!ParseRequest(raw) = [start |-> "request", headers |-> Values(all), body |-> c.body]
  BY <1>5, <1>7, MessageParsed, DistinctKept
<1>9. raw \in Seq(Tokens(N, "request", T))
  BY <1>7, MessageTokens
<1>10. PICK h \in Values(all) : h.name = "host"
  BY <1>4, <1>5
<1>11. {g \in Values(all) : g.name = "host"} = {h}
  <2>1. ASSUME NEW g \in Values(all), g.name = "host" PROVE g = h
    <3>1. PICK i \in DOMAIN all, j \in DOMAIN all : g = all[i] /\ h = all[j]
      BY <1>10 DEF Values
    <3> QED BY <1>5, <1>10, <2>1, <3>1 DEF Distinct
  <2> QED BY <1>10, <2>1
<1>12. \E h1 : {g \in Http!ParseRequest(raw).headers : g.name = "host"} = {h1}
  <2>1. Http!ParseRequest(raw).headers = Values(all)
    BY <1>8
  <2> QED BY <1>11, <2>1
<1>13. \A i \in DOMAIN c.headers : c.headers[i] \in Values(all)
  BY <1>3, <1>4, <1>5, Zenon
<1>14. /\ Http!ParseRequest(raw).start = "request" /\ Http!ParseRequest(raw).body = c.body
       /\ Http!ParseRequest(raw).headers = Values(all)
  BY <1>8
<1> QED BY <1>9, <1>12, <1>13, <1>14, Zenon DEF N, T

\* The ending of the headers of a name is the one that is read.
LEMMA LowerCased ==
    ASSUME NEW S, NEW s \in Seq(S)
    PROVE  /\ \A h \in Http!LastOfEach(Lowered(s)) :
                 \E g \in Values(s) : h = Http!Header(g.name, "lower", g.value)
           /\ \A g \in Values(s) : \E h \in Http!LastOfEach(Lowered(s)) : h.name = g.name
<1> DEFINE low == Lowered(s)
           n == Len(s)
<1>1. n \in Nat /\ DOMAIN s = 1..n
  OBVIOUS
<1>2. /\ DOMAIN low = DOMAIN s
      /\ \A i \in DOMAIN s : /\ low[i] = Http!Header(s[i].name, "lower", s[i].value)
                             /\ low[i].name = s[i].name /\ low[i].form = "lower"
  BY DEF Lowered, Http!Header
<1> HIDE DEF low, n
<1>3. ASSUME NEW h \in Http!LastOfEach(low)
      PROVE  \E g \in Values(s) : h = Http!Header(g.name, "lower", g.value)
  BY <1>2 DEF Http!LastOfEach, Values
<1>4. ASSUME NEW g \in Values(s) PROVE \E h \in Http!LastOfEach(low) : h.name = g.name
  <2>1. PICK i \in 1..n : g = s[i]
    BY <1>1 DEF Values
  <2> DEFINE distances == {n - j : j \in {k \in 1..n : s[k].name = g.name}}
  <2>2. distances \in SUBSET Nat /\ n - i \in distances
    BY <1>1, <2>1
  <2>3. PICK d \in distances : \A k \in distances : d <= k
    <3> HIDE DEF distances
    <3>1. distances # {}
      BY <2>2
    <3> QED BY <2>2, <3>1, LeastNumber, Zenon
  <2>4. PICK j \in 1..n : s[j].name = g.name /\ d = n - j
    OBVIOUS
  <2>5. ASSUME NEW k \in 1..n, j < k PROVE s[k].name # g.name
    <3> SUFFICES ASSUME s[k].name = g.name PROVE FALSE
      OBVIOUS
    <3>1. n - k \in distances
      OBVIOUS
    <3>2. d <= n - k
      <4> HIDE DEF distances
      <4> QED BY <2>3, <3>1
    <3> QED BY <1>1, <2>4, <2>5, <3>2
  <2>6. low[j] \in Http!LastOfEach(low)
    <3>1. \A k \in DOMAIN low : j < k => low[j].name # low[k].name
      <4> SUFFICES ASSUME NEW k \in DOMAIN low, j < k PROVE low[j].name # low[k].name
        OBVIOUS
      <4>1. k \in 1..n
        BY <1>1, <1>2
      <4>2. s[k].name # g.name
        BY <2>5, <4>1
      <4> QED BY <1>1, <1>2, <2>4, <4>1, <4>2
    <3>2. j \in DOMAIN low
      BY <1>1, <1>2
    <3> QED BY <3>1, <3>2 DEF Http!LastOfEach
  <2>7. low[j].name = g.name
    BY <1>1, <1>2, <2>4
  <2> QED BY <2>6, <2>7
<1> QED BY <1>3, <1>4 DEF low

\* What a backend answers, and what the daemon makes of it.
Response(headers, framing, body) == [start |-> "200", headers |-> headers \o framing, body |-> body]

Daemonised(a) == Http!Compose([a EXCEPT !.headers = Http!Sanitize(@)])

\* passed are the headers of the backend a that pass, and one length.
Sent(S, headers, a, passed, length) ==
    /\ passed \in Seq(S) /\ length \in S
    /\ length.name = "content-length" /\ Http!IsLength(length.value, a)
    /\ Values(passed) = {h \in Values(headers) : h.name \notin Stripped} \cup {length}

\* The header lines that the daemon sends.
LEMMA ResponseHeaders ==
    ASSUME Http!ExchangeAssumption, NEW headers \in Backends, NEW body \in Bodies,
           NEW framing \in Http!Framings(body), NEW S, S = HeadersOf(NamesOf(headers)),
           NEW a, a = Response(headers, framing, body)
    PROVE  /\ \E passed, length : Sent(S, headers, a, passed, length) /\ Daemonised(a) = Message("200", passed, body)
           /\ {a.headers[i].name : i \in DOMAIN a.headers} \ Http!FramingNames =
                 {h.name : h \in Values(headers)}
<1> DEFINE N == NamesOf(headers)
           told == Http!Header("content-length", "Title", Len(body))
           answered == headers \o framing
           clean == Http!Sanitize(answered)
           length == IF Http!Named(clean, "content-length") # {} THEN <<>> ELSE <<told>>
           passed == clean \o length
           Passed == {h \in Values(headers) : h.name \notin Stripped}
<1>1. /\ headers \in Seq(S) /\ Len(body) \in Nat
      /\ \A h \in Values(headers) : h.name \notin Http!FramingNames
  BY SentTypes DEF Values
<1>2. \/ framing = <<>>
      \/ \E ending \in S : framing = <<ending>> /\ ending.name \in {"content-length", "transfer-encoding"}
  BY <1>1 DEF Http!Framings, Http!Header, HeadersOf, NamesOf, Http!FramingNames, Http!ExchangeAssumption
<1>3. told \in S /\ told.name = "content-length" /\ told.value = Len(body)
  BY <1>1 DEF Http!Header, HeadersOf, NamesOf, Http!FramingNames
<1>4. /\ "content-length" \notin Stripped /\ "content-length" # "transfer-encoding"
      /\ \A name : name \in Http!FramingNames <=> name \in {"content-length", "transfer-encoding"}
  BY DEF Http!ExchangeAssumption, Http!FramingNames
<1>5. PICK Ends :
        /\ answered \in Seq(S) /\ Values(answered) = Values(headers) \cup Ends
        /\ \/ Ends = {}
           \/ \E ending : Ends = {ending} /\ ending.name \in {"content-length", "transfer-encoding"}
  <2>1. CASE framing = <<>>
    <3>1. answered = headers
      BY <1>1, <2>1, NoMoreHeaders
    <3>2. answered \in Seq(S) /\ Values(answered) = Values(headers) \cup {}
      BY <1>1, <3>1
    <3> HIDE DEF answered
    <3> QED BY <3>2
  <2>2. ASSUME NEW ending \in S, framing = <<ending>>, ending.name \in {"content-length", "transfer-encoding"}
        PROVE  answered \in Seq(S) /\ Values(answered) = Values(headers) \cup {ending}
    <3>1. headers \in Seq(S) /\ ending \in S /\ Added(headers, ending, answered)
      BY <1>1, <2>2 DEF Added
    <3> HIDE DEF answered
    <3> QED BY <3>1, OneMoreHeader
  <2> HIDE DEF answered
  <2> QED BY <1>2, <2>1, <2>2
<1>a. a.headers = answered /\ a.body = body
  BY DEF Response
<1> HIDE DEF told, answered
<1>6. /\ clean \in Seq(S)
      /\ Values(clean) = {h \in Values(answered) : h.name \notin Stripped \cup {"transfer-encoding"}}
  <2>1. answered \in Seq(HeadersOf(N))
    BY <1>5
  <2>2. /\ clean \in Seq(HeadersOf(N))
        /\ Values(clean) = {answered[i] : i \in {k \in DOMAIN answered :
                              answered[k].name \notin Stripped \cup {"transfer-encoding"}}}
    BY <2>1, SanitizeFacts
  <2> HIDE DEF clean, N
  <2>3. Values(clean) = {h \in Values(answered) : h.name \notin Stripped \cup {"transfer-encoding"}}
    BY <2>2 DEF Values
  <2> QED BY <2>2, <2>3 DEF N
<1> HIDE DEF clean
<1>7. ASSUME NEW ending, Ends = {ending}, ending.name = "content-length"
      PROVE  \E length1 : Sent(S, headers, a, passed, length1)
  <2>0. \A h \in Values(answered) : h.name = "content-length" => h = ending
    BY <1>1, <1>4, <1>5, <1>7
  <2>1. Values(clean) = Passed \cup {ending}
    BY <1>1, <1>4, <1>5, <1>6, <1>7
  <2>2. Http!Named(clean, "content-length") # {}
    BY <1>7, <2>1, NamedFacts DEF Values
  <2>3. passed = clean
    BY <1>6, <2>2, NoMoreHeaders
  <2> HIDE DEF passed
  <2>5. \A i \in DOMAIN answered : answered[i] \in Values(answered)
    BY DEF Values
  <2>6. ending \in Values(answered) /\ ending \in S
    <3>1. ending \in Values(answered)
      BY <1>5, <1>7
    <3>2. \A h \in Values(answered) : h \in S
      BY <1>5 DEF Values
    <3> QED BY <3>1, <3>2
  <2>7. Http!Named(answered, "content-length") # {}
    BY <1>7, <2>6, NamedFacts DEF Values
  <2>8. Http!IsLength(ending.value, a)
    BY <1>a, <2>0, <2>5, <2>7 DEF Http!IsLength, Http!Named
  <2>4. Sent(S, headers, a, passed, ending)
    BY <1>6, <1>7, <2>1, <2>3, <2>6, <2>8 DEF Sent
  <2> QED BY <2>4
<1>8. ASSUME \A ending \in Ends : ending.name # "content-length"
      PROVE  \E length1 : Sent(S, headers, a, passed, length1)
  <2>0. \A ending \in Ends : ending.name = "transfer-encoding"
    BY <1>5, <1>8
  <2>1. Values(clean) = Passed
    BY <1>1, <1>4, <1>5, <1>6, <2>0
  <2>2. Http!Named(clean, "content-length") = {}
    <3>1. \A h \in Values(clean) : h.name # "content-length"
      BY <1>1, <1>4, <2>1
    <3>2. \A i \in DOMAIN clean : clean[i] \in Values(clean)
      BY DEF Values
    <3> QED BY <3>1, <3>2, NamedFacts
  <2>3. clean \in Seq(S) /\ told \in S /\ Added(clean, told, passed)
    BY <1>3, <1>6, <2>2 DEF Added
  <2> HIDE DEF passed
  <2>4. passed \in Seq(S) /\ Values(passed) = Values(clean) \cup {told}
    BY <2>3, OneMoreHeader
  <2>6. Http!Named(answered, "content-length") = {}
    <3>1. \A h \in Values(answered) : h.name # "content-length"
      BY <1>1, <1>4, <1>5, <1>8
    <3>2. \A i \in DOMAIN answered : answered[i] \in Values(answered)
      BY DEF Values
    <3> QED BY <3>1, <3>2, NamedFacts
  <2>7. Http!IsLength(told.value, a)
    BY <1>3, <1>a, <2>6 DEF Http!IsLength
  <2>5. Sent(S, headers, a, passed, told)
    BY <1>3, <2>1, <2>4, <2>7 DEF Sent
  <2> QED BY <2>5
<1>9. \E length1 : Sent(S, headers, a, passed, length1)
  <2> HIDE DEF passed
  <2> QED BY <1>5, <1>7, <1>8
<1>10. Daemonised(a) = Message("200", passed, body)
  <2> DEFINE b == [a EXCEPT !.headers = Http!Sanitize(@)]
  <2>1. b.start = "200" /\ b.headers = clean /\ b.body = body
    BY DEF Response, answered, clean
  <2> HIDE DEF b
  <2>2. Http!Compose(b) = Message("200", passed, body)
    BY <2>1 DEF Http!Compose, Message, told
  <2> QED BY <2>2 DEF b, Daemonised
<1>11. {a.headers[i].name : i \in DOMAIN a.headers} \ Http!FramingNames = {h.name : h \in Values(headers)}
  <2>1. a.headers = answered
    BY <1>a
  <2>2. {a.headers[i].name : i \in DOMAIN a.headers} = {h.name : h \in Values(answered)}
    BY <2>1 DEF Values
  <2>3. {h.name : h \in Ends} \subseteq Http!FramingNames
    BY <1>4, <1>5
  <2>4. {h.name : h \in Values(answered)} = {h.name : h \in Values(headers)} \cup {h.name : h \in Ends}
    BY <1>5, Zenon
  <2>5. \A name \in {h.name : h \in Values(headers)} : name \notin Http!FramingNames
    BY <1>1, Zenon
  <2> HIDE DEF answered
  <2> QED BY <2>2, <2>3, <2>4, <2>5, Zenon
<1> HIDE DEF passed
<1> QED BY <1>9, <1>10, <1>11

\* What the caller reads in it: the status, the body, the headers that pass, one length.
LEMMA ResponseRead ==
    ASSUME Http!ExchangeAssumption, NEW headers \in Backends, NEW body \in Bodies,
           NEW framing \in Http!Framings(body), NEW a, a = Response(headers, framing, body),
           NEW raw, raw = Daemonised(a), NEW r, r = Http!ParseResponse(raw)
    PROVE  /\ Http!Boundary(raw) # 0
           /\ raw \in Seq(Tokens(NamesOf(headers), "200", Values(body)))
           /\ r.start = a.start /\ r.body = a.body
           /\ {h.name : h \in r.headers} \ {"content-length"} =
                 {a.headers[i].name : i \in DOMAIN a.headers} \ (Stripped \cup {"content-length", "transfer-encoding"})
           /\ \E h \in r.headers : /\ h.name = "content-length" /\ Http!IsLength(h.value, a)
                                  /\ {g \in r.headers : g.name \in Http!FramingNames} = {h}
           /\ \A h \in r.headers : h.name \notin Stripped
<1> DEFINE N == NamesOf(headers)
           S == HeadersOf(N)
           T == Values(body)
<1>1. PICK passed, length : Sent(S, headers, a, passed, length) /\ raw = Message("200", passed, body)
  BY ResponseHeaders
<1>2. {a.headers[i].name : i \in DOMAIN a.headers} \ Http!FramingNames = {h.name : h \in Values(headers)}
  BY ResponseHeaders
<1>3. body \in Seq(T) /\ Len(body) \in Nat /\ \A h \in Values(headers) : h.name \notin Http!FramingNames
  BY SentTypes DEF Values
<1>4. /\ "content-length" \notin Stripped
      /\ Http!FramingNames = {"content-length", "transfer-encoding"}
  BY DEF Http!ExchangeAssumption, Http!FramingNames
<1>5. Composed(N, T, "200", passed, body, Len(passed), raw)
  BY <1>1, <1>3 DEF Composed, Sent
<1>6. /\ a.start = "200" /\ a.body = body
  BY DEF Response
<1> DEFINE L == Http!LastOfEach(Lowered(passed))
<1>7. r = [start |-> "200", headers |-> L, body |-> body] /\ Http!Boundary(raw) # 0
  BY <1>5, MessageParsed
<1>8. raw \in Seq(Tokens(N, "200", T))
  BY <1>5, MessageTokens
<1>9. /\ \A h \in L : \E g \in Values(passed) : h = Http!Header(g.name, "lower", g.value)
      /\ \A g \in Values(passed) : \E h \in L : h.name = g.name
  <2>1. passed \in Seq(S)
    BY <1>1 DEF Sent
  <2> HIDE DEF S
  <2> QED BY <2>1, LowerCased
<1> DEFINE one == Http!Header("content-length", "lower", length.value)
<1>10. /\ length.name = "content-length" /\ Http!IsLength(length.value, a)
       /\ Values(passed) = {h \in Values(headers) : h.name \notin Stripped} \cup {length}
  BY <1>1 DEF Sent
<1>11. r.start = "200" /\ r.body = body /\ r.headers = L
  BY <1>7
<1> HIDE DEF S, L, N, T
<1>12. \A g : Http!Header(g.name, "lower", g.value).name = g.name
  BY DEF Http!Header
<1>13. {h.name : h \in L} = {g.name : g \in Values(passed)}
  BY <1>9, <1>12
<1>14. {h.name : h \in L} \ {"content-length"} =
         {a.headers[i].name : i \in DOMAIN a.headers} \ (Stripped \cup {"content-length", "transfer-encoding"})
  <2> DEFINE named == {a.headers[i].name : i \in DOMAIN a.headers}
  <2>1. {g.name : g \in Values(passed)} \ {"content-length"} = {h.name : h \in Values(headers)} \ Stripped
    BY <1>3, <1>4, <1>10
  <2>2. named \ Http!FramingNames = {h.name : h \in Values(headers)}
    BY <1>2
  <2> HIDE DEF named
  <2>3. {h.name : h \in Values(headers)} \ Stripped = named \ (Stripped \cup {"content-length", "transfer-encoding"})
    BY <1>4, <2>2
  <2> QED BY <1>13, <2>1, <2>3 DEF named
<1>15. one \in L /\ {h \in L : h.name \in Http!FramingNames} = {one}
  <2>1. \A g \in Values(passed) : g.name \in Http!FramingNames => g = length
    BY <1>3, <1>10
  <2>2. Http!Header(length.name, "lower", length.value) = one
    BY <1>10
  <2>3. ASSUME NEW h \in L, h.name \in Http!FramingNames PROVE h = one
    BY <1>9, <1>12, <2>1, <2>2, <2>3
  <2>4. \E h \in L : h.name = "content-length"
    BY <1>9, <1>10
  <2>5. "content-length" \in Http!FramingNames
    BY <1>4
  <2> HIDE DEF one
  <2> QED BY <2>3, <2>4, <2>5
<1>17. one.name = "content-length" /\ one.value = length.value
  BY DEF Http!Header
<1> HIDE DEF one
<1>18. \E h \in L : /\ h.name = "content-length" /\ Http!IsLength(h.value, a)
                   /\ {g \in L : g.name \in Http!FramingNames} = {h}
  BY <1>10, <1>15, <1>17
<1>16. \A h \in L : h.name \notin Stripped
  <2>1. \A g \in Values(passed) : g.name \notin Stripped
    BY <1>4, <1>10
  <2> QED BY <1>9, <1>12, <2>1
<1> QED BY <1>6, <1>7, <1>8, <1>11, <1>14, <1>16, <1>18 DEF N, T

-----------------------------------------------------------------------------
(* The exchange                                                            *)

\* What the daemon reads when c is asked.
Reading(c) ==
    [id |-> c.id, port |-> c.port, start |-> Http!ParseRequest(Http!EncodeRequest(c)).start,
     headers |-> Http!ParseRequest(Http!EncodeRequest(c)).headers,
     body |-> Http!ParseRequest(Http!EncodeRequest(c)).body]

\* a is the answer of some backend.
IsAnswer(a) ==
    \E headers \in Backends, body \in Bodies : \E framing \in Http!Framings(body) :
        a = Response(headers, framing, body)

\* What is on its way, phase by phase.
HttpInv ==
    /\ phase \in {"idle", "asked", "read", "replied", "closing", "done"}
    /\ call \in [id : StreamIds, port : StreamPorts, headers : Callers, body : Bodies]
    /\ phase = "asked" => wire = Http!EncodeFrame(call.id, call.port, Http!EncodeRequest(call))
    /\ phase \notin {"idle", "asked"} => asked = Reading(call)
    /\ phase \notin {"idle", "asked", "read"} => IsAnswer(answer)
    /\ phase = "replied" => wire = Http!EncodeFrame(call.id, call.port, Daemonised(answer))
    /\ phase \in {"idle", "asked", "read", "replied"} => chunks = <<>>
    /\ phase = "closing" => chunks \in {<<>>, <<Daemonised(answer)>>}
    /\ phase = "done" => result.start = "malformed" \/ result = Http!ParseResponse(Daemonised(answer))

\* An answer is composed to a sequence of tokens, with an empty line in it.
LEMMA AnswerComposed ==
    ASSUME Http!ExchangeAssumption, IsAnswer(answer)
    PROVE  (\E T : Daemonised(answer) \in Seq(T)) /\ Http!Boundary(Daemonised(answer)) # 0
<1>1. PICK headers \in Backends, body \in Bodies :
        \E framing \in Http!Framings(body) : answer = Response(headers, framing, body)
  BY DEF IsAnswer
<1>2. PICK framing \in Http!Framings(body) : answer = Response(headers, framing, body)
  BY <1>1
<1>3. /\ Http!Boundary(Daemonised(answer)) # 0
      /\ Daemonised(answer) \in Seq(Tokens(NamesOf(headers), "200", Values(body)))
  BY <1>2, ResponseRead
<1> QED BY <1>3

\* Nothing was received.
LEMMA NothingRead == Http!Boundary(<<>>) = 0
<1>1. Len(<<>>) = 0 /\ 1..(0 - 1) = {}
  OBVIOUS
<1> QED BY <1>1 DEF Http!Boundary

\* The invariant is inductive: each end reads what the other has written.
LEMMA NextHttp == Http!ExchangeAssumption /\ HttpInv /\ [Http!Next]_(Http!vars) => HttpInv'
<1> SUFFICES ASSUME Http!ExchangeAssumption, HttpInv, [Http!Next]_(Http!vars) PROVE HttpInv'
  OBVIOUS
<1>1. CASE Http!Ask
  BY <1>1 DEF Http!Ask, HttpInv
<1>2. CASE Http!Read
  <2> DEFINE request == Http!EncodeRequest(call)
  <2>1. call.id \in StreamIds /\ call.port \in StreamPorts /\ call.headers \in Callers /\ call.body \in Bodies
    BY DEF HttpInv
  <2>2. request \in Seq(Tokens(NamesOf(call.headers), "request", Values(call.body)))
    BY <2>1, RequestRead
  <2> HIDE DEF request
  <2>3. wire = Http!EncodeFrame(call.id, call.port, request)
    BY <1>2 DEF HttpInv, Http!Read, request
  <2>4. Http!DecodeFrame(wire) = [id |-> call.id, port |-> call.port, payload |-> request]
    BY <2>1, <2>2, <2>3, FrameRead
  <2>5. asked' = Reading(call)
    <3>1. asked' = [id |-> Http!DecodeFrame(wire).id, port |-> Http!DecodeFrame(wire).port,
                    start |-> Http!ParseRequest(Http!DecodeFrame(wire).payload).start,
                    headers |-> Http!ParseRequest(Http!DecodeFrame(wire).payload).headers,
                    body |-> Http!ParseRequest(Http!DecodeFrame(wire).payload).body]
      BY <1>2 DEF Http!Read
    <3> QED BY <2>4, <3>1 DEF Reading, request
  <2>6. call' = call /\ chunks' = chunks /\ phase = "asked" /\ phase' = "read"
    BY <1>2 DEF Http!Read
  <2> QED BY <2>5, <2>6 DEF HttpInv
<1>3. CASE Http!Reply
  <2>1. PICK headers \in Backends, body \in Bodies : \E framing \in Http!Framings(body) :
          LET a == [start |-> "200", headers |-> headers \o framing, body |-> body]
          IN  /\ answer' = a
              /\ wire' = Http!EncodeFrame(asked.id, asked.port,
                                          Http!Compose([a EXCEPT !.headers = Http!Sanitize(@)]))
    BY <1>3 DEF Http!Reply
  <2>2. PICK framing \in Http!Framings(body) :
          /\ answer' = Response(headers, framing, body)
          /\ wire' = Http!EncodeFrame(asked.id, asked.port, Daemonised(Response(headers, framing, body)))
    BY <2>1, Zenon DEF Response, Daemonised
  <2>3. IsAnswer(answer')
    BY <2>2 DEF IsAnswer
  <2>4. /\ call' = call /\ asked' = asked /\ chunks' = chunks
        /\ phase = "read" /\ phase' = "replied"
    BY <1>3 DEF Http!Reply
  <2>5. asked.id = call.id /\ asked.port = call.port /\ asked = Reading(call)
    BY <2>4 DEF HttpInv, Reading
  <2>6. wire' = Http!EncodeFrame(call.id, call.port, Daemonised(answer'))
    BY <2>2, <2>5
  <2>7. IsAnswer(answer)' /\ wire' = Http!EncodeFrame(call.id, call.port, Daemonised(answer))'
    BY <2>3, <2>4, <2>6 DEF IsAnswer, Daemonised
  <2> QED BY <2>4, <2>5, <2>7 DEF HttpInv
<1>4. CASE Http!ReplyIsLost
  BY <1>4 DEF Http!ReplyIsLost, HttpInv
<1>5. CASE Http!Receive
  <2> DEFINE raw == Daemonised(answer)
  <2>1. /\ phase = "replied" /\ phase' = "closing" /\ call' = call /\ asked' = asked /\ answer' = answer
        /\ chunks' = Append(chunks, Http!DecodeFrame(wire).payload)
    BY <1>5 DEF Http!Receive
  <2>2. call.id \in StreamIds /\ call.port \in StreamPorts /\ chunks = <<>>
    BY <2>1 DEF HttpInv
  <2>3. PICK T : raw \in Seq(T)
    BY <2>1, AnswerComposed DEF HttpInv
  <2>4. wire = Http!EncodeFrame(call.id, call.port, raw)
    BY <2>1 DEF HttpInv
  <2> HIDE DEF raw
  <2>5. Http!DecodeFrame(wire).payload = raw
    BY <2>2, <2>3, <2>4, FrameRead
  <2>6. chunks' = <<raw>>
    BY <2>1, <2>2, <2>5
  <2>7. chunks' = <<Daemonised(answer)>>
    BY <2>6 DEF raw
  <2> QED BY <2>1, <2>7 DEF HttpInv
<1>6. CASE Http!Close
  <2> DEFINE raw == Daemonised(answer)
  <2>1. /\ phase = "closing" /\ phase' = "done" /\ call' = call /\ asked' = asked /\ answer' = answer
        /\ chunks' = chunks
        /\ result' = IF Http!Boundary(Http!Concat(chunks)) = 0 THEN [Http!None EXCEPT !.start = "malformed"]
                     ELSE Http!ParseResponse(Http!Concat(chunks))
    BY <1>6 DEF Http!Close
  <2>2. (\E T : raw \in Seq(T)) /\ Http!Boundary(raw) # 0
    BY <2>1, AnswerComposed DEF HttpInv
  <2>3. chunks = <<>> \/ chunks = <<raw>>
    BY <2>1 DEF HttpInv
  <2> HIDE DEF raw
  <2>4. CASE chunks = <<>>
    <3>1. Http!Concat(chunks) = <<>>
      BY <2>2, <2>4, ConcatFacts
    <3>2. result'.start = "malformed"
      BY <2>1, <3>1, NothingRead DEF Http!None
    <3> QED BY <2>1, <3>2 DEF HttpInv
  <2>5. CASE chunks = <<raw>>
    <3>1. Http!Concat(chunks) = raw
      BY <2>2, <2>5, ConcatFacts
    <3>2. result' = Http!ParseResponse(Daemonised(answer))
      BY <2>1, <2>2, <3>1 DEF raw
    <3> QED BY <2>1, <3>2 DEF HttpInv
  <2> QED BY <2>3, <2>4, <2>5
<1>7. CASE UNCHANGED Http!vars
  BY <1>7 DEF Http!vars, HttpInv
<1> QED BY <1>1, <1>2, <1>3, <1>4, <1>5, <1>6, <1>7 DEF Http!Next

\* The invariant holds all the time.
LEMMA HttpInvariance == ASSUME Http!ExchangeAssumption PROVE Http!Spec => []HttpInv
<1>1. Http!Init => HttpInv
  BY DEF Http!Init, HttpInv
<1> QED BY <1>1, NextHttp, PTL DEF Http!Spec

\* What the daemon read is what was asked, with one Host header.
LEMMA RequestArrived ==
    ASSUME Http!ExchangeAssumption, HttpInv
    PROVE  Http!RequestArrives /\ Http!OneHost
<1> SUFFICES ASSUME phase \notin {"idle", "asked"} PROVE Http!RequestArrives /\ Http!OneHost
  BY DEF Http!RequestArrives, Http!OneHost
<1> DEFINE read == Http!ParseRequest(Http!EncodeRequest(call))
           hosts == {h \in asked.headers : h.name = "host"}
<1>1. call.headers \in Callers /\ call.body \in Bodies /\ asked = Reading(call)
  BY DEF HttpInv
<1>2. /\ read.start = "request" /\ read.body = call.body
      /\ \A i \in DOMAIN call.headers : call.headers[i] \in read.headers
      /\ \E h : {g \in read.headers : g.name = "host"} = {h}
  BY <1>1, RequestRead
<1> HIDE DEF read
<1>3. /\ asked.id = call.id /\ asked.port = call.port /\ asked.start = read.start
      /\ asked.headers = read.headers /\ asked.body = read.body
  BY <1>1 DEF Reading, read
<1>4. Http!Cardinality(hosts) = 1
  <2>1. Http!Cardinality(hosts) = Cardinality(hosts)
    BY DEF Http!Cardinality, Cardinality, Http!IsFiniteSet, IsFiniteSet
  <2>2. \E h : hosts = {h}
    BY <1>2, <1>3
  <2> HIDE DEF hosts
  <2> QED BY <2>1, <2>2, FS_Singleton
<1>5. \A i \in Http!Named(call.headers, "host") : call.headers[i] \in asked.headers
  BY <1>2, <1>3 DEF Http!Named
<1> QED BY <1>2, <1>3, <1>4, <1>5 DEF Http!RequestArrives, Http!OneHost

\* What the caller reads is what the backend answered, as the daemon may pass it.
LEMMA ResponseArrived ==
    ASSUME Http!ExchangeAssumption, HttpInv
    PROVE  Http!ResponseArrives /\ Http!OneFraming /\ Http!NothingInternal
<1> SUFFICES ASSUME Http!Answered PROVE Http!ResponseArrives /\ Http!OneFraming /\ Http!NothingInternal
  BY DEF Http!ResponseArrives, Http!OneFraming, Http!NothingInternal
<1>1. phase = "done" /\ result.start # "malformed"
  BY DEF Http!Answered
<1>2. IsAnswer(answer) /\ result = Http!ParseResponse(Daemonised(answer))
  BY <1>1 DEF HttpInv
<1>3. PICK headers \in Backends, body \in Bodies :
        \E framing \in Http!Framings(body) : answer = Response(headers, framing, body)
  BY <1>2 DEF IsAnswer
<1>4. PICK framing \in Http!Framings(body) : answer = Response(headers, framing, body)
  BY <1>3
<1>5. /\ result.start = answer.start /\ result.body = answer.body
      /\ {h.name : h \in result.headers} \ {"content-length"} =
            {answer.headers[i].name : i \in DOMAIN answer.headers}
                \ (Stripped \cup {"content-length", "transfer-encoding"})
      /\ \E h \in result.headers : /\ h.name = "content-length" /\ Http!IsLength(h.value, answer)
                                  /\ {g \in result.headers : g.name \in Http!FramingNames} = {h}
      /\ \A h \in result.headers : h.name \notin Stripped
  BY <1>2, <1>4, ResponseRead
<1> QED BY <1>5 DEF Http!ResponseArrives, Http!OneFraming, Http!NothingInternal

\* Whatever headers a caller sets, without naming one twice, and whatever bytes the bodies
\* consist of, the daemon reads the request that was made, with one Host header, and the
\* caller the response that was given, with one length, the backend's own or else the true
\* one, and nothing internal.
THEOREM HttpArrivesHolds == ASSUME Http!ExchangeAssumption PROVE Http!Spec => []Http!HttpArrives
<1>1. HttpInv => Http!HttpArrives
  BY RequestArrived, ResponseArrived DEF Http!HttpArrives
<1> QED BY <1>1, HttpInvariance, PTL

-----------------------------------------------------------------------------
(* Check sums                                                              *)

\* x is a multiple of c.
IsMultiple(x, c) == \E k \in Int : x = k * c

\* Products are multiples.
LEMMA IsProduct == ASSUME NEW c \in Int, NEW k \in Int PROVE IsMultiple(k * c, c) /\ IsMultiple(c * k, c)
<1>1. c * k = k * c
  OBVIOUS
<1>2. IsMultiple(k * c, c)
  BY DEF IsMultiple
<1> QED BY <1>1, <1>2

\* Multiples are added up.
LEMMA MultipleSum ==
    ASSUME NEW c \in Int, NEW a \in Int, NEW b \in Int, IsMultiple(a, c), IsMultiple(b, c)
    PROVE  IsMultiple(a + b, c) /\ IsMultiple(a - b, c)
<1>1. PICK k \in Int, l \in Int : a = k * c /\ b = l * c
  BY DEF IsMultiple
<1>2. a + b = (k + l) * c /\ a - b = (k - l) * c
  BY <1>1
<1>3. k + l \in Int /\ k - l \in Int
  OBVIOUS
<1> QED BY <1>2, <1>3 DEF IsMultiple

\* A multiple that is not 0 is not smaller than the number.
LEMMA SmallMultiple ==
    ASSUME NEW c \in Nat \ {0}, NEW x \in Int, IsMultiple(x, c), -c < x, x < c
    PROVE  x = 0
<1>1. PICK k \in Int : x = k * c
  BY DEF IsMultiple
<1>2. ~(k >= 1)
  <2> SUFFICES ASSUME k >= 1 PROVE FALSE
    OBVIOUS
  <2>1. k * c >= c
    OBVIOUS
  <2> QED BY <1>1, <2>1
<1>3. ~(k <= -1)
  <2> SUFFICES ASSUME k <= -1 PROVE FALSE
    OBVIOUS
  <2>1. k * c <= -c
    OBVIOUS
  <2> QED BY <1>1, <2>1
<1>4. k = 0
  BY <1>2, <1>3
<1> QED BY <1>1, <1>4

\* What % says of multiples.
LEMMA MultipleModulo ==
    ASSUME NEW c \in Nat \ {0}, NEW x \in Nat
    PROVE  IsMultiple(x, c) <=> x % c = 0
<1>1. x \div c \in Nat /\ x % c \in 0..(c - 1) /\ x = c * (x \div c) + (x % c)
  BY DivisionFacts
<1> DEFINE q == x \div c
           r == x % c
<1> HIDE DEF q, r
<1>2. IsMultiple(c * q, c) /\ c * q \in Int /\ q \in Int /\ r \in 0..(c - 1) /\ x = c * q + r
  <2>1. q \in Int /\ r \in 0..(c - 1) /\ x = c * q + r
    BY <1>1 DEF q, r
  <2>2. c * q = q * c /\ c * q \in Int
    BY <2>1
  <2> QED BY <2>1, <2>2 DEF IsMultiple
<1>3. ASSUME IsMultiple(x, c) PROVE r = 0
  <2>1. IsMultiple(x - c * q, c)
    BY <1>2, <1>3, MultipleSum
  <2>2. x - c * q = r /\ -c < r /\ r < c /\ r \in Int
    BY <1>2
  <2> QED BY <2>1, <2>2, SmallMultiple
<1>4. ASSUME r = 0 PROVE IsMultiple(x, c)
  <2>1. x = c * q
    BY <1>2, <1>4
  <2> QED BY <1>2, <2>1
<1> QED BY <1>3, <1>4 DEF r

\* Numbers that differ by a multiple leave the same remainder.
LEMMA SameRemainder ==
    ASSUME NEW c \in Nat \ {0}, NEW x \in Nat, NEW y \in Nat, IsMultiple(x - y, c)
    PROVE  x % c = y % c
<1> DEFINE a == x % c
           b == y % c
<1>1. x \div c \in Nat /\ a \in 0..(c - 1) /\ x = c * (x \div c) + a
  BY DivisionFacts
<1>2. y \div c \in Nat /\ b \in 0..(c - 1) /\ y = c * (y \div c) + b
  BY DivisionFacts
<1> DEFINE k == x \div c
           l == y \div c
<1> HIDE DEF a, b, k, l
<1>3. k \in Nat /\ l \in Nat /\ x = c * k + a /\ y = c * l + b
  BY <1>1, <1>2 DEF k, l
<1>4. c * k \in Int /\ c * l \in Int /\ c * k = k * c /\ c * l = l * c
  BY <1>3
<1>5. IsMultiple(c * k, c) /\ IsMultiple(c * l, c)
  <2>1. c \in Int /\ k \in Int /\ l \in Int
    BY <1>3
  <2> QED BY <2>1, IsProduct, Zenon
<1>6. IsMultiple((x - y) - (c * k - c * l), c)
  <2> DEFINE u == c * k
             v == c * l
             w == x - y
  <2>1. IsMultiple(u, c) /\ IsMultiple(v, c) /\ u \in Int /\ v \in Int /\ w \in Int /\ IsMultiple(w, c)
    BY <1>4, <1>5
  <2> HIDE DEF u, v, w
  <2>2. IsMultiple(u - v, c) /\ u - v \in Int
    BY <2>1, MultipleSum
  <2>3. IsMultiple(w - (u - v), c)
    BY <2>1, <2>2, MultipleSum
  <2> QED BY <2>3 DEF u, v, w
<1>7. (x - y) - (c * k - c * l) = a - b /\ -c < a - b /\ a - b < c /\ a - b \in Int
  BY <1>1, <1>2, <1>3, <1>4
<1>8. a - b = 0
  BY <1>6, <1>7, SmallMultiple
<1>9. a = b
  BY <1>1, <1>2, <1>8
<1> QED BY <1>9 DEF a, b

\* The numbers that the check sums are computed with.
LEMMA SumNumbers ==
    ASSUME Sums!ChecksumsAssumption
    PROVE  /\ Byte \in Nat \ {0, 1} /\ Sums!Word \in Nat \ {0} /\ Sums!Full \in Nat \ {0}
           /\ Sums!Word = Byte * Byte /\ Sums!Full = Sums!Word - 1
           /\ Byte * Byte - Byte < Sums!Full /\ Byte - 1 < Sums!Full
<1>1. Byte \in Nat \ {0, 1}
  BY DEF Sums!ChecksumsAssumption
<1>2. Byte * Byte \in Nat /\ Byte * Byte >= 2 * Byte /\ Byte >= 2
  BY <1>1
<1> QED BY <1>1, <1>2 DEF Sums!Word, Sums!Full

\* The carries leave a word that differs from the sum by a multiple of 0xFFFF.
LEMMA CarriedFacts ==
    ASSUME Sums!ChecksumsAssumption, NEW n \in Nat
    PROVE  /\ Sums!Carried(n) \in 0..Sums!Full
           /\ IsMultiple(n - Sums!Carried(n), Sums!Full)
<1> DEFINE W == Sums!Word
           F == Sums!Full
           next(k) == (k % W) + (k \div W)
           Body(f, k) == IF k > F THEN f[next(k)] ELSE k
           carried == CHOOSE f : f = [k \in Nat |-> Body(f, k)]
           \* What is left in the end: 0 of 0 alone.
           left == [k \in Nat |-> IF k = 0 THEN 0 ELSE ((k - 1) % F) + 1]
<1>1. Sums!Carried(n) = carried[n]
  BY Zenon DEF Sums!Carried
<1>2. W \in Nat \ {0} /\ F \in Nat \ {0} /\ W = F + 1
  BY SumNumbers
<1> HIDE DEF W, F
<1>3. ASSUME NEW k \in Nat, k > F
      PROVE  /\ next(k) \in Nat /\ next(k) > 0 /\ next(k) < k
             /\ k \div W \in Nat /\ k - next(k) = (k \div W) * F
  <2> DEFINE q == k \div W
             r == k % W
  <2>1. q \in Nat /\ r \in 0..(W - 1) /\ k = W * q + r
    BY <1>2, DivisionFacts
  <2> HIDE DEF q, r
  <2>2. q > 0
    <3> SUFFICES ASSUME q = 0 PROVE FALSE
      BY <2>1
    <3>1. W * q = 0
      BY <1>2
    <3> QED BY <1>2, <1>3, <2>1, <3>1
  <2>3. W * q = F * q + q /\ F * q = q * F /\ F * q \in Nat /\ F * q >= 1
    BY <1>2, <2>1, <2>2
  <2>4. next(k) = r + q
    BY DEF q, r
  <2> HIDE DEF next
  <2>5. next(k) \in Nat /\ next(k) > 0 /\ next(k) < k /\ k - next(k) = q * F
    BY <2>1, <2>2, <2>3, <2>4
  <2> QED BY <2>1, <2>5 DEF q
<1> HIDE DEF next
<1>4. \A k \in Nat : left[k] = Body(left, k)
  <2> SUFFICES ASSUME NEW k \in Nat PROVE left[k] = Body(left, k)
    OBVIOUS
  <2>1. CASE k > F
    <3>1. /\ next(k) \in Nat /\ next(k) > 0 /\ k \div W \in Nat /\ k - next(k) = (k \div W) * F
      BY <1>3, <2>1
    <3> DEFINE a == next(k) - 1
               q == k \div W
    <3>2. a \in Nat /\ q \in Nat /\ k - 1 = a + q * F
      BY <3>1
    <3> HIDE DEF a, q
    <3>3. (k - 1) % F = a % F
      <4>1. k - 1 \in Nat /\ (k - 1) - a = q * F
        BY <1>2, <3>2
      <4>2. IsMultiple((k - 1) - a, F)
        BY <3>2, <4>1 DEF IsMultiple
      <4> QED BY <1>2, <3>2, <4>1, <4>2, SameRemainder
    <3>4. k # 0 /\ left[k] = ((k - 1) % F) + 1
      BY <1>2, <2>1
    <3>5. left[next(k)] = (a % F) + 1
      BY <3>1 DEF a
    <3> HIDE DEF left
    <3> QED BY <2>1, <3>3, <3>4, <3>5
  <2>2. CASE ~(k > F)
    <3>1. k # 0 => (k - 1) % F = k - 1
      BY <1>2, <2>2
    <3> QED BY <2>2, <3>1
  <2> QED BY <2>1, <2>2
<1>5. carried = [k \in Nat |-> Body(carried, k)]
  <2>1. left = [k \in Nat |-> Body(left, k)]
    <3> HIDE DEF Body
    <3> QED BY <1>4
  <2> HIDE DEF Body, left
  <2> QED BY <2>1
<1>6. \A k \in Nat : carried[k] = Body(carried, k)
  <2> HIDE DEF Body, carried
  <2> QED BY <1>5
<1> HIDE DEF carried, left
<1> DEFINE Good(k) == carried[k] \in 0..F /\ IsMultiple(k - carried[k], F)
           bad == {k \in Nat : ~Good(k)}
<1>7. ASSUME NEW k \in Nat, \A l \in Nat : l < k => Good(l) PROVE Good(k)
  <2>1. CASE k > F
    <3>1. /\ next(k) \in Nat /\ next(k) < k /\ k \div W \in Nat /\ k - next(k) = (k \div W) * F
      BY <1>3, <2>1
    <3>2. carried[next(k)] \in 0..F /\ IsMultiple(next(k) - carried[next(k)], F)
      BY <1>7, <3>1
    <3>3. carried[k] = carried[next(k)]
      BY <1>6, <2>1
    <3>4. IsMultiple(k - next(k), F)
      BY <3>1 DEF IsMultiple
    <3>5. IsMultiple((k - next(k)) + (next(k) - carried[next(k)]), F)
      <4>1. F \in Int /\ k - next(k) \in Int /\ next(k) - carried[next(k)] \in Int
        BY <1>2, <3>1, <3>2
      <4> QED BY <3>2, <3>4, <4>1, MultipleSum
    <3>6. (k - next(k)) + (next(k) - carried[next(k)]) = k - carried[k]
      BY <1>2, <3>1, <3>2, <3>3
    <3> QED BY <3>2, <3>3, <3>5, <3>6
  <2>2. CASE ~(k > F)
    <3>1. carried[k] = k
      BY <1>6, <2>2
    <3>2. k - carried[k] = 0 * F /\ 0 \in Int
      BY <1>2, <3>1
    <3>3. carried[k] \in 0..F
      BY <1>2, <2>2, <3>1
    <3> QED BY <3>2, <3>3 DEF IsMultiple
  <2> QED BY <2>1, <2>2
<1>8. bad = {}
  <2> SUFFICES ASSUME bad # {} PROVE FALSE
    OBVIOUS
  <2> HIDE DEF Good
  <2>1. bad \in SUBSET Nat
    OBVIOUS
  <2>2. PICK k \in bad : \A l \in bad : k <= l
    <3> HIDE DEF bad
    <3> QED BY <2>1, LeastNumber, Zenon
  <2>3. \A l \in Nat : l < k => Good(l)
    <3> SUFFICES ASSUME NEW l \in Nat, l < k, ~Good(l) PROVE FALSE
      OBVIOUS
    <3>1. l \in bad /\ k \in Nat
      OBVIOUS
    <3>2. k <= l
      BY <2>2, <3>1
    <3> QED BY <3>1, <3>2
  <2>4. Good(k)
    BY <1>7, <2>3
  <2> QED BY <2>4
<1>9. Good(n)
  BY <1>8
<1> QED BY <1>1, <1>9 DEF F

\* The sums of the first words.
Running(words) == Loop(Len(words), Nat, 0, [i \in 1..Len(words) |-> [n \in Nat |-> n + words[i]]])

\* How the sums go on, and that the last one is the sum.
LEMMA RunningFacts ==
    ASSUME NEW words \in Seq(Nat)
    PROVE  /\ Len(words) \in Nat /\ Running(words) \in [0..Len(words) -> Nat]
           /\ Running(words)[0] = 0
           /\ \A i \in 1..Len(words) : words[i] \in Nat /\ Running(words)[i] = Running(words)[i - 1] + words[i]
           /\ Sums!Sum(words) = Running(words)[Len(words)] /\ Sums!Sum(words) \in Nat
<1> DEFINE n == Len(words)
           step == [i \in 1..n |-> [k \in Nat |-> k + words[i]]]
           g == Running(words)
           Body(f, i) == IF i = 0 THEN 0 ELSE f[i - 1] + words[i]
           total == CHOOSE f : f = [i \in 0..n |-> Body(f, i)]
<1>1. n \in Nat /\ \A i \in 1..n : words[i] \in Nat
  OBVIOUS
<1>2. \A k \in Nat, i \in 1..n : step[i][k] = k + words[i] /\ step[i][k] \in Nat
  BY <1>1, SMTT(30)
<1>3. g = Loop(n, Nat, 0, step)
  BY DEF Running
<1> HIDE DEF n, step, g
<1>4. g \in [0..n -> Nat] /\ g[0] = 0 /\ \A i \in 1..n : g[i] = step[i][g[i - 1]]
  <2> DEFINE X == Nat
  <2>1. 0 \in X /\ \A k \in X, i \in 1..n : step[i][k] \in X
    BY <1>2
  <2> HIDE DEF X
  <2>2. Loop(n, X, 0, step) \in [0..n -> X]
    BY <1>1, <2>1, PrefixRecursion
  <2>3. Loop(n, X, 0, step)[0] = 0
    BY <1>1, <2>1, PrefixRecursion
  <2>4. \A i \in 1..n : Loop(n, X, 0, step)[i] = step[i][Loop(n, X, 0, step)[i - 1]]
    BY <1>1, <2>1, PrefixRecursion, SMTT(30)
  <2> QED BY <1>3, <2>2, <2>3, <2>4 DEF X
<1>5. \A i \in 1..n : i - 1 \in 0..n /\ g[i - 1] \in Nat /\ g[i] = g[i - 1] + words[i]
  <2> SUFFICES ASSUME NEW i \in 1..n PROVE i - 1 \in 0..n /\ g[i - 1] \in Nat /\ g[i] = g[i - 1] + words[i]
    OBVIOUS
  <2>1. i - 1 \in 0..n
    BY <1>1
  <2> QED BY <1>2, <1>4, <2>1
<1>6. g = [i \in 0..n |-> Body(g, i)]
  <2>1. \A i \in 0..n : g[i] = Body(g, i)
    <3> SUFFICES ASSUME NEW i \in 0..n PROVE g[i] = Body(g, i)
      OBVIOUS
    <3>1. i = 0 \/ i \in 1..n
      BY <1>1
    <3> QED BY <1>4, <1>5, <3>1
  <2> HIDE DEF Body
  <2> QED BY <1>4, <2>1
<1>7. \A i \in 0..n : total[i] = Body(total, i)
  <2> HIDE DEF Body
  <2>1. total = [i \in 0..n |-> Body(total, i)]
    BY <1>6
  <2> HIDE DEF total
  <2> QED BY <2>1
<1>8. Sums!Sum(words) = total[n]
  BY Zenon DEF Sums!Sum, n
<1> HIDE DEF total
<1> DEFINE same == {i \in 0..n : total[i] = g[i]}
<1>9. 0 \in same
  BY <1>1, <1>4, <1>7
<1>10. ASSUME NEW i \in 1..n, i - 1 \in same PROVE i \in same
  BY <1>1, <1>5, <1>7, <1>10
<1>11. n \in same
  <2> HIDE DEF same
  <2>1. \A i \in 1..n : i - 1 \in same => i \in same
    BY <1>10
  <2>2. \A i \in 0..n : i \in same
    BY <1>1, <1>9, <2>1, UpTo
  <2> QED BY <1>1, <2>2
<1>12. Sums!Sum(words) = g[n] /\ g[n] \in Nat
  BY <1>1, <1>4, <1>8, <1>11
<1> QED BY <1>1, <1>4, <1>5, <1>12 DEF n, g

\* What is added in place of something else moves a sum by the difference.
LEMMA Shifted == ASSUME NEW a \in Nat, NEW b \in Nat, NEW c \in Nat PROVE a + c = (a + b) + (c - b)
OBVIOUS

LEMMA Swapped == ASSUME NEW a \in Nat, NEW b \in Nat, NEW d \in Int PROVE (a + d) + b = (a + b) + d
OBVIOUS

\* If one word changes, the sum changes by as much.
LEMMA SumChanged ==
    ASSUME NEW s \in Seq(Nat), NEW t \in Seq(Nat), Len(s) = Len(t), NEW k \in 1..Len(s),
           \A i \in 1..Len(s) : i # k => s[i] = t[i]
    PROVE  Sums!Sum(t) - Sums!Sum(s) = t[k] - s[k]
<1> DEFINE n == Len(s)
           f == Running(s)
           g == Running(t)
           d == t[k] - s[k]
<1>1. /\ n \in Nat /\ f \in [0..n -> Nat] /\ f[0] = 0 /\ Sums!Sum(s) = f[n]
      /\ \A i \in 1..n : s[i] \in Nat /\ f[i] = f[i - 1] + s[i]
  BY RunningFacts
<1>2. /\ g \in [0..n -> Nat] /\ g[0] = 0 /\ Sums!Sum(t) = g[n]
      /\ \A i \in 1..n : t[i] \in Nat /\ g[i] = g[i - 1] + t[i]
  BY RunningFacts
<1> HIDE DEF n, f, g
<1>3. k \in 1..n /\ d = t[k] - s[k] /\ d \in Int /\ \A i \in 1..n : i # k => s[i] = t[i]
  BY <1>1, <1>2 DEF n
<1> HIDE DEF d
<1> DEFINE good == {i \in 0..n : g[i] = IF i < k THEN f[i] ELSE f[i] + d}
<1>4. 0 \in good
  BY <1>1, <1>2, <1>3
<1>5. ASSUME NEW i \in 1..n, i - 1 \in good PROVE i \in good
  <2>1. /\ f[i] = f[i - 1] + s[i] /\ g[i] = g[i - 1] + t[i]
        /\ s[i] \in Nat /\ t[i] \in Nat
    BY <1>1, <1>2
  <2>2. i \in 0..n /\ i - 1 \in 0..n /\ i \in Int /\ k \in Int
    BY <1>1, <1>3
  <2>3. f[i - 1] \in Nat
    BY <1>1, <2>2
  <2>4. g[i - 1] = IF i - 1 < k THEN f[i - 1] ELSE f[i - 1] + d
    BY <1>5
  <2>5. CASE i = k
    <3>1. g[i - 1] = f[i - 1]
      BY <2>2, <2>4, <2>5
    <3>2. f[i - 1] + t[i] = (f[i - 1] + s[i]) + (t[i] - s[i])
      BY <2>1, <2>3, Shifted
    <3>3. d = t[i] - s[i]
      BY <1>3, <2>5
    <3>4. g[i] = f[i] + d
      BY <2>1, <3>1, <3>2, <3>3, Zenon
    <3>5. ~(i < k)
      BY <2>2, <2>5
    <3> QED BY <2>2, <3>4, <3>5
  <2>6. CASE i # k
    <3>1. s[i] = t[i]
      BY <1>3, <2>6
    <3>2. i < k <=> i - 1 < k
      BY <2>2, <2>6, SMTT(30)
    <3>3. (f[i - 1] + d) + s[i] = (f[i - 1] + s[i]) + d
      BY <1>3, <2>1, <2>3, Swapped
    <3>4. g[i] = IF i < k THEN f[i] ELSE f[i] + d
      BY <2>1, <2>4, <3>1, <3>2, <3>3, Zenon
    <3> QED BY <2>2, <3>4
  <2> QED BY <2>5, <2>6
<1>6. n \in good
  <2> HIDE DEF good
  <2>1. \A i \in 1..n : i - 1 \in good => i \in good
    BY <1>5
  <2>2. n \in Nat /\ \A i \in 0..n : i \in good
    BY <1>1, <1>4, <2>1, UpTo
  <2> QED BY <2>2
<1>7. g[n] = f[n] + d /\ f[n] \in Nat
  BY <1>1, <1>3, <1>6
<1> QED BY <1>1, <1>2, <1>3, <1>7

Octets == 0..(Byte - 1)

\* Bytes that stand for the high half of a word.
LEMMA HighBytes ==
    ASSUME Sums!ChecksumsAssumption, NEW v \in Octets
    PROVE  v \in Nat /\ v * Byte \in Nat /\ v * Byte <= Byte * Byte - Byte
<1>1. Byte \in Nat \ {0, 1} /\ v \in 0..(Byte - 1)
  BY SumNumbers DEF Octets
<1>2. v \in Nat /\ v * Byte \in Nat
  BY <1>1
<1>3. v * Byte <= (Byte - 1) * Byte
  BY <1>1
<1>4. (Byte - 1) * Byte = Byte * Byte - Byte
  BY <1>1
<1> QED BY <1>2, <1>3, <1>4

\* A sender and a receiver add up the same, by words and by bytes, of even and odd length.
LEMMA WordsAndBytes ==
    ASSUME Sums!ChecksumsAssumption, NEW bytes \in Seq(Octets)
    PROVE  /\ Sums!Words(bytes) \in Seq(Nat)
           /\ Sums!Weighed(bytes) \in Seq(Nat) /\ Len(Sums!Weighed(bytes)) = Len(bytes)
           /\ Sums!Sum(Sums!Words(bytes)) = Sums!Sum(Sums!Weighed(bytes))
<1> DEFINE n == Len(bytes)
           h == n \div 2
           m == (n + 1) \div 2
           w == Sums!Words(bytes)
           b == Sums!Weighed(bytes)
           f == Running(w)
           g == Running(b)
           high(i) == bytes[i] * Byte
<1>1. n \in Nat /\ DOMAIN bytes = 1..n /\ \A i \in 1..n : bytes[i] \in Octets
  OBVIOUS
<1> HIDE DEF n
<1>2. h \in Nat /\ m \in Nat /\ ((n = 2 * h /\ m = h) \/ (n = 2 * h + 1 /\ m = h + 1))
  BY <1>1
<1> HIDE DEF h, m
<1>3. \A i \in 1..n : bytes[i] \in Nat /\ high(i) \in Nat
  BY <1>1, HighBytes
<1>4. w = [i \in 1..m |-> bytes[2 * i - 1] * Byte + (IF 2 * i <= n THEN bytes[2 * i] ELSE 0)]
  BY DEF Sums!Words, m, n
<1>5. b = [i \in 1..n |-> IF i % 2 = 1 THEN bytes[i] * Byte ELSE bytes[i]]
  BY <1>1 DEF Sums!Weighed
<1> HIDE DEF w, b, high
<1>6. w = [i \in 1..m |-> high(2 * i - 1) + (IF 2 * i <= n THEN bytes[2 * i] ELSE 0)]
  BY <1>4 DEF high
<1>7. b = [i \in 1..n |-> IF i % 2 = 1 THEN high(i) ELSE bytes[i]]
  BY <1>5 DEF high
<1>8. w \in Seq(Nat) /\ Len(w) = m
  <2>1. ASSUME NEW i \in 1..m PROVE high(2 * i - 1) + (IF 2 * i <= n THEN bytes[2 * i] ELSE 0) \in Nat
    <3>1. 2 * i - 1 \in 1..n /\ (2 * i <= n => 2 * i \in 1..n)
      BY <1>2
    <3> QED BY <1>3, <3>1
  <2> DEFINE e(i) == high(2 * i - 1) + (IF 2 * i <= n THEN bytes[2 * i] ELSE 0)
  <2>2. w = [i \in 1..m |-> e(i)] /\ \A i \in 1..m : e(i) \in Nat
    BY <1>6, <2>1
  <2> HIDE DEF e
  <2> QED BY <1>2, <2>2
<1>9. b \in Seq(Nat) /\ Len(b) = n
  <2> DEFINE e(i) == IF i % 2 = 1 THEN high(i) ELSE bytes[i]
  <2>1. b = [i \in 1..n |-> e(i)] /\ \A i \in 1..n : e(i) \in Nat
    BY <1>3, <1>7
  <2> HIDE DEF e
  <2> QED BY <1>1, <2>1
<1>10. /\ f \in [0..m -> Nat] /\ f[0] = 0 /\ Sums!Sum(w) = f[m]
       /\ \A i \in 1..m : f[i] = f[i - 1] + w[i]
  BY <1>8, RunningFacts
<1>11. /\ g \in [0..n -> Nat] /\ g[0] = 0 /\ Sums!Sum(b) = g[n]
       /\ \A i \in 1..n : g[i] = g[i - 1] + b[i]
  BY <1>9, RunningFacts
<1> HIDE DEF f, g
<1> DEFINE good == {i \in 0..h : f[i] = g[2 * i]}
<1>12. 0 \in good
  BY <1>2, <1>10, <1>11
<1>13. ASSUME NEW i \in 1..h, i - 1 \in good PROVE i \in good
  <2>1. /\ i \in 1..m /\ 2 * i \in 1..n /\ 2 * i - 1 \in 1..n /\ 2 * i <= n
        /\ (2 * i) % 2 # 1 /\ (2 * i - 1) % 2 = 1
        /\ 2 * (i - 1) = 2 * i - 2 /\ 2 * i - 2 \in 0..n /\ (2 * i - 1) - 1 = 2 * i - 2
        /\ i - 1 \in 0..m
    BY <1>2
  <2> DEFINE x == high(2 * i - 1)
             y == bytes[2 * i]
             s == g[2 * i - 2]
  <2>2. x \in Nat /\ y \in Nat /\ s \in Nat
    BY <1>3, <1>11, <2>1
  <2>3. w[i] = x + y
    BY <1>6, <2>1
  <2>4. b[2 * i - 1] = x /\ b[2 * i] = y
    BY <1>7, <2>1
  <2>5. f[i - 1] = s
    BY <1>13, <2>1
  <2>6. f[i] = s + (x + y)
    BY <1>10, <2>1, <2>3, <2>5
  <2>7. g[2 * i - 1] = s + x
    BY <1>11, <2>1, <2>4
  <2>8. g[2 * i] = g[2 * i - 1] + y
    BY <1>11, <2>1, <2>4
  <2> HIDE DEF x, y, s
  <2>9. f[i] = g[2 * i]
    BY <2>2, <2>6, <2>7, <2>8
  <2>10. i \in 0..h
    BY <1>2
  <2> QED BY <2>9, <2>10
<1>14. f[h] = g[2 * h]
  <2> HIDE DEF good
  <2>1. \A i \in 1..h : i - 1 \in good => i \in good
    BY <1>13
  <2>2. \A i \in 0..h : i \in good
    BY <1>2, <1>12, <2>1, UpTo
  <2>3. h \in good
    BY <1>2, <2>2
  <2> QED BY <2>3 DEF good
<1>15. f[m] = g[n]
  <2>1. CASE n = 2 * h /\ m = h
    BY <1>14, <2>1
  <2>2. CASE n = 2 * h + 1 /\ m = h + 1
    <3>1. m \in 1..m /\ n \in 1..n /\ n % 2 = 1 /\ ~(2 * m <= n) /\ 2 * m - 1 = n /\ m - 1 = h /\ n - 1 = 2 * h
      BY <1>2, <2>2
    <3>2. w[m] = high(n) + 0 /\ b[n] = high(n) /\ high(n) \in Nat
      BY <1>3, <1>6, <1>7, <3>1
    <3>3. w[m] = high(n)
      BY <3>2
    <3>4. f[m] = f[h] + w[m] /\ g[n] = g[2 * h] + b[n]
      BY <1>10, <1>11, <3>1
    <3> QED BY <1>14, <3>2, <3>3, <3>4
  <2> QED BY <1>2, <2>1, <2>2
<1> QED BY <1>8, <1>9, <1>10, <1>11, <1>15 DEF w, b, n

\* What a byte adds at its place.
Weight(k, v) == IF k % 2 = 1 THEN v * Byte ELSE v

\* No byte weighs as much as 0xFFFF.
LEMMA WeightFacts ==
    ASSUME Sums!ChecksumsAssumption, NEW k \in Nat, NEW v \in Octets
    PROVE  v \in Nat /\ Weight(k, v) \in Nat /\ Weight(k, v) < Sums!Full
<1>1. v \in Nat /\ v * Byte \in Nat /\ v * Byte <= Byte * Byte - Byte
  BY HighBytes
<1>2. /\ Byte \in Nat /\ Byte * Byte \in Nat /\ Sums!Full \in Nat
      /\ Byte * Byte - Byte < Sums!Full /\ Byte - 1 < Sums!Full
  BY SumNumbers
<1> DEFINE x == v * Byte
           y == Byte * Byte
<1>3. x \in Nat /\ x <= y - Byte /\ y - Byte < Sums!Full /\ y \in Nat
  BY <1>1, <1>2
<1> HIDE DEF x, y
<1>4. x < Sums!Full /\ v < Sums!Full
  BY <1>1, <1>2, <1>3 DEF Octets
<1> QED BY <1>1, <1>3, <1>4 DEF Weight, x

\* What a sender adds up is what a receiver adds up.
LEMMA AddsFacts ==
    ASSUME Sums!ChecksumsAssumption, NEW bytes \in Seq(Octets)
    PROVE  Sums!Adds(bytes) \in Nat /\ Sums!Total(bytes) = Sums!Adds(bytes)
<1>1. /\ Sums!Weighed(bytes) \in Seq(Nat)
      /\ Sums!Sum(Sums!Words(bytes)) = Sums!Sum(Sums!Weighed(bytes))
  BY WordsAndBytes
<1>2. Sums!Sum(Sums!Weighed(bytes)) \in Nat
  BY <1>1, RunningFacts
<1>3. Sums!Sum(Pseudo) \in Nat
  <2>1. Pseudo \in Seq(Nat)
    BY DEF Sums!ChecksumsAssumption
  <2> QED BY <2>1, RunningFacts
<1>4. Len(bytes) \in Nat
  OBVIOUS
<1> DEFINE a == Sums!Sum(Sums!Weighed(bytes))
           p == Sums!Sum(Pseudo)
           l == Len(bytes)
<1>5. a \in Nat /\ p \in Nat /\ l \in Nat
  BY <1>2, <1>3, <1>4
<1>6. Sums!Adds(bytes) = a + (IF kind = "ip" THEN 0 ELSE p + l)
  BY DEF Sums!Adds
<1>7. Sums!Total(bytes) = IF kind = "ip" THEN a ELSE p + l + a
  BY <1>1 DEF Sums!Total
<1> HIDE DEF a, p, l
<1> QED BY <1>5, <1>6, <1>7

\* c is bytes with v at k.
IsChange(bytes, k, v, c) == c = [bytes EXCEPT ![k] = v]

\* A byte that changes changes the sum by its weight.
LEMMA ByteChanged ==
    ASSUME Sums!ChecksumsAssumption, NEW bytes \in Seq(Octets), NEW k \in DOMAIN bytes, NEW v \in Octets,
           NEW c, IsChange(bytes, k, v, c)
    PROVE  /\ c \in Seq(Octets) /\ Len(c) = Len(bytes) /\ k \in Nat
           /\ c[k] = v /\ bytes[k] \in Octets
           /\ \A i \in DOMAIN bytes : i # k => c[i] = bytes[i]
           /\ Sums!Adds(c) = Sums!Adds(bytes) + (Weight(k, v) - Weight(k, bytes[k]))
<1> DEFINE n == Len(bytes)
           s == Sums!Weighed(bytes)
           t == Sums!Weighed(c)
<1>1. n \in Nat /\ DOMAIN bytes = 1..n /\ k \in 1..n /\ bytes[k] \in Octets
  OBVIOUS
<1>2. c \in Seq(Octets) /\ Len(c) = n /\ DOMAIN c = 1..n /\ c[k] = v /\ \A i \in 1..n : i # k => c[i] = bytes[i]
  BY <1>1 DEF IsChange
<1>3. s \in Seq(Nat) /\ t \in Seq(Nat) /\ Len(s) = n /\ Len(t) = n
  BY <1>2, WordsAndBytes
<1>4. s = [i \in 1..n |-> Weight(i, bytes[i])] /\ t = [i \in 1..n |-> Weight(i, c[i])]
  BY <1>1, <1>2 DEF Sums!Weighed, Weight
<1>5. Sums!Sum(s) \in Nat /\ Sums!Sum(t) \in Nat
  BY <1>3, RunningFacts
<1>6. \A i \in 1..n : i # k => s[i] = t[i]
  BY <1>2, <1>4
<1>7. s[k] = Weight(k, bytes[k]) /\ t[k] = Weight(k, v)
  BY <1>1, <1>2, <1>4
<1> HIDE DEF s, t, n
<1>8. Sums!Sum(t) - Sums!Sum(s) = t[k] - s[k]
  BY <1>1, <1>3, <1>6, SumChanged
<1>9. Weight(k, bytes[k]) \in Nat /\ Weight(k, v) \in Nat /\ k \in Nat
  <2>1. k \in Nat
    BY <1>1
  <2> QED BY <1>1, <2>1, WeightFacts
<1>10. Sums!Adds(c) = Sums!Adds(bytes) + (Weight(k, v) - Weight(k, bytes[k]))
  <2> DEFINE e == IF kind = "ip" THEN 0 ELSE Sums!Sum(Pseudo) + n
             x == Sums!Sum(s)
             y == Sums!Sum(t)
             p == Weight(k, bytes[k])
             q == Weight(k, v)
  <2>1. e \in Nat
    <3>1. Pseudo \in Seq(Nat)
      BY DEF Sums!ChecksumsAssumption
    <3>2. Sums!Sum(Pseudo) \in Nat
      BY <3>1, RunningFacts
    <3> QED BY <1>1, <3>2
  <2>2. Sums!Adds(bytes) = x + e /\ Sums!Adds(c) = y + e
    BY <1>2 DEF Sums!Adds, n, s, t
  <2>3. y - x = q - p /\ x \in Nat /\ y \in Nat /\ p \in Nat /\ q \in Nat
    BY <1>5, <1>7, <1>8, <1>9
  <2> HIDE DEF e, x, y, p, q
  <2>4. y + e = (x + e) + (q - p)
    BY <2>1, <2>3
  <2> QED BY <2>2, <2>4 DEF p, q
<1> QED BY <1>1, <1>2, <1>9, <1>10 DEF n

\* The check sum completes the sum to a multiple, and is never 0 in a datagram.
LEMMA ChecksumFacts ==
    ASSUME Sums!ChecksumsAssumption, NEW bytes \in Seq(Octets)
    PROVE  /\ Sums!Checksum(bytes) \in 0..Sums!Full
           /\ IsMultiple(Sums!Adds(bytes) + Sums!Checksum(bytes), Sums!Full)
           /\ kind = "udp" => Sums!Checksum(bytes) # 0
<1> DEFINE F == Sums!Full
           a == Sums!Adds(bytes)
           r == Sums!Carried(a)
           short == (F - r) % Sums!Word
<1>1. F \in Nat \ {0} /\ Sums!Word = F + 1
  BY SumNumbers
<1>2. a \in Nat /\ Sums!Total(bytes) = a
  BY AddsFacts
<1>3. r \in 0..F /\ IsMultiple(a - r, F)
  BY <1>2, CarriedFacts
<1>4. Sums!Checksum(bytes) = IF kind = "udp" /\ short = 0 THEN F ELSE short
  BY <1>2 DEF Sums!Checksum, Sums!Complement
<1> HIDE DEF F, a, r
<1>5. short = F - r /\ short \in 0..F
  BY <1>1, <1>3
<1> HIDE DEF short
<1>6. IsMultiple(F, F)
  <2>1. F \in Int /\ 1 \in Int /\ 1 * F = F
    BY <1>1
  <2> QED BY <2>1 DEF IsMultiple
<1>7. IsMultiple(a + short, F)
  <2>1. IsMultiple((a - r) + F, F)
    BY <1>1, <1>2, <1>3, <1>6, MultipleSum
  <2>2. (a - r) + F = a + short
    BY <1>1, <1>2, <1>3, <1>5
  <2> QED BY <2>1, <2>2
<1>8. short = 0 => IsMultiple(a + F, F)
  <2> SUFFICES ASSUME short = 0 PROVE IsMultiple(a + F, F)
    OBVIOUS
  <2>1. a + short = a
    BY <1>2
  <2>2. IsMultiple(a, F)
    BY <1>7, <2>1
  <2> QED BY <1>1, <1>2, <1>6, <2>2, MultipleSum, SMTT(30)
<1>9. /\ Sums!Checksum(bytes) \in 0..F
      /\ IsMultiple(a + Sums!Checksum(bytes), F)
      /\ kind = "udp" => Sums!Checksum(bytes) # 0
  BY <1>1, <1>4, <1>5, <1>7, <1>8
<1> QED BY <1>9 DEF F, a

\* The check sum is where it was written, and adds itself.
LEMMA WrittenFacts ==
    ASSUME Sums!ChecksumsAssumption, NEW bytes \in Seq(Octets), Len(bytes) >= 4,
           bytes[3] = 0, bytes[4] = 0, NEW sum \in 0..Sums!Full,
           NEW p, p = Sums!Written(bytes, sum)
    PROVE  /\ p \in Seq(Octets) /\ Len(p) = Len(bytes)
           /\ Sums!Field(p) = sum
           /\ Sums!Adds(p) = Sums!Adds(bytes) + sum
<1> DEFINE high == sum \div Byte
           low == sum % Byte
           q == [bytes EXCEPT ![3] = high]
<1>1. Byte \in Nat \ {0, 1} /\ Sums!Full = Byte * Byte - 1 /\ Sums!Full \in Nat
  BY SumNumbers
<1>2. sum \in Nat /\ Byte \in Nat \ {0}
  BY <1>1
<1>3. high \in Nat /\ low \in 0..(Byte - 1) /\ sum = Byte * high + low
  BY <1>2, DivisionFacts
<1> HIDE DEF high, low
<1>4. high \in Octets /\ low \in Octets /\ high * Byte + low = sum
  <2>1. ~(high >= Byte)
    <3> SUFFICES ASSUME high >= Byte PROVE FALSE
      OBVIOUS
    <3>1. Byte * high >= Byte * Byte
      BY <1>1, <1>3
    <3> QED BY <1>1, <1>3, <3>1
  <2>2. high * Byte = Byte * high
    BY <1>1, <1>3
  <2> QED BY <1>1, <1>3, <2>1, <2>2 DEF Octets
<1>5. p = [q EXCEPT ![4] = low]
  BY DEF Sums!Written, high, low
<1>6. 3 \in DOMAIN bytes /\ 4 \in DOMAIN bytes
  OBVIOUS
<1>7. /\ q \in Seq(Octets) /\ Len(q) = Len(bytes) /\ q[3] = high /\ q[4] = 0
      /\ Sums!Adds(q) = Sums!Adds(bytes) + (Weight(3, high) - Weight(3, 0))
  <2>1. IsChange(bytes, 3, high, q) /\ 3 # 4
    BY DEF IsChange
  <2> HIDE DEF q
  <2> QED BY <1>4, <1>6, <2>1, ByteChanged
<1> HIDE DEF q
<1>8. /\ p \in Seq(Octets) /\ Len(p) = Len(bytes) /\ p[3] = high /\ p[4] = low
      /\ Sums!Adds(p) = Sums!Adds(q) + (Weight(4, low) - Weight(4, 0))
  <2>1. q \in Seq(Octets) /\ 4 \in DOMAIN q /\ 3 \in DOMAIN q /\ 3 # 4 /\ low \in Octets
    BY <1>4, <1>7
  <2>0. IsChange(q, 4, low, p)
    BY <1>5 DEF IsChange
  <2>2. /\ p \in Seq(Octets) /\ Len(p) = Len(q) /\ p[4] = low
        /\ \A i \in DOMAIN q : i # 4 => p[i] = q[i]
    BY <2>0, <2>1, ByteChanged
  <2>3. Sums!Adds(p) = Sums!Adds(q) + (Weight(4, low) - Weight(4, q[4]))
    BY <2>0, <2>1, ByteChanged
  <2>4. p[3] = q[3]
    BY <2>1, <2>2
  <2> QED BY <1>7, <2>2, <2>3, <2>4
<1>9. Weight(3, high) = high * Byte /\ Weight(3, 0) = 0 /\ Weight(4, low) = low /\ Weight(4, 0) = 0
  BY <1>1 DEF Weight
<1>10. Sums!Field(p) = sum
  BY <1>4, <1>8 DEF Sums!Field
<1>11. Sums!Adds(p) = Sums!Adds(bytes) + sum
  <2> DEFINE x == high * Byte
             a == Sums!Adds(bytes)
  <2>1. x \in Nat /\ low \in Nat /\ a \in Nat /\ x + low = sum
    BY <1>1, <1>3, <1>4, AddsFacts
  <2>2. Sums!Adds(p) = (a + (x - 0)) + (low - 0)
    BY <1>7, <1>8, <1>9
  <2> HIDE DEF x, a
  <2>3. (a + (x - 0)) + (low - 0) = a + sum
    BY <2>1
  <2> QED BY <2>2, <2>3 DEF a
<1> QED BY <1>8, <1>10, <1>11

\* What is on its way: the packet as it was made, as it was sent, or with one byte changed.
SumsInv ==
    /\ kind \in {"ip", "tcp", "udp"}
    /\ stage \in {"made", "sent", "received"}
    /\ stage = "made" => packet \in IpHeaders \cup TransportSegments
    /\ stage # "made" =>
        /\ packetSent \in Seq(Octets)
        /\ IsMultiple(Sums!Adds(packetSent), Sums!Full)
        /\ kind = "udp" => Sums!Field(packetSent) # 0
        /\ \/ packet = packetSent
           \/ \E k \in DOMAIN packetSent, v \in Octets : packet = [packetSent EXCEPT ![k] = v]

\* The invariant is inductive: what is sent is a multiple, and one byte changes at most.
LEMMA NextSums == Sums!ChecksumsAssumption /\ SumsInv /\ [Sums!Next]_(Sums!vars) => SumsInv'
<1> SUFFICES ASSUME Sums!ChecksumsAssumption, SumsInv, [Sums!Next]_(Sums!vars) PROVE SumsInv'
  OBVIOUS
<1>1. CASE Sums!Send
  <2> DEFINE sum == Sums!Checksum(packet)
             new == Sums!Written(packet, sum)
  <2>1. packet \in Seq(Octets) /\ Len(packet) >= 4 /\ packet[3] = 0 /\ packet[4] = 0
    BY <1>1 DEF Sums!Send, SumsInv, Sums!ChecksumsAssumption, Octets
  <2>2. /\ stage' = "sent" /\ packet' = new /\ packetSent' = new /\ kind' = kind
    BY <1>1 DEF Sums!Send
  <2>3. /\ sum \in 0..Sums!Full
        /\ IsMultiple(Sums!Adds(packet) + sum, Sums!Full)
        /\ kind = "udp" => sum # 0
    BY <2>1, ChecksumFacts
  <2> HIDE DEF sum
  <2>4. /\ new \in Seq(Octets) /\ Sums!Field(new) = sum
        /\ Sums!Adds(new) = Sums!Adds(packet) + sum
    BY <2>1, <2>3, WrittenFacts
  <2> HIDE DEF new
  <2>5. IsMultiple(Sums!Adds(new), Sums!Full)
    BY <2>3, <2>4
  <2>6. Sums!Adds(packetSent)' = Sums!Adds(new) /\ Sums!Field(packetSent)' = Sums!Field(new)
    BY <2>2 DEF Sums!Adds, Sums!Field
  <2>7. IsMultiple(Sums!Adds(packetSent), Sums!Full)'
    BY <2>5, <2>6 DEF IsMultiple
  <2>8. kind' \in {"ip", "tcp", "udp"} /\ (kind' = "udp" => Sums!Field(packetSent)' # 0)
    BY <2>2, <2>3, <2>4, <2>6, SMTT(30) DEF SumsInv
  <2> QED BY <2>2, <2>4, <2>7, <2>8 DEF SumsInv
<1>2. CASE Sums!Corrupt
  <2>1. /\ stage = "sent" /\ packet = packetSent
        /\ UNCHANGED <<kind, packetSent, stage>>
        /\ \E k \in DOMAIN packetSent, v \in Octets : packet' = [packetSent EXCEPT ![k] = v]
    BY <1>2 DEF Sums!Corrupt, Octets
  <2>2. Sums!Adds(packetSent)' = Sums!Adds(packetSent) /\ Sums!Field(packetSent)' = Sums!Field(packetSent)
    BY <2>1 DEF Sums!Adds, Sums!Field
  <2>3. IsMultiple(Sums!Adds(packetSent), Sums!Full)'
    BY <2>1, <2>2 DEF SumsInv, IsMultiple
  <2> QED BY <2>1, <2>2, <2>3 DEF SumsInv
<1>3. CASE Sums!Receive \/ UNCHANGED Sums!vars
  <2>1. /\ UNCHANGED <<kind, packet, packetSent>>
        /\ stage' = stage \/ (stage = "sent" /\ stage' = "received")
    BY <1>3 DEF Sums!Receive, Sums!vars
  <2>2. Sums!Adds(packetSent)' = Sums!Adds(packetSent) /\ Sums!Field(packetSent)' = Sums!Field(packetSent)
    BY <2>1 DEF Sums!Adds, Sums!Field
  <2>3. stage' # "made" => IsMultiple(Sums!Adds(packetSent), Sums!Full)'
    BY <2>1, <2>2 DEF SumsInv, IsMultiple
  <2> QED BY <2>1, <2>2, <2>3 DEF SumsInv
<1> QED BY <1>1, <1>2, <1>3 DEF Sums!Next

\* The invariant holds all the time.
LEMMA SumsInvariance == ASSUME Sums!ChecksumsAssumption PROVE Sums!Spec => []SumsInv
<1>1. Sums!Init => SumsInv
  BY DEF Sums!Init, SumsInv
<1> QED BY <1>1, NextSums, PTL DEF Sums!Spec

\* A byte that differs cannot go unnoticed: it weighs less than 0xFFFF.
LEMMA OneByteIsNoticed ==
    ASSUME Sums!ChecksumsAssumption, NEW bytes \in Seq(Octets), IsMultiple(Sums!Adds(bytes), Sums!Full),
           NEW k \in DOMAIN bytes, NEW v \in Octets, NEW c, c = [bytes EXCEPT ![k] = v], c # bytes
    PROVE  Sums!Adds(c) % Sums!Full # 0
<1>1. /\ c \in Seq(Octets) /\ bytes[k] \in Octets /\ k \in Nat
      /\ Sums!Adds(c) = Sums!Adds(bytes) + (Weight(k, v) - Weight(k, bytes[k]))
  <2>1. IsChange(bytes, k, v, c)
    BY DEF IsChange
  <2> QED BY <2>1, ByteChanged
<1>2. v # bytes[k]
  <2> SUFFICES ASSUME v = bytes[k] PROVE FALSE
    OBVIOUS
  <2>1. c = bytes
    OBVIOUS
  <2> QED BY <2>1
<1>3. Sums!Full \in Nat \ {0} /\ Byte \in Nat \ {0, 1}
  BY SumNumbers
<1> DEFINE F == Sums!Full
           a == Sums!Adds(bytes)
           x == Weight(k, v)
           y == Weight(k, bytes[k])
<1>4. x \in Nat /\ y \in Nat /\ x < F /\ y < F
  BY <1>1, WeightFacts
<1>5. x # y
  <2>1. v \in Nat /\ bytes[k] \in Nat
    BY <1>1, HighBytes
  <2>2. v * Byte # bytes[k] * Byte
    BY <1>2, <1>3, <2>1
  <2> QED BY <1>2, <2>2 DEF Weight
<1>6. a \in Nat /\ Sums!Adds(c) \in Nat
  BY <1>1, AddsFacts
<1> HIDE DEF F, a, x, y
<1>7. ~IsMultiple(a + (x - y), F)
  <2> SUFFICES ASSUME IsMultiple(a + (x - y), F) PROVE FALSE
    OBVIOUS
  <2>1. F \in Int /\ a \in Int /\ a + (x - y) \in Int /\ IsMultiple(a, F)
    BY <1>3, <1>4, <1>6 DEF F, a
  <2>2. IsMultiple((a + (x - y)) - a, F)
    BY <2>1, MultipleSum
  <2>3. (a + (x - y)) - a = x - y /\ x - y \in Int /\ -F < x - y /\ x - y < F /\ F \in Nat \ {0}
    BY <1>3, <1>4, <1>6, SMTT(30) DEF F
  <2>4. x - y = 0
    BY <2>2, <2>3, SmallMultiple
  <2> QED BY <1>4, <1>5, <2>4
<1>8. ~IsMultiple(Sums!Adds(c), F)
  BY <1>1, <1>7 DEF a, x, y
<1> QED BY <1>3, <1>6, <1>8, MultipleModulo DEF F

\* Whatever a packet consists of, of even or of odd length, the receiver takes it if it
\* arrives as it was sent and not if one byte has changed, and no datagram is sent as one
\* without a check sum.
THEOREM PacketsAreCheckedHolds ==
    ASSUME Sums!ChecksumsAssumption PROVE Sums!Spec => []Sums!PacketsAreChecked
<1>1. SumsInv => Sums!SentIsTaken
  <2> SUFFICES ASSUME SumsInv, stage = "received", packet = packetSent PROVE Sums!Taken(packet)
    BY DEF Sums!SentIsTaken
  <2>1. packet \in Seq(Octets) /\ IsMultiple(Sums!Adds(packet), Sums!Full)
    BY DEF SumsInv
  <2>2. Sums!Adds(packet) \in Nat /\ Sums!Full \in Nat \ {0}
    BY <2>1, AddsFacts, SumNumbers
  <2>3. Sums!Adds(packet) % Sums!Full = 0
    BY <2>1, <2>2, MultipleModulo
  <2> QED BY <2>3 DEF Sums!Taken
<1>2. SumsInv => Sums!ChangeIsNoticed
  <2> SUFFICES ASSUME SumsInv, stage = "received", packet # packetSent,
                      ~(kind = "udp" /\ Sums!Field(packet) = 0)
               PROVE  ~Sums!Taken(packet)
    BY DEF Sums!ChangeIsNoticed
  <2>1. packetSent \in Seq(Octets) /\ IsMultiple(Sums!Adds(packetSent), Sums!Full)
    BY DEF SumsInv
  <2>2. PICK k \in DOMAIN packetSent, v \in Octets : packet = [packetSent EXCEPT ![k] = v]
    BY DEF SumsInv
  <2>3. Sums!Adds(packet) % Sums!Full # 0
    BY <2>1, <2>2, OneByteIsNoticed
  <2> QED BY <2>3 DEF Sums!Taken
<1>3. SumsInv => Sums!DatagramsAreChecked
  BY DEF SumsInv, Sums!DatagramsAreChecked
<1>4. SumsInv => Sums!PacketsAreChecked
  BY <1>1, <1>2, <1>3 DEF Sums!PacketsAreChecked
<1> QED BY <1>4, SumsInvariance, PTL

-----------------------------------------------------------------------------
(* Cookies                                                                 *)

\* The last element in Q of a sequence that gets one more.
LEMMA LastOfAppended ==
    ASSUME NEW S, NEW s \in Seq(S), NEW x \in S, NEW Q
    PROVE  Jar!LastIn(Append(s, x), Q) = IF x \in Q THEN {x} ELSE Jar!LastIn(s, Q)
<1> DEFINE n == Len(s)
           t == Append(s, x)
           Ends(u, j) == u[j] \in Q /\ \A k \in j+1..Len(u) : u[k] \notin Q
<1>1. n \in Nat /\ DOMAIN s = 1..n /\ DOMAIN t = 1..(n + 1) /\ Len(t) = n + 1
  OBVIOUS
<1>2. t[n + 1] = x /\ \A k \in 1..n : t[k] = s[k]
  OBVIOUS
<1>3. Jar!LastIn(t, Q) = {t[i] : i \in {j \in 1..(n + 1) : Ends(t, j)}}
  BY <1>1 DEF Jar!LastIn
<1>4. Jar!LastIn(s, Q) = {s[i] : i \in {j \in 1..n : Ends(s, j)}}
  BY <1>1 DEF Jar!LastIn
<1> HIDE DEF n, t
<1>5. Ends(t, n + 1) <=> x \in Q
  BY <1>1, <1>2
<1>6. \A j \in 1..n : Ends(t, j) <=> Ends(s, j) /\ x \notin Q
  <2> SUFFICES ASSUME NEW j \in 1..n PROVE Ends(t, j) <=> Ends(s, j) /\ x \notin Q
    OBVIOUS
  <2>1. j+1..n+1 = (j+1..n) \cup {n + 1} /\ \A k \in j+1..n : k \in 1..n
    BY <1>1
  <2> QED BY <1>1, <1>2, <2>1 DEF n
<1> HIDE DEF Ends
<1>7. CASE x \in Q
  <2>1. {j \in 1..(n + 1) : Ends(t, j)} = {n + 1}
    BY <1>1, <1>5, <1>6, <1>7
  <2> QED BY <1>2, <1>3, <1>7, <2>1 DEF t
<1>8. CASE x \notin Q
  <2>1. {j \in 1..(n + 1) : Ends(t, j)} = {j \in 1..n : Ends(s, j)}
    BY <1>1, <1>5, <1>6, <1>8
  <2>2. {t[i] : i \in {j \in 1..n : Ends(s, j)}} = {s[i] : i \in {j \in 1..n : Ends(s, j)}}
    BY <1>2
  <2> QED BY <1>3, <1>4, <1>8, <2>1, <2>2 DEF t
<1> QED BY <1>7, <1>8

\* What Array.filter has kept after each of its rounds.
IsFiltering(kept, S, seq, set) ==
    /\ kept \in [0..Len(seq) -> Seq(S)]
    /\ Jar!Filter(seq, set) = kept[Len(seq)]
    /\ kept[0] = <<>>
    /\ \A i \in 1..Len(seq) :
          kept[i] = IF seq[i] \in set THEN Append(kept[i - 1], seq[i]) ELSE kept[i - 1]

\* It has these rounds.
LEMMA FilterRounds ==
    ASSUME NEW S, NEW seq \in Seq(S), NEW set PROVE \E kept : IsFiltering(kept, S, seq, set)
<1> DEFINE n == Len(seq)
           Body(f, i) == IF i = 0 THEN <<>>
                         ELSE IF seq[i] \in set THEN Append(f[i - 1], seq[i]) ELSE f[i - 1]
           kept == CHOOSE f : f = [i \in 0..n |-> Body(f, i)]
           step == [i \in 1..n |-> [s \in Seq(S) |-> IF seq[i] \in set THEN Append(s, seq[i]) ELSE s]]
           g == Loop(n, Seq(S), <<>>, step)
<1>1. Jar!Filter(seq, set) = kept[n]
  BY Zenon DEF Jar!Filter
<1>2. n \in Nat /\ \A i \in 1..n : seq[i] \in S
  OBVIOUS
<1>3. <<>> \in Seq(S)
  OBVIOUS
<1> HIDE DEF n
<1>4. \A s \in Seq(S), i \in 1..n :
        /\ step[i][s] = IF seq[i] \in set THEN Append(s, seq[i]) ELSE s
        /\ step[i][s] \in Seq(S)
  BY <1>2
<1>5. g \in [0..n -> Seq(S)] /\ g[0] = <<>> /\ \A i \in 1..n : g[i] = step[i][g[i - 1]]
  <2> DEFINE X == Seq(S)
  <2>1. <<>> \in X /\ \A x \in X, i \in 1..n : step[i][x] \in X
    BY <1>3, <1>4
  <2> HIDE DEF step, X
  <2>2. Loop(n, X, <<>>, step) \in [0..n -> X]
    BY <1>2, <2>1, PrefixRecursion
  <2>3. Loop(n, X, <<>>, step)[0] = <<>>
    BY <1>2, <2>1, PrefixRecursion
  <2>4. \A i \in 1..n : Loop(n, X, <<>>, step)[i] = step[i][Loop(n, X, <<>>, step)[i - 1]]
    BY <1>2, <2>1, PrefixRecursion
  <2> QED BY <2>2, <2>3, <2>4 DEF X
<1> HIDE DEF g
<1>6. \A i \in 1..n : g[i] = IF seq[i] \in set THEN Append(g[i - 1], seq[i]) ELSE g[i - 1]
  <2> SUFFICES ASSUME NEW i \in 1..n
               PROVE  g[i] = IF seq[i] \in set THEN Append(g[i - 1], seq[i]) ELSE g[i - 1]
    OBVIOUS
  <2> HIDE DEF step
  <2>1. i - 1 \in 0..n
    BY <1>2
  <2>2. g[i - 1] \in Seq(S)
    BY <1>5, <2>1
  <2>3. g[i] = step[i][g[i - 1]]
    BY <1>5
  <2> QED BY <1>4, <2>2, <2>3
<1> HIDE DEF step
<1>7. \A i \in 0..n : g[i] = Body(g, i)
  <2> SUFFICES ASSUME NEW i \in 0..n PROVE g[i] = Body(g, i)
    OBVIOUS
  <2>1. CASE i = 0
    BY <1>5, <2>1
  <2>2. CASE i # 0
    <3>1. i \in 1..n
      BY <1>2, <2>2
    <3> QED BY <1>6, <2>2, <3>1
  <2> QED BY <2>1, <2>2
<1> HIDE DEF Body
<1>8. g = [i \in 0..n |-> Body(g, i)]
  BY <1>5, <1>7
<1>9. kept = [i \in 0..n |-> Body(kept, i)]
  BY <1>8
<1> HIDE DEF kept
<1>10. \A i \in 0..n : kept[i] = Body(kept, i)
  BY <1>9
<1>11. kept[0] = <<>>
  BY <1>2, <1>10 DEF Body
<1>12. \A i \in 1..n : kept[i] = IF seq[i] \in set THEN Append(kept[i - 1], seq[i]) ELSE kept[i - 1]
  BY <1>2, <1>10 DEF Body
<1> DEFINE good == {i \in 0..n : kept[i] \in Seq(S)}
<1>13. 0 \in good
  <2>1. 0 \in 0..n
    BY <1>2
  <2>2. kept[0] \in Seq(S)
    BY <1>3, <1>11, Zenon
  <2> QED BY <2>1, <2>2
<1>14. ASSUME NEW i \in 1..n, i - 1 \in good PROVE i \in good
  <2>1. kept[i - 1] \in Seq(S) /\ seq[i] \in S
    BY <1>2, <1>14
  <2>2. Append(kept[i - 1], seq[i]) \in Seq(S)
    BY <2>1
  <2>3. kept[i] \in Seq(S)
    <3> HIDE DEF good
    <3> QED BY <1>12, <2>1, <2>2, Zenon
  <2> QED BY <2>3
<1>15. kept \in [0..n -> Seq(S)]
  <2>1. \A i \in 0..n : i \in good
    <3> HIDE DEF good
    <3> QED BY <1>2, <1>13, <1>14, UpTo
  <2> QED BY <1>9, <2>1
<1> QED BY <1>1, <1>11, <1>12, <1>15 DEF n, IsFiltering

\* What Array.filter keeps: only what is in the set, everything if all are, and the last
\* one of every kind that is kept.
LEMMA FilterFacts ==
    ASSUME NEW S, NEW seq \in Seq(S), NEW set
    PROVE  /\ Jar!Filter(seq, set) \in Seq(S)
           /\ Values(Jar!Filter(seq, set)) \subseteq set
           /\ Values(seq) \subseteq set => Jar!Filter(seq, set) = seq
           /\ \A Q \in SUBSET set : Jar!LastIn(Jar!Filter(seq, set), Q) = Jar!LastIn(seq, Q)
<1> DEFINE n == Len(seq)
<1>0. PICK kept : IsFiltering(kept, S, seq, set)
  BY FilterRounds, Zenon
<1>1. /\ kept \in [0..n -> Seq(S)]
      /\ Jar!Filter(seq, set) = kept[n]
      /\ kept[0] = <<>>
      /\ \A i \in 1..n : kept[i] = IF seq[i] \in set THEN Append(kept[i - 1], seq[i]) ELSE kept[i - 1]
  BY <1>0 DEF IsFiltering
<1>2. n \in Nat /\ DOMAIN seq = 1..n /\ \A i \in 1..n : seq[i] \in S
  OBVIOUS
<1>3. SubSeq(seq, 1, 0) = <<>> /\ SubSeq(seq, 1, n) = seq
  OBVIOUS
<1>4. \A i \in 1..n : SubSeq(seq, 1, i) = Append(SubSeq(seq, 1, i - 1), seq[i]) /\ SubSeq(seq, 1, i - 1) \in Seq(S)
  OBVIOUS
<1>8. \A s \in Seq(S), x \in S : \A Q :
        Jar!LastIn(Append(s, x), Q) = IF x \in Q THEN {x} ELSE Jar!LastIn(s, Q)
  BY LastOfAppended, Zenon
<1> HIDE DEF n
<1> DEFINE Alike(i) == \A Q \in SUBSET set : Jar!LastIn(kept[i], Q) = Jar!LastIn(SubSeq(seq, 1, i), Q)
           good == {i \in 0..n : /\ Values(kept[i]) \subseteq set
                                 /\ Values(seq) \subseteq set => kept[i] = SubSeq(seq, 1, i)
                                 /\ Alike(i)}
<1>5. 0 \in good
  <2>1. Values(<<>>) = {} /\ 0 \in 0..n
    BY <1>2 DEF Values
  <2> QED BY <1>1, <1>3, <2>1
<1>6. ASSUME NEW i \in 1..n, i - 1 \in good PROVE i \in good
  <2>1. /\ kept[i - 1] \in Seq(S) /\ seq[i] \in S /\ i \in 0..n
        /\ Values(kept[i - 1]) \subseteq set /\ Alike(i - 1)
        /\ Values(seq) \subseteq set => kept[i - 1] = SubSeq(seq, 1, i - 1)
    <3>1. i - 1 \in 0..n /\ i \in 0..n /\ seq[i] \in S
      BY <1>2
    <3>2. kept[i - 1] \in Seq(S)
      BY <1>1, <3>1
    <3> QED BY <1>6, <3>1, <3>2
  <2>4. \A Q : Jar!LastIn(SubSeq(seq, 1, i), Q) =
                 IF seq[i] \in Q THEN {seq[i]} ELSE Jar!LastIn(SubSeq(seq, 1, i - 1), Q)
    <3>1. SubSeq(seq, 1, i) = Append(SubSeq(seq, 1, i - 1), seq[i]) /\ SubSeq(seq, 1, i - 1) \in Seq(S)
      BY <1>4
    <3> DEFINE t == SubSeq(seq, 1, i - 1)
               u == SubSeq(seq, 1, i)
    <3> HIDE DEF t, u
    <3>2. t \in Seq(S) /\ u = Append(t, seq[i]) /\ seq[i] \in S
      BY <2>1, <3>1 DEF t, u
    <3>3. \A Q : Jar!LastIn(Append(t, seq[i]), Q) = IF seq[i] \in Q THEN {seq[i]} ELSE Jar!LastIn(t, Q)
      BY <1>8, <3>2, Zenon
    <3>4. \A Q : Jar!LastIn(u, Q) = IF seq[i] \in Q THEN {seq[i]} ELSE Jar!LastIn(t, Q)
      BY <3>2, <3>3, Zenon
    <3> QED BY <3>4 DEF t, u
  <2>5. \A Q : Jar!LastIn(Append(kept[i - 1], seq[i]), Q) =
                 IF seq[i] \in Q THEN {seq[i]} ELSE Jar!LastIn(kept[i - 1], Q)
    <3> DEFINE t == kept[i - 1]
    <3> HIDE DEF t
    <3>1. t \in Seq(S) /\ seq[i] \in S
      BY <2>1 DEF t
    <3>2. \A Q : Jar!LastIn(Append(t, seq[i]), Q) = IF seq[i] \in Q THEN {seq[i]} ELSE Jar!LastIn(t, Q)
      BY <1>8, <3>1, Zenon
    <3> QED BY <3>2 DEF t
  <2>2. CASE seq[i] \in set
    <3>1. kept[i] = Append(kept[i - 1], seq[i])
      BY <1>1, <2>2
    <3>2. Values(kept[i]) \subseteq set
      BY <2>1, <2>2, <3>1, AppendValues
    <3>3. Values(seq) \subseteq set => kept[i] = SubSeq(seq, 1, i)
      BY <1>4, <2>1, <3>1
    <3>4. Alike(i)
      <4> SUFFICES ASSUME NEW Q \in SUBSET set
                   PROVE  Jar!LastIn(kept[i], Q) = Jar!LastIn(SubSeq(seq, 1, i), Q)
        OBVIOUS
      <4>1. Jar!LastIn(Append(kept[i - 1], seq[i]), Q) =
              IF seq[i] \in Q THEN {seq[i]} ELSE Jar!LastIn(kept[i - 1], Q)
        BY <2>5
      <4>2. Jar!LastIn(SubSeq(seq, 1, i), Q) =
              IF seq[i] \in Q THEN {seq[i]} ELSE Jar!LastIn(SubSeq(seq, 1, i - 1), Q)
        BY <2>4
      <4> QED BY <2>1, <3>1, <4>1, <4>2, Zenon
    <3> QED BY <2>1, <3>2, <3>3, <3>4
  <2>3. CASE seq[i] \notin set
    <3>1. kept[i] = kept[i - 1]
      BY <1>1, <2>3
    <3>2. ~(Values(seq) \subseteq set)
      BY <1>2, <2>3 DEF Values
    <3>3. Alike(i)
      <4> SUFFICES ASSUME NEW Q \in SUBSET set
                   PROVE  Jar!LastIn(kept[i], Q) = Jar!LastIn(SubSeq(seq, 1, i), Q)
        OBVIOUS
      <4>1. seq[i] \notin Q
        BY <2>3
      <4>2. Jar!LastIn(SubSeq(seq, 1, i), Q) = Jar!LastIn(SubSeq(seq, 1, i - 1), Q)
        BY <2>4, <4>1
      <4> QED BY <2>1, <3>1, <4>2
    <3> QED BY <2>1, <3>1, <3>2, <3>3
  <2> QED BY <2>2, <2>3
<1>7. n \in 0..n /\ n \in good
  <2> HIDE DEF good
  <2>1. \A i \in 0..n : i \in good
    BY <1>2, <1>5, <1>6, UpTo
  <2> QED BY <1>2, <2>1
<1>9. kept[n] \in Seq(S)
  BY <1>1, <1>7
<1>10. Values(kept[n]) \subseteq set /\ (Values(seq) \subseteq set => kept[n] = seq) /\ Alike(n)
  BY <1>3, <1>7, Zenon
<1>11. \A Q \in SUBSET set : Jar!LastIn(kept[n], Q) = Jar!LastIn(seq, Q)
  BY <1>3, <1>10, Zenon
<1> HIDE DEF Alike, good
<1> QED BY <1>1, <1>9, <1>10, <1>11, Zenon

\* The attributes that are kept of a cookie, and what they mean to a browser.
Staying == {a \in Jar!Attributes : a # Jar!Blank /\ ~Jar!IsDomain(a)}

Without(c) == [c EXCEPT !.attributes = Jar!Kept(@)]

\* A cookie is a record of its three parts.
LEMMA CookieFacts ==
    ASSUME NEW c \in Jar!Cookie
    PROVE  /\ c = [name |-> c.name, value |-> c.value, attributes |-> c.attributes]
           /\ c.attributes \in Seq(Jar!Attributes)
<1>1. PICK n \in 0..MaxAttributes : c.attributes \in [1..n -> Jar!Attributes]
  BY Zenon DEF Jar!Cookie
<1>2. c = [name |-> c.name, value |-> c.value, attributes |-> c.attributes]
  BY SMTT(30) DEF Jar!Cookie
<1>3. n \in Nat
  OBVIOUS
<1>4. c.attributes \in Seq(Jar!Attributes)
  BY <1>1, <1>3
<1> QED BY <1>2, <1>4

\* What stays of a cookie.
LEMMA WithoutFacts ==
    ASSUME NEW c \in Jar!Cookie
    PROVE  /\ Without(c).name = c.name /\ Without(c).value = c.value
           /\ Without(c).attributes = Jar!Filter(c.attributes, Staying)
           /\ Without(c).attributes = Jar!Kept(c.attributes)
           /\ Without(c) = [name |-> c.name, value |-> c.value, attributes |-> Jar!Kept(c.attributes)]
           /\ Without(c).attributes \in Seq(Jar!Attributes)
           /\ Values(Without(c).attributes) \subseteq Staying
<1>1. c = [name |-> c.name, value |-> c.value, attributes |-> c.attributes]
  BY CookieFacts
<1>2. Without(c) = [name |-> c.name, value |-> c.value, attributes |-> Jar!Kept(c.attributes)]
  BY <1>1 DEF Without
<1>3. Jar!Kept(c.attributes) = Jar!Filter(c.attributes, Staying)
  BY DEF Jar!Kept, Staying
<1>4. Jar!Filter(c.attributes, Staying) \in Seq(Jar!Attributes)
      /\ Values(Jar!Filter(c.attributes, Staying)) \subseteq Staying
  BY CookieFacts, FilterFacts
<1> QED BY <1>2, <1>3, <1>4

\* For a browser the cookie means what it meant, but for the domains the filter sees.
LEMMA MeaningStays ==
    ASSUME NEW c \in Jar!Cookie
    PROVE  Jar!Understood(Without(c)) =
             [Jar!Understood(c) EXCEPT !.means["domain"] = {a.value : a \in Jar!Unseen(c)}]
<1> DEFINE K == {Lower[l] : l \in Keys}
           Last(s, k) == {a.value : a \in Jar!LastIn(s, Jar!Counting(k))}
           old == [k \in K |-> Last(c.attributes, k)]
           new == [k \in K |-> Last(Without(c).attributes, k)]
<1>1. Jar!Understood(c) = [name |-> c.name, value |-> c.value, means |-> old]
  BY DEF Jar!Understood
<1>2. Jar!Understood(Without(c)) = [name |-> c.name, value |-> c.value, means |-> new]
  BY WithoutFacts DEF Jar!Understood
<1>3. \A k \in K : k # "domain" => Last(Without(c).attributes, k) = Last(c.attributes, k)
  <2> SUFFICES ASSUME NEW k \in K, k # "domain"
               PROVE  Jar!LastIn(Without(c).attributes, Jar!Counting(k)) = Jar!LastIn(c.attributes, Jar!Counting(k))
    OBVIOUS
  <2>1. Jar!Counting(k) \in SUBSET Staying
    BY DEF Jar!Counting, Staying, Jar!IsDomain
  <2>2. \A Q \in SUBSET Staying : Jar!LastIn(Jar!Filter(c.attributes, Staying), Q) = Jar!LastIn(c.attributes, Q)
    BY CookieFacts, FilterFacts
  <2> QED BY <2>1, <2>2, WithoutFacts
<1> DEFINE gaps == {a \in Jar!Counting("domain") : a.gap}
           unseen == {a.value : a \in Jar!Unseen(c)}
<1>4. Last(Without(c).attributes, "domain") = unseen
  <2>1. gaps \in SUBSET Staying /\ \A a \in Staying : a \in Jar!Counting("domain") <=> a \in gaps
    BY DEF Jar!Counting, Staying, Jar!IsDomain, Jar!Attributes
  <2>2. \A i \in DOMAIN Without(c).attributes : Without(c).attributes[i] \in Staying
    BY WithoutFacts DEF Values
  <2> DEFINE s == Without(c).attributes
             Q == Jar!Counting("domain")
  <2>3. Jar!LastIn(s, Q) = Jar!LastIn(s, gaps)
    <3>1. s \in Seq(Jar!Attributes) /\ \A i \in DOMAIN s : s[i] \in Q <=> s[i] \in gaps
      BY <2>1, <2>2, WithoutFacts
    <3> HIDE DEF s, gaps, Q
    <3>2. DOMAIN s = 1..Len(s) /\ Len(s) \in Nat
      BY <3>1
    <3>3. \A j \in DOMAIN s : \A n \in j+1..Len(s) : n \in DOMAIN s
      BY <3>2
    <3> QED BY <3>1, <3>3, Zenon DEF Jar!LastIn
  <2>4. Jar!LastIn(s, gaps) = Jar!LastIn(c.attributes, gaps)
    <3>1. \A P \in SUBSET Staying : Jar!LastIn(Jar!Filter(c.attributes, Staying), P) = Jar!LastIn(c.attributes, P)
      BY CookieFacts, FilterFacts
    <3> QED BY <2>1, <3>1, WithoutFacts
  <2>5. Jar!Unseen(c) = Jar!LastIn(c.attributes, gaps)
    BY DEF Jar!Unseen
  <2> QED BY <2>3, <2>4, <2>5
<1> HIDE DEF K, Last, unseen
<1>5. new = [old EXCEPT !["domain"] = unseen]
  <2>1. \A k \in K : new[k] = [old EXCEPT !["domain"] = unseen][k]
    BY <1>3, <1>4
  <2> QED BY <2>1
<1> HIDE DEF old, new
<1>6. [Jar!Understood(c) EXCEPT !.means["domain"] = unseen]
        = [name |-> c.name, value |-> c.value, means |-> [old EXCEPT !["domain"] = unseen]]
  BY <1>1
<1> QED BY <1>2, <1>5, <1>6 DEF unseen

\* The domain that is reported is the value of the last one.
LEMMA StrippedFacts ==
    ASSUME NEW c \in Jar!Cookie
    PROVE  /\ Jar!DomainsAt(c.attributes) = {} => Jar!StrippedDomain(c.attributes) = ""
           /\ Jar!StrippedDomain(c.attributes) # "" <=>
                \E k \in Jar!DomainsAt(c.attributes) :
                    /\ c.attributes[k].value # ""
                    /\ \A n \in Jar!DomainsAt(c.attributes) : n <= k
<1> DEFINE at == Jar!DomainsAt(c.attributes)
           n == Len(c.attributes)
           top == CHOOSE i \in at : \A j \in at : j <= i
<1>1. n \in Nat /\ at \subseteq 1..n
  BY CookieFacts DEF Jar!DomainsAt
<1>2. Jar!StrippedDomain(c.attributes) = IF at = {} THEN "" ELSE c.attributes[top].value
  BY DEF Jar!StrippedDomain
<1>8. \A i \in at : i \in Nat
  BY <1>1
<1>3. ASSUME at # {} PROVE \E i \in at : \A j \in at : j <= i
  <2> DEFINE below == {n - i : i \in at}
  <2>1. below \in SUBSET Nat /\ below # {}
    BY <1>1, <1>3
  <2>2. PICK m \in below : \A k \in below : m <= k
    <3> HIDE DEF below
    <3> QED BY <2>1, LeastNumber, Zenon
  <2>3. PICK i \in at : m = n - i
    OBVIOUS
  <2>4. \A j \in at : n - i <= n - j
    BY <2>2, <2>3
  <2>5. \A j \in at : j <= i
    BY <1>1, <2>4
  <2> QED BY <2>5
<1> HIDE DEF at, n
<1>4. at # {} => top \in at /\ \A j \in at : j <= top
  BY <1>3
<1> HIDE DEF top
<1>5. \A k \in at : (\A j \in at : j <= k) => k = top
  <2> SUFFICES ASSUME NEW k \in at, \A j \in at : j <= k PROVE k = top
    OBVIOUS
  <2>1. top \in at /\ k <= top /\ top <= k
    BY <1>4
  <2>2. top \in Nat /\ k \in Nat
    BY <1>8, <2>1
  <2> QED BY <2>1, <2>2
<1>6. CASE at = {}
  BY <1>2, <1>6 DEF at
<1>7. CASE at # {}
  <2>1. Jar!StrippedDomain(c.attributes) = c.attributes[top].value
    BY <1>2, <1>7
  <2> QED BY <1>4, <1>5, <1>7, <2>1 DEF at
<1> QED BY <1>6, <1>7

\* A cookie whose attributes are replaced by themselves.
LEMMA SameAttributes ==
    ASSUME NEW d, NEW x, NEW y, NEW z, d = [name |-> x, value |-> y, attributes |-> z]
    PROVE  [d EXCEPT !.attributes = z] = d
<1>1. \A w : [d EXCEPT !.attributes = w] = [name |-> x, value |-> y, attributes |-> w]
  OBVIOUS
<1>2. [d EXCEPT !.attributes = z] = [name |-> x, value |-> y, attributes |-> z]
  BY <1>1
<1> QED BY <1>2

\* A cookie that passed the filter passes it again as it is.
LEMMA FilteredPasses ==
    ASSUME NEW c \in Jar!Cookie, c.name # "", c.name \notin OwnNames
    PROVE  Jar!SanitizeSetCookie(Without(c)) = [action |-> "pass", cookie |-> <<Without(c)>>]
<1> DEFINE d == Without(c)
<1>1. d.name = c.name /\ d = [name |-> c.name, value |-> c.value, attributes |-> d.attributes]
      /\ d.attributes \in Seq(Jar!Attributes) /\ Values(d.attributes) \subseteq Staying
  <2>1. d.attributes = Jar!Kept(c.attributes)
    BY WithoutFacts
  <2> QED BY <2>1, WithoutFacts
<1> HIDE DEF d
<1>2. Jar!DomainsAt(d.attributes) = {}
  <2>1. \A i \in DOMAIN d.attributes : d.attributes[i] \in Staying
    BY <1>1 DEF Values
  <2> QED BY <2>1 DEF Jar!DomainsAt, Staying
<1>3. Jar!StrippedDomain(d.attributes) = ""
  BY <1>2 DEF Jar!StrippedDomain
<1>4. Jar!Kept(d.attributes) = d.attributes
  <2>1. Jar!Kept(d.attributes) = Jar!Filter(d.attributes, Staying)
    BY DEF Jar!Kept, Staying
  <2> QED BY <1>1, <2>1, FilterFacts
<1>5. [d EXCEPT !.attributes = Jar!Kept(@)] = d
  <2> DEFINE a == d.attributes
  <2>1. [d EXCEPT !.attributes = Jar!Kept(@)] = [d EXCEPT !.attributes = Jar!Kept(a)]
    OBVIOUS
  <2>2. Jar!Kept(a) = a /\ d = [name |-> c.name, value |-> c.value, attributes |-> a]
    BY <1>1, <1>4
  <2> HIDE DEF a
  <2>5. [d EXCEPT !.attributes = a] = d
    BY <2>2, SameAttributes, Zenon
  <2> QED BY <2>1, <2>2, <2>5, Zenon
<1>6. Jar!SanitizeSetCookie(d) = [action |-> "pass", cookie |-> <<[d EXCEPT !.attributes = Jar!Kept(@)]>>]
  BY <1>1, <1>3 DEF Jar!SanitizeSetCookie
<1> QED BY <1>5, <1>6 DEF d

\* A message has at most one cookie.
Piece == [key : {Others[i] : i \in DOMAIN Others} \cup {"set-cookie"}, says : Jar!Cookie \cup {Jar!Nothing}]

OneCookie(m) ==
    /\ m \in Seq(Piece)
    /\ \A i \in DOMAIN m : Jar!IsCookie(m[i]) => m[i].says \in Jar!Cookie
    /\ \A i, j \in DOMAIN m : Jar!IsCookie(m[i]) /\ Jar!IsCookie(m[j]) => i = j

\* The other headers are none.
LEMMA OtherFacts ==
    ASSUME Jar!CookieAssumption
    PROVE  /\ Jar!Other \in Seq(Piece)
           /\ \A i \in DOMAIN Jar!Other : ~Jar!IsCookie(Jar!Other[i])
<1>1. DOMAIN Others = 1..Len(Others) /\ Len(Others) \in Nat /\ \A i \in DOMAIN Others : Others[i] # "set-cookie"
  <2> DEFINE N == {Others[i] : i \in DOMAIN Others}
  <2>1. Others \in Seq(N)
    BY DEF Jar!CookieAssumption
  <2> HIDE DEF N
  <2>2. DOMAIN Others = 1..Len(Others) /\ Len(Others) \in Nat
    BY <2>1
  <2>3. \A i \in DOMAIN Others : Others[i] # "set-cookie"
    BY DEF Jar!CookieAssumption
  <2> QED BY <2>2, <2>3
<1>2. \A i \in DOMAIN Others : /\ Jar!Header(Others[i], Jar!Nothing) \in Piece
                             /\ ~Jar!IsCookie(Jar!Header(Others[i], Jar!Nothing))
  BY <1>1 DEF Jar!Header, Jar!IsCookie, Piece
<1>3. Jar!Other = [i \in 1..Len(Others) |-> Jar!Header(Others[i], Jar!Nothing)]
  BY <1>1 DEF Jar!Other
<1> QED BY <1>1, <1>2, <1>3

\* What stands where after an insertion.
IsInsertion(t, S, s, k, e) ==
    /\ t \in Seq(S)
    /\ DOMAIN t = 1..(Len(s) + 1)
    /\ \A i \in 1..(Len(s) + 1) : t[i] = IF i < k THEN s[i] ELSE IF i = k THEN e ELSE s[i - 1]

\* What InsertAt makes of a sequence is one.
LEMMA Inserted ==
    ASSUME NEW S, NEW s \in Seq(S), NEW k \in 1..(Len(s) + 1), NEW e \in S
    PROVE  IsInsertion(Jar!InsertAt(s, k, e), S, s, k, e)
<1> DEFINE n == Len(s)
           a == SubSeq(s, 1, k - 1)
           b == SubSeq(s, k, n)
<1>1. a \in Seq(S) /\ Len(a) = k - 1 /\ \A i \in 1..(k - 1) : a[i] = s[i]
  OBVIOUS
<1>2. b \in Seq(S) /\ Len(b) = n - k + 1 /\ \A i \in 1..(n - k + 1) : b[i] = s[k + i - 1]
  OBVIOUS
<1>3. Jar!InsertAt(s, k, e) = (a \o <<e>>) \o b
  BY DEF Jar!InsertAt
<1>4. n \in Nat /\ k \in Nat
  OBVIOUS
<1> HIDE DEF a, b, n
<1> DEFINE t == a \o <<e>>
<1>5. t \in Seq(S) /\ Len(t) = k /\ t[k] = e /\ \A i \in 1..(k - 1) : t[i] = s[i]
  <2>1. t = Append(a, e)
    BY <1>1
  <2> HIDE DEF t
  <2>2. /\ Append(a, e) \in Seq(S) /\ Len(Append(a, e)) = (k - 1) + 1
        /\ Append(a, e)[(k - 1) + 1] = e
        /\ \A i \in 1..(k - 1) : Append(a, e)[i] = a[i]
    BY <1>1
  <2>3. (k - 1) + 1 = k
    BY <1>4
  <2> QED BY <1>1, <2>1, <2>2, <2>3, Zenon
<1> HIDE DEF t
<1>6. t \o b \in Seq(S) /\ Len(t \o b) = n + 1
  BY <1>2, <1>4, <1>5, SMTT(30)
<1>7. /\ \A i \in 1..k : (t \o b)[i] = t[i]
      /\ \A i \in k+1..n+1 : (t \o b)[i] = b[i - k]
  BY <1>2, <1>4, <1>5, SMTT(30)
<1>8. \A i \in k+1..n+1 : b[i - k] = s[i - 1]
  <2> SUFFICES ASSUME NEW i \in k+1..n+1 PROVE b[i - k] = s[i - 1]
    OBVIOUS
  <2>1. i - k \in 1..(n - k + 1) /\ k + (i - k) - 1 = i - 1
    BY <1>4
  <2> QED BY <1>2, <2>1
<1>9. \A i \in 1..(n + 1) : (t \o b)[i] = IF i < k THEN s[i] ELSE IF i = k THEN e ELSE s[i - 1]
  <2> SUFFICES ASSUME NEW i \in 1..(n + 1)
               PROVE  (t \o b)[i] = IF i < k THEN s[i] ELSE IF i = k THEN e ELSE s[i - 1]
    OBVIOUS
  <2>1. CASE i < k
    BY <1>4, <1>5, <1>7, <2>1
  <2>2. CASE i = k
    BY <1>4, <1>5, <1>7, <2>2
  <2>3. CASE i > k
    <3>1. i \in k+1..n+1
      BY <1>4, <2>3
    <3>2. (t \o b)[i] = b[i - k]
      BY <1>7, <3>1
    <3>3. b[i - k] = s[i - 1]
      BY <1>8, <3>1
    <3>4. ~(i < k) /\ i # k
      BY <1>4, <2>3
    <3> QED BY <3>2, <3>3, <3>4, Zenon
  <2>4. i < k \/ i = k \/ i > k
    BY <1>4
  <2> QED BY <2>1, <2>2, <2>3, <2>4
<1> QED BY <1>3, <1>6, <1>9 DEF t, n, IsInsertion

\* So every message has one cookie at most.
LEMMA MessageFacts == ASSUME Jar!CookieAssumption, NEW m \in Jar!Messages PROVE OneCookie(m)
<1>1. CASE m = Jar!Other
  BY <1>1, OtherFacts DEF OneCookie
<1>2. ASSUME NEW k \in 1..(Len(Jar!Other) + 1), NEW c \in Jar!Cookie,
             m = Jar!InsertAt(Jar!Other, k, Jar!Header("set-cookie", c))
      PROVE  OneCookie(m)
  <2> DEFINE h == Jar!Header("set-cookie", c)
             o == Jar!Other
  <2>1. h \in Piece /\ h.says = c /\ Jar!IsCookie(h)
    BY DEF Jar!Header, Jar!IsCookie, Piece
  <2>2. o \in Seq(Piece) /\ (\A i \in 1..Len(o) : ~Jar!IsCookie(o[i])) /\ Len(o) \in Nat
    BY OtherFacts
  <2> HIDE DEF h, o
  <2>3. /\ m \in Seq(Piece) /\ DOMAIN m = 1..(Len(o) + 1)
        /\ \A i \in 1..(Len(o) + 1) : m[i] = IF i < k THEN o[i] ELSE IF i = k THEN h ELSE o[i - 1]
    <3>1. k \in 1..(Len(o) + 1) /\ m = Jar!InsertAt(o, k, h)
      BY <1>2 DEF h, o
    <3>2. IsInsertion(Jar!InsertAt(o, k, h), Piece, o, k, h)
      BY <2>1, <2>2, <3>1, Inserted, Zenon
    <3>3. IsInsertion(m, Piece, o, k, h)
      BY <3>1, <3>2
    <3> QED BY <3>3 DEF IsInsertion
  <2>4. \A i \in DOMAIN m : Jar!IsCookie(m[i]) => i = k
    <3> SUFFICES ASSUME NEW i \in 1..(Len(o) + 1), i # k PROVE ~Jar!IsCookie(m[i])
      BY <2>3
    <3>1. k \in 1..(Len(o) + 1)
      BY DEF o
    <3>2. CASE i < k
      <4>1. i \in 1..Len(o) /\ m[i] = o[i]
        BY <2>2, <2>3, <3>1, <3>2
      <4> QED BY <2>2, <4>1
    <3>3. CASE i > k
      <4>1. i - 1 \in 1..Len(o) /\ m[i] = o[i - 1]
        BY <2>2, <2>3, <3>1, <3>3
      <4> QED BY <2>2, <4>1
    <3> QED BY <2>2, <3>1, <3>2, <3>3
  <2>5. m[k] = h
    <3>1. k \in 1..(Len(o) + 1)
      BY DEF o
    <3> QED BY <2>2, <2>3, <3>1
  <2> QED BY <2>1, <2>3, <2>4, <2>5 DEF OneCookie
<1> QED BY <1>1, <1>2 DEF Jar!Messages

\* What the loops have made of the headers: nothing of a cookie yet, the cookie itself, or
\* what the filter makes of it.
Logged(c) ==
    IF Jar!SanitizeSetCookie(c).action \in {"block", "strip"}
    THEN <<<<Jar!SanitizeSetCookie(c).action, c.name>>>> ELSE <<>>

Unread   == setCookies = <<>> /\ cookies = <<>> /\ logActions = <<>>
Found(c) == setCookies = <<c>> /\ cookies = <<>> /\ logActions = <<>>
Sorted(c) ==
    /\ jarHeaders = <<>> /\ setCookies = <<>>
    /\ cookies = Jar!SanitizeSetCookie(c).cookie
    /\ logActions = Logged(c)

CookieAt(i) == i \in DOMAIN jarMessage /\ Jar!IsCookie(jarMessage[i])

ReadTo(k) ==
    /\ jarHeaders = SubSeq(jarMessage, k, Len(jarMessage))
    /\ \/ Unread /\ \A i \in 1..(k - 1) : ~Jar!IsCookie(jarMessage[i])
       \/ \E p \in 1..(k - 1) : CookieAt(p) /\ (Found(jarMessage[p].says) \/ Sorted(jarMessage[p].says))

JarInv == OneCookie(jarMessage) /\ \E k \in 1..(Len(jarMessage) + 1) : ReadTo(k)

\* No round of the loops leaves that.
LEMMA NextJar == JarInv /\ [Jar!Next]_(Jar!vars) => JarInv'
<1> SUFFICES ASSUME JarInv, [Jar!Next]_(Jar!vars) PROVE JarInv'
  OBVIOUS
<1> DEFINE n == Len(jarMessage)
<1>1. PICK k \in 1..(n + 1) :
        /\ jarHeaders = SubSeq(jarMessage, k, n)
        /\ \/ Unread /\ \A i \in 1..(k - 1) : ~Jar!IsCookie(jarMessage[i])
           \/ \E p \in 1..(k - 1) : CookieAt(p) /\ (Found(jarMessage[p].says) \/ Sorted(jarMessage[p].says))
  BY SMTT(30) DEF JarInv, ReadTo
<1>2. jarMessage \in Seq(Piece) /\ n \in Nat /\ DOMAIN jarMessage = 1..n /\ k \in Nat /\ OneCookie(jarMessage)
  BY DEF JarInv, OneCookie
<1>3. CASE UNCHANGED Jar!vars
  BY <1>3 DEF Jar!vars, JarInv, ReadTo, OneCookie, Unread, Found, Sorted, Logged, CookieAt
<1>4. CASE Jar!SortHeader
  <2>1. jarHeaders # <<>> /\ UNCHANGED <<jarMessage, cookies, logActions>> /\ jarHeaders' = Tail(jarHeaders)
    BY <1>4 DEF Jar!SortHeader
  <2>2. k <= n /\ Head(jarHeaders) = jarMessage[k] /\ Tail(jarHeaders) = SubSeq(jarMessage, k + 1, n)
    BY <1>1, <1>2, <2>1
  <2>3. k + 1 \in 1..(n + 1) /\ k \in 1..n /\ 1..(k + 1 - 1) = 1..(k - 1) \cup {k} /\ k + 1 - 1 = k
    BY <1>2, <2>2
  <2>4. CASE Jar!IsCookie(jarMessage[k])
    <3>1. setCookies' = Append(setCookies, jarMessage[k].says)
      BY <1>4, <2>2, <2>4 DEF Jar!SortHeader
    <3>2. Unread
      <4> SUFFICES ASSUME NEW p \in 1..(k - 1), CookieAt(p) PROVE FALSE
        BY <1>1
      <4>1. p = k
        BY <1>2, <2>3, <2>4 DEF CookieAt, OneCookie
      <4> QED BY <1>2, <4>1
    <3>3. Found(jarMessage[k].says)'
      BY <2>1, <3>1, <3>2 DEF Unread, Found
    <3>4. CookieAt(k)'
      BY <1>2, <2>1, <2>3, <2>4 DEF CookieAt
    <3>5. (jarMessage[k].says)' = jarMessage'[k].says /\ OneCookie(jarMessage)'
      BY <1>2, <2>1
    <3>6. ReadTo(k + 1)'
      BY <2>1, <2>2, <2>3, <3>3, <3>4, <3>5 DEF ReadTo
    <3> QED BY <2>1, <2>3, <3>5, <3>6 DEF JarInv
  <2>5. CASE ~Jar!IsCookie(jarMessage[k])
    <3>1. setCookies' = setCookies
      BY <1>4, <2>2, <2>5 DEF Jar!SortHeader
    <3>2. CASE Unread /\ \A i \in 1..(k - 1) : ~Jar!IsCookie(jarMessage[i])
      <4>1. Unread' /\ \A i \in 1..(k + 1 - 1) : ~Jar!IsCookie(jarMessage'[i])
        BY <2>1, <2>3, <2>5, <3>1, <3>2 DEF Unread
      <4>2. OneCookie(jarMessage)'
        BY <1>2, <2>1
      <4>3. ReadTo(k + 1)'
        BY <2>1, <2>2, <4>1 DEF ReadTo
      <4> QED BY <2>1, <2>3, <4>2, <4>3 DEF JarInv
    <3>3. ASSUME NEW p \in 1..(k - 1), CookieAt(p), Found(jarMessage[p].says) \/ Sorted(jarMessage[p].says)
          PROVE  JarInv'
      <4>1. Found(jarMessage[p].says)
        BY <2>1, <3>3 DEF Sorted
      <4>2. Found(jarMessage[p].says)' /\ CookieAt(p)' /\ OneCookie(jarMessage)'
        BY <1>2, <2>1, <3>1, <3>3, <4>1 DEF Found, CookieAt, OneCookie
      <4>3. p \in 1..(k + 1 - 1)
        BY <2>3
      <4>4. ReadTo(k + 1)'
        BY <2>1, <2>2, <4>2, <4>3 DEF ReadTo
      <4> QED BY <2>1, <2>3, <4>2, <4>4 DEF JarInv
    <3> QED BY <1>1, <3>2, <3>3
  <2> QED BY <2>4, <2>5
<1>5. CASE Jar!FilterCookie
  <2>1. jarHeaders = <<>> /\ setCookies # <<>> /\ UNCHANGED <<jarHeaders, jarMessage>>
    BY <1>5 DEF Jar!FilterCookie
  <2>2. PICK p \in 1..(k - 1) : CookieAt(p) /\ Found(jarMessage[p].says)
    BY <1>1, <2>1 DEF Unread, Sorted
  <2> DEFINE c == jarMessage[p].says
  <2>3. Head(setCookies) = c /\ Tail(setCookies) = <<>>
    BY <2>2 DEF Found
  <2>4. c \in Jar!Cookie
    BY <1>2, <2>2 DEF CookieAt, OneCookie
  <2>5. Jar!SanitizeSetCookie(c).cookie \in Seq({Without(c)})
    <3> HIDE DEF c
    <3>1. Jar!SanitizeSetCookie(c).cookie \in {<<>>, <<Without(c)>>}
      BY DEF Jar!SanitizeSetCookie, Without
    <3>2. \A d : <<>> \in Seq({d}) /\ <<d>> \in Seq({d})
      OBVIOUS
    <3> QED BY <3>1, <3>2, Zenon
  <2>6. cookies' = Jar!SanitizeSetCookie(c).cookie
    <3>1. cookies' = <<>> \o Jar!SanitizeSetCookie(c).cookie
      BY <1>5, <2>2, <2>3 DEF Jar!FilterCookie, Found
    <3> QED BY <2>5, <3>1
  <2>7. logActions' = Logged(c)
    <3>1. logActions' = IF Jar!SanitizeSetCookie(c).action \in {"block", "strip"}
                        THEN Append(<<>>, <<Jar!SanitizeSetCookie(c).action, c.name>>) ELSE <<>>
      BY <1>5, <2>2, <2>3 DEF Jar!FilterCookie, Found
    <3> QED BY <3>1 DEF Logged
  <2>8. setCookies' = <<>>
    BY <1>5, <2>3 DEF Jar!FilterCookie
  <2>9. Sorted(jarMessage[p].says)' /\ CookieAt(p)' /\ OneCookie(jarMessage)'
    <3>1. Jar!SanitizeSetCookie(jarMessage[p].says)' = Jar!SanitizeSetCookie(c) /\ Logged(jarMessage[p].says)' = Logged(c)
      BY <2>1
    <3> QED BY <1>2, <2>1, <2>2, <2>6, <2>7, <2>8, <3>1 DEF Sorted, CookieAt
  <2> QED BY <1>1, <2>1, <2>9 DEF JarInv, ReadTo
<1> QED BY <1>3, <1>4, <1>5 DEF Jar!Next

\* Cookies of a response reach the page with the meaning they had, but without the domains
\* that are named with no gap before the "="; the page is told of exactly those that lose something; and what passed passes
\* again: for any cookies, attributes in any order and spelling, and any other headers.
THEOREM CookiesKeepMeaningHolds == ASSUME Jar!CookieAssumption PROVE Jar!Spec => []Jar!CookiesKeepMeaning
<1>1. Jar!Init => JarInv
  <2> SUFFICES ASSUME Jar!Init PROVE JarInv
    OBVIOUS
  <2>1. jarMessage \in Jar!Messages /\ jarHeaders = jarMessage /\ Unread
    BY DEF Jar!Init, Unread
  <2>2. OneCookie(jarMessage)
    BY <2>1, MessageFacts
  <2>3. jarMessage = SubSeq(jarMessage, 1, Len(jarMessage)) /\ 1 \in 1..(Len(jarMessage) + 1) /\ 1..(1 - 1) = {}
    BY <2>2 DEF OneCookie
  <2>4. ReadTo(1)
    BY <2>1, <2>3 DEF ReadTo
  <2> QED BY <2>2, <2>3, <2>4 DEF JarInv
<1>2. JarInv => Jar!CookiesKeepMeaning
  <2> SUFFICES ASSUME JarInv PROVE Jar!CookiesKeepMeaning
    OBVIOUS
  <2> DEFINE n == Len(jarMessage)
             Foreign == {c \in Jar!RawCookies : c.name \notin OwnNames \cup {""}}
             Own(c)  == [Jar!Understood(c) EXCEPT !.means["domain"] = {a.value : a \in Jar!Unseen(c)}]
  <2>1. PICK k \in 1..(n + 1) : ReadTo(k)
    BY DEF JarInv
  <2>2. jarMessage \in Seq(Piece) /\ n \in Nat /\ DOMAIN jarMessage = 1..n /\ k \in Nat /\ OneCookie(jarMessage)
    BY DEF JarInv, OneCookie
  <2>3. CASE cookies = <<>> /\ ~Jar!Done
    <3>1. Jar!FilterIsStable
      <4>1. DOMAIN cookies = {}
        BY <2>3
      <4> QED BY <4>1 DEF Jar!FilterIsStable
    <3>2. Jar!MeaningIsKept
      BY <2>3 DEF Jar!MeaningIsKept
    <3>3. Jar!LogTellsTheReason
      BY <2>3 DEF Jar!LogTellsTheReason
    <3> QED BY <3>1, <3>2, <3>3 DEF Jar!CookiesKeepMeaning
  <2>4. jarHeaders = <<>> => k = n + 1
    <3>1. Len(SubSeq(jarMessage, k, n)) = n - k + 1 /\ Len(<<>>) = 0
      BY <2>2
    <3>2. jarHeaders = SubSeq(jarMessage, k, n)
      BY <2>1 DEF ReadTo
    <3>3. jarHeaders = <<>> => n - k + 1 = 0
      BY <3>1, <3>2, Zenon
    <3> QED BY <2>2, <3>3
  <2>5. CASE cookies = <<>> /\ Jar!Done /\ Unread /\ \A i \in 1..(k - 1) : ~Jar!IsCookie(jarMessage[i])
    <3>1. \A i \in 1..n : ~Jar!IsCookie(jarMessage[i])
      BY <2>2, <2>4, <2>5 DEF Jar!Done
    <3>2. Jar!RawCookies = {}
      BY <2>2, <3>1 DEF Jar!RawCookies
    <3> QED BY <2>5, <3>2 DEF Jar!CookiesKeepMeaning, Jar!MeaningIsKept, Jar!LogTellsTheReason, Jar!FilterIsStable
  <2>6. ASSUME NEW p \in 1..(k - 1), CookieAt(p), Sorted(jarMessage[p].says)
        PROVE  Jar!CookiesKeepMeaning
    <3> DEFINE c == jarMessage[p].says
    <3>1. c \in Jar!Cookie
      BY <2>2, <2>6 DEF CookieAt, OneCookie
    <3>2. Jar!RawCookies = {c}
      <4>1. \A i \in DOMAIN jarMessage : Jar!IsCookie(jarMessage[i]) <=> i = p
        BY <2>2, <2>6 DEF CookieAt, OneCookie
      <4>2. {j \in DOMAIN jarMessage : Jar!IsCookie(jarMessage[j])} = {p}
        BY <2>6, <4>1 DEF CookieAt
      <4> QED BY <4>2 DEF Jar!RawCookies
    <3>3. cookies = Jar!SanitizeSetCookie(c).cookie /\ logActions = Logged(c)
      BY <2>6 DEF Sorted
    <3> HIDE DEF c
    <3>4. CASE c.name \in OwnNames \cup {""}
      <4>1. cookies = <<>>
        BY <3>3, <3>4 DEF Jar!SanitizeSetCookie
      <4>2. logActions # <<>> <=> c.name # "" /\ c.name \in OwnNames
        <5>1. CASE c.name = ""
          BY <3>3, <5>1 DEF Logged, Jar!SanitizeSetCookie
        <5>2. CASE c.name # ""
          BY <3>3, <3>4, <5>2 DEF Logged, Jar!SanitizeSetCookie
        <5> QED BY <5>1, <5>2
      <4>3. Foreign = {}
        BY <3>2, <3>4
      <4>4. Jar!MeaningIsKept
        <5>1. {Jar!Understood(cookies[i]) : i \in DOMAIN cookies} = {} /\ Len(cookies) <= 1
          BY <4>1
        <5>2. {Own(x) : x \in Foreign} = {}
          BY <4>3
        <5> QED BY <5>1, <5>2 DEF Jar!MeaningIsKept
      <4>5. Jar!LogTellsTheReason
        BY <3>2, <3>4, <4>2 DEF Jar!LogTellsTheReason
      <4>6. Jar!FilterIsStable
        BY <4>1 DEF Jar!FilterIsStable
      <4> QED BY <4>4, <4>5, <4>6 DEF Jar!CookiesKeepMeaning
    <3>5. CASE c.name \notin OwnNames \cup {""}
      <4> DEFINE Told == IF Jar!StrippedDomain(c.attributes) # "" THEN "strip" ELSE "pass"
      <4>0. Jar!SanitizeSetCookie(c) = [action |-> Told, cookie |-> <<Without(c)>>]
        BY <3>5 DEF Jar!SanitizeSetCookie, Without
      <4>1. Jar!SanitizeSetCookie(c).action = Told /\ Jar!SanitizeSetCookie(c).cookie = <<Without(c)>>
        <5> HIDE DEF Told
        <5> QED BY <4>0
      <4>2. cookies = <<Without(c)>>
        BY <3>3, <4>1
      <4>3. logActions # <<>> <=> Jar!StrippedDomain(c.attributes) # ""
        BY <3>3, <4>1 DEF Logged
      <4>4. Foreign = {c}
        BY <3>2, <3>5
      <4>5. Jar!MeaningIsKept
        <5>1. {Jar!Understood(cookies[i]) : i \in DOMAIN cookies} = {Jar!Understood(Without(c))} /\ Len(cookies) <= 1
          BY <4>2
        <5>2. {Own(x) : x \in Foreign} = {Own(c)}
          BY <4>4
        <5>3. Jar!Understood(Without(c)) = Own(c)
          BY <3>1, MeaningStays
        <5> QED BY <5>1, <5>2, <5>3 DEF Jar!MeaningIsKept
      <4>6. Jar!LogTellsTheReason
        BY <3>1, <3>2, <3>5, <4>3, StrippedFacts DEF Jar!LogTellsTheReason
      <4>7. Jar!FilterIsStable
        <5>1. DOMAIN cookies = {1} /\ cookies[1] = Without(c)
          BY <4>2
        <5>2. Jar!SanitizeSetCookie(Without(c)) = [action |-> "pass", cookie |-> <<Without(c)>>]
          BY <3>1, <3>5, FilteredPasses
        <5> QED BY <5>1, <5>2 DEF Jar!FilterIsStable
      <4> QED BY <4>5, <4>6, <4>7 DEF Jar!CookiesKeepMeaning
    <3> QED BY <3>4, <3>5
  <2>7. ASSUME NEW c, Found(c) PROVE cookies = <<>> /\ ~Jar!Done
    BY <2>7 DEF Found, Jar!Done
  <2>8. Unread => cookies = <<>>
    BY DEF Unread
  <2> QED BY <2>1, <2>3, <2>5, <2>6, <2>7, <2>8 DEF ReadTo
<1> QED BY <1>1, <1>2, NextJar, PTL DEF Jar!Spec

=============================================================================
