----------------------------- MODULE PortRouting -----------------------------
(***************************************************************************)
(* Which backend a request reaches when the daemon has several ports: the  *)
(* page of browser/client.html (parsePortPrefix, buildPortPath, navigate,  *)
(* the patched fetch) and the daemon (parse_path_prefix of                 *)
(* daemon/ports.py, _resolve_port_and_path and _proxy_request) together.   *)
(*                                                                         *)
(* A path is the sequence of what follows each of its slashes, so "/" is   *)
(* <<"">>, "/_p9090" is <<"_p9090">> and "/_p9090/" is <<"_p9090", "">>.   *)
(* A navigation awaits its response, and others begin meanwhile: they      *)
(* share currentPort.  A navigation lasts from the click that begins it    *)
(* over its redirects to its end.                                          *)
(***************************************************************************)
EXTENDS Naturals, Sequences, FiniteSets, SequencesExt

CONSTANTS
    Navs,          \* the navigations that may be underway at once (a bound)
    Segments,      \* what may stand behind a slash
    Hrefs,         \* paths of links, forms, assets and history entries
    Redirects,     \* what a backend may redirect to: [form, path]
    Configs,       \* ports files: [ports, default], of which one is in force
    PortOf,        \* the number in each segment that is "_p" and up to five digits
    Marked,        \* the segments that start with "_p"
    DefaultPort,   \* defaultPort of the page, 80
    MaxPort,       \* 65535
    MaxRedirects   \* 5

Paths == Seq(Segments) \ {<<>>}

RoutingAssumption ==
    /\ DOMAIN PortOf \subseteq Marked /\ Marked \subseteq Segments /\ "" \in Segments \ Marked
    /\ Hrefs \subseteq Paths
    /\ Redirects \subseteq [form : {"absolute", "relative", "url"}, path : Paths]
    /\ \A c \in Configs : c.default \in c.ports /\ c.ports \subseteq 1..MaxPort
    /\ MaxPort \in Nat /\ DefaultPort \in 1..MaxPort /\ MaxRedirects \in Nat
    /\ \A s, t \in DOMAIN PortOf : PortOf[s] = PortOf[t] => s = t

VARIABLES
    config,       \* the daemon's ports_map
    currentPort,  \* currentPort of the page
    nav,          \* the navigations: what was asked, and the answer once it is there
    pageOn        \* the port whose answer the page displays

vars == <<config, currentPort, nav, pageOn>>

Null == 0

Idle == [phase |-> "idle", path |-> <<"">>, wire |-> Null, asked |-> <<"">>, hops |-> 0,
         by |-> <<"nobody", Null>>, to |-> [form |-> "none", path |-> <<"">>]]

\* The rest of a path behind its first segment, which is at least "/".
Rest(path) == IF Len(path) = 1 THEN <<"">> ELSE Tail(path)

ValidPort(segment) == segment \in DOMAIN PortOf /\ PortOf[segment] \in 1..MaxPort

-----------------------------------------------------------------------------
(* The page                                                                *)

ParsePortPrefix(path) ==
    IF ValidPort(Head(path)) THEN [port |-> PortOf[Head(path)], path |-> Rest(path)]
    ELSE [port |-> Null, path |-> path]

Or(port, otherwise) == IF port = Null THEN otherwise ELSE port

\* Fault: links lose the port the page is on.
BuildPathPlain(target, port) == target

BuildPortPath(target, port) ==
    IF Head(target) \in DOMAIN PortOf \/ port \in {Null, DefaultPort} THEN target
    ELSE <<CHOOSE s \in DOMAIN PortOf : PortOf[s] = port>> \o target

\* navigate, up to its await.
Send(n, path, hops) ==
    LET parsed == ParsePortPrefix(path)
    IN  /\ currentPort' = parsed.port
        /\ nav' = [nav EXCEPT ![n] = [Idle EXCEPT !.phase = "sent", !.path = path, !.hops = hops,
                      !.wire = Or(parsed.port, DefaultPort), !.asked = parsed.path]]

\* A navigation is over, and others may begin in its place.
Ended(n) == nav' = [nav EXCEPT ![n] = Idle]

Click(n, href) ==
    /\ nav[n].phase = "idle"
    /\ Send(n, BuildPortPath(href, currentPort), 0)
    /\ UNCHANGED <<config, pageOn>>

\* The address bar, the history and GET forms navigate to a path as it is.
Visit(n, path) ==
    /\ nav[n].phase = "idle"
    /\ Send(n, path, 0)
    /\ UNCHANGED <<config, pageOn>>

\* Where a Location leads: one that is relative is resolved, and gets the port unless it has
\* one; a whole URL of this origin is taken as it is.
Target(path, to) ==
    CASE to.form = "url"      -> to.path
      [] to.form = "absolute" -> BuildPortPath(to.path, currentPort)
      [] OTHER                -> BuildPortPath(Front(path) \o to.path, currentPort)

\* navigate, behind its await: a redirect.  One too many is dropped.
Follow(n) ==
    /\ nav[n].phase = "answered" /\ nav[n].to.form # "none"
    /\ IF nav[n].hops + 1 > MaxRedirects
       THEN Ended(n) /\ UNCHANGED currentPort
       ELSE Send(n, Target(nav[n].path, nav[n].to), nav[n].hops + 1)
    /\ UNCHANGED <<config, pageOn>>

\* navigate, behind its await: a page.
Render(n) ==
    /\ nav[n].phase = "answered" /\ nav[n].to.form = "none"
    /\ Ended(n)
    /\ pageOn' = nav[n].wire
    /\ UNCHANGED <<config, currentPort>>

\* The request fails, which navigate catches.
Reject(n) ==
    /\ nav[n].phase = "sent"
    /\ Ended(n)
    /\ UNCHANGED <<config, currentPort, pageOn>>

\* The patched fetch: the port that a script of the page asks.
FetchPort(path) == Or(ParsePortPrefix(path).port, Or(currentPort, DefaultPort))

-----------------------------------------------------------------------------
(* The daemon                                                              *)

\* _resolve_port_and_path: a prefix wins, then the port of the frame if there is one, then
\* the default.  Port Null is the ValueError.
ResolvePortAndPath(path, wire) ==
    LET segment == Head(path)
    IN  CASE ValidPort(segment)          -> [port |-> PortOf[segment], path |-> Rest(path)]
          [] segment \in DOMAIN PortOf
             /\ ~ValidPort(segment)      -> [port |-> Null, path |-> path]
          [] segment \in Marked \ DOMAIN PortOf -> [port |-> config.default, path |-> path]
          [] segment \notin Marked
             /\ wire \in config.ports    -> [port |-> wire, path |-> path]
          [] OTHER                       -> [port |-> config.default, path |-> path]

\* Who answers: a backend's port, or the status of the daemon's own page.
RoutedTo(path, wire) ==
    LET port == ResolvePortAndPath(path, wire).port
    IN  IF port = Null THEN <<"status", 400>>
        ELSE IF port \notin config.ports THEN <<"status", 404>>
        ELSE <<"backend", port>>

\* _proxy_request, and the backend's answer.
Proxy(n) ==
    /\ nav[n].phase = "sent"
    /\ LET by == RoutedTo(nav[n].asked, nav[n].wire)
       IN  \E to \in {Idle.to} \cup (IF by[1] = "backend" THEN Redirects ELSE {}) :
               nav' = [nav EXCEPT ![n].phase = "answered", ![n].by = by, ![n].to = to]
    /\ UNCHANGED <<config, currentPort, pageOn>>

\* SIGHUP with another ports file.
Reload ==
    /\ config' \in Configs
    /\ UNCHANGED <<currentPort, nav, pageOn>>

-----------------------------------------------------------------------------

Init ==
    /\ config \in Configs
    /\ currentPort = Null
    /\ nav = [n \in Navs |-> Idle]
    /\ pageOn = Null

Next ==
    \/ \E n \in Navs : \/ \E href \in Hrefs : Click(n, href) \/ Visit(n, href)
                       \/ Proxy(n) \/ Reject(n) \/ Follow(n) \/ Render(n)
    \/ Reload

Spec == Init /\ [][Next]_vars

-----------------------------------------------------------------------------

\* The prefix of a path decides, whatever overlaps and whenever the ports file changes: the
\* backend of its port answers, without the prefix, or the default one if that port is not
\* configured or "_p" comes again behind it.  Of two prefixes the second one decides, since
\* page and daemon take one each; a number that is no port is refused by either.
PrefixDecidesStep ==
    \A n \in Navs : Proxy(n) =>
        LET first  == Head(nav[n].path)
            behind == Rest(nav[n].path)
            second == Head(behind)
            seen   == ResolvePortAndPath(nav[n].asked, nav[n].wire)
        IN  /\ (ValidPort(first) /\ second \notin DOMAIN PortOf)
                 => seen = [port |-> IF second \notin Marked /\ PortOf[first] \in config.ports
                                     THEN PortOf[first] ELSE config.default,
                            path |-> behind]
            /\ (ValidPort(first) /\ ValidPort(second))
                 => seen = [port |-> PortOf[second], path |-> Rest(behind)]
            /\ LET last == IF ValidPort(first) THEN second ELSE first
               IN  (last \in DOMAIN PortOf /\ ~ValidPort(last)) => nav'[n].by = <<"status", 400>>

PrefixDecides == [][PrefixDecidesStep]_vars

\* A redirect without a port of its own is followed on the port that answered.
KeepsPort(n) ==
    (Follow(n) /\ nav'[n].phase = "sent" /\ nav[n].to.form # "url"
       /\ Head(nav[n].to.path) \notin Marked) => nav'[n].wire = nav[n].wire

\* "rewrite relative Location to preserve port context" (client.html).  The code does not:
\* what it preserves is the port of the navigation that began last.
PortSurvivesRedirect == [][\A n \in Navs : KeepsPort(n)]_vars

\* A navigation finds the page's port as it set it, unless another one began meanwhile.
Undisturbed(n) == currentPort = ParsePortPrefix(nav[n].path).port

\* It does as long as no other navigation has taken the page to another port.
RedirectKeepsPort == \A n \in Navs : Undisturbed(n) => KeepsPort(n)

\* "whatever the page is on" (client.html): a script without a port of its own asks the port
\* its page came from.
FetchStaysOnPage ==
    pageOn # Null => \A path \in Hrefs : Head(path) \notin Marked => FetchPort(path) = pageOn

\* "if path-prefix port is not in ports_map, FR-005 -> 404" (daemon.py).
UnknownPortIsNotFound ==
    [][\A n \in Navs :
        (Proxy(n) /\ ValidPort(Head(nav[n].path)) /\ PortOf[Head(nav[n].path)] \notin config.ports)
            => nav'[n].by = <<"status", 404>>]_vars

\* "The default_port is used when no prefix is present." (ports.py)
DefaultWithoutPrefix ==
    [][\A n \in Navs :
        (Proxy(n) /\ Head(nav[n].path) \notin Marked) => nav'[n].by = <<"backend", config.default>>]_vars

=============================================================================
