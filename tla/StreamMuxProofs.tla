--------------------------- MODULE StreamMuxProofs ---------------------------
(***************************************************************************)
(* Proofs about StreamMux, for any set of requests and any number of       *)
(* stream ids.  While no id was given out twice at a time (clean), frames, *)
(* tasks, handlers and promises of one request are told from those of all  *)
(* others by the id alone; the invariants follow from that.                *)
(***************************************************************************)
EXTENDS StreamMux, TLAPS

\* Before the channel opens nothing was sent, and the daemon has nothing to do.
QuietBefore ==
    channel = "opening" =>
        toDaemon = <<>> /\ toClient = <<>> /\ dstreams = {} /\ \A r \in Requests : task[r] = "none"

\* What has an id, and what a handler in the map says.
IdsKnown ==
    /\ \A r \in Requests : status[r] = "pending" => idOf[r] \in Ids
    /\ \A r \in Requests : status[r] = "unasked" => idOf[r] = 0
    /\ \A r \in Requests : task[r] # "none" => idOf[r] \in Ids
    /\ \A id \in Ids : streams[id] # NoRequest =>
           status[streams[id]] = "pending" /\ idOf[streams[id]] = id
    /\ \A k \in DOMAIN toDaemon : toDaemon[k].id = idOf[toDaemon[k].req]
    /\ \A k \in DOMAIN toClient : toClient[k].id = idOf[toClient[k].req]

\* Behind each OPEN on the way, its request waits or a CLOSE follows.
OpensHaveOwner ==
    \A k \in DOMAIN toDaemon : toDaemon[k].type = "OPEN" =>
        \/ \E r \in Pending : idOf[r] = toDaemon[k].id
        \/ \E j \in DOMAIN toDaemon :
               j > k /\ toDaemon[j].type = "CLOSE" /\ toDaemon[j].id = toDaemon[k].id

\* A request that still has something underway.
Live(r) ==
    \/ status[r] = "pending"
    \/ task[r] \in Running
    \/ \E k \in DOMAIN toDaemon : toDaemon[k].req = r
    \/ \E k \in DOMAIN toClient : toClient[k].req = r

\* No two live requests have one id.
IdsTell ==
    \A r, s \in Requests : idOf[r] = idOf[s] /\ idOf[r] \in Ids /\ Live(r) /\ Live(s) => r = s

Held == \A r \in Requests : status[r] = "pending" => streams[idOf[r]] = r

\* A request on the way finds its stream: it has no task yet, its stream is open or its
\* OPEN is in front of it, and nothing else of its id is.
DataFindsStream ==
    \A k \in DOMAIN toDaemon : toDaemon[k].type = "DATA" =>
        /\ task[toDaemon[k].req] = "none"
        /\ \A j \in 1..(k - 1) : toDaemon[j].id = toDaemon[k].id => toDaemon[j].type = "OPEN"
        /\ \/ toDaemon[k].id \in dstreams
           \/ \E j \in 1..(k - 1) : toDaemon[j].type = "OPEN" /\ toDaemon[j].id = toDaemon[k].id

NoReset == \A k \in DOMAIN toClient : toClient[k].type # "RST"

\* The response is sent once, and received at most once.
OneResponse ==
    /\ \A r \in Requests :
          /\ chunks[r] \in {<<>>, <<r>>}
          /\ status[r] = "answered" => chunks[r] = <<r>>
          /\ task[r] \in {"none", "queued", "backend"} => chunks[r] = <<>>
    /\ \A k \in DOMAIN toClient : toClient[k].type = "DATA" =>
          /\ chunks[toClient[k].req] = <<>>
          /\ task[toClient[k].req] \notin {"none", "queued", "backend"}
          /\ \A j \in DOMAIN toClient :
                toClient[j].type = "DATA" /\ toClient[j].req = toClient[k].req => j = k

EndUnderway ==
    channel = "open" =>
        \A r \in Requests :
            status[r] = "pending" /\ task[r] \in {"leaving", "done", "failed"} =>
                \E k \in DOMAIN toClient : toClient[k] = Frame("CLOSE", idOf[r], r)

CleanInv == IdsTell /\ Held /\ DataFindsStream /\ NoReset /\ OneResponse /\ EndUnderway

\* Nothing is on a closed channel.
ClosedIsEmpty == channel = "closed" => toDaemon = <<>> /\ toClient = <<>>

\* What holds whether or not ids are fresh.
BasicInv ==
    TypeOK /\ QuietBefore /\ ClosedIsEmpty /\ IdsKnown /\ OpensHaveOwner /\ StreamsHaveOwner

IInv == BasicInv /\ (clean => CleanInv)

-----------------------------------------------------------------------------
(* Queues.                                                                 *)

LEMMA TailFacts ==
    ASSUME NEW S, NEW q \in Seq(S), q # <<>>
    PROVE  /\ Head(q) = q[1] /\ q[1] \in S /\ 1 \in DOMAIN q
           /\ Tail(q) \in Seq(S)
           /\ DOMAIN q \subseteq Nat \ {0} /\ DOMAIN Tail(q) \subseteq Nat \ {0}
           /\ \A k \in DOMAIN Tail(q) : k + 1 \in DOMAIN q /\ Tail(q)[k] = q[k + 1]
           /\ \A k \in DOMAIN q : k = 1 \/ (k - 1 \in DOMAIN Tail(q) /\ Tail(q)[k - 1] = q[k])
<1>1. Len(q) \in Nat \ {0} /\ DOMAIN q = 1..Len(q) /\ Head(q) = q[1] /\ q[1] \in S
  OBVIOUS
<1>2. Tail(q) \in Seq(S) /\ Len(Tail(q)) = Len(q) - 1
  OBVIOUS
<1>3. DOMAIN Tail(q) = 1..(Len(q) - 1)
  BY <1>1, <1>2
<1>4. \A k \in 1..(Len(q) - 1) : Tail(q)[k] = q[k + 1]
  BY <1>1
<1> QED BY <1>1, <1>2, <1>3, <1>4

LEMMA SentFacts ==
    ASSUME NEW S, NEW q \in Seq(S), NEW p \in Seq(S)
    PROVE  /\ Sent(q, p) \in Seq(S)
           /\ DOMAIN q = 1..Len(q) /\ Len(q) \in Nat /\ DOMAIN p = 1..Len(p) /\ Len(p) \in Nat
           /\ DOMAIN Sent(q, p) \subseteq Nat \ {0}
           /\ \A k \in DOMAIN q : k \in DOMAIN Sent(q, p) /\ Sent(q, p)[k] = q[k]
           /\ \A k \in DOMAIN Sent(q, p) :
                 k \in DOMAIN q \/ (k - Len(q) \in DOMAIN p /\ Sent(q, p)[k] = p[k - Len(q)])
           /\ channel = "open" =>
                 \A k \in DOMAIN p : Len(q) + k \in DOMAIN Sent(q, p) /\ Sent(q, p)[Len(q) + k] = p[k]
<1>1. DOMAIN q = 1..Len(q) /\ Len(q) \in Nat /\ DOMAIN p = 1..Len(p) /\ Len(p) \in Nat
  OBVIOUS
<1>2. CASE channel = "open"
  <2>1. Sent(q, p) = q \o p
    BY <1>2 DEF Sent
  <2>2. q \o p \in Seq(S) /\ Len(q \o p) = Len(q) + Len(p) /\ DOMAIN (q \o p) = 1..(Len(q) + Len(p))
    OBVIOUS
  <2>3. \A k \in 1..(Len(q) + Len(p)) : (q \o p)[k] = IF k <= Len(q) THEN q[k] ELSE p[k - Len(q)]
    OBVIOUS
  <2> QED BY <1>1, <2>1, <2>2, <2>3
<1>3. CASE channel # "open"
  BY <1>1, <1>3 DEF Sent
<1> QED BY <1>2, <1>3

-----------------------------------------------------------------------------
(* Types.                                                                  *)

LEMMA FramesTyped ==
    ASSUME NEW r \in Requests, NEW id \in Ids
    PROVE  /\ \A t \in {"OPEN", "DATA", "CLOSE", "RST"} : Frame(t, id, r) \in Frames
           /\ RequestFrames(id, r) \in Seq(Frames)
           /\ <<Frame("CLOSE", id, r)>> \in Seq(Frames)
           /\ idOf[r] = id => Reply(r) \in Seq(Frames)
<1>1. \A t \in {"OPEN", "DATA", "CLOSE", "RST"} : Frame(t, id, r) \in Frames
  BY DEF Frame, Frames
<1>2. \A f, g \in Frames : <<f>> \in Seq(Frames) /\ <<f, g>> \in Seq(Frames)
  OBVIOUS
<1> QED BY <1>1, <1>2 DEF RequestFrames, Reply

\* Ids that are in the range of types.
LEMMA IdFacts ==
    ASSUME TypeOK
    PROVE  /\ nextId \in Ids /\ NextStreamId \in Ids
           /\ Ids \subseteq 0..MaxStreamId /\ 0 \notin Ids /\ 0 \in 0..MaxStreamId
BY StreamsAssumption DEF TypeOK, Ids, NextStreamId

LEMMA InitBasic == Init => BasicInv
<1> SUFFICES ASSUME Init PROVE BasicInv
  OBVIOUS
<1>1. /\ nextId = 1 /\ streams = [id \in Ids |-> NoRequest] /\ status = [r \in Requests |-> "unasked"]
      /\ idOf = [r \in Requests |-> 0] /\ chunks = [r \in Requests |-> <<>>]
      /\ channel = "opening" /\ toDaemon = <<>> /\ toClient = <<>> /\ dstreams = {}
      /\ task = [r \in Requests |-> "none"]
  BY DEF Init
<1>2. closed \in BOOLEAN /\ clean \in BOOLEAN
  BY Zenon DEF Init
<1>3. TypeOK
  BY <1>1, <1>2, StreamsAssumption DEF TypeOK, Ids, Running
<1>4. QuietBefore /\ ClosedIsEmpty /\ IdsKnown
  BY <1>1 DEF QuietBefore, ClosedIsEmpty, IdsKnown
<1>5. OpensHaveOwner /\ StreamsHaveOwner
  BY <1>1 DEF OpensHaveOwner, StreamsHaveOwner
<1> QED BY <1>3, <1>4, <1>5 DEF BasicInv

\* The channel opens, or everything on it is lost.
LEMMA ChannelBasic ==
    ASSUME BasicInv, ChannelOpens \/ ChannelLost \/ CloseTunnel
    PROVE  BasicInv'
<1>1. UNCHANGED <<nextId, streams, status, idOf, chunks, clean, dstreams, task>>
  BY DEF ChannelOpens, ChannelLost, CloseTunnel, clientVars, daemonVars
<1>2. closed' \in BOOLEAN
  BY DEF ChannelOpens, ChannelLost, CloseTunnel, clientVars, BasicInv, TypeOK
<1>3. CASE ChannelOpens
  <2>1. channel = "opening" /\ channel' = "open" /\ UNCHANGED <<toDaemon, toClient>>
    BY <1>3 DEF ChannelOpens
  <2>2. toDaemon' = <<>> /\ toClient' = <<>> /\ dstreams' = {}
    BY <1>1, <2>1 DEF BasicInv, QuietBefore
  <2>3. TypeOK'
    BY <1>1, <1>2, <2>1 DEF BasicInv, TypeOK
  <2>4. IdsKnown'
    BY <1>1, <2>1 DEF BasicInv, IdsKnown
  <2> QED BY <2>1, <2>2, <2>3, <2>4 DEF BasicInv, QuietBefore, ClosedIsEmpty, OpensHaveOwner, StreamsHaveOwner
<1>4. CASE ChannelLost \/ CloseTunnel
  <2>1. channel' = "closed" /\ toDaemon' = <<>> /\ toClient' = <<>>
    BY <1>4 DEF ChannelLost, CloseTunnel
  <2>2. TypeOK'
    BY <1>1, <1>2, <2>1 DEF BasicInv, TypeOK
  <2>3. IdsKnown'
    BY <1>1, <2>1 DEF BasicInv, IdsKnown
  <2> QED BY <2>1, <2>2, <2>3 DEF BasicInv, QuietBefore, ClosedIsEmpty, OpensHaveOwner, StreamsHaveOwner
<1> QED BY <1>3, <1>4

\* What a request that was not asked yet has left behind: nothing.
LEMMA UnaskedFacts ==
    ASSUME BasicInv, NEW r \in Requests, status[r] = "unasked"
    PROVE  /\ idOf[r] = 0 /\ task[r] = "none" /\ r \notin Pending
           /\ \A k \in DOMAIN toDaemon : toDaemon[k] \in Frames /\ toDaemon[k].req # r
           /\ \A k \in DOMAIN toClient : toClient[k] \in Frames /\ toClient[k].req # r
           /\ \A id \in Ids : streams[id] # r
<1>1. idOf[r] = 0 /\ r \notin Pending /\ 0 \notin Ids
  BY IdFacts DEF BasicInv, IdsKnown, Pending
<1>2. task[r] = "none"
  BY <1>1 DEF BasicInv, IdsKnown
<1>3. \A k \in DOMAIN toDaemon : toDaemon[k] \in Frames
  BY DEF BasicInv, TypeOK
<1>4. \A k \in DOMAIN toClient : toClient[k] \in Frames
  BY DEF BasicInv, TypeOK
<1>5. \A k \in DOMAIN toDaemon : toDaemon[k].req # r
  BY <1>1, <1>3 DEF BasicInv, IdsKnown, Frames
<1>6. \A k \in DOMAIN toClient : toClient[k].req # r
  BY <1>1, <1>4 DEF BasicInv, IdsKnown, Frames
<1>7. \A id \in Ids : streams[id] # r
  BY StreamsAssumption DEF BasicInv, IdsKnown
<1> QED BY <1>1, <1>2, <1>3, <1>4, <1>5, <1>6, <1>7

LEMMA RequestBasic ==
    ASSUME BasicInv, NEW r \in Requests, Request(r)
    PROVE  BasicInv'
<1> DEFINE p == RequestFrames(nextId, r)
<1>1. /\ status[r] = "unasked"
      /\ status' = [status EXCEPT ![r] = "pending"] /\ idOf' = [idOf EXCEPT ![r] = nextId]
      /\ streams' = [streams EXCEPT ![nextId] = r]
      /\ toDaemon' = Sent(toDaemon, p)
      /\ nextId' = NextStreamId /\ clean' = (clean /\ ~InUse(nextId))
      /\ UNCHANGED <<chunks, closed, channel, toClient, dstreams, task>>
  BY DEF Request, daemonVars
<1>2. /\ nextId \in Ids /\ NextStreamId \in Ids /\ Ids \subseteq 0..MaxStreamId
      /\ streams \in [Ids -> Requests \cup {NoRequest}] /\ idOf \in [Requests -> 0..MaxStreamId]
      /\ status \in [Requests -> {"unasked", "pending", "answered", "failed"}]
      /\ toDaemon \in Seq(Frames) /\ TypeOK
  BY IdFacts DEF BasicInv, TypeOK
<1>3. p \in Seq(Frames)
  BY <1>2, FramesTyped
<1>4. \A k \in DOMAIN p : p[k].id = nextId /\ p[k].req = r /\ p[k].type # "CLOSE"
  BY DEF RequestFrames, Frame
<1>5. /\ toDaemon' \in Seq(Frames)
      /\ \A k \in DOMAIN toDaemon : k \in DOMAIN toDaemon' /\ toDaemon'[k] = toDaemon[k]
      /\ \A k \in DOMAIN toDaemon' :
            k \in DOMAIN toDaemon \/ (toDaemon'[k].id = nextId /\ toDaemon'[k].req = r)
  <2> HIDE DEF p
  <2>1. /\ Sent(toDaemon, p) \in Seq(Frames)
        /\ \A k \in DOMAIN toDaemon : k \in DOMAIN Sent(toDaemon, p) /\ Sent(toDaemon, p)[k] = toDaemon[k]
        /\ \A k \in DOMAIN Sent(toDaemon, p) :
              \/ k \in DOMAIN toDaemon
              \/ k - Len(toDaemon) \in DOMAIN p /\ Sent(toDaemon, p)[k] = p[k - Len(toDaemon)]
    BY <1>2, <1>3, SentFacts
  <2> QED BY <1>1, <1>4, <2>1
<1>6. channel # "open" => toDaemon' = toDaemon
  BY <1>1 DEF Sent
<1>7. /\ r \in Pending' /\ Pending \subseteq Pending' /\ idOf'[r] = nextId
      /\ \A s \in Requests : s # r => idOf'[s] = idOf[s] /\ status'[s] = status[s]
  BY <1>1, <1>2 DEF Pending
<1>8. TypeOK'
  <2>1. clean' \in BOOLEAN
    BY Zenon, <1>1
  <2>2. /\ status' \in [Requests -> {"unasked", "pending", "answered", "failed"}]
        /\ idOf' \in [Requests -> 0..MaxStreamId]
        /\ streams' \in [Ids -> Requests \cup {NoRequest}]
    BY <1>1, <1>2
  <2> QED BY <2>1, <2>2, <1>1, <1>2, <1>5 DEF TypeOK
<1>9. IdsKnown'
  <2>1. \A s \in Requests : s # r =>
           /\ status'[s] = "pending" => idOf'[s] \in Ids
           /\ status'[s] = "unasked" => idOf'[s] = 0
           /\ task'[s] # "none" => idOf'[s] \in Ids
    BY <1>1, <1>7 DEF BasicInv, IdsKnown
  <2>2. status'[r] = "pending" /\ idOf'[r] \in Ids
    BY <1>7, <1>2 DEF Pending
  <2>3. \A id \in Ids : streams'[id] # NoRequest => status'[streams'[id]] = "pending" /\ idOf'[streams'[id]] = id
    <3> SUFFICES ASSUME NEW id \in Ids, streams'[id] # NoRequest
                 PROVE  status'[streams'[id]] = "pending" /\ idOf'[streams'[id]] = id
      OBVIOUS
    <3>1. CASE id = nextId
      BY <3>1, <1>1, <1>2, <1>7, <2>2
    <3>2. CASE id # nextId
      <4>1. streams'[id] = streams[id] /\ streams[id] \in Requests /\ streams[id] # r
        BY <3>2, <1>1, <1>2, UnaskedFacts
      <4> QED BY <4>1, <1>7 DEF BasicInv, IdsKnown
    <3> QED BY <3>1, <3>2
  <2>4. \A k \in DOMAIN toDaemon' : toDaemon'[k].id = idOf'[toDaemon'[k].req]
    <3> SUFFICES ASSUME NEW k \in DOMAIN toDaemon' PROVE toDaemon'[k].id = idOf'[toDaemon'[k].req]
      OBVIOUS
    <3>1. CASE k \in DOMAIN toDaemon
      <4>1. toDaemon[k] \in Frames /\ toDaemon[k].req # r /\ toDaemon[k].req \in Requests
        BY <3>1, <1>1, UnaskedFacts DEF Frames
      <4>2. idOf'[toDaemon[k].req] = idOf[toDaemon[k].req]
        BY <4>1, <1>7
      <4> QED BY <3>1, <4>2, <1>5 DEF BasicInv, IdsKnown
    <3>2. CASE k \notin DOMAIN toDaemon
      BY <3>2, <1>5, <1>7
    <3> QED BY <3>1, <3>2
  <2>5. \A k \in DOMAIN toClient' : toClient'[k].id = idOf'[toClient'[k].req]
    <3> SUFFICES ASSUME NEW k \in DOMAIN toClient PROVE toClient[k].id = idOf'[toClient[k].req]
      BY <1>1
    <3>1. toClient[k] \in Frames /\ toClient[k].req # r /\ toClient[k].req \in Requests
      BY <1>1, UnaskedFacts DEF Frames
    <3>2. idOf'[toClient[k].req] = idOf[toClient[k].req]
      BY <3>1, <1>7
    <3> QED BY <3>2 DEF BasicInv, IdsKnown
  <2> QED BY <2>1, <2>2, <2>3, <2>4, <2>5 DEF IdsKnown
<1>10. OpensHaveOwner'
  <2> SUFFICES ASSUME NEW k \in DOMAIN toDaemon', toDaemon'[k].type = "OPEN"
               PROVE  \/ \E s \in Pending' : idOf'[s] = toDaemon'[k].id
                      \/ \E j \in DOMAIN toDaemon' :
                            j > k /\ toDaemon'[j].type = "CLOSE" /\ toDaemon'[j].id = toDaemon'[k].id
    BY DEF OpensHaveOwner
  <2>1. CASE k \in DOMAIN toDaemon
    <3>1. toDaemon'[k] = toDaemon[k]
      BY <2>1, <1>5
    <3>2. \A s \in Pending : s \in Pending' /\ idOf'[s] = idOf[s]
      BY <1>1, <1>7, UnaskedFacts DEF Pending
    <3> QED BY <2>1, <3>1, <3>2, <1>5 DEF BasicInv, OpensHaveOwner
  <2>2. CASE k \notin DOMAIN toDaemon
    BY <2>2, <1>5, <1>7
  <2> QED BY <2>1, <2>2
<1>11. StreamsHaveOwner'
  <2>1. \A s \in Pending : s \in Pending' /\ idOf'[s] = idOf[s]
    BY <1>1, <1>7, UnaskedFacts DEF Pending
  <2>2. InFlight(toDaemon) \subseteq InFlight(toDaemon')
    BY <1>5 DEF InFlight
  <2> QED BY <2>1, <2>2, <1>1 DEF BasicInv, StreamsHaveOwner, InFlight
<1>12. QuietBefore' /\ ClosedIsEmpty'
  BY <1>1, <1>6 DEF BasicInv, QuietBefore, ClosedIsEmpty
<1> QED BY <1>8, <1>9, <1>10, <1>11, <1>12 DEF BasicInv

\* A request that waits is settled, in a step that may take a frame off the other queue.
LEMMA SettleBasic ==
    ASSUME BasicInv, NEW r \in Pending, NEW to \in {"answered", "failed"}, SettleRequest(r, to),
           UNCHANGED <<nextId, idOf, chunks, closed, clean, channel, daemonVars>>,
           toClient' \in Seq(Frames),
           \A k \in DOMAIN toClient' : toClient'[k].id = idOf[toClient'[k].req],
           channel # "open" => toClient' = toClient
    PROVE  BasicInv'
<1> DEFINE p == <<Frame("CLOSE", idOf[r], r)>>
<1>1. /\ status' = [status EXCEPT ![r] = to] /\ streams' = [streams EXCEPT ![idOf[r]] = NoRequest]
      /\ toDaemon' = Sent(toDaemon, p)
      /\ UNCHANGED <<nextId, idOf, chunks, closed, clean, channel, dstreams, task>>
  BY DEF SettleRequest, daemonVars
<1>2. /\ r \in Requests /\ status[r] = "pending" /\ idOf[r] \in Ids
      /\ streams \in [Ids -> Requests \cup {NoRequest}]
      /\ status \in [Requests -> {"unasked", "pending", "answered", "failed"}]
      /\ toDaemon \in Seq(Frames) /\ TypeOK
  BY DEF BasicInv, TypeOK, IdsKnown, Pending
<1>3. p \in Seq(Frames) /\ 1 \in DOMAIN p /\ DOMAIN p = {1}
      /\ p[1] = Frame("CLOSE", idOf[r], r)
  BY <1>2, FramesTyped
<1>4. Frame("CLOSE", idOf[r], r) = [type |-> "CLOSE", id |-> idOf[r], req |-> r]
  BY DEF Frame
<1>5. /\ toDaemon' \in Seq(Frames) /\ DOMAIN toDaemon = 1..Len(toDaemon) /\ Len(toDaemon) \in Nat
      /\ \A k \in DOMAIN toDaemon : k \in DOMAIN toDaemon' /\ toDaemon'[k] = toDaemon[k]
      /\ \A k \in DOMAIN toDaemon' :
            k \in DOMAIN toDaemon \/ toDaemon'[k] = Frame("CLOSE", idOf[r], r)
      /\ channel = "open" => Len(toDaemon) + 1 \in DOMAIN toDaemon'
                             /\ toDaemon'[Len(toDaemon) + 1] = Frame("CLOSE", idOf[r], r)
  <2> HIDE DEF p
  <2>0. toDaemon \in Seq(Frames) /\ p \in Seq(Frames)
    BY <1>2, <1>3
  <2>1. /\ Sent(toDaemon, p) \in Seq(Frames) /\ DOMAIN toDaemon = 1..Len(toDaemon) /\ Len(toDaemon) \in Nat
        /\ \A k \in DOMAIN toDaemon : k \in DOMAIN Sent(toDaemon, p) /\ Sent(toDaemon, p)[k] = toDaemon[k]
        /\ \A k \in DOMAIN Sent(toDaemon, p) :
              \/ k \in DOMAIN toDaemon
              \/ k - Len(toDaemon) \in DOMAIN p /\ Sent(toDaemon, p)[k] = p[k - Len(toDaemon)]
    BY <2>0, SentFacts
  <2>2. channel = "open" =>
           \A k \in DOMAIN p : Len(toDaemon) + k \in DOMAIN Sent(toDaemon, p)
                               /\ Sent(toDaemon, p)[Len(toDaemon) + k] = p[k]
    BY <2>0, SentFacts
  <2> QED BY <1>1, <1>3, <2>1, <2>2
<1>6. channel # "open" => toDaemon' = toDaemon
  BY <1>1 DEF Sent
<1>7. \A s \in Pending : s # r => s \in Pending'
  BY <1>1, <1>2 DEF Pending
<1>8. TypeOK'
  <2>1. status' \in [Requests -> {"unasked", "pending", "answered", "failed"}]
        /\ streams' \in [Ids -> Requests \cup {NoRequest}]
    BY <1>1, <1>2
  <2> QED BY <2>1, <1>1, <1>2, <1>5 DEF TypeOK
<1>9. IdsKnown'
  <2>1. \A s \in Requests :
           /\ status'[s] = "pending" => idOf'[s] \in Ids
           /\ status'[s] = "unasked" => idOf'[s] = 0
           /\ task'[s] # "none" => idOf'[s] \in Ids
    BY <1>1, <1>2 DEF BasicInv, IdsKnown
  <2>2. \A id \in Ids : streams'[id] # NoRequest => status'[streams'[id]] = "pending" /\ idOf'[streams'[id]] = id
    <3> SUFFICES ASSUME NEW id \in Ids, streams'[id] # NoRequest
                 PROVE  status'[streams'[id]] = "pending" /\ idOf'[streams'[id]] = id
      OBVIOUS
    <3>1. id # idOf[r] /\ streams'[id] = streams[id] /\ streams[id] \in Requests
      BY <1>1, <1>2
    <3>2. status[streams[id]] = "pending" /\ idOf[streams[id]] = id
      BY <3>1, <1>2 DEF BasicInv, IdsKnown
    <3> QED BY <3>1, <3>2, <1>1, <1>2
  <2>3. \A k \in DOMAIN toDaemon' : toDaemon'[k].id = idOf'[toDaemon'[k].req]
    BY <1>1, <1>4, <1>5 DEF BasicInv, IdsKnown
  <2> QED BY <2>1, <2>2, <2>3, <1>1 DEF IdsKnown
<1>10. OpensHaveOwner'
  <2> SUFFICES ASSUME NEW k \in DOMAIN toDaemon', toDaemon'[k].type = "OPEN"
               PROVE  \/ \E s \in Pending' : idOf'[s] = toDaemon'[k].id
                      \/ \E j \in DOMAIN toDaemon' :
                            j > k /\ toDaemon'[j].type = "CLOSE" /\ toDaemon'[j].id = toDaemon'[k].id
    BY DEF OpensHaveOwner
  <2>1. k \in DOMAIN toDaemon /\ toDaemon'[k] = toDaemon[k]
    BY <1>4, <1>5
  <2>2. channel = "open"
    <3>1. toDaemon # <<>>
      BY <2>1
    <3> QED BY <3>1 DEF BasicInv, QuietBefore, ClosedIsEmpty, TypeOK
  <2>3. CASE idOf[r] = toDaemon[k].id
    BY <2>1, <2>2, <2>3, <1>4, <1>5
  <2>4. CASE idOf[r] # toDaemon[k].id
    BY <2>1, <2>4, <1>1, <1>5, <1>7, SMTT(30) DEF BasicInv, OpensHaveOwner
  <2> QED BY <2>3, <2>4
<1>11. StreamsHaveOwner'
  <2> SUFFICES ASSUME channel = "open", NEW id \in dstreams
               PROVE  \/ \E s \in Pending' : idOf'[s] = id
                      \/ \E f \in InFlight(toDaemon') : f.type = "CLOSE" /\ f.id = id
    BY <1>1 DEF StreamsHaveOwner
  <2>1. CASE idOf[r] = id
    BY <2>1, <1>4, <1>5 DEF InFlight
  <2>2. CASE idOf[r] # id
    <3>1. InFlight(toDaemon) \subseteq InFlight(toDaemon')
      BY <1>5 DEF InFlight
    <3> QED BY <2>2, <3>1, <1>1, <1>7 DEF BasicInv, StreamsHaveOwner
  <2> QED BY <2>1, <2>2
<1>12. QuietBefore' /\ ClosedIsEmpty'
  BY <1>1, <1>6 DEF BasicInv, QuietBefore, ClosedIsEmpty
<1> QED BY <1>8, <1>9, <1>10, <1>11, <1>12 DEF BasicInv

\* What a frame at the head of the queue to the browser says, and what is left behind it.
LEMMA ToClientFacts ==
    ASSUME BasicInv, NEW T, Arrives(T)
    PROVE  /\ channel = "open" /\ toClient # <<>> /\ toClient' = Tail(toClient)
           /\ Head(toClient) = toClient[1] /\ toClient[1] \in Frames /\ toClient[1].type \in T
           /\ 1 \in DOMAIN toClient
           /\ toClient' \in Seq(Frames)
           /\ \A k \in DOMAIN toClient' : k + 1 \in DOMAIN toClient /\ toClient'[k] = toClient[k + 1]
           /\ \A k \in DOMAIN toClient' : toClient'[k].id = idOf[toClient'[k].req]
<1>1. toClient # <<>> /\ toClient' = Tail(toClient) /\ Head(toClient).type \in T /\ toClient \in Seq(Frames)
  BY DEF Arrives, BasicInv, TypeOK
<1>2. channel = "open"
  BY <1>1 DEF BasicInv, QuietBefore, ClosedIsEmpty, TypeOK
<1>3. /\ Head(toClient) = toClient[1] /\ toClient[1] \in Frames /\ 1 \in DOMAIN toClient
      /\ Tail(toClient) \in Seq(Frames)
      /\ \A k \in DOMAIN Tail(toClient) : k + 1 \in DOMAIN toClient /\ Tail(toClient)[k] = toClient[k + 1]
  BY <1>1, TailFacts
<1> QED BY <1>1, <1>2, <1>3 DEF BasicInv, IdsKnown

LEMMA ClientBasic ==
    ASSUME BasicInv,
           \/ \E r \in Requests : RequestRefused(r) \/ Timeout(r)
           \/ ReceiveData \/ ReceiveEnd
    PROVE  BasicInv'
<1>1. ASSUME NEW r \in Requests, RequestRefused(r) PROVE BasicInv'
  <2>1. /\ status[r] = "unasked" /\ status' = [status EXCEPT ![r] = "failed"]
        /\ UNCHANGED <<nextId, streams, idOf, chunks, closed, clean, dstreams, task, channel, toDaemon, toClient>>
    BY <1>1 DEF RequestRefused, daemonVars, wireVars
  <2>2. TypeOK'
    BY <2>1 DEF BasicInv, TypeOK
  <2>3. Pending' = Pending
    BY <2>1 DEF BasicInv, TypeOK, Pending
  <2>4. IdsKnown'
    BY <2>1, UnaskedFacts DEF BasicInv, TypeOK, IdsKnown
  <2> QED
    BY <2>1, <2>2, <2>3, <2>4
    DEF BasicInv, QuietBefore, ClosedIsEmpty, OpensHaveOwner, StreamsHaveOwner
<1>2. ASSUME NEW r \in Requests, Timeout(r) PROVE BasicInv'
  <2>1. /\ r \in Pending /\ SettleRequest(r, "failed") /\ toClient' = toClient
        /\ UNCHANGED <<nextId, idOf, chunks, closed, clean, channel, daemonVars>>
    BY <1>2 DEF Timeout
  <2>2. toClient' \in Seq(Frames) /\ \A k \in DOMAIN toClient' : toClient'[k].id = idOf[toClient'[k].req]
    BY <2>1 DEF BasicInv, TypeOK, IdsKnown
  <2> QED BY <2>1, <2>2, SettleBasic
<1>3. CASE ReceiveData
  <2>1. /\ Arrives({"DATA"})
        /\ chunks' = IF Receiver = NoRequest THEN chunks
                     ELSE [chunks EXCEPT ![Receiver] = Append(@, Head(toClient).req)]
        /\ UNCHANGED <<nextId, streams, status, idOf, closed, clean, channel, toDaemon, dstreams, task>>
    BY <1>3 DEF ReceiveData, daemonVars
  <2>2. /\ channel = "open" /\ toClient[1] \in Frames /\ Head(toClient) = toClient[1] /\ toClient' \in Seq(Frames)
        /\ \A k \in DOMAIN toClient' : toClient'[k].id = idOf[toClient'[k].req]
    BY <2>1, ToClientFacts
  <2>3. Receiver \in Requests \cup {NoRequest} /\ Head(toClient).req \in Requests
    BY <2>2 DEF Receiver, BasicInv, TypeOK, Frames
  <2>4. chunks' \in [Requests -> Seq(Requests)]
    BY <2>1, <2>3 DEF BasicInv, TypeOK
  <2>5. TypeOK'
    BY <2>1, <2>2, <2>4 DEF BasicInv, TypeOK
  <2>6. IdsKnown'
    BY <2>1, <2>2 DEF BasicInv, IdsKnown
  <2> QED
    BY <2>1, <2>2, <2>5, <2>6
    DEF BasicInv, QuietBefore, ClosedIsEmpty, OpensHaveOwner, StreamsHaveOwner, Pending
<1>4. CASE ReceiveEnd
  <2>1. /\ Arrives({"CLOSE", "RST"})
        /\ UNCHANGED <<nextId, idOf, chunks, closed, clean, channel, daemonVars>>
    BY <1>4 DEF ReceiveEnd
  <2>2. /\ channel = "open" /\ toClient[1] \in Frames /\ Head(toClient) = toClient[1] /\ toClient' \in Seq(Frames)
        /\ \A k \in DOMAIN toClient' : toClient'[k].id = idOf[toClient'[k].req]
    BY <2>1, ToClientFacts
  <2>3. CASE Receiver = NoRequest
    <3>1. UNCHANGED <<status, streams, toDaemon, dstreams, task, nextId, idOf, chunks, closed, clean, channel>>
      BY <2>1, <2>3, <1>4 DEF ReceiveEnd, daemonVars
    <3>2. TypeOK'
      BY <3>1, <2>2 DEF BasicInv, TypeOK
    <3>3. IdsKnown'
      BY <3>1, <2>2 DEF BasicInv, IdsKnown
    <3> QED
      BY <3>1, <2>2, <3>2, <3>3
      DEF BasicInv, QuietBefore, ClosedIsEmpty, OpensHaveOwner, StreamsHaveOwner, Pending
  <2>4. CASE Receiver # NoRequest
    <3>1. PICK to \in {"answered", "failed"} : SettleRequest(Receiver, to)
      BY <2>4, <1>4 DEF ReceiveEnd
    <3>2. Receiver \in Pending
      BY <2>2, <2>4 DEF Receiver, BasicInv, TypeOK, IdsKnown, Pending, Frames
    <3> QED BY <2>1, <2>2, <3>1, <3>2, SettleBasic
  <2> QED BY <2>3, <2>4
<1> QED BY <1>1, <1>2, <1>3, <1>4

\* What a frame at the head of the queue to the daemon says, and what is left behind it.
LEMMA ToDaemonFacts ==
    ASSUME BasicInv, NEW t, Delivered(t)
    PROVE  /\ channel = "open" /\ toDaemon # <<>> /\ toDaemon' = Tail(toDaemon)
           /\ Head(toDaemon) = toDaemon[1] /\ toDaemon[1] \in Frames /\ toDaemon[1].type = t
           /\ 1 \in DOMAIN toDaemon /\ toDaemon[1].id = idOf[toDaemon[1].req]
           /\ toDaemon' \in Seq(Frames) /\ DOMAIN toDaemon' \subseteq Nat \ {0}
           /\ \A k \in DOMAIN toDaemon' : k + 1 \in DOMAIN toDaemon /\ toDaemon'[k] = toDaemon[k + 1]
           /\ \A k \in DOMAIN toDaemon : k = 1 \/ (k - 1 \in DOMAIN toDaemon' /\ toDaemon'[k - 1] = toDaemon[k])
           /\ \A k \in DOMAIN toDaemon' : toDaemon'[k].id = idOf[toDaemon'[k].req]
<1>1. toDaemon # <<>> /\ toDaemon' = Tail(toDaemon) /\ Head(toDaemon).type = t /\ toDaemon \in Seq(Frames)
  BY DEF Delivered, BasicInv, TypeOK
<1>2. channel = "open"
  BY <1>1 DEF BasicInv, QuietBefore, ClosedIsEmpty, TypeOK
<1>3. /\ Head(toDaemon) = toDaemon[1] /\ toDaemon[1] \in Frames /\ 1 \in DOMAIN toDaemon
      /\ Tail(toDaemon) \in Seq(Frames) /\ DOMAIN Tail(toDaemon) \subseteq Nat \ {0}
      /\ \A k \in DOMAIN Tail(toDaemon) : k + 1 \in DOMAIN toDaemon /\ Tail(toDaemon)[k] = toDaemon[k + 1]
      /\ \A k \in DOMAIN toDaemon :
            k = 1 \/ (k - 1 \in DOMAIN Tail(toDaemon) /\ Tail(toDaemon)[k - 1] = toDaemon[k])
  BY <1>1, TailFacts
<1> QED BY <1>1, <1>2, <1>3 DEF BasicInv, IdsKnown

\* Opens behind the first frame keep their owners: a CLOSE in front of them never counted.
LEMMA TakenOpens ==
    ASSUME BasicInv, NEW t, Delivered(t), UNCHANGED <<status, idOf>>
    PROVE  /\ OpensHaveOwner' /\ Pending' = Pending
           /\ t # "CLOSE" => \A f \in InFlight(toDaemon) : f.type = "CLOSE" => f \in InFlight(toDaemon')
           /\ \A f \in InFlight(toDaemon) :
                 f.type = "CLOSE" => f = toDaemon[1] \/ f \in InFlight(toDaemon')
<1>1. Pending' = Pending
  BY DEF Pending
<1>2. \A f \in InFlight(toDaemon) : f = toDaemon[1] \/ f \in InFlight(toDaemon')
  BY ToDaemonFacts DEF InFlight
<1>3. ASSUME NEW k \in DOMAIN toDaemon', toDaemon'[k].type = "OPEN"
      PROVE  \/ \E s \in Pending' : idOf'[s] = toDaemon'[k].id
             \/ \E j \in DOMAIN toDaemon' :
                   j > k /\ toDaemon'[j].type = "CLOSE" /\ toDaemon'[j].id = toDaemon'[k].id
  <2>1. k + 1 \in DOMAIN toDaemon /\ toDaemon[k + 1] = toDaemon'[k] /\ k \in Nat \ {0}
    BY <1>3, ToDaemonFacts
  <2>2. CASE \E s \in Pending : idOf[s] = toDaemon'[k].id
    BY <2>2, <1>1
  <2>3. CASE ~\E s \in Pending : idOf[s] = toDaemon'[k].id
    <3>1. PICK j \in DOMAIN toDaemon :
             j > k + 1 /\ toDaemon[j].type = "CLOSE" /\ toDaemon[j].id = toDaemon'[k].id
      BY <2>1, <2>3, <1>3 DEF BasicInv, OpensHaveOwner
    <3>2. toDaemon \in Seq(Frames)
      BY DEF BasicInv, TypeOK
    <3>3. j \in Nat /\ j # 1
      BY <3>1, <3>2, <2>1
    <3>4. j - 1 \in DOMAIN toDaemon' /\ toDaemon'[j - 1] = toDaemon[j] /\ j - 1 > k
      BY <3>1, <3>3, <2>1, ToDaemonFacts
    <3> QED BY <3>1, <3>4
  <2> QED BY <2>2, <2>3
<1>4. OpensHaveOwner'
  BY <1>3 DEF OpensHaveOwner
<1> QED BY <1>1, <1>2, <1>4, ToDaemonFacts

LEMMA DaemonBasic ==
    ASSUME BasicInv, HandleOpen \/ HandleData \/ HandleUnknown \/ HandleClose
    PROVE  BasicInv'
<1>1. UNCHANGED <<nextId, streams, status, idOf, chunks, closed, clean, channel>>
  BY DEF HandleOpen, HandleData, HandleUnknown, HandleClose, clientVars
<1>2. CASE HandleOpen
  <2> DEFINE f == toDaemon[1]
  <2>1. Delivered("OPEN") /\ dstreams' = dstreams \cup {Head(toDaemon).id} /\ UNCHANGED <<task, toClient>>
    BY <1>2 DEF HandleOpen
  <2>2. f \in Frames /\ Head(toDaemon) = f /\ f.type = "OPEN" /\ 1 \in DOMAIN toDaemon /\ channel = "open"
    BY <2>1, ToDaemonFacts
  <2>3. TypeOK'
    BY <1>1, <2>1, <2>2, ToDaemonFacts, SMTT(30) DEF BasicInv, TypeOK, Frames
  <2>4. IdsKnown'
    BY <1>1, <2>1, ToDaemonFacts DEF BasicInv, IdsKnown
  <2>5. OpensHaveOwner' /\ Pending' = Pending
        /\ \A g \in InFlight(toDaemon) : g.type = "CLOSE" => g \in InFlight(toDaemon')
    BY <1>1, <2>1, TakenOpens
  <2>6. \/ \E s \in Pending : idOf[s] = f.id
        \/ \E g \in InFlight(toDaemon) : g.type = "CLOSE" /\ g.id = f.id
    BY <2>2 DEF BasicInv, OpensHaveOwner, InFlight
  <2>7. StreamsHaveOwner'
    BY <1>1, <2>1, <2>2, <2>5, <2>6 DEF BasicInv, StreamsHaveOwner
  <2> QED BY <1>1, <2>2, <2>3, <2>4, <2>5, <2>7 DEF BasicInv, QuietBefore, ClosedIsEmpty
<1>3. CASE HandleData
  <2> DEFINE f == toDaemon[1]
  <2>1. Delivered("DATA") /\ task' = [task EXCEPT ![Head(toDaemon).req] = "queued"] /\ UNCHANGED <<dstreams, toClient>>
    BY <1>3 DEF HandleData
  <2>2. f \in Frames /\ Head(toDaemon) = f /\ f.id = idOf[f.req] /\ 1 \in DOMAIN toDaemon /\ channel = "open"
    BY <2>1, ToDaemonFacts
  <2>3. TypeOK'
    BY <1>1, <2>1, <2>2, ToDaemonFacts DEF BasicInv, TypeOK, Frames, Running
  <2>4. IdsKnown'
    BY <1>1, <2>1, <2>2, ToDaemonFacts DEF BasicInv, TypeOK, IdsKnown, Frames
  <2>5. OpensHaveOwner' /\ Pending' = Pending
        /\ \A g \in InFlight(toDaemon) : g.type = "CLOSE" => g \in InFlight(toDaemon')
    BY <1>1, <2>1, TakenOpens
  <2>6. StreamsHaveOwner'
    BY <1>1, <2>1, <2>5 DEF BasicInv, StreamsHaveOwner
  <2> QED BY <1>1, <2>2, <2>3, <2>4, <2>5, <2>6 DEF BasicInv, QuietBefore, ClosedIsEmpty
<1>4. CASE HandleUnknown
  <2> DEFINE f == [toDaemon[1] EXCEPT !.type = "RST"]
  <2>1. Delivered("DATA") /\ toClient' = Append(toClient, [Head(toDaemon) EXCEPT !.type = "RST"])
        /\ UNCHANGED <<dstreams, task>>
    BY <1>4 DEF HandleUnknown, daemonVars
  <2>2. /\ toDaemon[1] \in Frames /\ Head(toDaemon) = toDaemon[1] /\ channel = "open"
        /\ toDaemon[1].id = idOf[toDaemon[1].req]
    BY <2>1, ToDaemonFacts
  <2>3. f \in Frames /\ f.id = idOf[f.req] /\ toClient' = Append(toClient, f)
    BY <2>1, <2>2 DEF Frames
  <2>4. toClient \in Seq(Frames) /\ \A k \in DOMAIN toClient : toClient[k].id = idOf[toClient[k].req]
    BY DEF BasicInv, TypeOK, IdsKnown
  <2>5. toClient' \in Seq(Frames) /\ \A k \in DOMAIN toClient' : toClient'[k].id = idOf[toClient'[k].req]
    <3> HIDE DEF f
    <3> QED BY <2>3, <2>4
  <2>6. TypeOK'
    BY <1>1, <2>1, <2>5, ToDaemonFacts DEF BasicInv, TypeOK
  <2>7. IdsKnown'
    BY <1>1, <2>1, <2>5, ToDaemonFacts DEF BasicInv, IdsKnown
  <2>8. OpensHaveOwner' /\ Pending' = Pending
        /\ \A g \in InFlight(toDaemon) : g.type = "CLOSE" => g \in InFlight(toDaemon')
    BY <1>1, <2>1, TakenOpens
  <2>9. StreamsHaveOwner'
    BY <1>1, <2>1, <2>8 DEF BasicInv, StreamsHaveOwner
  <2> QED BY <1>1, <2>2, <2>6, <2>7, <2>8, <2>9 DEF BasicInv, QuietBefore, ClosedIsEmpty
<1>5. CASE HandleClose
  <2>1. Delivered("CLOSE") /\ dstreams' = dstreams \ {Head(toDaemon).id} /\ UNCHANGED <<task, toClient>>
    BY <1>5 DEF HandleClose
  <2>2. Head(toDaemon) = toDaemon[1] /\ channel = "open"
    BY <2>1, ToDaemonFacts
  <2>3. TypeOK'
    BY <1>1, <2>1, ToDaemonFacts DEF BasicInv, TypeOK
  <2>4. IdsKnown'
    BY <1>1, <2>1, ToDaemonFacts DEF BasicInv, IdsKnown
  <2>5. OpensHaveOwner' /\ Pending' = Pending
        /\ \A g \in InFlight(toDaemon) : g.type = "CLOSE" => g = toDaemon[1] \/ g \in InFlight(toDaemon')
    BY <1>1, <2>1, TakenOpens
  <2>6. StreamsHaveOwner'
    BY <1>1, <2>1, <2>2, <2>5 DEF BasicInv, StreamsHaveOwner
  <2> QED BY <1>1, <2>2, <2>3, <2>4, <2>5, <2>6 DEF BasicInv, QuietBefore, ClosedIsEmpty
<1> QED BY <1>2, <1>3, <1>4, <1>5

\* The response and its end, as frames.
LEMMA ReplyFacts ==
    ASSUME BasicInv, NEW r \in Requests, task[r] # "none"
    PROVE  /\ idOf[r] \in Ids
           /\ Sent(toClient, Reply(r)) \in Seq(Frames)
           /\ \A k \in DOMAIN toClient :
                 k \in DOMAIN Sent(toClient, Reply(r)) /\ Sent(toClient, Reply(r))[k] = toClient[k]
           /\ \A k \in DOMAIN Sent(toClient, Reply(r)) :
                 \/ k \in DOMAIN toClient
                 \/ /\ k = Len(toClient) + 1
                    /\ Sent(toClient, Reply(r))[k] = Frame("DATA", idOf[r], r)
                 \/ /\ k = Len(toClient) + 2
                    /\ Sent(toClient, Reply(r))[k] = Frame("CLOSE", idOf[r], r)
           /\ channel = "open" => Frame("CLOSE", idOf[r], r) \in InFlight(Sent(toClient, Reply(r)))
           /\ channel # "open" => Sent(toClient, Reply(r)) = toClient
<1> DEFINE p == Reply(r)
<1>1. idOf[r] \in Ids /\ toClient \in Seq(Frames)
  BY DEF BasicInv, TypeOK, IdsKnown
<1>2. p \in Seq(Frames) /\ DOMAIN p = {1, 2}
      /\ p[1] = Frame("DATA", idOf[r], r) /\ p[2] = Frame("CLOSE", idOf[r], r)
  BY <1>1, FramesTyped DEF Reply
<1> HIDE DEF p
<1>3. toClient \in Seq(Frames) /\ p \in Seq(Frames)
  BY <1>1, <1>2
<1>4. /\ Sent(toClient, p) \in Seq(Frames) /\ DOMAIN toClient = 1..Len(toClient) /\ Len(toClient) \in Nat
      /\ DOMAIN Sent(toClient, p) \subseteq Nat \ {0}
      /\ \A k \in DOMAIN toClient : k \in DOMAIN Sent(toClient, p) /\ Sent(toClient, p)[k] = toClient[k]
      /\ \A k \in DOMAIN Sent(toClient, p) :
            \/ k \in DOMAIN toClient
            \/ k - Len(toClient) \in DOMAIN p /\ Sent(toClient, p)[k] = p[k - Len(toClient)]
  BY <1>3, SentFacts
<1>5. channel = "open" =>
         \A k \in DOMAIN p : Len(toClient) + k \in DOMAIN Sent(toClient, p)
                             /\ Sent(toClient, p)[Len(toClient) + k] = p[k]
  BY <1>3, SentFacts
<1>6. \A k \in DOMAIN Sent(toClient, p) :
         \/ k \in DOMAIN toClient
         \/ k = Len(toClient) + 1 /\ Sent(toClient, p)[k] = Frame("DATA", idOf[r], r)
         \/ k = Len(toClient) + 2 /\ Sent(toClient, p)[k] = Frame("CLOSE", idOf[r], r)
  BY <1>2, <1>4, SMTT(30)
<1>7. channel = "open" => Frame("CLOSE", idOf[r], r) \in InFlight(Sent(toClient, p))
  BY <1>2, <1>5 DEF InFlight
<1>8. channel # "open" => Sent(toClient, p) = toClient
  BY DEF Sent
<1> QED BY <1>1, <1>4, <1>6, <1>7, <1>8 DEF p

\* A step of the task of r.
TaskStep(r) == RefuseRoute(r) \/ AskBackend(r) \/ BackendReplies(r) \/ TaskEnds(r) \/ BackendFails(r)

LEMMA TaskShape ==
    ASSUME NEW r \in Requests, TaskStep(r)
    PROVE  /\ UNCHANGED <<nextId, streams, status, idOf, chunks, closed, clean, channel, toDaemon>>
           /\ task[r] \in Running
           /\ \E to \in {"done", "failed"} \cup Running : task' = [task EXCEPT ![r] = to]
           /\ dstreams' \in {dstreams, dstreams \ {idOf[r]}}
           /\ toClient' \in {toClient, Sent(toClient, Reply(r))}
<1>1. UNCHANGED <<nextId, streams, status, idOf, chunks, closed, clean, channel, toDaemon>>
  BY DEF TaskStep, RefuseRoute, AskBackend, BackendReplies, TaskEnds, BackendFails, clientVars, wireVars
<1>2. task[r] \in Running /\ \E to \in {"done", "failed"} \cup Running : task' = [task EXCEPT ![r] = to]
  BY DEF TaskStep, RefuseRoute, AskBackend, BackendReplies, TaskEnds, BackendFails, Running
<1>3. dstreams' \in {dstreams, dstreams \ {idOf[r]}} /\ toClient' \in {toClient, Sent(toClient, Reply(r))}
  BY DEF TaskStep, RefuseRoute, AskBackend, BackendReplies, TaskEnds, BackendFails, wireVars
<1> QED BY <1>1, <1>2, <1>3

LEMMA TaskBasic ==
    ASSUME BasicInv, NEW r \in Requests, TaskStep(r)
    PROVE  BasicInv'
<1>1. /\ UNCHANGED <<nextId, streams, status, idOf, chunks, closed, clean, channel, toDaemon>>
      /\ task[r] # "none" /\ dstreams' \subseteq dstreams
      /\ toClient' \in {toClient, Sent(toClient, Reply(r))}
  BY TaskShape DEF Running
<1>2. PICK to \in {"done", "failed"} \cup Running : task' = [task EXCEPT ![r] = to]
  BY TaskShape
<1>3. toClient' \in Seq(Frames) /\ \A k \in DOMAIN toClient' : toClient'[k].id = idOf[toClient'[k].req]
  <2>1. CASE toClient' = toClient
    BY <2>1 DEF BasicInv, TypeOK, IdsKnown
  <2>2. CASE toClient' = Sent(toClient, Reply(r))
    <3>1. \A t : Frame(t, idOf[r], r).id = idOf[Frame(t, idOf[r], r).req]
      BY DEF Frame
    <3> QED BY <2>2, <3>1, <1>1, ReplyFacts DEF BasicInv, IdsKnown
  <2> QED BY <1>1, <2>1, <2>2
<1>4. channel # "open" => toClient' = toClient
  BY <1>1, ReplyFacts
<1>5. TypeOK'
  BY <1>1, <1>2, <1>3 DEF BasicInv, TypeOK
<1>6. IdsKnown'
  BY <1>1, <1>2, <1>3 DEF BasicInv, TypeOK, IdsKnown
<1>7. QuietBefore' /\ ClosedIsEmpty'
  BY <1>1, <1>2, <1>4 DEF BasicInv, TypeOK, QuietBefore, ClosedIsEmpty
<1>8. OpensHaveOwner' /\ StreamsHaveOwner'
  BY <1>1 DEF BasicInv, OpensHaveOwner, StreamsHaveOwner, Pending
<1> QED BY <1>5, <1>6, <1>7, <1>8 DEF BasicInv

LEMMA NextBasic == BasicInv /\ [Next]_vars => BasicInv'
<1> SUFFICES ASSUME BasicInv, [Next]_vars PROVE BasicInv'
  OBVIOUS
<1>1. CASE UNCHANGED vars
  BY <1>1
  DEF vars, BasicInv, TypeOK, QuietBefore, ClosedIsEmpty, IdsKnown, OpensHaveOwner, StreamsHaveOwner, Pending, InFlight
<1>2. CASE Next
  <2>1. CASE ChannelOpens \/ ChannelLost \/ CloseTunnel
    BY <2>1, ChannelBasic
  <2>2. CASE ReceiveData \/ ReceiveEnd \/ \E r \in Requests : RequestRefused(r) \/ Timeout(r)
    BY <2>2, ClientBasic
  <2>3. CASE HandleOpen \/ HandleData \/ HandleUnknown \/ HandleClose
    BY <2>3, DaemonBasic
  <2>4. CASE \E r \in Requests : Request(r)
    BY <2>4, RequestBasic
  <2>5. CASE \E r \in Requests : TaskStep(r)
    BY <2>5, TaskBasic
  <2> QED BY <1>2, <2>1, <2>2, <2>3, <2>4, <2>5 DEF Next, TaskStep
<1> QED BY <1>1, <1>2

\* Every reachable state is type-correct.
THEOREM TypeCorrect == Spec => []TypeOK
<1>1. BasicInv => TypeOK
  BY DEF BasicInv
<1> QED BY <1>1, InitBasic, NextBasic, PTL DEF Spec

\* The daemon never keeps a stream that neither a waiting request nor a CLOSE on its way
\* will clear, whether or not ids were fresh.
THEOREM StreamsHaveOwnerCorrect == Spec => []StreamsHaveOwner
<1>1. BasicInv => StreamsHaveOwner
  BY DEF BasicInv
<1> QED BY <1>1, InitBasic, NextBasic, PTL DEF Spec

-----------------------------------------------------------------------------
(* Fresh ids.                                                              *)

LEMMA InitClean == Init => IInv
<1> SUFFICES ASSUME Init PROVE IInv
  OBVIOUS
<1>1. BasicInv
  BY InitBasic
<1>2. /\ status = [r \in Requests |-> "unasked"] /\ idOf = [r \in Requests |-> 0]
      /\ chunks = [r \in Requests |-> <<>>] /\ channel = "opening" /\ toDaemon = <<>> /\ toClient = <<>>
      /\ task = [r \in Requests |-> "none"]
  BY DEF Init
<1>3. IdsTell /\ Held
  BY <1>1, <1>2, IdFacts DEF IdsTell, Held, BasicInv
<1>4. DataFindsStream /\ NoReset /\ OneResponse /\ EndUnderway
  BY <1>2 DEF DataFindsStream, NoReset, OneResponse, EndUnderway
<1> QED BY <1>1, <1>3, <1>4 DEF IInv, CleanInv

\* Requests that are alive stay apart as long as none comes to life.
LEMMA TellApart ==
    ASSUME CleanInv, UNCHANGED idOf, \A s \in Requests : Live(s)' => Live(s)
    PROVE  IdsTell'
BY DEF CleanInv, IdsTell

LEMMA ChannelClean ==
    ASSUME BasicInv, CleanInv, ChannelOpens \/ ChannelLost \/ CloseTunnel
    PROVE  CleanInv'
<1>1. UNCHANGED <<nextId, streams, status, idOf, chunks, clean, dstreams, task>>
  BY DEF ChannelOpens, ChannelLost, CloseTunnel, clientVars, daemonVars
<1>2. CASE ChannelOpens
  <2>1. channel = "opening" /\ UNCHANGED <<toDaemon, toClient>>
    BY <1>2 DEF ChannelOpens
  <2>2. IdsTell' /\ Held' /\ DataFindsStream' /\ NoReset' /\ OneResponse'
    BY <1>1, <2>1 DEF CleanInv, IdsTell, Live, Held, DataFindsStream, NoReset, OneResponse
  <2>3. EndUnderway'
    BY <1>1, <2>1 DEF BasicInv, QuietBefore, EndUnderway
  <2> QED BY <2>2, <2>3 DEF CleanInv
<1>3. CASE ChannelLost \/ CloseTunnel
  <2>1. channel' = "closed" /\ toDaemon' = <<>> /\ toClient' = <<>>
    BY <1>3 DEF ChannelLost, CloseTunnel
  <2>2. \A s \in Requests : Live(s)' => Live(s)
    BY <1>1, <2>1 DEF Live
  <2>3. IdsTell'
    BY <1>1, <2>2, TellApart
  <2>4. Held' /\ DataFindsStream' /\ NoReset' /\ OneResponse' /\ EndUnderway'
    BY <1>1, <2>1 DEF CleanInv, Held, DataFindsStream, NoReset, OneResponse, EndUnderway
  <2> QED BY <2>3, <2>4 DEF CleanInv
<1> QED BY <1>2, <1>3

\* A step that leaves alone all that CleanInv is about.
LEMMA SameClean ==
    ASSUME CleanInv, UNCHANGED <<streams, status, idOf, chunks, channel, toDaemon, toClient, dstreams, task>>
    PROVE  CleanInv'
BY DEF CleanInv, IdsTell, Live, Held, DataFindsStream, NoReset, OneResponse, EndUnderway

LEMMA RefusedClean ==
    ASSUME BasicInv, CleanInv, NEW r \in Requests, RequestRefused(r)
    PROVE  CleanInv'
<1>1. /\ status[r] = "unasked" /\ status' = [status EXCEPT ![r] = "failed"]
      /\ UNCHANGED <<nextId, streams, idOf, chunks, closed, clean, dstreams, task, channel, toDaemon, toClient>>
  BY DEF RequestRefused, daemonVars, wireVars
<1>2. \A s \in Requests : /\ status'[s] = "pending" <=> status[s] = "pending"
                          /\ status'[s] = "answered" <=> status[s] = "answered"
  BY <1>1 DEF BasicInv, TypeOK
<1>3. \A s \in Requests : Live(s)' => Live(s)
  BY <1>1, <1>2 DEF Live
<1>4. IdsTell'
  BY <1>1, <1>3, TellApart
<1>5. Held' /\ DataFindsStream' /\ NoReset'
  BY <1>1, <1>2 DEF CleanInv, Held, DataFindsStream, NoReset
<1>6. OneResponse'
  BY <1>1, <1>2 DEF CleanInv, OneResponse
<1>7. EndUnderway'
  BY <1>1, <1>2 DEF CleanInv, EndUnderway
<1> QED BY <1>4, <1>5, <1>6, <1>7 DEF CleanInv

\* Where the frames of a new request end up.
LEMMA RequestQueue ==
    ASSUME BasicInv, NEW r \in Requests, Request(r)
    PROVE  /\ DOMAIN toDaemon = 1..Len(toDaemon) /\ Len(toDaemon) \in Nat
           /\ \A k \in DOMAIN toDaemon : k \in DOMAIN toDaemon' /\ toDaemon'[k] = toDaemon[k]
           /\ \A k \in DOMAIN toDaemon' :
                 \/ k \in DOMAIN toDaemon
                 \/ k = Len(toDaemon) + 1 /\ toDaemon'[k] = Frame("OPEN", nextId, r)
                 \/ /\ k = Len(toDaemon) + 2 /\ toDaemon'[k] = Frame("DATA", nextId, r)
                    /\ Len(toDaemon) + 1 \in DOMAIN toDaemon'
                    /\ toDaemon'[Len(toDaemon) + 1] = Frame("OPEN", nextId, r)
<1> DEFINE p == RequestFrames(nextId, r)
<1>1. toDaemon' = Sent(toDaemon, p)
  BY DEF Request
<1>2. toDaemon \in Seq(Frames) /\ nextId \in Ids
  BY IdFacts DEF BasicInv, TypeOK
<1>3. p \in Seq(Frames)
  BY <1>2, FramesTyped
<1>4. /\ DOMAIN p \subseteq {1, 2} /\ 1 \in DOMAIN p
      /\ p[1] = Frame("OPEN", nextId, r) /\ (2 \in DOMAIN p => p[2] = Frame("DATA", nextId, r))
  BY DEF RequestFrames
<1> HIDE DEF p
<1>5. toDaemon \in Seq(Frames) /\ p \in Seq(Frames)
  BY <1>2, <1>3
<1>6. /\ DOMAIN toDaemon = 1..Len(toDaemon) /\ Len(toDaemon) \in Nat
      /\ DOMAIN Sent(toDaemon, p) \subseteq Nat \ {0}
      /\ \A k \in DOMAIN toDaemon : k \in DOMAIN Sent(toDaemon, p) /\ Sent(toDaemon, p)[k] = toDaemon[k]
      /\ \A k \in DOMAIN Sent(toDaemon, p) :
            \/ k \in DOMAIN toDaemon
            \/ k - Len(toDaemon) \in DOMAIN p /\ Sent(toDaemon, p)[k] = p[k - Len(toDaemon)]
  BY <1>5, SentFacts
<1>7. channel = "open" =>
         \A k \in DOMAIN p : Len(toDaemon) + k \in DOMAIN Sent(toDaemon, p)
                             /\ Sent(toDaemon, p)[Len(toDaemon) + k] = p[k]
  BY <1>5, SentFacts
<1>8. channel # "open" => Sent(toDaemon, p) = toDaemon
  BY DEF Sent
<1> QED BY <1>1, <1>4, <1>6, <1>7, <1>8

\* An id that is not in use belongs to no live request.
LEMMA FreshId ==
    ASSUME NEW id, ~InUse(id), NEW s \in Requests, Live(s)
    PROVE  idOf[s] # id
BY DEF InUse, Live, Pending, InFlight

LEMMA RequestClean ==
    ASSUME BasicInv, CleanInv, NEW r \in Requests, Request(r), clean'
    PROVE  CleanInv'
<1>1. /\ status[r] = "unasked"
      /\ status' = [status EXCEPT ![r] = "pending"] /\ idOf' = [idOf EXCEPT ![r] = nextId]
      /\ streams' = [streams EXCEPT ![nextId] = r]
      /\ UNCHANGED <<chunks, closed, channel, toClient, dstreams, task>>
  BY DEF Request, daemonVars
<1>2. ~InUse(nextId)
  BY Zenon DEF Request
<1>3. /\ nextId \in Ids /\ idOf \in [Requests -> 0..MaxStreamId] /\ Ids \subseteq 0..MaxStreamId
      /\ status \in [Requests -> {"unasked", "pending", "answered", "failed"}]
      /\ streams \in [Ids -> Requests \cup {NoRequest}] /\ 0 \notin Ids
  BY IdFacts DEF BasicInv, TypeOK
<1>4. /\ idOf'[r] = nextId /\ status'[r] = "pending"
      /\ \A s \in Requests : s # r => idOf'[s] = idOf[s] /\ status'[s] = status[s]
  BY <1>1, <1>3
<1>5. /\ task[r] = "none"
      /\ \A k \in DOMAIN toDaemon : toDaemon[k] \in Frames /\ toDaemon[k].req # r
      /\ \A k \in DOMAIN toClient : toClient[k] \in Frames /\ toClient[k].req # r
  BY <1>1, UnaskedFacts
<1>6. \A s \in Requests : s # r /\ Live(s)' => Live(s)
  <2> SUFFICES ASSUME NEW s \in Requests, s # r, Live(s)' PROVE Live(s)
    OBVIOUS
  <2>1. CASE status'[s] = "pending" \/ task'[s] \in Running \/ \E k \in DOMAIN toClient' : toClient'[k].req = s
    BY <2>1, <1>1, <1>4 DEF Live
  <2>2. CASE \E k \in DOMAIN toDaemon' : toDaemon'[k].req = s
    <3>1. PICK k \in DOMAIN toDaemon' : toDaemon'[k].req = s
      BY <2>2
    <3>2. Frame("OPEN", nextId, r).req = r /\ Frame("DATA", nextId, r).req = r
      BY DEF Frame
    <3>3. k \in DOMAIN toDaemon /\ toDaemon[k].req = s
      BY <3>1, <3>2, RequestQueue
    <3> QED BY <3>3 DEF Live
  <2> QED BY <2>1, <2>2 DEF Live
<1>7. \A s \in Requests : s # r /\ Live(s)' => idOf'[s] # nextId
  BY <1>2, <1>4, <1>6, FreshId
<1>8. IdsTell'
  <2> SUFFICES ASSUME NEW s \in Requests, NEW t \in Requests,
                      idOf'[s] = idOf'[t], idOf'[s] \in Ids, Live(s)', Live(t)'
               PROVE  s = t
    BY DEF IdsTell
  <2>1. CASE s = r \/ t = r
    BY <2>1, <1>4, <1>7
  <2>2. CASE s # r /\ t # r
    BY <2>2, <1>4, <1>6 DEF CleanInv, IdsTell
  <2> QED BY <2>1, <2>2
<1>9. Held'
  <2> SUFFICES ASSUME NEW s \in Requests, status'[s] = "pending" PROVE streams'[idOf'[s]] = s
    BY DEF Held
  <2>1. CASE s = r
    BY <2>1, <1>1, <1>3, <1>4
  <2>2. CASE s # r
    <3>1. idOf[s] # nextId
      BY <2>2, <1>2, <1>4, FreshId DEF Live
    <3>2. idOf[s] \in Ids /\ streams[idOf[s]] = s
      BY <2>2, <1>4 DEF BasicInv, IdsKnown, CleanInv, Held
    <3> QED BY <2>2, <3>1, <3>2, <1>1, <1>3, <1>4
  <2> QED BY <2>1, <2>2
<1>10. DataFindsStream'
  <2> SUFFICES ASSUME NEW k \in DOMAIN toDaemon', toDaemon'[k].type = "DATA"
               PROVE  /\ task'[toDaemon'[k].req] = "none"
                      /\ \A j \in 1..(k - 1) : toDaemon'[j].id = toDaemon'[k].id => toDaemon'[j].type = "OPEN"
                      /\ \/ toDaemon'[k].id \in dstreams'
                         \/ \E j \in 1..(k - 1) : toDaemon'[j].type = "OPEN" /\ toDaemon'[j].id = toDaemon'[k].id
    BY DEF DataFindsStream
  <2>1. /\ DOMAIN toDaemon = 1..Len(toDaemon) /\ Len(toDaemon) \in Nat
        /\ \A j \in DOMAIN toDaemon : j \in DOMAIN toDaemon' /\ toDaemon'[j] = toDaemon[j]
    BY RequestQueue
  <2>2. CASE k \in DOMAIN toDaemon
    <3>1. \A j \in 1..(k - 1) : j \in DOMAIN toDaemon
      BY <2>1, <2>2
    <3>2. toDaemon'[k] = toDaemon[k] /\ \A j \in 1..(k - 1) : toDaemon'[j] = toDaemon[j]
      BY <2>1, <2>2, <3>1
    <3>3. /\ task[toDaemon[k].req] = "none"
          /\ \A j \in 1..(k - 1) : toDaemon[j].id = toDaemon[k].id => toDaemon[j].type = "OPEN"
          /\ \/ toDaemon[k].id \in dstreams
             \/ \E j \in 1..(k - 1) : toDaemon[j].type = "OPEN" /\ toDaemon[j].id = toDaemon[k].id
      BY <2>2, <3>2, Zenon DEF CleanInv, DataFindsStream
    <3>4. task' = task /\ dstreams' = dstreams
      BY <1>1
    <3> QED BY <3>2, <3>3, <3>4, Zenon
  <2>3. CASE k \notin DOMAIN toDaemon
    <3>1. Frame("OPEN", nextId, r).type # "DATA"
      BY DEF Frame
    <3>2. /\ k = Len(toDaemon) + 2 /\ toDaemon'[k] = Frame("DATA", nextId, r)
          /\ Len(toDaemon) + 1 \in DOMAIN toDaemon'
          /\ toDaemon'[Len(toDaemon) + 1] = Frame("OPEN", nextId, r)
      BY <2>3, <3>1, RequestQueue
    <3>3. /\ Frame("OPEN", nextId, r).type = "OPEN" /\ Frame("OPEN", nextId, r).id = nextId
          /\ Frame("DATA", nextId, r).id = nextId /\ Frame("DATA", nextId, r).req = r
      BY DEF Frame
    <3>4. \A j \in DOMAIN toDaemon : toDaemon[j].id # nextId
      <4> SUFFICES ASSUME NEW j \in DOMAIN toDaemon PROVE toDaemon[j].id # nextId
        OBVIOUS
      <4>1. toDaemon[j].req \in Requests
        BY <1>5 DEF Frames
      <4>2. Live(toDaemon[j].req)
        BY DEF Live
      <4>3. toDaemon[j].id = idOf[toDaemon[j].req]
        BY DEF BasicInv, IdsKnown
      <4> QED BY <4>1, <4>2, <4>3, <1>2, FreshId
    <3>5. \A j \in 1..(k - 1) : j \in DOMAIN toDaemon \/ j = Len(toDaemon) + 1
      BY <2>1, <3>2
    <3>6. task'[toDaemon'[k].req] = "none"
      BY <3>2, <3>3, <1>1, <1>5
    <3>7. \A j \in 1..(k - 1) : toDaemon'[j].id = toDaemon'[k].id => toDaemon'[j].type = "OPEN"
      BY <2>1, <3>2, <3>3, <3>4, <3>5
    <3>8. Len(toDaemon) + 1 \in 1..(k - 1)
      BY <2>1, <3>2
    <3> QED BY <3>2, <3>3, <3>6, <3>7, <3>8
  <2> QED BY <2>2, <2>3
<1>11. NoReset'
  BY <1>1 DEF CleanInv, NoReset
<1>12. OneResponse'
  BY <1>1, <1>4 DEF CleanInv, OneResponse
<1>13. EndUnderway'
  <2> SUFFICES ASSUME channel = "open", NEW s \in Requests, status'[s] = "pending",
                      task[s] \in {"leaving", "done", "failed"}
               PROVE  \E k \in DOMAIN toClient : toClient[k] = Frame("CLOSE", idOf'[s], s)
    BY <1>1 DEF EndUnderway
  <2>1. s # r
    BY <1>5
  <2> QED BY <2>1, <1>4 DEF CleanInv, EndUnderway
<1> QED BY <1>8, <1>9, <1>10, <1>11, <1>12, <1>13 DEF CleanInv

\* Where the CLOSE of a settled request ends up.
LEMMA SettleQueue ==
    ASSUME BasicInv, NEW r \in Pending, NEW to, SettleRequest(r, to)
    PROVE  /\ DOMAIN toDaemon = 1..Len(toDaemon) /\ Len(toDaemon) \in Nat
           /\ \A k \in DOMAIN toDaemon : k \in DOMAIN toDaemon' /\ toDaemon'[k] = toDaemon[k]
           /\ \A k \in DOMAIN toDaemon' :
                 k \in DOMAIN toDaemon \/ toDaemon'[k] = Frame("CLOSE", idOf[r], r)
<1> DEFINE p == <<Frame("CLOSE", idOf[r], r)>>
<1>1. toDaemon' = Sent(toDaemon, p)
  BY DEF SettleRequest
<1>2. toDaemon \in Seq(Frames) /\ idOf[r] \in Ids /\ r \in Requests
  BY DEF BasicInv, TypeOK, IdsKnown, Pending
<1>3. p \in Seq(Frames) /\ DOMAIN p = {1} /\ p[1] = Frame("CLOSE", idOf[r], r)
  BY <1>2, FramesTyped
<1> HIDE DEF p
<1>4. toDaemon \in Seq(Frames) /\ p \in Seq(Frames)
  BY <1>2, <1>3
<1>5. /\ DOMAIN toDaemon = 1..Len(toDaemon) /\ Len(toDaemon) \in Nat
      /\ \A k \in DOMAIN toDaemon : k \in DOMAIN Sent(toDaemon, p) /\ Sent(toDaemon, p)[k] = toDaemon[k]
      /\ \A k \in DOMAIN Sent(toDaemon, p) :
            \/ k \in DOMAIN toDaemon
            \/ k - Len(toDaemon) \in DOMAIN p /\ Sent(toDaemon, p)[k] = p[k - Len(toDaemon)]
  BY <1>4, SentFacts
<1> QED BY <1>1, <1>3, <1>5

\* A request is settled, as answered only with chunks, and the queue to the browser keeps the
\* frames that the invariants speak of.
LEMMA SettleClean ==
    ASSUME BasicInv, CleanInv, NEW r \in Pending, NEW to \in {"answered", "failed"},
           SettleRequest(r, to), to = "answered" => chunks[r] # <<>>,
           UNCHANGED <<nextId, idOf, chunks, closed, clean, channel, daemonVars>>,
           toClient' = toClient \/ Arrives({"CLOSE", "RST"}),
           toClient' # toClient => Head(toClient).req = r
    PROVE  CleanInv'
<1>1. /\ status' = [status EXCEPT ![r] = to] /\ streams' = [streams EXCEPT ![idOf[r]] = NoRequest]
      /\ UNCHANGED <<idOf, chunks, channel, dstreams, task>>
  BY DEF SettleRequest, daemonVars
<1>2. /\ r \in Requests /\ status[r] = "pending" /\ idOf[r] \in Ids
      /\ status \in [Requests -> {"unasked", "pending", "answered", "failed"}]
      /\ streams \in [Ids -> Requests \cup {NoRequest}]
  BY DEF BasicInv, TypeOK, IdsKnown, Pending
<1>3. status'[r] = to /\ \A s \in Requests : s # r => status'[s] = status[s]
  BY <1>1, <1>2
<1>4. /\ \A k \in DOMAIN toClient' : \E j \in DOMAIN toClient : toClient'[k] = toClient[j]
      /\ \A k \in DOMAIN toClient : toClient[k].req # r => \E j \in DOMAIN toClient' : toClient'[j] = toClient[k]
  <2>1. CASE toClient' = toClient
    BY <2>1
  <2>2. CASE toClient' # toClient
    <3>1. Arrives({"CLOSE", "RST"}) /\ Head(toClient).req = r
      BY <2>2
    <3>2. toClient # <<>> /\ toClient \in Seq(Frames) /\ toClient' = Tail(toClient) /\ Head(toClient) = toClient[1]
      BY <3>1, ToClientFacts DEF BasicInv, TypeOK
    <3>3. /\ \A k \in DOMAIN toClient' : k + 1 \in DOMAIN toClient /\ toClient'[k] = toClient[k + 1]
          /\ \A k \in DOMAIN toClient : k = 1 \/ (k - 1 \in DOMAIN toClient' /\ toClient'[k - 1] = toClient[k])
      BY <3>2, TailFacts
    <3> QED BY <3>1, <3>2, <3>3
  <2> QED BY <2>1, <2>2
<1>5. \A s \in Requests : Live(s)' => Live(s)
  <2> SUFFICES ASSUME NEW s \in Requests, Live(s)' PROVE Live(s)
    OBVIOUS
  <2>1. CASE status'[s] = "pending" \/ task'[s] \in Running \/ \E k \in DOMAIN toClient' : toClient'[k].req = s
    BY <2>1, <1>1, <1>2, <1>3, <1>4 DEF Live
  <2>2. CASE \E k \in DOMAIN toDaemon' : toDaemon'[k].req = s
    <3>1. Frame("CLOSE", idOf[r], r).req = r
      BY DEF Frame
    <3> QED BY <2>2, <3>1, <1>2, SettleQueue DEF Live
  <2> QED BY <2>1, <2>2 DEF Live
<1>6. IdsTell'
  BY <1>1, <1>5, TellApart
<1>7. Held'
  <2> SUFFICES ASSUME NEW s \in Requests, status'[s] = "pending" PROVE streams'[idOf[s]] = s
    BY <1>1 DEF Held
  <2>1. s # r /\ status[s] = "pending" /\ idOf[s] \in Ids /\ streams[idOf[s]] = s
    BY <1>2, <1>3 DEF BasicInv, IdsKnown, CleanInv, Held
  <2>2. idOf[s] # idOf[r]
    BY <2>1, <1>2 DEF CleanInv, Held
  <2> QED BY <2>1, <2>2, <1>1, <1>2
<1>8. DataFindsStream'
  <2>1. Frame("CLOSE", idOf[r], r).type # "DATA"
    BY DEF Frame
  <2> SUFFICES ASSUME NEW k \in DOMAIN toDaemon', toDaemon'[k].type = "DATA"
               PROVE  /\ task'[toDaemon'[k].req] = "none"
                      /\ \A j \in 1..(k - 1) : toDaemon'[j].id = toDaemon'[k].id => toDaemon'[j].type = "OPEN"
                      /\ \/ toDaemon'[k].id \in dstreams'
                         \/ \E j \in 1..(k - 1) : toDaemon'[j].type = "OPEN" /\ toDaemon'[j].id = toDaemon'[k].id
    BY DEF DataFindsStream
  <2>2. /\ k \in DOMAIN toDaemon /\ toDaemon'[k] = toDaemon[k]
        /\ DOMAIN toDaemon = 1..Len(toDaemon) /\ Len(toDaemon) \in Nat
    BY <2>1, SettleQueue
  <2>3. \A j \in 1..(k - 1) : j \in DOMAIN toDaemon /\ toDaemon'[j] = toDaemon[j]
    BY <2>2, SettleQueue
  <2> QED BY <2>2, <2>3, <1>1 DEF CleanInv, DataFindsStream
<1>9. NoReset'
  BY <1>4 DEF CleanInv, NoReset
<1>10. OneResponse'
  <2>1. \A s \in Requests :
           /\ chunks'[s] \in {<<>>, <<s>>}
           /\ status'[s] = "answered" => chunks'[s] = <<s>>
           /\ task'[s] \in {"none", "queued", "backend"} => chunks'[s] = <<>>
    BY <1>1, <1>3 DEF CleanInv, OneResponse
  <2>2. CASE toClient' = toClient
    BY <2>1, <2>2, <1>1 DEF CleanInv, OneResponse
  <2>3. CASE toClient' # toClient
    <3>1. \A k \in DOMAIN toClient' : k + 1 \in DOMAIN toClient /\ toClient'[k] = toClient[k + 1]
      BY <2>3, ToClientFacts
    <3>2. DOMAIN toClient' \subseteq Nat
      BY <2>3, ToClientFacts
    <3> QED BY <2>1, <3>1, <3>2, <1>1, SMTT(30) DEF CleanInv, OneResponse
  <2> QED BY <2>2, <2>3
<1>11. EndUnderway'
  <2> SUFFICES ASSUME channel = "open", NEW s \in Requests, status'[s] = "pending",
                      task[s] \in {"leaving", "done", "failed"}
               PROVE  \E k \in DOMAIN toClient' : toClient'[k] = Frame("CLOSE", idOf[s], s)
    BY <1>1 DEF EndUnderway
  <2>1. s # r /\ status[s] = "pending"
    BY <1>3
  <2>2. PICK k \in DOMAIN toClient : toClient[k] = Frame("CLOSE", idOf[s], s)
    BY <2>1 DEF CleanInv, EndUnderway
  <2>3. toClient[k].req # r
    BY <2>1, <2>2 DEF Frame
  <2> QED BY <2>2, <2>3, <1>4
<1> QED BY <1>6, <1>7, <1>8, <1>9, <1>10, <1>11 DEF CleanInv

\* Whom a frame that reaches the browser is for: a request that waits only gets its own, and
\* gets all of those.
LEMMA ReceiverFacts ==
    ASSUME BasicInv, CleanInv, NEW T, Arrives(T)
    PROVE  /\ toClient[1].type \in T /\ 1 \in DOMAIN toClient /\ toClient[1] \in Frames
           /\ \A k \in DOMAIN toClient' : k \in Nat /\ k + 1 \in DOMAIN toClient /\ toClient'[k] = toClient[k + 1]
           /\ \A k \in DOMAIN toClient : k = 1 \/ \E j \in DOMAIN toClient' : toClient'[j] = toClient[k]
           /\ Receiver # NoRequest => Receiver \in Pending /\ Head(toClient).req = Receiver
           /\ \A s \in Pending : toClient[1].req = s => Receiver = s
<1>1. /\ toClient # <<>> /\ toClient \in Seq(Frames) /\ toClient' = Tail(toClient) /\ Head(toClient) = toClient[1]
      /\ toClient[1] \in Frames /\ 1 \in DOMAIN toClient /\ toClient[1].type \in T
      /\ \A k \in DOMAIN toClient' : k + 1 \in DOMAIN toClient /\ toClient'[k] = toClient[k + 1]
  BY ToClientFacts DEF BasicInv, TypeOK
<1>2. /\ \A k \in DOMAIN toClient' : k \in Nat
      /\ \A k \in DOMAIN toClient : k = 1 \/ (k - 1 \in DOMAIN toClient' /\ toClient'[k - 1] = toClient[k])
  BY <1>1, TailFacts
<1>3. /\ toClient[1].id \in Ids /\ toClient[1].req \in Requests
      /\ toClient[1].id = idOf[toClient[1].req]
  BY <1>1 DEF Frames, BasicInv, IdsKnown
<1>4. Receiver = streams[toClient[1].id]
  BY <1>1 DEF Receiver
<1>5. ASSUME Receiver # NoRequest PROVE Receiver \in Pending /\ toClient[1].req = Receiver
  <2>1. Receiver \in Requests /\ status[Receiver] = "pending" /\ idOf[Receiver] = toClient[1].id
    BY <1>3, <1>4, <1>5 DEF BasicInv, TypeOK, IdsKnown
  <2>2. Live(Receiver) /\ Live(toClient[1].req)
    BY <1>1, <2>1 DEF Live
  <2> QED BY <1>3, <2>1, <2>2 DEF CleanInv, IdsTell, Pending
<1>6. \A s \in Pending : toClient[1].req = s => Receiver = s
  BY <1>3, <1>4 DEF CleanInv, Held, Pending
<1> QED BY <1>1, <1>2, <1>5, <1>6

LEMMA ReceiveDataClean ==
    ASSUME BasicInv, CleanInv, ReceiveData
    PROVE  CleanInv'
<1>1. /\ Arrives({"DATA"})
      /\ chunks' = IF Receiver = NoRequest THEN chunks
                   ELSE [chunks EXCEPT ![Receiver] = Append(@, Head(toClient).req)]
      /\ UNCHANGED <<streams, status, idOf, channel, toDaemon, dstreams, task>>
  BY DEF ReceiveData, daemonVars
<1>2. /\ toClient[1].type = "DATA" /\ 1 \in DOMAIN toClient
      /\ \A k \in DOMAIN toClient' : k \in Nat /\ k + 1 \in DOMAIN toClient /\ toClient'[k] = toClient[k + 1]
      /\ \A k \in DOMAIN toClient : k = 1 \/ \E j \in DOMAIN toClient' : toClient'[j] = toClient[k]
  BY <1>1, ReceiverFacts
<1>3. \A s \in Requests : Live(s)' => Live(s)
  BY <1>1, <1>2 DEF Live
<1>4. IdsTell'
  BY <1>1, <1>3, TellApart
<1>5. Held' /\ DataFindsStream'
  BY <1>1 DEF CleanInv, Held, DataFindsStream
<1>6. NoReset'
  BY <1>2 DEF CleanInv, NoReset
<1>7. OneResponse'
  <2>1. CASE Receiver = NoRequest
    BY <1>1, <1>2, <2>1 DEF CleanInv, OneResponse
  <2>2. CASE Receiver # NoRequest
    <3> DEFINE x == Receiver
    <3>1. x \in Requests /\ status[x] = "pending" /\ Head(toClient).req = x /\ toClient[1].req = x
      BY <1>1, <2>2, ReceiverFacts, ToClientFacts DEF Pending
    <3>2. chunks[x] = <<>> /\ task[x] \notin {"none", "queued", "backend"}
      BY <1>2, <3>1 DEF CleanInv, OneResponse
    <3>3. chunks' = [chunks EXCEPT ![x] = <<x>>] /\ chunks \in [Requests -> Seq(Requests)]
      <4>1. chunks' = [chunks EXCEPT ![x] = Append(chunks[x], x)] /\ chunks \in [Requests -> Seq(Requests)]
        BY <1>1, <2>2, <3>1 DEF BasicInv, TypeOK
      <4>2. Append(<<>>, x) = <<x>>
        OBVIOUS
      <4> QED BY <3>2, <4>1, <4>2
    <3> HIDE DEF x
    <3>4. \A s \in Requests : chunks'[s] = IF s = x THEN <<x>> ELSE chunks[s]
      BY <3>1, <3>3
    <3>5. \A k \in DOMAIN toClient' : toClient'[k].type = "DATA" => toClient'[k].req \in Requests /\ toClient'[k].req # x
      <4> SUFFICES ASSUME NEW k \in DOMAIN toClient', toClient'[k].type = "DATA"
                   PROVE  toClient'[k].req \in Requests /\ toClient'[k].req # x
        OBVIOUS
      <4>1. k \in Nat /\ k + 1 \in DOMAIN toClient /\ toClient'[k] = toClient[k + 1] /\ k + 1 # 1
        BY <1>1, ReceiverFacts, ToClientFacts DEF BasicInv, TypeOK
      <4>2. toClient[k + 1] \in Frames
        BY <4>1 DEF BasicInv, TypeOK
      <4> QED BY <1>2, <3>1, <4>1, <4>2 DEF CleanInv, OneResponse, Frames
    <3>6. \A s \in Requests :
             /\ chunks'[s] \in {<<>>, <<s>>}
             /\ status'[s] = "answered" => chunks'[s] = <<s>>
             /\ task'[s] \in {"none", "queued", "backend"} => chunks'[s] = <<>>
      BY <1>1, <3>2, <3>4 DEF CleanInv, OneResponse
    <3>7. \A k \in DOMAIN toClient' : toClient'[k].type = "DATA" =>
             /\ chunks'[toClient'[k].req] = <<>>
             /\ task'[toClient'[k].req] \notin {"none", "queued", "backend"}
             /\ \A j \in DOMAIN toClient' :
                   toClient'[j].type = "DATA" /\ toClient'[j].req = toClient'[k].req => j = k
      <4> SUFFICES ASSUME NEW k \in DOMAIN toClient', toClient'[k].type = "DATA"
                   PROVE  /\ chunks'[toClient'[k].req] = <<>>
                          /\ task'[toClient'[k].req] \notin {"none", "queued", "backend"}
                          /\ \A j \in DOMAIN toClient' :
                                toClient'[j].type = "DATA" /\ toClient'[j].req = toClient'[k].req => j = k
        OBVIOUS
      <4>1. k + 1 \in DOMAIN toClient /\ toClient'[k] = toClient[k + 1]
        BY <1>2
      <4>2. /\ chunks[toClient[k + 1].req] = <<>> /\ task[toClient[k + 1].req] \notin {"none", "queued", "backend"}
            /\ \A j \in DOMAIN toClient :
                  toClient[j].type = "DATA" /\ toClient[j].req = toClient[k + 1].req => j = k + 1
        BY <4>1 DEF CleanInv, OneResponse
      <4>3. chunks'[toClient'[k].req] = <<>>
        BY <3>4, <3>5, <4>1, <4>2
      <4>4. \A j \in DOMAIN toClient' :
               toClient'[j].type = "DATA" /\ toClient'[j].req = toClient'[k].req => j = k
        BY <1>2, <4>1, <4>2
      <4> QED BY <1>1, <4>1, <4>2, <4>3, <4>4
    <3> QED BY <3>6, <3>7 DEF OneResponse
  <2> QED BY <2>1, <2>2
<1>8. EndUnderway'
  <2>1. \A s : Frame("CLOSE", idOf[s], s).type # "DATA"
    BY DEF Frame
  <2> QED BY <1>1, <1>2, <2>1 DEF CleanInv, EndUnderway
<1> QED BY <1>4, <1>5, <1>6, <1>7, <1>8 DEF CleanInv

LEMMA ReceiveEndClean ==
    ASSUME BasicInv, CleanInv, ReceiveEnd
    PROVE  CleanInv'
<1>1. /\ Arrives({"CLOSE", "RST"})
      /\ UNCHANGED <<nextId, idOf, chunks, closed, clean, channel, daemonVars>>
  BY DEF ReceiveEnd
<1>2. CASE Receiver # NoRequest
  <2>1. PICK to \in {"answered", "failed"} :
           SettleRequest(Receiver, to) /\ (to = "answered" => chunks[Receiver] # <<>>)
    BY <1>2 DEF ReceiveEnd
  <2>2. Receiver \in Pending /\ Head(toClient).req = Receiver
    BY <1>1, <1>2, ReceiverFacts
  <2> QED BY <1>1, <2>1, <2>2, SettleClean
<1>3. CASE Receiver = NoRequest
  <2>1. UNCHANGED <<streams, status, idOf, chunks, channel, toDaemon, dstreams, task>>
    BY <1>1, <1>3 DEF ReceiveEnd, daemonVars
  <2>2. /\ \A k \in DOMAIN toClient' : k \in Nat /\ k + 1 \in DOMAIN toClient /\ toClient'[k] = toClient[k + 1]
        /\ \A k \in DOMAIN toClient : k = 1 \/ \E j \in DOMAIN toClient' : toClient'[j] = toClient[k]
        /\ \A s \in Pending : toClient[1].req # s
    BY <1>1, <1>3, ReceiverFacts, StreamsAssumption DEF Pending
  <2>3. \A s \in Requests : Live(s)' => Live(s)
    BY <2>1, <2>2 DEF Live
  <2>4. IdsTell'
    BY <2>1, <2>3, TellApart
  <2>5. Held' /\ DataFindsStream'
    BY <2>1 DEF CleanInv, Held, DataFindsStream
  <2>6. NoReset' /\ OneResponse'
    BY <2>1, <2>2 DEF CleanInv, NoReset, OneResponse
  <2>7. EndUnderway'
    <3>1. \A s : Frame("CLOSE", idOf[s], s).req = s
      BY DEF Frame
    <3> QED BY <2>1, <2>2, <3>1 DEF CleanInv, EndUnderway, Pending
  <2> QED BY <2>4, <2>5, <2>6, <2>7 DEF CleanInv
<1> QED BY <1>2, <1>3

LEMMA TimeoutClean ==
    ASSUME BasicInv, CleanInv, NEW r \in Requests, Timeout(r)
    PROVE  CleanInv'
<1>1. /\ r \in Pending /\ SettleRequest(r, "failed") /\ toClient' = toClient
      /\ UNCHANGED <<nextId, idOf, chunks, closed, clean, channel, daemonVars>>
  BY DEF Timeout
<1> QED BY <1>1, SettleClean

\* The daemon takes a frame: streams of requests on the way behind it are still found.
LEMMA DaemonClean ==
    ASSUME BasicInv, CleanInv, HandleOpen \/ HandleData \/ HandleUnknown \/ HandleClose
    PROVE  CleanInv'
<1> DEFINE f == toDaemon[1]
<1>1. UNCHANGED <<streams, status, idOf, chunks, channel>>
  BY DEF HandleOpen, HandleData, HandleUnknown, HandleClose, clientVars
<1>2. PICK t \in {"OPEN", "DATA", "CLOSE"} : Delivered(t)
  BY DEF HandleOpen, HandleData, HandleUnknown, HandleClose
<1>3. /\ f \in Frames /\ Head(toDaemon) = f /\ f.type = t /\ 1 \in DOMAIN toDaemon /\ f.id = idOf[f.req]
      /\ \A k \in DOMAIN toDaemon' : k \in Nat \ {0} /\ k + 1 \in DOMAIN toDaemon /\ toDaemon'[k] = toDaemon[k + 1]
  BY <1>2, ToDaemonFacts
<1>4. f.req \in Requests /\ f.id \in Ids
  BY <1>3 DEF Frames
<1> HIDE DEF f
<1>5. ASSUME NEW k \in DOMAIN toDaemon', toDaemon'[k].type = "DATA"
      PROVE  /\ task[toDaemon'[k].req] = "none" /\ toDaemon'[k].id = idOf[toDaemon'[k].req]
             /\ \A j \in 1..(k - 1) : toDaemon'[j].id = toDaemon'[k].id => toDaemon'[j].type = "OPEN"
             /\ t # "OPEN" => toDaemon'[k].id # f.id /\ toDaemon'[k].req # f.req
             /\ \/ toDaemon'[k].id \in dstreams \/ (t = "OPEN" /\ toDaemon'[k].id = f.id)
                \/ \E j \in 1..(k - 1) : toDaemon'[j].type = "OPEN" /\ toDaemon'[j].id = toDaemon'[k].id
  <2>1. k \in Nat \ {0} /\ k + 1 \in DOMAIN toDaemon /\ toDaemon'[k] = toDaemon[k + 1]
    BY <1>3, <1>5
  <2>2. /\ task[toDaemon'[k].req] = "none" /\ toDaemon'[k].id = idOf[toDaemon'[k].req]
        /\ \A j \in 1..k : toDaemon[j].id = toDaemon'[k].id => toDaemon[j].type = "OPEN"
        /\ \/ toDaemon'[k].id \in dstreams
           \/ \E j \in 1..k : toDaemon[j].type = "OPEN" /\ toDaemon[j].id = toDaemon'[k].id
    BY <1>5, <2>1 DEF CleanInv, DataFindsStream, BasicInv, IdsKnown
  <2>3. \A j \in 1..(k - 1) : j \in DOMAIN toDaemon' /\ j + 1 \in 1..k /\ toDaemon'[j] = toDaemon[j + 1]
    <3>1. toDaemon' \in Seq(Frames)
      BY <1>2, ToDaemonFacts
    <3> QED BY <2>1, <3>1, <1>3
  <2>4. \A j \in 1..k : j = 1 \/ (j - 1 \in 1..(k - 1) /\ toDaemon'[j - 1] = toDaemon[j])
    BY <2>1, <2>3
  <2>5. \A j \in 1..(k - 1) : toDaemon'[j].id = toDaemon'[k].id => toDaemon'[j].type = "OPEN"
    BY <2>2, <2>3
  <2>6. t # "OPEN" => toDaemon'[k].id # f.id
    BY <1>3, <2>1, <2>2 DEF f
  <2>7. \/ toDaemon'[k].id \in dstreams \/ (t = "OPEN" /\ toDaemon'[k].id = f.id)
        \/ \E j \in 1..(k - 1) : toDaemon'[j].type = "OPEN" /\ toDaemon'[j].id = toDaemon'[k].id
    <3>1. CASE toDaemon'[k].id \in dstreams
      BY <3>1
    <3>2. CASE toDaemon'[k].id \notin dstreams
      <4>1. PICK j \in 1..k : toDaemon[j].type = "OPEN" /\ toDaemon[j].id = toDaemon'[k].id
        BY <2>2, <3>2
      <4>2. CASE j = 1
        BY <4>1, <4>2, <1>3 DEF f
      <4>3. CASE j # 1
        BY <4>1, <4>3, <2>4
      <4> QED BY <4>2, <4>3
    <3> QED BY <3>1, <3>2
  <2> QED BY <1>3, <2>2, <2>5, <2>6, <2>7
<1>6. \A k \in DOMAIN toDaemon' : \E j \in DOMAIN toDaemon : toDaemon'[k] = toDaemon[j]
  BY <1>3
<1>7. CASE HandleOpen \/ HandleClose
  <2>1. /\ UNCHANGED <<task, toClient>>
        /\ dstreams' = IF t = "OPEN" THEN dstreams \cup {f.id} ELSE dstreams \ {f.id}
        /\ t # "DATA"
    BY <1>3, <1>7 DEF HandleOpen, HandleClose, Delivered, f
  <2>2. \A s \in Requests : Live(s)' => Live(s)
    BY <1>1, <1>6, <2>1 DEF Live
  <2>3. IdsTell'
    BY <1>1, <2>2, TellApart
  <2>4. DataFindsStream'
    BY <1>5, <2>1 DEF DataFindsStream
  <2>5. Held' /\ NoReset' /\ OneResponse' /\ EndUnderway'
    BY <1>1, <2>1 DEF CleanInv, Held, NoReset, OneResponse, EndUnderway
  <2> QED BY <2>3, <2>4, <2>5 DEF CleanInv
<1>8. CASE HandleData
  <2>1. /\ UNCHANGED <<dstreams, toClient>> /\ t = "DATA"
        /\ task' = [task EXCEPT ![f.req] = "queued"]
    BY <1>3, <1>8 DEF HandleData, Delivered
  <2>2. \A s \in Requests : task'[s] = IF s = f.req THEN "queued" ELSE task[s]
    BY <1>4, <2>1 DEF BasicInv, TypeOK
  <2>3. Live(f.req) /\ task[f.req] = "none"
    BY <1>3, <2>1 DEF Live, CleanInv, DataFindsStream, f
  <2>4. \A s \in Requests : Live(s)' => Live(s)
    BY <1>1, <1>6, <2>1, <2>2, <2>3 DEF Live
  <2>5. IdsTell'
    BY <1>1, <2>4, TellApart
  <2>6. DataFindsStream'
    <3>1. \A k \in DOMAIN toDaemon' : toDaemon'[k].req \in Requests
      <4>1. toDaemon' \in Seq(Frames)
        BY <1>2, ToDaemonFacts
      <4>2. \A k \in DOMAIN toDaemon' : toDaemon'[k] \in Frames
        BY <4>1
      <4> QED BY <4>2 DEF Frames
    <3> QED BY <1>5, <2>1, <2>2, <3>1 DEF DataFindsStream
  <2>7. OneResponse'
    <3>1. \A k \in DOMAIN toClient : toClient[k] \in Frames
      BY DEF BasicInv, TypeOK
    <3>2. \A k \in DOMAIN toClient : toClient[k].type = "DATA" => toClient[k].req \in Requests /\ toClient[k].req # f.req
      BY <2>3, <3>1 DEF CleanInv, OneResponse, Frames
    <3> QED BY <1>1, <2>1, <2>2, <2>3, <3>2 DEF CleanInv, OneResponse
  <2>8. Held' /\ NoReset' /\ EndUnderway'
    BY <1>1, <2>1, <2>2 DEF CleanInv, Held, NoReset, EndUnderway
  <2> QED BY <2>5, <2>6, <2>7, <2>8 DEF CleanInv
<1>9. ~HandleUnknown
  <2> SUFFICES ASSUME HandleUnknown PROVE FALSE
    OBVIOUS
  <2>1. f.type = "DATA" /\ f.id \notin dstreams
    BY <1>3 DEF HandleUnknown, Delivered
  <2>2. 1..(1 - 1) = {}
    OBVIOUS
  <2> QED BY <1>3, <2>1, <2>2 DEF CleanInv, DataFindsStream, f
<1> QED BY <1>7, <1>8, <1>9

\* What the task of r sends is the only response r is sent, and the stream that it forgets is
\* the stream of no request that is still on the way.
LEMMA TaskClean ==
    ASSUME BasicInv, CleanInv, NEW r \in Requests, TaskStep(r)
    PROVE  CleanInv'
<1>1. /\ UNCHANGED <<streams, status, idOf, chunks, channel, toDaemon>>
      /\ task[r] \in Running /\ task[r] # "none" /\ idOf[r] \in Ids
      /\ dstreams' \in {dstreams, dstreams \ {idOf[r]}}
      /\ toClient' \in {toClient, Sent(toClient, Reply(r))}
  BY TaskShape, ReplyFacts DEF Running
<1>2. PICK to \in {"done", "failed"} \cup Running : task' = [task EXCEPT ![r] = to]
  BY TaskShape
<1>3. \A s \in Requests : task'[s] = IF s = r THEN to ELSE task[s]
  BY <1>2 DEF BasicInv, TypeOK
<1>4. /\ Frame("DATA", idOf[r], r).type = "DATA" /\ Frame("CLOSE", idOf[r], r).type = "CLOSE"
      /\ Frame("DATA", idOf[r], r).req = r /\ Frame("CLOSE", idOf[r], r).req = r
  BY DEF Frame
<1>5. /\ \A k \in DOMAIN toClient : k \in DOMAIN toClient' /\ toClient'[k] = toClient[k]
      /\ \A k \in DOMAIN toClient' :
            \/ k \in DOMAIN toClient
            \/ k = Len(toClient) + 1 /\ toClient'[k] = Frame("DATA", idOf[r], r)
            \/ k = Len(toClient) + 2 /\ toClient'[k] = Frame("CLOSE", idOf[r], r)
  BY <1>1, ReplyFacts
<1>6. \A s \in Requests : Live(s)' => Live(s)
  BY <1>1, <1>3, <1>4, <1>5 DEF Live
<1>7. IdsTell'
  BY <1>1, <1>6, TellApart
<1>8. DataFindsStream'
  <2>1. \A k \in DOMAIN toDaemon : toDaemon[k].type = "DATA" =>
           toDaemon[k].req # r /\ toDaemon[k].id # idOf[r] /\ toDaemon[k].req \in Requests
    <3> SUFFICES ASSUME NEW k \in DOMAIN toDaemon, toDaemon[k].type = "DATA"
                 PROVE  toDaemon[k].req # r /\ toDaemon[k].id # idOf[r] /\ toDaemon[k].req \in Requests
      OBVIOUS
    <3>1. toDaemon[k].req \in Requests /\ toDaemon[k].id = idOf[toDaemon[k].req]
      <4>1. toDaemon[k] \in Frames /\ toDaemon[k].id = idOf[toDaemon[k].req]
        BY DEF BasicInv, TypeOK, IdsKnown
      <4> QED BY <4>1 DEF Frames
    <3>2. toDaemon[k].req # r
      BY <1>1 DEF CleanInv, DataFindsStream
    <3>3. Live(toDaemon[k].req) /\ Live(r)
      BY <1>1 DEF Live
    <3> QED BY <1>1, <3>1, <3>2, <3>3 DEF CleanInv, IdsTell
  <2> QED BY <1>1, <1>3, <2>1 DEF CleanInv, DataFindsStream
<1>9. Held' /\ NoReset'
  BY <1>1, <1>4, <1>5 DEF CleanInv, Held, NoReset
<1>10. \/ task[r] = "queued" /\ to = "backend" /\ toClient' = toClient
       \/ task[r] = "leaving" /\ to = "done" /\ toClient' = toClient
       \/ task[r] \in {"queued", "backend"} /\ to \in {"failed", "leaving"} /\ toClient' = Sent(toClient, Reply(r))
  <2>1. task \in [Requests -> {"none", "done", "failed"} \cup Running] /\ to = task'[r]
    BY <1>3 DEF BasicInv, TypeOK
  <2>2. CASE RefuseRoute(r) \/ BackendReplies(r) \/ BackendFails(r)
    BY <2>1, <2>2 DEF RefuseRoute, BackendReplies, BackendFails
  <2>3. CASE AskBackend(r) \/ TaskEnds(r)
    BY <2>1, <2>3 DEF AskBackend, TaskEnds, wireVars
  <2> QED BY <2>2, <2>3 DEF TaskStep
<1>11. \A k \in DOMAIN toClient : toClient[k].req \in Requests
  <2>1. \A k \in DOMAIN toClient : toClient[k] \in Frames
    BY DEF BasicInv, TypeOK
  <2> QED BY <2>1 DEF Frames
<1>12. CASE toClient' = toClient /\ to \in {"backend", "done"}
  <2>1. OneResponse'
    <3>1. \A s \in Requests :
             task'[s] \in {"none", "queued", "backend"} <=> task[s] \in {"none", "queued", "backend"}
      BY <1>3, <1>10, <1>12
    <3>2. \A s \in Requests :
             /\ chunks'[s] \in {<<>>, <<s>>}
             /\ status'[s] = "answered" => chunks'[s] = <<s>>
             /\ task'[s] \in {"none", "queued", "backend"} => chunks'[s] = <<>>
      <4> SUFFICES ASSUME NEW s \in Requests
                   PROVE  /\ chunks[s] \in {<<>>, <<s>>}
                          /\ status[s] = "answered" => chunks[s] = <<s>>
                          /\ task'[s] \in {"none", "queued", "backend"} => chunks[s] = <<>>
        BY <1>1
      <4>1. /\ chunks[s] \in {<<>>, <<s>>}
            /\ status[s] = "answered" => chunks[s] = <<s>>
            /\ task[s] \in {"none", "queued", "backend"} => chunks[s] = <<>>
        BY DEF CleanInv, OneResponse
      <4> QED BY <3>1, <4>1
    <3>3. \A k \in DOMAIN toClient : toClient[k].type = "DATA" =>
             /\ chunks[toClient[k].req] = <<>>
             /\ task'[toClient[k].req] \notin {"none", "queued", "backend"}
             /\ \A j \in DOMAIN toClient :
                   toClient[j].type = "DATA" /\ toClient[j].req = toClient[k].req => j = k
      <4>1. \A k \in DOMAIN toClient : toClient[k].type = "DATA" =>
               /\ chunks[toClient[k].req] = <<>>
               /\ task[toClient[k].req] \notin {"none", "queued", "backend"}
               /\ \A j \in DOMAIN toClient :
                     toClient[j].type = "DATA" /\ toClient[j].req = toClient[k].req => j = k
        BY DEF CleanInv, OneResponse
      <4> QED BY <1>11, <3>1, <4>1
    <3> QED BY <1>1, <1>12, <3>2, <3>3 DEF OneResponse
  <2>2. EndUnderway'
    BY <1>1, <1>3, <1>10, <1>12 DEF CleanInv, EndUnderway
  <2> QED BY <1>7, <1>8, <1>9, <2>1, <2>2 DEF CleanInv
<1>13. CASE to \in {"failed", "leaving"}
  <2>1. task[r] \in {"queued", "backend"} /\ to \in {"failed", "leaving"} /\ toClient' = Sent(toClient, Reply(r))
    BY <1>10, <1>13
  <2>2. chunks[r] = <<>> /\ \A k \in DOMAIN toClient : toClient[k].type = "DATA" => toClient[k].req # r
    BY <2>1 DEF CleanInv, OneResponse
  <2>3. OneResponse'
    <3>1. \A s \in Requests :
             /\ chunks'[s] \in {<<>>, <<s>>}
             /\ status'[s] = "answered" => chunks'[s] = <<s>>
             /\ task'[s] \in {"none", "queued", "backend"} => chunks'[s] = <<>>
      BY <1>1, <1>3, <2>1 DEF CleanInv, OneResponse
    <3>2. ASSUME NEW k \in DOMAIN toClient', toClient'[k].type = "DATA"
          PROVE  /\ chunks[toClient'[k].req] = <<>>
                 /\ task'[toClient'[k].req] \notin {"none", "queued", "backend"}
                 /\ \A j \in DOMAIN toClient' :
                       toClient'[j].type = "DATA" /\ toClient'[j].req = toClient'[k].req => j = k
      <4>1. CASE k \in DOMAIN toClient
        <5>1. toClient'[k] = toClient[k] /\ toClient[k].req \in Requests /\ toClient[k].req # r
          BY <4>1, <3>2, <1>5, <1>11, <2>2
        <5>2. /\ chunks[toClient[k].req] = <<>> /\ task[toClient[k].req] \notin {"none", "queued", "backend"}
              /\ \A j \in DOMAIN toClient : toClient[j].type = "DATA" /\ toClient[j].req = toClient[k].req => j = k
          BY <4>1, <5>1, <3>2 DEF CleanInv, OneResponse
        <5> QED BY <5>1, <5>2, <1>3, <1>4, <1>5
      <4>2. CASE k \notin DOMAIN toClient
        <5>1. k = Len(toClient) + 1 /\ toClient'[k].req = r
          BY <4>2, <3>2, <1>4, <1>5
        <5>2. \A j \in DOMAIN toClient' : toClient'[j].type = "DATA" /\ toClient'[j].req = r => j = k
          BY <5>1, <1>4, <1>5, <2>2
        <5> QED BY <5>1, <5>2, <1>3, <2>1, <2>2
      <4> QED BY <4>1, <4>2
    <3> QED BY <1>1, <3>1, <3>2 DEF OneResponse
  <2>4. EndUnderway'
    <3> SUFFICES ASSUME channel = "open", NEW s \in Requests, status[s] = "pending",
                        task'[s] \in {"leaving", "done", "failed"}
                 PROVE  \E k \in DOMAIN toClient' : toClient'[k] = Frame("CLOSE", idOf[s], s)
      BY <1>1 DEF EndUnderway
    <3>1. CASE s = r
      BY <3>1, <1>1, <2>1, ReplyFacts DEF InFlight
    <3>2. CASE s # r
      BY <3>2, <1>3, <1>5 DEF CleanInv, EndUnderway
    <3> QED BY <3>1, <3>2
  <2> QED BY <1>7, <1>8, <1>9, <2>3, <2>4 DEF CleanInv
<1> QED BY <1>10, <1>12, <1>13

LEMMA NextClean == IInv /\ [Next]_vars => IInv'
<1> SUFFICES ASSUME IInv, [Next]_vars, clean' PROVE CleanInv'
  BY NextBasic DEF IInv
<1>1. BasicInv
  BY DEF IInv
<1>2. CASE \E r \in Requests : Request(r)
  <2>1. clean
    BY Zenon, <1>2 DEF Request
  <2> QED BY <1>1, <1>2, <2>1, RequestClean DEF IInv
<1>3. CASE UNCHANGED vars
  BY <1>3, SameClean DEF IInv, vars
<1>4. CASE ChannelOpens \/ ChannelLost \/ CloseTunnel
  <2>1. clean' = clean
    BY <1>4 DEF ChannelOpens, ChannelLost, CloseTunnel, clientVars
  <2> QED BY <1>1, <1>4, <2>1, ChannelClean DEF IInv
<1>5. CASE ReceiveData \/ ReceiveEnd
  <2>1. clean' = clean
    BY <1>5 DEF ReceiveData, ReceiveEnd
  <2> QED BY <1>1, <1>5, <2>1, ReceiveDataClean, ReceiveEndClean DEF IInv
<1>6. CASE HandleOpen \/ HandleData \/ HandleUnknown \/ HandleClose
  <2>1. clean' = clean
    BY <1>6 DEF HandleOpen, HandleData, HandleUnknown, HandleClose, clientVars
  <2> QED BY <1>1, <1>6, <2>1, DaemonClean DEF IInv
<1>7. CASE \E r \in Requests : RequestRefused(r) \/ Timeout(r)
  <2>1. clean' = clean
    BY <1>7 DEF RequestRefused, Timeout
  <2> QED BY <1>1, <1>7, <2>1, RefusedClean, TimeoutClean DEF IInv
<1>8. CASE \E r \in Requests : TaskStep(r)
  <2>1. clean' = clean
    BY <1>8, TaskShape
  <2> QED BY <1>1, <1>8, <2>1, TaskClean DEF IInv
<1> QED BY <1>2, <1>3, <1>4, <1>5, <1>6, <1>7, <1>8 DEF Next, TaskStep

LEMMA CleanInvariant == Spec => []IInv
BY InitClean, NextClean, PTL DEF Spec

\* With fresh ids a request is answered with its own response, whole and once, in whatever
\* order timers, late answers, tasks and the loss of the channel come.
THEOREM OwnResponseCorrect == Spec => []OwnResponse
<1>1. IInv => OwnResponse
  BY DEF IInv, CleanInv, OneResponse, OwnResponse
<1> QED BY <1>1, CleanInvariant, PTL

\* With fresh ids the map of handlers holds the requests that wait and no other.
THEOREM StreamsArePendingCorrect == Spec => []StreamsArePending
<1>1. IInv => StreamsArePending
  <2> SUFFICES ASSUME IInv, clean, NEW r \in Requests
               PROVE  r \in Pending <=> \E id \in Ids : streams[id] = r
    BY DEF StreamsArePending
  <2>1. ASSUME r \in Pending PROVE \E id \in Ids : streams[id] = r
    <3>1. idOf[r] \in Ids /\ streams[idOf[r]] = r
      BY <2>1 DEF IInv, BasicInv, CleanInv, Held, IdsKnown, Pending
    <3> QED BY <3>1
  <2>2. ASSUME NEW id \in Ids, streams[id] = r PROVE r \in Pending
    BY <2>2, StreamsAssumption DEF IInv, BasicInv, IdsKnown, Pending
  <2> QED BY <2>1, <2>2
<1> QED BY <1>1, CleanInvariant, PTL

\* With fresh ids the daemon knows every stream it is sent a request for.
THEOREM NeverResetCorrect == Spec => []NeverReset
<1>1. IInv => NeverReset
  BY DEF IInv, CleanInv, NoReset, NeverReset, InFlight
<1> QED BY <1>1, CleanInvariant, PTL

\* With fresh ids the end of the stream is on the way to a request that still waits when its
\* task is over: none is left to its timer while the channel lives.
THEOREM AnswersUnderwayCorrect == Spec => []AnswersUnderway
<1>1. IInv => AnswersUnderway
  BY DEF IInv, CleanInv, EndUnderway, AnswersUnderway, InFlight, Pending
<1> QED BY <1>1, CleanInvariant, PTL

-----------------------------------------------------------------------------
(* The steps of the tunnel, as the page sees them.                         *)

Outcome == [r \in Requests |-> OutcomeOf(r)]

LEMMA OutcomeFacts ==
    ASSUME TypeOK, NEW r \in Requests
    PROVE  /\ status[r] = "unasked" => OutcomeOf(r) = "unasked"
           /\ status[r] = "pending" => OutcomeOf(r) = "waiting"
           /\ status[r] = "failed" => OutcomeOf(r) = "failed"
           /\ status[r] = "answered" => OutcomeOf(r) = IF chunks[r] = <<r>> THEN "own" ELSE "other"
BY DEF TypeOK, OutcomeOf

\* What does not settle or ask a request is not seen.
LEMMA Unseen ==
    ASSUME TypeOK, TypeOK', UNCHANGED <<status, clean>>,
           \A s \in Requests : status[s] = "answered" => chunks'[s] = chunks[s]
    PROVE  UNCHANGED Tunnel!vars
<1>1. \A s \in Requests : OutcomeOf(s)' = OutcomeOf(s)
  BY DEF OutcomeOf
<1> QED BY <1>1 DEF Tunnel!vars

\* One request moves and no other.
LEMMA OneMoves ==
    ASSUME NEW r \in Requests, NEW from, NEW to, OutcomeOf(r) \in from, OutcomeOf(r)' = to,
           \A s \in Requests : s # r => status'[s] = status[s] /\ chunks'[s] = chunks[s]
    PROVE  Tunnel!Become(r, from, to)
<1>1. \A s \in Requests : s # r => OutcomeOf(s)' = OutcomeOf(s)
  BY DEF OutcomeOf
<1>2. Outcome' = [Outcome EXCEPT ![r] = to]
  BY <1>1 DEF Outcome
<1> QED BY <1>2 DEF Outcome, Tunnel!Become

LEMMA SettleSeen ==
    ASSUME IInv, TypeOK', NEW r \in Pending, NEW to \in {"answered", "failed"}, SettleRequest(r, to),
           UNCHANGED <<chunks, clean>>, to = "answered" => chunks[r] # <<>>
    PROVE  Tunnel!Next
<1>1. /\ r \in Requests /\ status[r] = "pending" /\ status'[r] = to /\ TypeOK
      /\ \A s \in Requests : s # r => status'[s] = status[s] /\ chunks'[s] = chunks[s]
  BY DEF SettleRequest, IInv, BasicInv, TypeOK, Pending
<1>2. OutcomeOf(r) \in {"waiting"} /\ OutcomeOf(r) \in {"unasked", "waiting"}
  BY <1>1, OutcomeFacts
<1>3. CASE to = "failed"
  <2>1. OutcomeOf(r)' = "failed"
    BY <1>1, <1>3 DEF OutcomeOf
  <2>2. Tunnel!Become(r, {"unasked", "waiting"}, "failed")
    BY <1>1, <1>2, <2>1, OneMoves
  <2> QED BY <1>1, <2>2 DEF Tunnel!Next, Tunnel!Fail
<1>4. CASE to = "answered" /\ chunks[r] = <<r>>
  <2>1. OutcomeOf(r)' = "own"
    BY <1>1, <1>4 DEF OutcomeOf
  <2>2. Tunnel!Become(r, {"waiting"}, "own")
    BY <1>1, <1>2, <2>1, OneMoves
  <2> QED BY <1>1, <2>2 DEF Tunnel!Next, Tunnel!Own
<1>5. CASE to = "answered" /\ chunks[r] # <<r>>
  <2>1. OutcomeOf(r)' = "other"
    BY <1>1, <1>5 DEF OutcomeOf
  <2>2. Tunnel!Become(r, {"waiting"}, "other")
    BY <1>1, <1>2, <2>1, OneMoves
  <2>3. ~clean
    BY <1>1, <1>5 DEF IInv, CleanInv, OneResponse
  <2> QED BY <1>1, <2>2, <2>3 DEF Tunnel!Next, Tunnel!Other
<1> QED BY <1>3, <1>4, <1>5

LEMMA StepSeen == IInv /\ TypeOK' /\ [Next]_vars => [Tunnel!Next]_Tunnel!vars
<1> SUFFICES ASSUME IInv, TypeOK', [Next]_vars PROVE Tunnel!Next \/ UNCHANGED Tunnel!vars
  OBVIOUS
<1>1. BasicInv /\ TypeOK
  BY DEF IInv, BasicInv
<1>2. ASSUME NEW r \in Requests, Request(r) PROVE Tunnel!Next
  <2>1. /\ status[r] = "unasked" /\ status'[r] = "pending"
        /\ \A s \in Requests : s # r => status'[s] = status[s] /\ chunks'[s] = chunks[s]
    BY <1>1, <1>2 DEF Request, TypeOK
  <2>2. OutcomeOf(r) \in {"unasked"} /\ OutcomeOf(r)' = "waiting"
    BY <2>1 DEF OutcomeOf
  <2>3. Tunnel!Become(r, {"unasked"}, "waiting")
    BY <2>1, <2>2, OneMoves
  <2>4. (clean' => clean) /\ clean' \in BOOLEAN
    BY Zenon, <1>2 DEF Request
  <2> QED BY <2>3, <2>4 DEF Tunnel!Next, Tunnel!Ask
<1>3. ASSUME NEW r \in Requests, RequestRefused(r) PROVE Tunnel!Next
  <2>1. /\ status[r] = "unasked" /\ status'[r] = "failed" /\ clean' = clean
        /\ \A s \in Requests : s # r => status'[s] = status[s] /\ chunks'[s] = chunks[s]
    BY <1>1, <1>3 DEF RequestRefused, TypeOK
  <2>2. OutcomeOf(r) \in {"unasked", "waiting"} /\ OutcomeOf(r)' = "failed"
    BY <2>1 DEF OutcomeOf
  <2>3. Tunnel!Become(r, {"unasked", "waiting"}, "failed")
    BY <2>1, <2>2, OneMoves
  <2> QED BY <2>1, <2>3 DEF Tunnel!Next, Tunnel!Fail
<1>4. ASSUME NEW r \in Requests, Timeout(r) PROVE Tunnel!Next
  <2>1. r \in Pending /\ SettleRequest(r, "failed") /\ UNCHANGED <<chunks, clean>>
    BY <1>4 DEF Timeout
  <2> QED BY <2>1, SettleSeen
<1>5. CASE ReceiveEnd
  <2>1. Arrives({"CLOSE", "RST"}) /\ UNCHANGED <<chunks, clean>>
    BY <1>5 DEF ReceiveEnd
  <2>2. CASE Receiver = NoRequest
    <3>1. UNCHANGED status
      BY <1>5, <2>2 DEF ReceiveEnd
    <3> QED BY <1>1, <2>1, <3>1, Unseen
  <2>3. CASE Receiver # NoRequest
    <3>1. PICK to \in {"answered", "failed"} :
             SettleRequest(Receiver, to) /\ (to = "answered" => chunks[Receiver] # <<>>)
      BY <1>5, <2>3 DEF ReceiveEnd
    <3>2. Receiver \in Pending
      BY <1>1, <2>1, <2>3, ToClientFacts, SMTT(30) DEF Receiver, BasicInv, TypeOK, IdsKnown, Pending, Frames
    <3> QED BY <2>1, <3>1, <3>2, SettleSeen
  <2> QED BY <2>2, <2>3
<1>6. CASE ReceiveData
  <2>1. /\ Arrives({"DATA"}) /\ UNCHANGED <<status, clean>>
        /\ chunks' = IF Receiver = NoRequest THEN chunks
                     ELSE [chunks EXCEPT ![Receiver] = Append(@, Head(toClient).req)]
    BY <1>6 DEF ReceiveData
  <2>2. Receiver # NoRequest => Receiver \in Pending
    BY <1>1, <2>1, ToClientFacts DEF Receiver, BasicInv, TypeOK, IdsKnown, Pending, Frames
  <2>3. \A s \in Requests : status[s] = "answered" => chunks'[s] = chunks[s]
    BY <1>1, <2>1, <2>2 DEF TypeOK, Pending
  <2> QED BY <1>1, <2>1, <2>3, Unseen
<1>7. CASE ChannelOpens \/ ChannelLost \/ CloseTunnel \/ HandleOpen \/ HandleData \/ HandleUnknown \/ HandleClose
           \/ UNCHANGED vars
  <2>1. UNCHANGED <<status, chunks, clean>>
    BY <1>7 DEF ChannelOpens, ChannelLost, CloseTunnel, HandleOpen, HandleData, HandleUnknown, HandleClose, clientVars, vars
  <2> QED BY <1>1, <2>1, Unseen
<1>8. ASSUME NEW r \in Requests, TaskStep(r) PROVE UNCHANGED Tunnel!vars
  <2>1. UNCHANGED <<status, chunks, clean>>
    BY <1>8, TaskShape
  <2> QED BY <1>1, <2>1, Unseen
<1> QED BY <1>2, <1>3, <1>4, <1>5, <1>6, <1>7, <1>8 DEF Next, TaskStep

\* Every step of both ends and of the channel is, to the page, a step of the tunnel it was
\* promised or none: requests are settled once, and by their own response while ids are
\* fresh.  (That none waits for ever is the fairness part of ImplementsTunnel.)
THEOREM TunnelStepsCorrect == Spec => Tunnel!Init /\ [][Tunnel!Next]_Tunnel!vars
<1>1. Init => Tunnel!Init
  BY DEF Init, OutcomeOf, Tunnel!Init
<1>2. IInv /\ IInv' => TypeOK'
  BY DEF IInv, BasicInv
<1> QED BY <1>1, <1>2, StepSeen, CleanInvariant, PTL DEF Spec

=============================================================================
