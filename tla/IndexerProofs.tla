---------------------------- MODULE IndexerProofs ----------------------------
(***************************************************************************)
(* Theorems of the indexer's push hub (LiveHub), for any channels, sockets,*)
(* ring and cap.  The argument: what was sent on a channel is the events   *)
(* that concern it, in order, from its first subscriber on; what a client  *)
(* was sent or missed comes from the frames before its next one, and what  *)
(* it is due from those after.                                             *)
(***************************************************************************)
EXTENDS LiveHub, FiniteSetTheorems, TLAPS

(* The parameters of NodeCache; its theorems are at the end. *)
CONSTANTS Objects, Tip, Requests, TTL, TIMEOUT, LAG_ALERT, Fails, MaxTime, MaxVersion
VARIABLES now, node, until, handled, cache, req
Cache == INSTANCE NodeCache WITH Keys <- Objects

-----------------------------------------------------------------------------
(* The push hub. *)
States == {"off", "upgraded", "subscribed", "connected"}
Sockets == [st : States, key : Keys \cup {""}, next : Nat \ {0}]

HubTypes ==
  /\ stored \in Seq(SUBSET Keys) /\ published \in Nat /\ published <= Len(stored) /\ Len(stored) <= published + 1
  /\ senders \subseteq Keys /\ frames \in [Keys -> Seq(Nat)]
  /\ conn \in [Conns -> Sockets]
  /\ permits \in Nat /\ gauge \in Int
  /\ history \in [Conns -> Nat \cup {-1}]
  /\ got \in [Conns -> Seq(Nat)] /\ missed \in [Conns -> SUBSET Nat]

\* A channel carries events that concern it and were published, in their order.
FramesSound ==
  \A k \in Keys :
    /\ k \notin senders => frames[k] = <<>>
    /\ \A i \in 1..Len(frames[k]) : frames[k][i] \in 1..published /\ k \in stored[frames[k][i]]
    /\ \A i, j \in 1..Len(frames[k]) : i < j => frames[k][i] < frames[k][j]

\* The frames before a socket's next one.
Past(c) == {frames[conn[c].key][i] : i \in 1..(conn[c].next - 1)}

\* A socket has a key from its upgrade on and its channel a sender once it is
\* subscribed; a client has nothing before its handshake.
SocketSound(c) ==
  /\ conn[c].st # "off" => conn[c].key \in Keys
  /\ conn[c].st # "connected" => history[c] = -1 /\ got[c] = <<>> /\ missed[c] = {}
  /\ Live(c) => /\ conn[c].key \in senders /\ conn[c].next <= Len(frames[conn[c].key]) + 1
                /\ Elements(got[c]) \cup missed[c] \subseteq Past(c)

SocketsSound == \A c \in Conns : SocketSound(c)

HubInv == HubTypes /\ FramesSound /\ SocketsSound

-----------------------------------------------------------------------------
(* The shape of the state. *)

LEMMA SocketFields ==
  ASSUME NEW s \in Sockets
  PROVE  s.st \in States /\ s.key \in Keys \cup {""} /\ s.next \in Nat \ {0}
BY DEF Sockets

LEMMA SocketStarts ==
  ASSUME NEW k \in Keys \cup {""}, NEW s \in States, NEW n \in Nat \ {0}
  PROVE  [st |-> s, key |-> k, next |-> n] \in Sockets
BY DEF Sockets

\* A socket's record after a step that gives it a state or a next frame.
LEMMA SocketMoves ==
  ASSUME NEW s \in Sockets, NEW st \in States, NEW n \in Nat \ {0}
  PROVE  /\ [s EXCEPT !.st = st] \in Sockets
         /\ [s EXCEPT !.next = n] \in Sockets
         /\ [s EXCEPT !.st = st, !.next = n] \in Sockets
BY DEF Sockets

LEMMA ConnType ==
  ASSUME HubTypes, NEW c \in Conns, NEW s \in States, NEW n \in Nat \ {0}
  PROVE  /\ [conn EXCEPT ![c].st = s, ![c].next = n] \in [Conns -> Sockets]
         /\ [conn EXCEPT ![c].st = s] \in [Conns -> Sockets]
         /\ [conn EXCEPT ![c].next = n] \in [Conns -> Sockets]
<1>1. conn \in [Conns -> Sockets]
  BY DEF HubTypes
<1> QED BY <1>1, SocketMoves

\* The oldest frame a ring holds is one of its frames, when it has any.
LEMMA OldestType ==
  ASSUME LiveHubAssumption, HubTypes, NEW k \in Keys
  PROVE  /\ Len(frames[k]) \in Nat /\ Oldest(k) \in Nat \ {0}
         /\ Oldest(k) <= Len(frames[k]) \/ Oldest(k) = 1
         /\ Oldest(k) > 1 => Oldest(k) - 1 + CHANNEL_CAPACITY = Len(frames[k])
<1>1. CHANNEL_CAPACITY \in Nat \ {0}
  BY DEF LiveHubAssumption
<1>2. Len(frames[k]) \in Nat
  BY DEF HubTypes
<1> QED BY <1>1, <1>2 DEF Oldest

LEMMA TypesStep ==
  ASSUME LiveHubAssumption, HubTypes, SocketsSound, [Next]_vars
  PROVE  HubTypes'
<1> USE DEF HubTypes, hub, client
<1>1. ASSUME NEW ks \in SUBSET Keys, Store(ks) PROVE HubTypes'
  BY <1>1 DEF Store
<1>2. CASE publish_event
  <2>1. /\ published' \in Nat /\ published' <= Len(stored) /\ Len(stored) <= published' + 1
        /\ UNCHANGED <<stored, senders, conn, permits, gauge, client>>
    BY <1>2 DEF publish_event
  <2>2. frames' = [k \in Keys |-> IF k \in stored[published'] \cap senders
                                  THEN Append(frames[k], published') ELSE frames[k]]
    BY <1>2 DEF publish_event, Send
  <2>3. frames' \in [Keys -> Seq(Nat)]
    BY <2>1, <2>2
  <2> QED BY <2>1, <2>3
<1>3. ASSUME NEW c \in Conns, NEW k \in Keys, Upgrade(c, k) PROVE HubTypes'
  <2>1. [st |-> "upgraded", key |-> k, next |-> 1] \in Sockets
    <3>1. k \in Keys \cup {""}
      OBVIOUS
    <3>2. 1 \in Nat \ {0} /\ "upgraded" \in States
      BY DEF States
    <3> QED BY <3>1, <3>2, SocketStarts
  <2> QED BY <1>3, <2>1 DEF Upgrade
<1>4. ASSUME NEW c \in Conns, Subscribe(c) PROVE HubTypes'
  <2>1. conn[c].key \in Keys
    BY <1>4 DEF Subscribe, SocketsSound, SocketSound
  <2>2. Len(frames[conn[c].key]) + 1 \in Nat \ {0}
    BY <2>1
  <2>3. "subscribed" \in States
    BY DEF States
  <2>4. conn' \in [Conns -> Sockets]
    BY <1>4, <2>2, <2>3, ConnType DEF Subscribe
  <2> QED BY <1>4, <2>1, <2>4 DEF Subscribe
<1>5. ASSUME NEW c \in Conns, Hello(c) PROVE HubTypes'
  <2>1. "connected" \in States /\ 1 \in Nat \ {0}
    BY DEF States
  <2>2. conn' \in [Conns -> Sockets]
    BY <1>5, <2>1, ConnType DEF Hello
  <2> QED BY <1>5, <2>2 DEF Hello
<1>6. ASSUME NEW c \in Conns, Pump(c) PROVE HubTypes'
  <2> DEFINE k == conn[c].key  n == conn[c].next
  <2>1. n \in Nat \ {0}
    BY SocketFields
  <2>2. k \in Keys /\ n <= Len(frames[k]) /\ Len(frames[k]) \in Nat
    BY <1>6 DEF Pump, SocketsSound, SocketSound
  <2>3. Oldest(k) \in Nat \ {0} /\ Oldest(k) - 1 <= Len(frames[k])
    <3>1. Oldest(k) \in Nat \ {0} /\ (Oldest(k) <= Len(frames[k]) \/ Oldest(k) = 1)
      BY <2>2, OldestType
    <3> QED BY <2>2, <3>1
  <2>4. n + 1 \in Nat \ {0} /\ frames[k][n] \in Nat
    <3>1. frames[k] \in Seq(Nat) /\ n \in 1..Len(frames[k])
      BY <2>1, <2>2
    <3> HIDE DEF k, n
    <3> QED BY <3>1
  <2>5. ASSUME NEW i \in n..(Oldest(k) - 1) PROVE frames[k][i] \in Nat
    <3>1. i \in 1..Len(frames[k])
      BY <2>1, <2>2, <2>3
    <3> QED BY <2>2, <3>1
  <2>6. UNCHANGED <<hub, permits, gauge, history>>
    BY <1>6 DEF Pump
  <2>7. CASE n >= Oldest(k)
    <3>1. conn' = [conn EXCEPT ![c].next = n + 1] /\ missed' = missed
          /\ got' = [got EXCEPT ![c] = Append(@, frames[k][n])]
      BY <1>6, <2>7 DEF Pump
    <3>2. conn' \in [Conns -> Sockets]
      BY <3>1, <2>4, ConnType DEF States
    <3>3. got' \in [Conns -> Seq(Nat)]
      BY <3>1, <2>4
    <3> QED BY <2>6, <3>1, <3>2, <3>3
  <2>8. CASE ~(n >= Oldest(k))
    <3>1. conn' = [conn EXCEPT ![c].next = Oldest(k)] /\ got' = got
          /\ missed' = [missed EXCEPT ![c] = @ \cup {frames[k][i] : i \in n..(Oldest(k) - 1)}]
      BY <1>6, <2>8 DEF Pump
    <3>2. conn' \in [Conns -> Sockets]
      BY <3>1, <2>3, ConnType DEF States
    <3>3. missed' \in [Conns -> SUBSET Nat]
      BY <3>1, <2>5
    <3> QED BY <2>6, <3>1, <3>2, <3>3
  <2> QED BY <2>7, <2>8
<1>7. ASSUME NEW c \in Conns, Close(c) PROVE HubTypes'
  <2>1. Off \in Sockets
    <3>1. 1 \in Nat \ {0} /\ "off" \in States /\ "" \in Keys \cup {""}
      BY DEF States
    <3> QED BY <3>1, SocketStarts DEF Off
  <2> QED BY <1>7, <2>1 DEF Close, End
<1>8. ASSUME NEW c \in Conns, ReadHistory(c) PROVE HubTypes'
  BY <1>8 DEF ReadHistory
<1>9. CASE UNCHANGED vars
  BY <1>9 DEF vars
<1> QED BY <1>1, <1>2, <1>3, <1>4, <1>5, <1>6, <1>7, <1>8, <1>9 DEF Next

-----------------------------------------------------------------------------
(* What a channel carries. *)

\* Only publishing sends, and it sends the next event to the senders it concerns.
LEMMA SentByPublish ==
  ASSUME HubTypes, publish_event, NEW k \in Keys
  PROVE  /\ published' = published + 1 /\ published' \in 1..Len(stored)
         /\ UNCHANGED <<stored, senders, conn, permits, gauge, history, got, missed>>
         /\ k \in stored[published'] /\ k \in senders => frames'[k] = Append(frames[k], published')
         /\ ~(k \in stored[published'] /\ k \in senders) => frames'[k] = frames[k]
BY DEF HubTypes, publish_event, Send, client

\* A channel's frames are those of a state with no more senders, fewer events and
\* fewer published.
LEMMA FramesKept ==
  ASSUME HubTypes, FramesSound, frames' = frames, published' = published, senders \subseteq senders',
         \A e \in 1..published : stored'[e] = stored[e]
  PROVE  FramesSound'
BY DEF FramesSound, HubTypes

LEMMA FramesStep ==
  ASSUME LiveHubAssumption, HubTypes, FramesSound, SocketsSound, [Next]_vars
  PROVE  FramesSound'
<1>1. ASSUME NEW ks \in SUBSET Keys, Store(ks) PROVE FramesSound'
  <2>1. stored \in Seq(SUBSET Keys) /\ stored' = Append(stored, ks) /\ published \in Nat /\ published <= Len(stored)
    BY <1>1 DEF Store, HubTypes
  <2>2. \A e \in 1..published : stored'[e] = stored[e]
    BY <2>1
  <2> QED BY <1>1, <2>2, FramesKept DEF Store
<1>2. CASE publish_event
  <2> SUFFICES ASSUME NEW k \in Keys
               PROVE  /\ k \notin senders' => frames'[k] = <<>>
                      /\ \A i \in 1..Len(frames'[k]) :
                           frames'[k][i] \in 1..published' /\ k \in stored'[frames'[k][i]]
                      /\ \A i, j \in 1..Len(frames'[k]) : i < j => frames'[k][i] < frames'[k][j]
    BY DEF FramesSound
  <2>1. /\ published' = published + 1 /\ published' \in 1..Len(stored)
        /\ stored' = stored /\ senders' = senders
        /\ k \in stored[published'] /\ k \in senders => frames'[k] = Append(frames[k], published')
        /\ ~(k \in stored[published'] /\ k \in senders) => frames'[k] = frames[k]
    BY <1>2, SentByPublish
  <2>2. /\ k \notin senders => frames[k] = <<>>
        /\ \A i \in 1..Len(frames[k]) : frames[k][i] \in 1..published /\ k \in stored[frames[k][i]]
        /\ \A i, j \in 1..Len(frames[k]) : i < j => frames[k][i] < frames[k][j]
    BY DEF FramesSound
  <2>3. published \in Nat /\ frames[k] \in Seq(Nat) /\ Len(frames[k]) \in Nat
    BY DEF HubTypes
  <2>4. CASE k \in stored[published'] /\ k \in senders
    <3> DEFINE f == frames[k]
    <3>1. frames'[k] = Append(f, published') /\ f \in Seq(Nat) /\ Len(f) \in Nat
      BY <2>1, <2>3, <2>4
    <3>2. published' \in Nat
      BY <2>1, <2>3
    <3> HIDE DEF f
    <3>3. /\ Len(frames'[k]) = Len(f) + 1 /\ frames'[k][Len(f) + 1] = published'
          /\ \A i \in 1..Len(f) : frames'[k][i] = f[i]
      BY <3>1, <3>2
    <3>4. /\ \A i \in 1..Len(f) : f[i] \in 1..published /\ k \in stored[f[i]]
          /\ \A i, j \in 1..Len(f) : i < j => f[i] < f[j]
      BY <2>2 DEF f
    <3>5. ASSUME NEW i \in 1..Len(frames'[k])
          PROVE  frames'[k][i] \in 1..published' /\ k \in stored'[frames'[k][i]]
      BY <2>1, <2>3, <2>4, <3>1, <3>3, <3>4
    <3>6. ASSUME NEW i \in 1..Len(frames'[k]), NEW j \in 1..Len(frames'[k]), i < j
          PROVE  frames'[k][i] < frames'[k][j]
      <4>1. frames'[k][i] = f[i] /\ i \in 1..Len(f) /\ f[i] \in 1..published
        BY <3>1, <3>3, <3>4, <3>6
      <4>2. CASE j \in 1..Len(f)
        BY <3>3, <3>4, <3>6, <4>1, <4>2
      <4>3. CASE j = Len(f) + 1
        BY <2>1, <2>3, <3>3, <4>1, <4>3
      <4> QED BY <3>1, <3>3, <4>2, <4>3
    <3> QED BY <2>1, <2>4, <3>5, <3>6
  <2>5. CASE ~(k \in stored[published'] /\ k \in senders)
    BY <2>1, <2>2, <2>3, <2>5
  <2> QED BY <2>4, <2>5
<1>3. ASSUME NEW c \in Conns, NEW k \in Keys, Upgrade(c, k) PROVE FramesSound'
  BY <1>3, FramesKept DEF Upgrade, hub
<1>4. ASSUME NEW c \in Conns, Subscribe(c) PROVE FramesSound'
  BY <1>4, FramesKept DEF Subscribe
<1>5. ASSUME NEW c \in Conns, Hello(c) PROVE FramesSound'
  BY <1>5, FramesKept DEF Hello, hub
<1>6. ASSUME NEW c \in Conns, Pump(c) PROVE FramesSound'
  BY <1>6, FramesKept DEF Pump, hub
<1>7. ASSUME NEW c \in Conns, Close(c) PROVE FramesSound'
  BY <1>7, FramesKept DEF Close, End, hub
<1>8. ASSUME NEW c \in Conns, ReadHistory(c) PROVE FramesSound'
  BY <1>8, FramesKept DEF ReadHistory, hub
<1>9. CASE UNCHANGED vars
  BY <1>9, FramesKept DEF vars, hub
<1> QED BY <1>1, <1>2, <1>3, <1>4, <1>5, <1>6, <1>7, <1>8, <1>9 DEF Next

-----------------------------------------------------------------------------
(* What a socket has. *)

\* A channel never loses a frame, and keeps its length but for a publishing.
Grows(k) ==
  /\ Len(frames'[k]) >= Len(frames[k])
  /\ \A i \in 1..Len(frames[k]) : frames'[k][i] = frames[k][i]

LEMMA FramesGrow ==
  ASSUME HubTypes, [Next]_vars, NEW k \in Keys
  PROVE  Grows(k) /\ senders \subseteq senders'
<1>1. frames[k] \in Seq(Nat) /\ Len(frames[k]) \in Nat /\ published \in Nat
  BY DEF HubTypes
<1>2. CASE publish_event
  <2>1. /\ senders' = senders /\ published' = published + 1
        /\ frames'[k] = Append(frames[k], published') \/ frames'[k] = frames[k]
    BY <1>2, SentByPublish
  <2>2. published' \in Nat
    BY <1>1, <2>1
  <2> QED BY <1>1, <2>1, <2>2 DEF Grows
<1>3. CASE ~publish_event
  <2>1. frames' = frames /\ senders \subseteq senders'
    BY <1>3 DEF Next, vars, hub, Store, Upgrade, Subscribe, Hello, Pump, Close, End, ReadHistory
  <2> QED BY <1>1, <2>1 DEF Grows
<1> QED BY <1>2, <1>3

\* A step that is not a socket's own leaves it what it has.
LEMMA SocketKept ==
  ASSUME HubTypes, [Next]_vars, NEW c \in Conns, SocketSound(c),
         conn'[c] = conn[c], history'[c] = history[c], got'[c] = got[c], missed'[c] = missed[c]
  PROVE  SocketSound(c)'
<1>1. /\ conn'[c].st = conn[c].st /\ conn'[c].key = conn[c].key /\ conn'[c].next = conn[c].next
      /\ Live(c)' <=> Live(c)
  BY DEF Live
<1>2. CASE ~Live(c)
  BY <1>1, <1>2 DEF SocketSound
<1>3. CASE Live(c)
  <2> DEFINE k == conn[c].key  n == conn[c].next
  <2>1. /\ k \in Keys /\ k \in senders /\ n <= Len(frames[k]) + 1
        /\ Elements(got[c]) \cup missed[c] \subseteq Past(c)
    BY <1>3 DEF SocketSound, Live
  <2>2. conn[c] \in Sockets /\ Len(frames[k]) \in Nat
    BY <2>1 DEF HubTypes
  <2>3. n \in Nat \ {0}
    BY <2>2, SocketFields
  <2>4. Grows(k) /\ senders \subseteq senders'
    BY <2>1, FramesGrow
  <2>5. Len(frames'[k]) \in Nat
    BY <2>1, <2>2, <2>4, FramesGrow DEF Grows
  <2>6. n <= Len(frames'[k]) + 1
    BY <2>1, <2>2, <2>3, <2>4, <2>5 DEF Grows
  <2>7. Past(c)' = Past(c)
    <3>1. Past(c) = {frames[k][i] : i \in 1..(n - 1)} /\ Past(c)' = {frames'[k][i] : i \in 1..(n - 1)}
      BY <1>1 DEF Past
    <3>2. \A i \in 1..(n - 1) : frames'[k][i] = frames[k][i]
      BY <2>1, <2>2, <2>3, <2>4 DEF Grows
    <3> QED BY <3>1, <3>2
  <2>8. Elements(got[c])' = Elements(got[c])
    BY DEF Elements
  <2> QED BY <1>1, <1>3, <2>1, <2>4, <2>6, <2>7, <2>8 DEF SocketSound, Live
<1> QED BY <1>2, <1>3

\* What a socket's own step leaves it.
LEMMA UpgradeSound ==
  ASSUME HubTypes, SocketsSound, NEW c \in Conns, NEW k \in Keys, Upgrade(c, k)
  PROVE  SocketSound(c)'
<1>1. conn \in [Conns -> Sockets] /\ conn[c].st # "connected"
  BY DEF HubTypes, Upgrade
<1>2. conn'[c] = [st |-> "upgraded", key |-> k, next |-> 1]
  BY <1>1 DEF Upgrade
<1>3. history[c] = -1 /\ got[c] = <<>> /\ missed[c] = {}
  BY <1>1 DEF SocketsSound, SocketSound
<1> QED BY <1>2, <1>3 DEF Upgrade, client, SocketSound, Live

LEMMA SubscribeSound ==
  ASSUME HubTypes, SocketsSound, NEW c \in Conns, Subscribe(c)
  PROVE  SocketSound(c)'
<1> DEFINE k == conn[c].key
<1>1. conn \in [Conns -> Sockets] /\ conn[c] \in Sockets /\ conn[c].st = "upgraded"
  BY DEF HubTypes, Subscribe
<1>2. k \in Keys /\ history[c] = -1 /\ got[c] = <<>> /\ missed[c] = {}
  BY <1>1 DEF SocketsSound, SocketSound
<1>3. conn'[c].st = "subscribed" /\ conn'[c].key = k /\ conn'[c].next = Len(frames[k]) + 1
  BY <1>1 DEF Subscribe, Sockets
<1>4. k \in senders' /\ frames' = frames /\ history'[c] = -1 /\ got'[c] = <<>> /\ missed'[c] = {}
  BY <1>2 DEF Subscribe, client
<1>5. Len(frames[k]) + 1 <= Len(frames'[k]) + 1
  BY <1>2, <1>4 DEF HubTypes
<1>6. Elements(got[c])' = {}
  BY <1>4 DEF Elements
<1> HIDE DEF k
<1> QED BY <1>2, <1>3, <1>4, <1>5, <1>6 DEF SocketSound, Live

LEMMA HelloSound ==
  ASSUME HubTypes, SocketsSound, NEW c \in Conns, Hello(c)
  PROVE  SocketSound(c)'
<1>1. conn \in [Conns -> Sockets] /\ conn[c] \in Sockets /\ conn[c].st = "subscribed"
  BY DEF HubTypes, Hello
<1>2. SocketSound(c) /\ Live(c)
  BY <1>1 DEF SocketsSound, Live
<1>3. conn'[c].st = "connected" /\ conn'[c].key = conn[c].key /\ conn'[c].next = conn[c].next
  BY <1>1 DEF Hello, Sockets
<1>4. UNCHANGED <<senders, frames, history, got, missed>>
  BY DEF Hello, hub, client
<1>5. Past(c)' = Past(c) /\ Elements(got[c])' = Elements(got[c])
  BY <1>3, <1>4 DEF Past, Elements
<1> QED BY <1>1, <1>2, <1>3, <1>4, <1>5 DEF SocketSound

\* The frames before a later one hold those before an earlier one.
LEMMA PastGrows ==
  ASSUME NEW c \in Conns, frames' = frames, conn'[c].key = conn[c].key,
         conn[c].next \in Nat, conn'[c].next \in Nat, conn[c].next <= conn'[c].next
  PROVE  /\ Past(c) \subseteq Past(c)'
         /\ \A i \in conn[c].next..(conn'[c].next - 1) : conn[c].next > 0 => frames[conn[c].key][i] \in Past(c)'
BY DEF Past

LEMMA PumpSound ==
  ASSUME LiveHubAssumption, HubTypes, SocketsSound, NEW c \in Conns, Pump(c)
  PROVE  SocketSound(c)'
<1> DEFINE k == conn[c].key  n == conn[c].next
<1>1. /\ conn \in [Conns -> Sockets] /\ conn[c] \in Sockets /\ conn[c].st = "connected"
      /\ n <= Len(frames[k]) /\ UNCHANGED <<senders, frames>>
  BY DEF HubTypes, Pump, hub
<1>2. k \in Keys /\ k \in senders /\ Elements(got[c]) \cup missed[c] \subseteq Past(c)
  BY <1>1 DEF SocketsSound, SocketSound, Live
<1>3. n \in Nat \ {0} /\ Len(frames[k]) \in Nat /\ got[c] \in Seq(Nat)
  <2>1. n \in Nat \ {0}
    BY <1>1, SocketFields
  <2>2. frames \in [Keys -> Seq(Nat)] /\ got \in [Conns -> Seq(Nat)]
    BY DEF HubTypes
  <2> QED BY <1>2, <2>1, <2>2
<1>4. CASE n >= Oldest(k)
  <2>1. conn' = [conn EXCEPT ![c].next = n + 1] /\ missed' = missed
        /\ got' = [got EXCEPT ![c] = Append(@, frames[k][n])]
    BY <1>4 DEF Pump
  <2>2. conn'[c].st = "connected" /\ conn'[c].key = k /\ conn'[c].next = n + 1
    BY <1>1, <2>1 DEF Sockets
  <2>3. got'[c] = Append(got[c], frames[k][n]) /\ frames[k][n] \in Nat
    <3>1. frames \in [Keys -> Seq(Nat)] /\ got \in [Conns -> Seq(Nat)]
      BY DEF HubTypes
    <3>2. got'[c] = Append(got[c], frames[k][n])
      BY <2>1, <3>1
    <3>3. frames[k] \in Seq(Nat) /\ n \in 1..Len(frames[k])
      BY <1>1, <1>2, <1>3, <3>1
    <3> HIDE DEF k, n
    <3> QED BY <3>2, <3>3
  <2>4. Elements(got'[c]) = Elements(got[c]) \cup {frames[k][n]}
    <3> HIDE DEF k, n
    <3> QED BY <1>3, <2>3 DEF Elements
  <2>5. Past(c) \subseteq Past(c)' /\ frames[k][n] \in Past(c)'
    BY <1>1, <1>3, <2>2, PastGrows
  <2>6. n + 1 <= Len(frames'[k]) + 1
    BY <1>1, <1>3
  <2>7. Elements(got[c])' \cup missed'[c] \subseteq Past(c)'
    <3>1. Elements(got[c])' = Elements(got'[c])
      BY DEF Elements
    <3> QED BY <1>2, <2>1, <2>4, <2>5, <3>1
  <2> QED BY <1>1, <1>2, <2>2, <2>6, <2>7 DEF SocketSound
<1>5. CASE ~(n >= Oldest(k))
  <2>1. conn' = [conn EXCEPT ![c].next = Oldest(k)] /\ got' = got
        /\ missed' = [missed EXCEPT ![c] = @ \cup {frames[k][i] : i \in n..(Oldest(k) - 1)}]
    BY <1>5 DEF Pump
  <2>2. conn'[c].st = "connected" /\ conn'[c].key = k /\ conn'[c].next = Oldest(k)
    BY <1>1, <2>1 DEF Sockets
  <2>3. Oldest(k) \in Nat \ {0} /\ n <= Oldest(k) /\ Oldest(k) <= Len(frames[k])
    BY <1>2, <1>3, <1>5, OldestType
  <2>4. missed'[c] = missed[c] \cup {frames[k][i] : i \in n..(Oldest(k) - 1)}
    BY <2>1 DEF HubTypes
  <2>5. Past(c) \subseteq Past(c)' /\ \A i \in n..(Oldest(k) - 1) : frames[k][i] \in Past(c)'
    BY <1>1, <1>3, <2>2, <2>3, PastGrows
  <2>6. Oldest(k) <= Len(frames'[k]) + 1
    BY <1>1, <1>3, <2>3
  <2>7. Elements(got[c])' \cup missed'[c] \subseteq Past(c)'
    <3>1. Elements(got[c])' = Elements(got[c])
      BY <2>1 DEF Elements
    <3> QED BY <1>2, <2>4, <2>5, <3>1
  <2> QED BY <1>1, <1>2, <2>2, <2>6, <2>7 DEF SocketSound
<1> QED BY <1>4, <1>5

LEMMA CloseSound ==
  ASSUME HubTypes, NEW c \in Conns, Close(c)
  PROVE  SocketSound(c)'
BY DEF HubTypes, Close, End, Off, SocketSound, Live

LEMMA HistorySound ==
  ASSUME HubTypes, SocketsSound, NEW c \in Conns, ReadHistory(c)
  PROVE  SocketSound(c)'
<1>1. SocketSound(c) /\ conn[c].st = "connected" /\ UNCHANGED <<senders, frames, conn, got, missed>>
  BY DEF SocketsSound, ReadHistory, hub
<1>2. Past(c)' = Past(c) /\ Elements(got[c])' = Elements(got[c])
  BY <1>1 DEF Past, Elements
<1> QED BY <1>1, <1>2 DEF SocketSound, Live

\* Every step is a step of the ingestion, or of one socket or its client.
LEMMA StepKinds ==
  ASSUME HubTypes, [Next]_vars
  PROVE  \/ UNCHANGED <<conn, client>>
         \/ \E c \in Conns :
              /\ \/ \E k \in Keys : Upgrade(c, k)
                 \/ Subscribe(c) \/ Hello(c) \/ Pump(c) \/ Close(c) \/ ReadHistory(c)
              /\ \A d \in Conns \ {c} : conn'[d] = conn[d] /\ history'[d] = history[d]
                                        /\ got'[d] = got[d] /\ missed'[d] = missed[d]
<1>1. ASSUME NEW ks \in SUBSET Keys, Store(ks) PROVE UNCHANGED <<conn, client>>
  BY <1>1 DEF Store
<1>2. publish_event => UNCHANGED <<conn, client>>
  BY DEF publish_event
<1>3. UNCHANGED vars => UNCHANGED <<conn, client>>
  BY DEF vars, client
<1> DEFINE Others(c) == \A d \in Conns \ {c} : conn'[d] = conn[d] /\ history'[d] = history[d]
                                             /\ got'[d] = got[d] /\ missed'[d] = missed[d]
<1>4. ASSUME NEW c \in Conns, NEW k \in Keys, Upgrade(c, k) PROVE Others(c)
  BY <1>4 DEF Upgrade, client, HubTypes
<1>5. ASSUME NEW c \in Conns, Subscribe(c) PROVE Others(c)
  BY <1>5 DEF Subscribe, client, HubTypes
<1>6. ASSUME NEW c \in Conns, Hello(c) PROVE Others(c)
  BY <1>6 DEF Hello, client, HubTypes
<1>7. ASSUME NEW c \in Conns, Pump(c) PROVE Others(c)
  BY <1>7 DEF Pump, HubTypes
<1>8. ASSUME NEW c \in Conns, Close(c) PROVE Others(c)
  BY <1>8 DEF Close, End, HubTypes
<1>9. ASSUME NEW c \in Conns, ReadHistory(c) PROVE Others(c)
  BY <1>9 DEF ReadHistory, HubTypes
<1> HIDE DEF Others
<1>10. \/ UNCHANGED <<conn, client>>
       \/ \E c \in Conns : /\ \/ \E k \in Keys : Upgrade(c, k)
                              \/ Subscribe(c) \/ Hello(c) \/ Pump(c) \/ Close(c) \/ ReadHistory(c)
                           /\ Others(c)
  BY <1>1, <1>2, <1>3, <1>4, <1>5, <1>6, <1>7, <1>8, <1>9 DEF Next
<1> QED BY <1>10 DEF Others

LEMMA SocketsStep ==
  ASSUME LiveHubAssumption, HubTypes, SocketsSound, [Next]_vars
  PROVE  SocketsSound'
<1>1. CASE UNCHANGED <<conn, client>>
  BY <1>1, SocketKept DEF SocketsSound, client
<1>2. ASSUME NEW c \in Conns,
             \/ \E k \in Keys : Upgrade(c, k)
             \/ Subscribe(c) \/ Hello(c) \/ Pump(c) \/ Close(c) \/ ReadHistory(c),
             \A d \in Conns \ {c} : conn'[d] = conn[d] /\ history'[d] = history[d]
                                    /\ got'[d] = got[d] /\ missed'[d] = missed[d]
      PROVE  SocketsSound'
  <2>1. SocketSound(c)'
    BY <1>2, UpgradeSound, SubscribeSound, HelloSound, PumpSound, CloseSound, HistorySound
  <2>2. ASSUME NEW d \in Conns \ {c} PROVE SocketSound(d)'
    BY <1>2, SocketKept DEF SocketsSound
  <2> QED BY <2>1, <2>2 DEF SocketsSound
<1> QED BY <1>1, <1>2, StepKinds

LEMMA HubInvAtFirst == LiveHubAssumption /\ Init => HubInv /\ SlotsExact
<1> SUFFICES ASSUME LiveHubAssumption, Init PROVE HubInv /\ SlotsExact
  OBVIOUS
<1>1. Off \in Sockets /\ Off.st = "off"
  <2>1. 1 \in Nat \ {0} /\ "off" \in States /\ "" \in Keys \cup {""}
    BY DEF States
  <2> QED BY <2>1, SocketStarts DEF Off
<1>2. conn \in [Conns -> Sockets] /\ \A c \in Conns : conn[c].st = "off"
  BY <1>1 DEF Init
<1>3. HubTypes
  BY <1>2 DEF HubTypes, Init, LiveHubAssumption
<1>4. FramesSound
  BY DEF FramesSound, Init
<1>5. SocketsSound
  BY <1>2 DEF SocketsSound, SocketSound, Init, Live
<1>6. {c \in Conns : conn[c].st # "off"} = {} /\ {c \in Conns : Live(c)} = {}
  BY <1>2 DEF Live
<1>7. SlotsExact
  <2>1. Cardinality({}) = 0 /\ MaxWs \in Nat /\ permits = MaxWs /\ gauge = 0
    BY FS_EmptySet DEF Init, LiveHubAssumption
  <2>2. /\ Cardinality({c \in Conns : conn[c].st # "off"}) = 0
        /\ Cardinality({c \in Conns : Live(c)}) = 0
    BY <1>6, <2>1
  <2> QED BY <2>1, <2>2 DEF SlotsExact
<1> QED BY <1>3, <1>4, <1>5, <1>7 DEF HubInv

LEMMA HubInvStep == LiveHubAssumption /\ HubInv /\ [Next]_vars => HubInv'
BY TypesStep, FramesStep, SocketsStep DEF HubInv

LEMMA HubInvAlways ==
  ASSUME LiveHubAssumption
  PROVE  Spec => []HubInv
<1>1. Init => HubInv
  BY HubInvAtFirst
<1>2. HubInv /\ [Next]_vars => HubInv'
  BY HubInvStep
<1> QED BY <1>1, <1>2, PTL DEF Spec

-----------------------------------------------------------------------------
(* The slots. *)
Taken == {c \in Conns : conn[c].st # "off"}
Counted == {c \in Conns : Live(c)}

\* A socket that takes a slot or gives it back, or does neither.
LEMMA SlotsStep ==
  ASSUME LiveHubAssumption, HubTypes, SlotsExact, [Next]_vars
  PROVE  SlotsExact'
<1>1. /\ IsFiniteSet(Taken) /\ IsFiniteSet(Counted)
      /\ Cardinality(Taken) \in Nat /\ Cardinality(Counted) \in Nat
  BY FS_Subset, FS_CardinalityType DEF LiveHubAssumption, Taken, Counted
<1>2. /\ permits + Cardinality(Taken) = MaxWs /\ gauge = Cardinality(Counted)
      /\ permits \in Int /\ gauge \in Int /\ MaxWs \in Nat
  BY DEF SlotsExact, Taken, Counted, HubTypes, LiveHubAssumption
<1>3. conn \in [Conns -> Sockets]
  BY DEF HubTypes
<1> SUFFICES permits' + Cardinality(Taken') = MaxWs /\ gauge' = Cardinality(Counted')
  BY DEF SlotsExact, Taken, Counted, Live
<1>4. CASE Taken' = Taken /\ Counted' = Counted /\ permits' = permits /\ gauge' = gauge
  BY <1>2, <1>4
<1>5. ASSUME NEW ks \in SUBSET Keys, Store(ks) PROVE conn' = conn /\ permits' = permits /\ gauge' = gauge
  BY <1>5 DEF Store
<1>6. publish_event => conn' = conn /\ permits' = permits /\ gauge' = gauge
  BY DEF publish_event
<1>7. ASSUME NEW c \in Conns, NEW k \in Keys, Upgrade(c, k)
      PROVE  permits' + Cardinality(Taken') = MaxWs /\ gauge' = Cardinality(Counted')
  <2>1. conn'[c].st = "upgraded" /\ conn[c].st = "off" /\ \A d \in Conns \ {c} : conn'[d] = conn[d]
    BY <1>3, <1>7 DEF Upgrade
  <2>2. Taken' = Taken \cup {c} /\ c \notin Taken /\ Counted' = Counted
    BY <2>1 DEF Taken, Counted, Live
  <2>3. Cardinality(Taken') = Cardinality(Taken) + 1
    BY <1>1, <2>2, FS_AddElement
  <2>4. permits' = permits - 1 /\ gauge' = gauge
    BY <1>7 DEF Upgrade
  <2> QED BY <1>1, <1>2, <2>2, <2>3, <2>4
<1>8. ASSUME NEW c \in Conns, Subscribe(c)
      PROVE  permits' + Cardinality(Taken') = MaxWs /\ gauge' = Cardinality(Counted')
  <2>1. conn'[c].st = "subscribed" /\ conn[c].st = "upgraded" /\ \A d \in Conns \ {c} : conn'[d] = conn[d]
    BY <1>3, <1>8 DEF Subscribe, Sockets
  <2>2. Taken' = Taken /\ c \notin Counted /\ Counted' = Counted \cup {c}
    BY <2>1 DEF Taken, Counted, Live
  <2>3. Cardinality(Counted') = Cardinality(Counted) + 1
    BY <1>1, <2>2, FS_AddElement
  <2>4. permits' = permits /\ gauge' = gauge + 1
    BY <1>8 DEF Subscribe
  <2> QED BY <1>1, <1>2, <2>2, <2>3, <2>4
<1>9. ASSUME NEW c \in Conns, Close(c)
      PROVE  permits' + Cardinality(Taken') = MaxWs /\ gauge' = Cardinality(Counted')
  <2>1. conn'[c].st = "off" /\ Live(c) /\ \A d \in Conns \ {c} : conn'[d] = conn[d]
    BY <1>3, <1>9 DEF Close, End, Off
  <2>2. /\ Taken' = Taken \ {c} /\ c \in Taken
        /\ Counted' = Counted \ {c} /\ c \in Counted
    BY <2>1 DEF Taken, Counted, Live
  <2>3. /\ Cardinality(Taken') = Cardinality(Taken) - 1
        /\ Cardinality(Counted') = Cardinality(Counted) - 1
    BY <1>1, <2>2, FS_RemoveElement
  <2>4. permits' = permits + 1 /\ gauge' = gauge - 1
    BY <1>9 DEF Close, End
  <2> QED BY <1>1, <1>2, <2>3, <2>4
<1>10. ASSUME NEW c \in Conns, Hello(c) \/ Pump(c) \/ ReadHistory(c)
       PROVE  Taken' = Taken /\ Counted' = Counted /\ permits' = permits /\ gauge' = gauge
  <2>1. permits' = permits /\ gauge' = gauge
    BY <1>10 DEF Hello, Pump, ReadHistory
  <2>2. \A d \in Conns : conn'[d].st = conn[d].st \/ (conn'[d].st = "connected" /\ conn[d].st = "subscribed")
    BY <1>3, <1>10 DEF Hello, Pump, ReadHistory, Sockets
  <2> QED BY <2>1, <2>2 DEF Taken, Counted, Live
<1>11. UNCHANGED vars => conn' = conn /\ permits' = permits /\ gauge' = gauge
  BY DEF vars
<1>12. conn' = conn => Taken' = Taken /\ Counted' = Counted
  BY DEF Taken, Counted, Live
<1> QED BY <1>4, <1>5, <1>6, <1>7, <1>8, <1>9, <1>10, <1>11, <1>12 DEF Next

\* However sockets end, their slots come back and the gauge counts the ones that
\* live: the cap of ws.rs is never eroded by a handshake that failed.
THEOREM SlotsAreExact ==
  ASSUME LiveHubAssumption
  PROVE  Spec => []SlotsExact
<1>1. Init => SlotsExact
  BY HubInvAtFirst
<1>2. HubInv /\ SlotsExact /\ [Next]_vars => SlotsExact'
  BY SlotsStep DEF HubInv
<1> QED BY <1>1, <1>2, HubInvAlways, PTL DEF Spec

\* The log is published one event behind at most, permits stay within the cap, and
\* only a channel with a sender carries frames.
THEOREM HubTypeCorrect ==
  ASSUME LiveHubAssumption
  PROVE  Spec => []TypeOK
<1>1. HubInv /\ SlotsExact => TypeOK
  <2> SUFFICES ASSUME HubInv, SlotsExact PROVE TypeOK
    OBVIOUS
  <2>1. /\ published \in {Len(stored), Len(stored) - 1} /\ published >= 0 /\ senders \subseteq Keys
        /\ \A k \in Keys : frames[k] # <<>> => k \in senders
    BY DEF HubInv, HubTypes, FramesSound
  <2>2. \A c \in Conns : conn[c].st \in States
    BY SocketFields DEF HubInv, HubTypes
  <2>3. /\ IsFiniteSet(Taken) /\ Cardinality(Taken) \in Nat
        /\ Cardinality(Counted) \in Nat /\ Cardinality(Counted) <= Cardinality(Taken)
    <3>1. IsFiniteSet(Taken) /\ Counted \subseteq Taken
      BY FS_Subset DEF LiveHubAssumption, Taken, Counted, Live
    <3> QED BY <3>1, FS_Subset, FS_CardinalityType
  <2>4. permits + Cardinality(Taken) = MaxWs /\ gauge = Cardinality(Counted) /\ permits \in Int
    BY DEF SlotsExact, Taken, Counted, HubInv, HubTypes
  <2>5. permits >= 0
    BY DEF HubInv, HubTypes
  <2>6. permits \in 0..MaxWs /\ gauge \in 0..MaxWs
    BY <2>3, <2>4, <2>5 DEF LiveHubAssumption
  <2> QED BY <2>1, <2>2, <2>6 DEF TypeOK, States
<1> QED BY <1>1, HubInvAlways, SlotsAreExact, PTL

-----------------------------------------------------------------------------
(* The order of the frames. *)

\* The log only grows, and with it what has been published.
LEMMA LogGrows ==
  ASSUME HubTypes, [Next]_vars
  PROVE  published <= published' /\ published' \in Nat /\ \A e \in 1..published : stored'[e] = stored[e]
<1>1. published \in Nat /\ published <= Len(stored) /\ stored \in Seq(SUBSET Keys)
  BY DEF HubTypes
<1>2. ASSUME NEW ks \in SUBSET Keys, Store(ks)
      PROVE  published' = published /\ \A e \in 1..published : stored'[e] = stored[e]
  BY <1>1, <1>2 DEF Store
<1>3. publish_event => published' = published + 1 /\ stored' = stored
  BY DEF publish_event
<1>4. ASSUME ~publish_event, ~\E ks \in SUBSET Keys : Store(ks) PROVE published' = published /\ stored' = stored
  BY <1>4 DEF Next, vars, hub, Upgrade, Subscribe, Hello, Pump, Close, End, ReadHistory
<1> QED BY <1>1, <1>2, <1>3, <1>4

\* The events after e that a client's channel carries.
Later(c, e) == {f \in e + 1..published : Concerns(c, f)}

LEMMA LaterFinite ==
  ASSUME HubTypes, NEW c \in Conns, NEW e \in Nat
  PROVE  IsFiniteSet(Later(c, e)) /\ Cardinality(Later(c, e)) \in Nat
<1>1. IsFiniteSet(e + 1..published)
  BY FS_Interval DEF HubTypes
<1> QED BY <1>1, FS_Subset, FS_CardinalityType DEF Later

LEMMA LaterGrows ==
  ASSUME HubTypes, [Next]_vars, HubTypes', NEW c \in Conns, conn'[c].key = conn[c].key, NEW e \in Nat
  PROVE  Cardinality(Later(c, e)) <= Cardinality(Later(c, e)')
<1>1. /\ published <= published' /\ published \in Nat /\ published' \in Nat
      /\ \A f \in 1..published : stored'[f] = stored[f]
  BY LogGrows DEF HubTypes
<1>2. Later(c, e)' = {f \in e + 1..published' : conn'[c].key \in stored'[f]}
  BY DEF Later, Concerns
<1>3. Later(c, e) \subseteq Later(c, e)'
  BY <1>1, <1>2 DEF Later, Concerns
<1>4. IsFiniteSet(Later(c, e)')
  <2>1. IsFiniteSet(e + 1..published')
    BY <1>1, FS_Interval
  <2> QED BY <1>2, <2>1, FS_Subset
<1> QED BY <1>3, <1>4, FS_Subset

\* Whoever is asked to skip a frame is a whole ring behind it.
LEMMA RingBehind ==
  ASSUME LiveHubAssumption, HubTypes, FramesSound, NEW c \in Conns, conn[c].key \in Keys,
         NEW i \in 1..Len(frames[conn[c].key]), i + CHANNEL_CAPACITY <= Len(frames[conn[c].key])
  PROVE  Cardinality(Later(c, frames[conn[c].key][i])) >= CHANNEL_CAPACITY
<1> DEFINE k == conn[c].key  f == frames[k]  n == Len(f)  S == Later(c, f[i])
           g == [j \in i + 1..n |-> f[j]]
<1>1. f \in Seq(Nat) /\ n \in Nat /\ published \in Nat /\ CHANNEL_CAPACITY \in Nat /\ i \in Nat /\ f[i] \in Nat
  <2>1. frames \in [Keys -> Seq(Nat)] /\ published \in Nat /\ CHANNEL_CAPACITY \in Nat
    BY DEF HubTypes, LiveHubAssumption
  <2>2. f \in Seq(Nat) /\ i \in 1..Len(f)
    BY <2>1
  <2> HIDE DEF f
  <2> QED BY <2>1, <2>2
<1>2. /\ \A j \in 1..n : f[j] \in 1..published /\ k \in stored[f[j]]
      /\ \A a, b \in 1..n : a < b => f[a] < f[b]
  BY DEF FramesSound
<1>3. i \in 1..n /\ i + CHANNEL_CAPACITY <= n
  OBVIOUS
<1>4. S = {e \in f[i] + 1..published : k \in stored[e]}
  BY DEF Later, Concerns
<1> HIDE DEF k, f, n, S
<1>5. \A j \in i + 1..n : j \in 1..n /\ f[j] \in 1..published /\ f[i] < f[j] /\ k \in stored[f[j]]
  BY <1>1, <1>2, <1>3
<1>6. \A j \in i + 1..n : f[j] \in S
  BY <1>1, <1>4, <1>5
<1>7. \A a, b \in i + 1..n : f[a] = f[b] => a = b
  <2> SUFFICES ASSUME NEW a \in i + 1..n, NEW b \in i + 1..n, f[a] = f[b] PROVE a = b
    OBVIOUS
  <2>1. a \in 1..n /\ b \in 1..n /\ f[a] \in Nat /\ f[b] \in Nat
    BY <1>1, <1>3, <1>5
  <2>2. ~(a < b) /\ ~(b < a)
    BY <1>2, <2>1
  <2> QED BY <2>1, <2>2
<1>8. g \in Injection(i + 1..n, S)
  BY <1>6, <1>7 DEF Injection, IsInjective
<1>9. IsFiniteSet(S) /\ Cardinality(S) \in Nat
  BY <1>1, LaterFinite DEF S
<1>10. Cardinality(i + 1..n) <= Cardinality(S)
  BY <1>8, <1>9, FS_Injection
<1>11. Cardinality(i + 1..n) = IF i + 1 > n THEN 0 ELSE n - (i + 1) + 1
  BY <1>1, FS_Interval
<1>12. Cardinality(S) >= CHANNEL_CAPACITY
  BY <1>1, <1>3, <1>9, <1>10, <1>11
<1> QED BY <1>12 DEF S, f, k

\* The frames of one socket in their order.
Ordered(c) ==
  /\ \A i, j \in 1..Len(got[c]) : i < j => got[c][i] < got[c][j]
  /\ missed[c] \cap Elements(got[c]) = {}
  /\ \A e \in missed[c] : Cardinality(Later(c, e)) >= CHANNEL_CAPACITY

LEMMA OrderIsOrdered == InOrder <=> \A c \in Conns : Ordered(c)
BY DEF InOrder, Ordered, Later

\* A step that sends a client nothing keeps its order.
LEMMA OrderKept ==
  ASSUME LiveHubAssumption, HubTypes, [Next]_vars, HubTypes', NEW c \in Conns, Ordered(c),
         conn'[c].key = conn[c].key, got'[c] = got[c], missed'[c] = missed[c]
  PROVE  Ordered(c)'
<1>1. ASSUME NEW e \in missed[c] PROVE Cardinality(Later(c, e)') >= CHANNEL_CAPACITY
  <2>1. e \in Nat /\ CHANNEL_CAPACITY \in Nat
    BY DEF HubTypes, LiveHubAssumption
  <2>2. Cardinality(Later(c, e)) \in Nat /\ Cardinality(Later(c, e)) >= CHANNEL_CAPACITY
    BY <2>1, LaterFinite DEF Ordered
  <2>3. Cardinality(Later(c, e)) <= Cardinality(Later(c, e)') /\ Cardinality(Later(c, e)') \in Nat
    <3>1. Cardinality(Later(c, e)) <= Cardinality(Later(c, e)')
      BY <2>1, LaterGrows
    <3>2. Later(c, e)' = {f \in e + 1..published' : conn'[c].key \in stored'[f]}
      BY DEF Later, Concerns
    <3>3. IsFiniteSet(e + 1..published')
      BY <2>1, FS_Interval DEF HubTypes
    <3> QED BY <3>1, <3>2, <3>3, FS_Subset, FS_CardinalityType
  <2> QED BY <2>1, <2>2, <2>3
<1>2. Elements(got[c])' = Elements(got[c])
  BY DEF Elements
<1> QED BY <1>1, <1>2 DEF Ordered

LEMMA OrderPumped ==
  ASSUME LiveHubAssumption, HubInv, HubInv', [Next]_vars, NEW c \in Conns, Ordered(c), Pump(c)
  PROVE  Ordered(c)'
<1> DEFINE k == conn[c].key  n == conn[c].next  f == frames[k]
<1>1. /\ conn \in [Conns -> Sockets] /\ conn[c] \in Sockets /\ conn[c].st = "connected"
      /\ n <= Len(f) /\ UNCHANGED <<stored, published, frames>>
  BY DEF HubInv, HubTypes, Pump, hub
<1>2. k \in Keys /\ Elements(got[c]) \cup missed[c] \subseteq Past(c)
  BY <1>1 DEF HubInv, SocketsSound, SocketSound, Live
<1>3. /\ n \in Nat \ {0} /\ f \in Seq(Nat) /\ got[c] \in Seq(Nat) /\ Len(f) \in Nat
      /\ missed[c] \subseteq Nat /\ CHANNEL_CAPACITY \in Nat
  <2>1. n \in Nat \ {0}
    BY <1>1, SocketFields
  <2>2. frames \in [Keys -> Seq(Nat)] /\ got \in [Conns -> Seq(Nat)] /\ missed \in [Conns -> SUBSET Nat]
        /\ CHANNEL_CAPACITY \in Nat
    BY DEF HubInv, HubTypes, LiveHubAssumption
  <2> QED BY <1>2, <2>1, <2>2
<1>4. \A i, j \in 1..Len(f) : i < j => f[i] < f[j]
  BY <1>2 DEF HubInv, FramesSound
<1>5. Past(c) = {f[i] : i \in 1..(n - 1)}
  BY DEF Past
<1>11. \A j \in n..Len(f) : f[j] \in Nat
  <2> HIDE DEF n, f
  <2> QED BY <1>3
<1>6. \A j \in n..Len(f) : f[j] \in Nat /\ \A e \in Past(c) : e < f[j]
  <2> SUFFICES ASSUME NEW j \in n..Len(f), NEW e \in Past(c) PROVE e < f[j]
    BY <1>11
  <2>1. PICK i \in 1..(n - 1) : e = f[i]
    BY <1>5
  <2> HIDE DEF n, f
  <2>2. i \in 1..Len(f) /\ j \in 1..Len(f) /\ i < j
    BY <1>1, <1>3
  <2> QED BY <1>3, <1>4, <2>1, <2>2
<1>7. conn'[c].key = k
  <2>1. CASE conn' = [conn EXCEPT ![c].next = n + 1]
    BY <1>1, <2>1 DEF Sockets
  <2>2. CASE conn' = [conn EXCEPT ![c].next = Oldest(k)]
    BY <1>1, <2>2 DEF Sockets
  <2> QED BY <2>1, <2>2 DEF Pump
<1>8. \A e \in Nat : Later(c, e)' = Later(c, e)
  BY <1>1, <1>7 DEF Later, Concerns
<1>9. CASE n >= Oldest(k)
  <2>1. missed' = missed /\ got' = [got EXCEPT ![c] = Append(@, f[n])]
    BY <1>9 DEF Pump
  <2>2. got'[c] = Append(got[c], f[n]) /\ missed'[c] = missed[c]
    <3>1. got \in [Conns -> Seq(Nat)]
      BY DEF HubInv, HubTypes
    <3> QED BY <2>1, <3>1
  <2>3. f[n] \in Nat /\ \A e \in Past(c) : e < f[n]
    BY <1>1, <1>3, <1>6
  <2> HIDE DEF k, n, f
  <2>4. Elements(got'[c]) = Elements(got[c]) \cup {f[n]}
    <3>1. f[n] \in Nat /\ got[c] \in Seq(Nat) /\ got'[c] = Append(got[c], f[n])
      BY <1>3, <2>2, <2>3
    <3> QED BY <3>1 DEF Elements
  <2>5. \A i \in 1..Len(got[c]) : got[c][i] < f[n] /\ got[c][i] \in Nat
    BY <1>2, <1>3, <2>3 DEF Elements
  <2>6. \A i, j \in 1..Len(got'[c]) : i < j => got'[c][i] < got'[c][j]
    <3> SUFFICES ASSUME NEW i \in 1..Len(got'[c]), NEW j \in 1..Len(got'[c]), i < j
                 PROVE  got'[c][i] < got'[c][j]
      OBVIOUS
    <3>1. Len(got'[c]) = Len(got[c]) + 1 /\ i \in 1..Len(got[c]) /\ got'[c][i] = got[c][i] /\ Len(got[c]) \in Nat
      BY <1>3, <2>2, <2>3
    <3>2. CASE j \in 1..Len(got[c])
      <4>1. got'[c][j] = got[c][j]
        BY <1>3, <2>2, <2>3, <3>2
      <4> QED BY <3>1, <3>2, <4>1 DEF Ordered
    <3>3. CASE j = Len(got[c]) + 1
      <4>1. got'[c][j] = f[n]
        BY <1>3, <2>2, <2>3, <3>3
      <4> QED BY <2>5, <3>1, <4>1
    <3> QED BY <3>1, <3>2, <3>3
  <2>7. missed'[c] \cap Elements(got'[c]) = {}
    BY <1>2, <2>2, <2>3, <2>4, <1>3 DEF Ordered
  <2>8. \A e \in missed'[c] : Cardinality(Later(c, e)') >= CHANNEL_CAPACITY
    BY <1>3, <1>8, <2>2 DEF Ordered
  <2>9. Elements(got[c])' = Elements(got'[c])
    BY DEF Elements
  <2> QED BY <2>6, <2>7, <2>8, <2>9 DEF Ordered
<1>10. CASE ~(n >= Oldest(k))
  <2>1. got' = got /\ missed' = [missed EXCEPT ![c] = @ \cup {f[i] : i \in n..(Oldest(k) - 1)}]
    BY <1>10 DEF Pump
  <2>2. missed'[c] = missed[c] \cup {f[i] : i \in n..(Oldest(k) - 1)}
    BY <2>1 DEF HubInv, HubTypes
  <2>3. Oldest(k) \in Nat \ {0} /\ Oldest(k) > 1 /\ Oldest(k) - 1 + CHANNEL_CAPACITY = Len(f)
    <3>1. Oldest(k) \in Nat \ {0} /\ (Oldest(k) > 1 => Oldest(k) - 1 + CHANNEL_CAPACITY = Len(f))
      BY <1>2, OldestType DEF HubInv
    <3> QED BY <1>3, <1>10, <3>1
  <2>4. ASSUME NEW i \in n..(Oldest(k) - 1)
        PROVE  /\ f[i] \in Nat /\ f[i] \notin Past(c)
               /\ Cardinality(Later(c, f[i])) >= CHANNEL_CAPACITY
    <3>1. i \in n..Len(f) /\ i \in 1..Len(f) /\ i + CHANNEL_CAPACITY <= Len(f)
      BY <1>3, <2>3
    <3>2. Cardinality(Later(c, f[i])) >= CHANNEL_CAPACITY
      BY <1>2, <3>1, RingBehind DEF HubInv
    <3>3. f[i] \in Nat /\ f[i] \notin Past(c)
      BY <1>6, <3>1
    <3> QED BY <3>2, <3>3
  <2>5. missed'[c] \cap Elements(got[c]) = {}
    BY <1>2, <2>2, <2>4 DEF Ordered
  <2>6. \A e \in missed'[c] : Cardinality(Later(c, e)') >= CHANNEL_CAPACITY
    BY <1>3, <1>8, <2>2, <2>4 DEF Ordered
  <2>7. Elements(got[c])' = Elements(got[c]) /\ got'[c] = got[c]
    BY <2>1 DEF Elements
  <2> HIDE DEF k, n, f
  <2> QED BY <2>5, <2>6, <2>7 DEF Ordered
<1> QED BY <1>9, <1>10

\* A client that has nothing has it in order.
LEMMA NothingOrdered ==
  ASSUME NEW c \in Conns, got'[c] = <<>>, missed'[c] = {}
  PROVE  Ordered(c)'
<1>1. Elements(got[c])' = {} /\ Len(got'[c]) = 0
  BY DEF Elements
<1> QED BY <1>1 DEF Ordered

LEMMA OrderStep ==
  ASSUME LiveHubAssumption, HubInv, HubInv', [Next]_vars, NEW c \in Conns, Ordered(c)
  PROVE  Ordered(c)'
<1>0. HubTypes /\ HubTypes' /\ conn \in [Conns -> Sockets] /\ conn[c] \in Sockets
  BY DEF HubInv, HubTypes
<1>1. CASE conn'[c].key = conn[c].key /\ got'[c] = got[c] /\ missed'[c] = missed[c]
  BY <1>0, <1>1, OrderKept
<1>2. CASE \E k \in Keys : Upgrade(c, k)
  <2>1. got'[c] = got[c] /\ missed'[c] = missed[c] /\ conn[c].st # "connected"
    BY <1>2 DEF Upgrade, client
  <2> QED BY <2>1, NothingOrdered DEF HubInv, SocketsSound, SocketSound
<1>3. CASE Subscribe(c)
  <2>1. got'[c] = got[c] /\ missed'[c] = missed[c] /\ conn[c].st # "connected"
    BY <1>3 DEF Subscribe, client
  <2> QED BY <2>1, NothingOrdered DEF HubInv, SocketsSound, SocketSound
<1>4. CASE Hello(c)
  BY <1>0, <1>1, <1>4 DEF Hello, client, Sockets
<1>5. CASE Pump(c)
  BY <1>5, OrderPumped
<1>6. CASE Close(c)
  <2>1. got'[c] = <<>> /\ missed'[c] = {}
    BY <1>6 DEF Close, End, HubInv, HubTypes
  <2> QED BY <2>1, NothingOrdered
<1>7. CASE ReadHistory(c)
  BY <1>1, <1>7 DEF ReadHistory
<1>8. CASE UNCHANGED <<conn, client>>
  BY <1>1, <1>8 DEF client
<1> QED BY <1>0, <1>1, <1>2, <1>3, <1>4, <1>5, <1>6, <1>7, <1>8, StepKinds

\* Frames come in the order of the events, none twice, and a socket skips one only
\* a whole ring behind it (Hub, RecvError::Lagged), for any ring and sockets.
THEOREM FramesComeInOrder ==
  ASSUME LiveHubAssumption
  PROVE  Spec => []InOrder
<1>1. Init => InOrder
  BY DEF Init, InOrder, Elements
<1>2. HubInv /\ HubInv' /\ InOrder /\ [Next]_vars => InOrder'
  <2> SUFFICES ASSUME HubInv, HubInv', InOrder, [Next]_vars PROVE InOrder'
    OBVIOUS
  <2>1. ASSUME NEW c \in Conns PROVE Ordered(c)'
    BY OrderIsOrdered, OrderStep
  <2> QED BY <2>1 DEF InOrder, Ordered, Later
<1> QED BY <1>1, <1>2, HubInvAlways, PTL DEF Spec

-----------------------------------------------------------------------------
(* Nothing slips. *)
Whole(c) ==
  conn[c].st = "connected" /\ history[c] # -1 =>
    \A e \in 1..published : Concerns(c, e) /\ e > history[c] =>
      e \in Elements(got[c]) \cup missed[c] \cup Due(c)

\* What is due stays due but for what the socket takes, and an event published to
\* a live socket's channel becomes due.
LEMMA WholeKept ==
  ASSUME HubInv, HubInv', [Next]_vars, NEW c \in Conns, Whole(c),
         conn'[c] = conn[c], history'[c] = history[c], got'[c] = got[c], missed'[c] = missed[c]
  PROVE  Whole(c)'
<1> SUFFICES ASSUME conn'[c].st = "connected", history'[c] # -1,
                    NEW e \in 1..published', Concerns(c, e)', e > history'[c]
             PROVE  e \in Elements(got'[c]) \cup missed'[c] \cup Due(c)'
  BY DEF Whole, Elements
<1> DEFINE k == conn[c].key  n == conn[c].next  f == frames[k]
<1>1. /\ k \in Keys /\ k \in senders /\ n <= Len(f) + 1 /\ conn[c] \in Sockets
      /\ frames \in [Keys -> Seq(Nat)] /\ published \in Nat
  BY DEF HubInv, SocketsSound, SocketSound, HubTypes, Live
<1>2. n \in Nat \ {0} /\ f \in Seq(Nat) /\ Len(f) \in Nat
  <2>1. n \in Nat \ {0}
    BY <1>1, SocketFields
  <2>2. f \in Seq(Nat)
    BY <1>1
  <2> HIDE DEF f, n
  <2> QED BY <2>1, <2>2
<1>3. Grows(k) /\ frames' \in [Keys -> Seq(Nat)]
  BY <1>1, FramesGrow DEF HubInv, HubTypes
<1>4. Due(c) = {f[i] : i \in n..Len(f)} /\ Due(c)' = {frames'[k][i] : i \in n..Len(frames'[k])}
  BY DEF Due
<1>5. Due(c) \subseteq Due(c)'
  <2>1. \A i \in n..Len(f) : frames'[k][i] = f[i] /\ i \in n..Len(frames'[k])
    BY <1>1, <1>2, <1>3 DEF Grows
  <2> QED BY <1>4, <2>1
<1>6. CASE e \in 1..published
  <2>1. Concerns(c, e)
    BY <1>6, LogGrows DEF Concerns, HubInv
  <2> QED BY <1>5, <1>6, <2>1 DEF Whole
<1>7. CASE e \notin 1..published
  <2>1. publish_event
    <3>1. ~publish_event => published' = published
      BY DEF Next, vars, hub, Store, Upgrade, Subscribe, Hello, Pump, Close, End, ReadHistory
    <3> QED BY <1>7, <3>1
  <2>2. published' = published + 1 /\ stored' = stored
    BY <2>1 DEF publish_event
  <2>3. e = published' /\ k \in stored[published']
    <3>1. e = published + 1
      BY <1>1, <1>7, <2>2
    <3> QED BY <2>2, <3>1 DEF Concerns
  <2>4. frames'[k] = Append(f, published')
    BY <1>1, <2>1, <2>3, SentByPublish DEF HubInv
  <2> HIDE DEF f, n, k
  <2>5. Len(frames'[k]) = Len(f) + 1 /\ frames'[k][Len(f) + 1] = published'
    BY <1>1, <1>2, <2>2, <2>4
  <2>6. Len(f) + 1 \in n..Len(frames'[k])
    BY <1>1, <1>2, <2>5 DEF f, n
  <2> QED BY <1>4, <2>3, <2>5, <2>6
<1> QED BY <1>6, <1>7

\* What a pump takes off what is due it sends or counts as missed.
LEMMA WholePumped ==
  ASSUME LiveHubAssumption, HubInv, NEW c \in Conns, Whole(c), Pump(c)
  PROVE  Whole(c)'
<1> DEFINE k == conn[c].key  n == conn[c].next  f == frames[k]
<1>1. /\ conn \in [Conns -> Sockets] /\ conn[c] \in Sockets /\ conn[c].st = "connected"
      /\ n <= Len(f) /\ UNCHANGED <<stored, published, frames, history>>
  BY DEF HubInv, HubTypes, Pump, hub
<1>2. k \in Keys
  BY <1>1 DEF HubInv, SocketsSound, SocketSound
<1>3. n \in Nat \ {0} /\ f \in Seq(Nat) /\ got[c] \in Seq(Nat) /\ Len(f) \in Nat
  <2>1. n \in Nat \ {0}
    BY <1>1, SocketFields
  <2>2. frames \in [Keys -> Seq(Nat)] /\ got \in [Conns -> Seq(Nat)]
    BY DEF HubInv, HubTypes
  <2> QED BY <1>2, <2>1, <2>2
<1>4. Due(c) = {f[i] : i \in n..Len(f)}
  BY DEF Due
<1> SUFFICES /\ conn'[c].key = k
             /\ Elements(got[c]) \cup missed[c] \cup Due(c) \subseteq Elements(got'[c]) \cup missed'[c] \cup Due(c)'
  <2>1. Elements(got[c])' = Elements(got'[c])
    BY DEF Elements
  <2> QED BY <1>1, <2>1 DEF Whole, Concerns
<1>5. CASE n >= Oldest(k)
  <2>1. conn' = [conn EXCEPT ![c].next = n + 1] /\ missed' = missed
        /\ got' = [got EXCEPT ![c] = Append(@, f[n])]
    BY <1>5 DEF Pump
  <2>2. conn'[c].key = k /\ conn'[c].next = n + 1
    BY <1>1, <2>1 DEF Sockets
  <2>3. got'[c] = Append(got[c], f[n])
    <3>1. got \in [Conns -> Seq(Nat)]
      BY DEF HubInv, HubTypes
    <3> QED BY <2>1, <3>1
  <2>4. Due(c)' = {f[i] : i \in n + 1..Len(f)}
    BY <1>1, <2>2 DEF Due
  <2>5. Elements(got'[c]) = Elements(got[c]) \cup {f[n]}
    <3>1. f[n] \in Nat
      BY <1>1, <1>3
    <3>2. f[n] \in Nat /\ got[c] \in Seq(Nat) /\ got'[c] = Append(got[c], f[n])
      BY <1>3, <2>3, <3>1
    <3> QED BY <3>2 DEF Elements
  <2>6. Due(c) \subseteq Due(c)' \cup {f[n]}
    <3> HIDE DEF f, n
    <3> QED BY <1>3, <1>4, <2>4
  <2> QED BY <2>1, <2>2, <2>5, <2>6
<1>6. CASE ~(n >= Oldest(k))
  <2>1. conn' = [conn EXCEPT ![c].next = Oldest(k)] /\ got' = got
        /\ missed' = [missed EXCEPT ![c] = @ \cup {f[i] : i \in n..(Oldest(k) - 1)}]
    BY <1>6 DEF Pump
  <2>2. conn'[c].key = k /\ conn'[c].next = Oldest(k)
    BY <1>1, <2>1 DEF Sockets
  <2>3. missed'[c] = missed[c] \cup {f[i] : i \in n..(Oldest(k) - 1)}
    BY <2>1 DEF HubInv, HubTypes
  <2>4. Due(c)' = {f[i] : i \in Oldest(k)..Len(f)}
    BY <1>1, <2>2 DEF Due
  <2>5. Oldest(k) \in Nat
    BY <1>2, OldestType DEF HubInv
  <2>6. Due(c) \subseteq Due(c)' \cup {f[i] : i \in n..(Oldest(k) - 1)}
    <3> HIDE DEF f, n
    <3> QED BY <1>3, <1>4, <2>4, <2>5
  <2> QED BY <2>1, <2>2, <2>3, <2>6
<1> QED BY <1>5, <1>6

LEMMA WholeStep ==
  ASSUME LiveHubAssumption, HubInv, HubInv', [Next]_vars, NEW c \in Conns, Whole(c)
  PROVE  Whole(c)'
<1>0. HubTypes /\ conn \in [Conns -> Sockets] /\ conn[c] \in Sockets
  BY DEF HubInv, HubTypes
<1>1. CASE conn'[c] = conn[c] /\ history'[c] = history[c] /\ got'[c] = got[c] /\ missed'[c] = missed[c]
  BY <1>1, WholeKept
<1>2. CASE (\E k \in Keys : Upgrade(c, k)) \/ Subscribe(c) \/ Close(c)
  <2>1. conn'[c].st # "connected"
    <3>1. (\E k \in Keys : Upgrade(c, k)) => conn'[c].st = "upgraded"
      BY <1>0 DEF Upgrade
    <3>2. ASSUME Subscribe(c) PROVE conn'[c].st = "subscribed"
      BY <1>0, <3>2 DEF Subscribe, Sockets
    <3>3. ASSUME Close(c) PROVE conn'[c].st = "off"
      <4>1. conn'[c] = Off
        BY <1>0, <3>3 DEF Close, End
      <4>2. Off.st = "off"
        BY DEF Off
      <4> QED BY <4>1, <4>2
    <3> QED BY <1>2, <3>1, <3>2, <3>3
  <2> QED BY <2>1 DEF Whole
<1>3. CASE Hello(c)
  <2>1. history[c] = -1 /\ history' = history
    BY <1>3 DEF Hello, client, HubInv, SocketsSound, SocketSound
  <2> QED BY <2>1 DEF Whole
<1>4. CASE Pump(c)
  BY <1>4, WholePumped
<1>5. CASE ReadHistory(c)
  <2>1. history'[c] = Len(stored) /\ published' = published
    BY <1>5 DEF ReadHistory, hub, HubInv, HubTypes
  <2>2. published <= Len(stored) /\ published \in Nat /\ Len(stored) \in Nat
    BY DEF HubInv, HubTypes
  <2>3. ~\E e \in 1..published' : e > history'[c]
    BY <2>1, <2>2
  <2> QED BY <2>3 DEF Whole
<1>6. CASE UNCHANGED <<conn, client>>
  BY <1>1, <1>6 DEF client
<1> QED BY <1>0, <1>1, <1>2, <1>3, <1>4, <1>5, <1>6, StepKinds

\* However storing, publishing, subscribing and reading fall, a client that reads
\* the history after its handshake is sent, is due or has skipped every event of
\* its channel after that history.
THEOREM NothingSlipsThrough ==
  ASSUME LiveHubAssumption
  PROVE  Spec => []NothingSlips
<1>1. Init => NothingSlips
  BY DEF Init, NothingSlips, Off
<1>2. HubInv /\ HubInv' /\ NothingSlips /\ [Next]_vars => NothingSlips'
  <2> SUFFICES ASSUME HubInv, HubInv', NothingSlips, [Next]_vars PROVE NothingSlips'
    OBVIOUS
  <2>1. ASSUME NEW c \in Conns PROVE Whole(c)'
    BY WholeStep DEF NothingSlips, Whole
  <2> QED BY <2>1 DEF NothingSlips, Whole
<1> QED BY <1>1, <1>2, HubInvAlways, PTL DEF Spec

-----------------------------------------------------------------------------
(* The caches in front of the node. *)
Kept == [at : Nat, v : Nat \cup {-1}]
Asks == [st : {"idle", "asked", "read", "done"}, key : Objects, at : Nat, v : Nat \cup {-1}, h : Nat]

LEMMA KeptFields ==
  ASSUME NEW a \in Kept
  PROVE  a.at \in Nat /\ a.v \in Nat \cup {-1}
BY DEF Kept

LEMMA KeptIs ==
  ASSUME NEW a \in Nat, NEW v \in Nat \cup {-1}
  PROVE  [at |-> a, v |-> v] \in Kept /\ [at |-> a, v |-> v].at = a /\ [at |-> a, v |-> v].v = v
BY DEF Kept

LEMMA AskFields ==
  ASSUME NEW q \in Asks
  PROVE  /\ q.st \in {"idle", "asked", "read", "done"} /\ q.key \in Objects
         /\ q.at \in Nat /\ q.v \in Nat \cup {-1} /\ q.h \in Nat
BY DEF Asks

LEMMA AskIs ==
  ASSUME NEW s \in {"idle", "asked", "read", "done"}, NEW k \in Objects, NEW a \in Nat,
         NEW v \in Nat \cup {-1}, NEW h \in Nat
  PROVE  [st |-> s, key |-> k, at |-> a, v |-> v, h |-> h] \in Asks
BY DEF Asks

LEMMA AskMoves ==
  ASSUME NEW q \in Asks, NEW s \in {"idle", "asked", "read", "done"}, NEW v \in Nat \cup {-1}
  PROVE  /\ [q EXCEPT !.st = s, !.v = v] \in Asks /\ [q EXCEPT !.st = s] \in Asks
         /\ [q EXCEPT !.st = s, !.v = v].st = s /\ [q EXCEPT !.st = s, !.v = v].v = v
         /\ [q EXCEPT !.st = s, !.v = v].key = q.key /\ [q EXCEPT !.st = s, !.v = v].at = q.at
         /\ [q EXCEPT !.st = s].st = s /\ [q EXCEPT !.st = s].v = q.v
         /\ [q EXCEPT !.st = s].key = q.key /\ [q EXCEPT !.st = s].at = q.at
BY DEF Asks

CacheTypes ==
  /\ now \in Nat /\ handled \in Nat /\ node \in [Objects -> Nat] /\ \A k \in Objects : node[k] <= MaxVersion
  /\ until \in [Objects -> [0..MaxVersion -> Nat]]
  /\ cache \in [Objects -> Kept] /\ req \in [Requests -> Asks]

\* The version at the node is the current one now, and none was later.
NodeIsCurrent ==
  \A k \in Objects :
    /\ until[k][node[k]] = now
    /\ \A v \in 0..MaxVersion : until[k][v] <= now

\* What is kept was the node's at most a request before it was stored; a missing
\* object is not kept.
KeptWasCurrent ==
  \A k \in Objects :
    cache[k] # Cache!None =>
      /\ cache[k].v \in 0..MaxVersion /\ cache[k].at - until[k][cache[k].v] <= TIMEOUT
      /\ k # Tip => cache[k].v # 0

\* A request is under way no longer than its time out, and what it read was the
\* node's since it came.
Read(r) ==
  /\ req[r].st \in {"asked", "read"} => req[r].at <= now /\ now - req[r].at <= TIMEOUT
  /\ req[r].st = "read" => req[r].v \in 0..MaxVersion /\ until[req[r].key][req[r].v] >= req[r].at
  /\ req[r].st = "done" /\ req[r].v = 0 /\ req[r].key # Tip => until[req[r].key][0] >= req[r].at

CacheInv == CacheTypes /\ NodeIsCurrent /\ KeptWasCurrent /\ \A r \in Requests : Read(r)

LEMMA CacheInvAtFirst == Cache!NodeCacheAssumption /\ Cache!Init => CacheInv
<1> SUFFICES ASSUME Cache!NodeCacheAssumption, Cache!Init PROVE CacheInv
  OBVIOUS
<1>1. Tip \in Objects /\ MaxVersion \in Nat /\ TIMEOUT \in Nat
  BY DEF Cache!NodeCacheAssumption
<1>2. Cache!None \in Kept
  BY KeptIs DEF Cache!None
<1>3. Cache!Idle \in Asks /\ Cache!Idle.st = "idle"
  BY <1>1, AskIs DEF Cache!Idle
<1>4. CacheTypes
  BY <1>1, <1>2, <1>3 DEF Cache!Init, CacheTypes, Cache!Versions
<1>5. NodeIsCurrent
  BY <1>1 DEF Cache!Init, NodeIsCurrent, Cache!Versions
<1>6. KeptWasCurrent
  BY DEF Cache!Init, KeptWasCurrent
<1>7. \A r \in Requests : Read(r)
  BY <1>3 DEF Cache!Init, Read
<1> QED BY <1>4, <1>5, <1>6, <1>7 DEF CacheInv

\* What was current before is current no earlier after: a step that keeps the cache
\* and the requests keeps what is known of them.
LEMMA LaterIsFine ==
  ASSUME Cache!NodeCacheAssumption, CacheInv, cache' = cache, req' = req,
         \A k \in Objects : \A v \in 0..MaxVersion : until'[k][v] \in Nat /\ until[k][v] <= until'[k][v],
         now' = now \/ (now' = now + 1 /\ \A r \in Requests : req[r].st \in {"asked", "read"} => now - req[r].at < TIMEOUT)
  PROVE  KeptWasCurrent' /\ \A r \in Requests : Read(r)'
<1>1. /\ now \in Nat /\ TIMEOUT \in Nat /\ MaxVersion \in Nat
      /\ cache \in [Objects -> Kept] /\ req \in [Requests -> Asks]
      /\ \A k \in Objects : \A v \in 0..MaxVersion : until[k][v] \in Nat
  BY DEF CacheInv, CacheTypes, Cache!NodeCacheAssumption
<1>2. KeptWasCurrent'
  <2> SUFFICES ASSUME NEW k \in Objects, cache[k] # Cache!None
               PROVE  /\ cache[k].v \in 0..MaxVersion /\ cache[k].at - until'[k][cache[k].v] <= TIMEOUT
                      /\ k # Tip => cache[k].v # 0
    BY DEF KeptWasCurrent
  <2>1. /\ cache[k].v \in 0..MaxVersion /\ cache[k].at - until[k][cache[k].v] <= TIMEOUT
        /\ k # Tip => cache[k].v # 0
    BY DEF CacheInv, KeptWasCurrent
  <2>2. cache[k].at \in Nat
    BY <1>1, KeptFields
  <2> QED BY <1>1, <2>1, <2>2
<1>3. ASSUME NEW r \in Requests PROVE Read(r)'
  <2>1. req[r].key \in Objects /\ req[r].at \in Nat /\ Read(r)
    BY <1>1, AskFields DEF CacheInv
  <2>2. 0 \in 0..MaxVersion
    BY <1>1
  <2> QED BY <1>1, <2>1, <2>2 DEF Read
<1> QED BY <1>2, <1>3

\* A request's own step is no other's, nor the clock's or the node's.
LEMMA AskStep ==
  ASSUME Cache!NodeCacheAssumption, CacheInv, UNCHANGED <<now, node, until, handled>>,
         NEW r \in Requests, NEW q \in Asks, req' = [req EXCEPT ![r] = q],
         q.st \in {"asked", "read"} => q.at <= now /\ now - q.at <= TIMEOUT,
         q.st = "read" => q.v \in 0..MaxVersion /\ until[q.key][q.v] >= q.at,
         q.st = "done" /\ q.v = 0 /\ q.key # Tip => until[q.key][0] >= q.at,
         cache' \in [Objects -> Kept], KeptWasCurrent'
  PROVE  CacheInv'
<1>1. req \in [Requests -> Asks]
  BY DEF CacheInv, CacheTypes
<1>2. req' \in [Requests -> Asks] /\ req'[r] = q /\ \A s \in Requests \ {r} : req'[s] = req[s]
  BY <1>1
<1>3. CacheTypes' /\ NodeIsCurrent'
  BY <1>2 DEF CacheInv, CacheTypes, NodeIsCurrent
<1>4. Read(r)'
  BY <1>2 DEF Read
<1>5. ASSUME NEW s \in Requests \ {r} PROVE Read(s)'
  BY <1>2 DEF CacheInv, Read
<1> QED BY <1>3, <1>4, <1>5 DEF CacheInv

LEMMA CacheTick ==
  ASSUME Cache!NodeCacheAssumption, CacheInv, Cache!Tick
  PROVE  CacheInv'
<1>1. /\ now \in Nat /\ node \in [Objects -> Nat] /\ MaxVersion \in Nat
      /\ \A k \in Objects : node[k] \in 0..MaxVersion
      /\ until \in [Objects -> [0..MaxVersion -> Nat]]
  BY DEF CacheInv, CacheTypes, Cache!NodeCacheAssumption
<1>2. /\ now' = now + 1 /\ UNCHANGED <<node, handled, cache, req>>
      /\ until' = [k \in Objects |-> [until[k] EXCEPT ![node[k]] = now + 1]]
      /\ \A r \in Requests : req[r].st \in {"asked", "read"} => now - req[r].at < TIMEOUT
  BY DEF Cache!Tick
<1>3. ASSUME NEW k \in Objects
      PROVE  /\ until'[k] \in [0..MaxVersion -> Nat] /\ until'[k][node[k]] = now + 1
             /\ \A v \in 0..MaxVersion : until[k][v] <= until'[k][v] /\ until'[k][v] <= now + 1
  BY <1>1, <1>2 DEF CacheInv, NodeIsCurrent
<1>4. until' \in [Objects -> [0..MaxVersion -> Nat]]
  BY <1>2, <1>3
<1>5. CacheTypes'
  BY <1>1, <1>2, <1>4 DEF CacheInv, CacheTypes
<1>6. NodeIsCurrent'
  BY <1>2, <1>3 DEF NodeIsCurrent
<1>7. \A j \in Objects : \A v \in 0..MaxVersion : until'[j][v] \in Nat /\ until[j][v] <= until'[j][v]
  BY <1>3
<1>8. KeptWasCurrent' /\ \A r \in Requests : Read(r)'
  BY <1>2, <1>7, LaterIsFine
<1> QED BY <1>5, <1>6, <1>8 DEF CacheInv

LEMMA CacheNodeMoves ==
  ASSUME Cache!NodeCacheAssumption, CacheInv, NEW k \in Objects, Cache!NodeMoves(k)
  PROVE  CacheInv'
<1>1. /\ now \in Nat /\ node \in [Objects -> Nat] /\ MaxVersion \in Nat
      /\ until \in [Objects -> [0..MaxVersion -> Nat]]
  BY DEF CacheInv, CacheTypes, Cache!NodeCacheAssumption
<1>2. /\ UNCHANGED <<now, handled, cache, req>> /\ node[k] < MaxVersion
      /\ node' = [node EXCEPT ![k] = @ + 1]
      /\ until' = [until EXCEPT ![k] = [until[k] EXCEPT ![node[k] + 1] = now]]
  BY DEF Cache!NodeMoves
<1>3. node[k] + 1 \in 0..MaxVersion /\ node'[k] = node[k] + 1 /\ \A j \in Objects \ {k} : node'[j] = node[j]
  BY <1>1, <1>2
<1>4. /\ until'[k] \in [0..MaxVersion -> Nat] /\ until'[k][node[k] + 1] = now
      /\ \A v \in 0..MaxVersion : until[k][v] <= until'[k][v] /\ until'[k][v] <= now
      /\ \A j \in Objects \ {k} : until'[j] = until[j]
  BY <1>1, <1>2, <1>3 DEF CacheInv, NodeIsCurrent
<1>5. until' \in [Objects -> [0..MaxVersion -> Nat]]
  BY <1>1, <1>2, <1>4
<1>6. CacheTypes'
  BY <1>1, <1>2, <1>3, <1>5 DEF CacheInv, CacheTypes
<1>7. NodeIsCurrent'
  <2> SUFFICES ASSUME NEW j \in Objects
               PROVE  until'[j][node'[j]] = now /\ \A v \in 0..MaxVersion : until'[j][v] <= now
    BY <1>2 DEF NodeIsCurrent
  <2>1. CASE j = k
    BY <1>3, <1>4, <2>1
  <2>2. CASE j # k
    BY <1>3, <1>4, <2>2 DEF CacheInv, NodeIsCurrent
  <2> QED BY <2>1, <2>2
<1>8. \A j \in Objects : \A v \in 0..MaxVersion : until'[j][v] \in Nat /\ until[j][v] <= until'[j][v]
  <2>1. ASSUME NEW j \in Objects, NEW v \in 0..MaxVersion
        PROVE  until'[j][v] \in Nat /\ until[j][v] <= until'[j][v]
    <3>1. until[j] \in [0..MaxVersion -> Nat] /\ until'[j] \in [0..MaxVersion -> Nat]
      BY <1>1, <1>5
    <3>2. until[j][v] \in Nat /\ until'[j][v] \in Nat
      BY <3>1
    <3>3. until[j][v] <= until'[j][v]
      BY <1>4, <3>2
    <3> QED BY <3>2, <3>3
  <2> QED BY <2>1
<1>9. KeptWasCurrent' /\ \A r \in Requests : Read(r)'
  BY <1>2, <1>8, LaterIsFine
<1> QED BY <1>6, <1>7, <1>9 DEF CacheInv

LEMMA CacheAsk ==
  ASSUME Cache!NodeCacheAssumption, CacheInv, NEW k \in Objects, NEW r \in Requests, Cache!Ask(r, k)
  PROVE  CacheInv'
<1>1. now \in Nat /\ handled \in Nat /\ cache \in [Objects -> Kept] /\ Cache!Seen(k) \in Nat /\ TIMEOUT \in Nat
      /\ cache[k] \in Kept
  BY DEF CacheInv, CacheTypes, Cache!Seen, Cache!NodeCacheAssumption
<1>2. UNCHANGED <<now, node, until, handled>>
  BY DEF Cache!Ask
<1>3. Cache!None \in Kept
  BY KeptIs DEF Cache!None
<1>4. CASE Cache!Fresh(k)
  <2> DEFINE q == [st |-> "done", key |-> k, at |-> now, v |-> cache[k].v, h |-> Cache!Seen(k)]
  <2>1. cache' = cache /\ req' = [req EXCEPT ![r] = q]
    BY <1>4 DEF Cache!Ask
  <2>2. cache[k].v \in Nat \cup {-1}
    BY <1>1, KeptFields
  <2>3. q \in Asks
    BY <1>1, <2>2, AskIs
  <2>4. q.st = "done" /\ q.key = k /\ q.v = cache[k].v
    OBVIOUS
  <2>5. k # Tip => cache[k].v # 0
    BY <1>4 DEF Cache!Fresh, CacheInv, KeptWasCurrent
  <2>6. KeptWasCurrent'
    BY <1>2, <2>1 DEF CacheInv, KeptWasCurrent
  <2> HIDE DEF q
  <2> QED BY <1>1, <1>2, <2>1, <2>3, <2>4, <2>5, <2>6, AskStep
<1>5. CASE ~Cache!Fresh(k)
  <2> DEFINE q == [st |-> "asked", key |-> k, at |-> now, v |-> -1, h |-> Cache!Seen(k)]
  <2>1. cache' = [cache EXCEPT ![k] = Cache!None] /\ req' = [req EXCEPT ![r] = q]
    BY <1>5 DEF Cache!Ask
  <2>2. q \in Asks
    BY <1>1, AskIs
  <2>3. q.st = "asked" /\ q.at = now
    OBVIOUS
  <2>4. now <= now /\ now - now <= TIMEOUT
    BY <1>1
  <2>5. cache' \in [Objects -> Kept]
    BY <1>1, <1>3, <2>1
  <2>6. KeptWasCurrent'
    <3>1. cache'[k] = Cache!None /\ \A j \in Objects \ {k} : cache'[j] = cache[j]
      BY <1>1, <2>1
    <3> QED BY <1>2, <3>1 DEF CacheInv, KeptWasCurrent
  <2> HIDE DEF q
  <2> QED BY <1>2, <2>1, <2>2, <2>3, <2>4, <2>5, <2>6, AskStep
<1> QED BY <1>4, <1>5

LEMMA CacheNodeReads ==
  ASSUME Cache!NodeCacheAssumption, CacheInv, NEW r \in Requests, Cache!NodeReads(r)
  PROVE  CacheInv'
<1> DEFINE k == req[r].key  q == [req[r] EXCEPT !.st = "read", !.v = node[k]]
<1>1. /\ req \in [Requests -> Asks] /\ req[r] \in Asks /\ now \in Nat /\ TIMEOUT \in Nat
      /\ node \in [Objects -> Nat] /\ \A j \in Objects : node[j] <= MaxVersion
      /\ MaxVersion \in Nat /\ cache \in [Objects -> Kept]
  BY DEF CacheInv, CacheTypes, Cache!NodeCacheAssumption
<1>2. k \in Objects /\ req[r].at \in Nat
  BY <1>1, AskFields
<1>3. UNCHANGED <<now, node, until, handled, cache>> /\ req[r].st = "asked"
  BY DEF Cache!NodeReads
<1>4. req' = [req EXCEPT ![r] = q]
  BY DEF Cache!NodeReads
<1>5. node[k] \in 0..MaxVersion /\ node[k] \in Nat \cup {-1}
  BY <1>1, <1>2
<1>6. q \in Asks /\ q.st = "read" /\ q.v = node[k] /\ q.key = k /\ q.at = req[r].at
  <2> HIDE DEF k
  <2> DEFINE a == req[r]  n == node[k]  s == "read"
  <2>1. a \in Asks /\ n \in Nat \cup {-1} /\ q = [a EXCEPT !.st = s, !.v = n] /\ k = a.key
    BY <1>1, <1>5 DEF k
  <2>2. s \in {"idle", "asked", "read", "done"}
    OBVIOUS
  <2> HIDE DEF a, n, s, q
  <2>3. q \in Asks /\ q.st = s /\ q.v = n /\ q.key = a.key /\ q.at = a.at
    BY <2>1, <2>2 DEF Asks
  <2> QED BY <2>1, <2>3 DEF a, n, s
<1>7. req[r].at <= now /\ now - req[r].at <= TIMEOUT
  BY <1>3 DEF CacheInv, Read
<1>8. until[k][node[k]] >= req[r].at
  <2>1. until[k][node[k]] = now
    BY <1>2 DEF CacheInv, NodeIsCurrent
  <2> QED BY <1>1, <1>2, <1>7, <2>1
<1>9. KeptWasCurrent'
  BY <1>3 DEF CacheInv, KeptWasCurrent
<1> HIDE DEF q
<1> QED BY <1>1, <1>3, <1>4, <1>5, <1>6, <1>7, <1>8, <1>9, AskStep

LEMMA CacheAnswer ==
  ASSUME Cache!NodeCacheAssumption, CacheInv, NEW r \in Requests, Cache!Answer(r)
  PROVE  CacheInv'
<1> DEFINE k == req[r].key  v == req[r].v  q == [req[r] EXCEPT !.st = "done"]
<1>1. /\ req \in [Requests -> Asks] /\ req[r] \in Asks /\ now \in Nat /\ TIMEOUT \in Nat
      /\ MaxVersion \in Nat /\ cache \in [Objects -> Kept] /\ until \in [Objects -> [0..MaxVersion -> Nat]]
  BY DEF CacheInv, CacheTypes, Cache!NodeCacheAssumption
<1>2. k \in Objects /\ req[r].at \in Nat /\ v \in Nat \cup {-1}
  BY <1>1, AskFields
<1>3. UNCHANGED <<now, node, until, handled>> /\ req[r].st = "read"
  BY DEF Cache!Answer
<1>4. req' = [req EXCEPT ![r] = q]
  BY DEF Cache!Answer
<1>5. q \in Asks /\ q.st = "done" /\ q.v = v /\ q.key = k /\ q.at = req[r].at
  BY <1>1, AskMoves
<1>6. v \in 0..MaxVersion /\ until[k][v] >= req[r].at /\ req[r].at <= now /\ now - req[r].at <= TIMEOUT
  BY <1>3 DEF CacheInv, Read
<1>7. until[k][v] \in Nat
  BY <1>1, <1>2, <1>6
<1>8. now - until[k][v] <= TIMEOUT
  BY <1>1, <1>2, <1>6, <1>7
<1> DEFINE c == [cache EXCEPT ![k] = [at |-> now, v |-> v]]
<1>9. cache' = IF k # Tip /\ v = 0 THEN cache ELSE c
  BY DEF Cache!Answer
<1>10. /\ [at |-> now, v |-> v] \in Kept /\ [at |-> now, v |-> v].at = now /\ [at |-> now, v |-> v].v = v
  BY <1>1, <1>2, KeptIs
<1>11. c \in [Objects -> Kept]
  BY <1>1, <1>2, <1>10
<1>12. c[k].at = now /\ c[k].v = v /\ \A j \in Objects \ {k} : c[j] = cache[j]
  BY <1>1, <1>2, <1>10
<1> HIDE DEF q, k, v, c
<1>13. CASE k # Tip /\ v = 0
  <2>1. cache' = cache
    BY <1>9, <1>13
  <2>2. KeptWasCurrent'
    BY <1>3, <2>1 DEF CacheInv, KeptWasCurrent
  <2> QED BY <1>1, <1>3, <1>4, <1>5, <1>6, <2>1, <2>2, AskStep
<1>14. CASE ~(k # Tip /\ v = 0)
  <2>1. cache' = c
    BY <1>9, <1>14
  <2>2. KeptWasCurrent'
    BY <1>3, <1>6, <1>8, <1>12, <1>14, <2>1 DEF CacheInv, KeptWasCurrent
  <2> QED BY <1>3, <1>4, <1>5, <1>6, <1>11, <2>1, <2>2, AskStep
<1> QED BY <1>13, <1>14

LEMMA CacheGiveUp ==
  ASSUME Cache!NodeCacheAssumption, CacheInv, NEW r \in Requests, Cache!GiveUp(r)
  PROVE  CacheInv'
<1>1. Tip \in Objects /\ cache \in [Objects -> Kept]
  BY DEF Cache!NodeCacheAssumption, CacheInv, CacheTypes
<1>2. Cache!Idle \in Asks /\ Cache!Idle.st = "idle"
  BY <1>1, AskIs DEF Cache!Idle
<1>3. UNCHANGED <<now, node, until, handled, cache>> /\ req' = [req EXCEPT ![r] = Cache!Idle]
  BY DEF Cache!GiveUp
<1>4. KeptWasCurrent'
  BY <1>3 DEF CacheInv, KeptWasCurrent
<1> QED BY <1>1, <1>2, <1>3, <1>4, AskStep

LEMMA CacheInvStep ==
  ASSUME Cache!NodeCacheAssumption, CacheInv, [Cache!Next]_(Cache!vars)
  PROVE  CacheInv'
<1>1. CASE Cache!Tick
  BY <1>1, CacheTick
<1>2. CASE Cache!Ingest
  <2>1. UNCHANGED <<now, node, until, cache, req>> /\ handled' = node[Tip] /\ Tip \in Objects
    BY <1>2 DEF Cache!Ingest, Cache!NodeCacheAssumption
  <2>2. handled' \in Nat
    BY <2>1 DEF CacheInv, CacheTypes
  <2> QED BY <2>1, <2>2 DEF CacheInv, CacheTypes, NodeIsCurrent, KeptWasCurrent, Read
<1>3. ASSUME NEW k \in Objects, Cache!NodeMoves(k) PROVE CacheInv'
  BY <1>3, CacheNodeMoves
<1>4. ASSUME NEW k \in Objects, NEW r \in Requests, Cache!Ask(r, k) PROVE CacheInv'
  BY <1>4, CacheAsk
<1>5. ASSUME NEW r \in Requests, Cache!NodeReads(r) \/ Cache!Answer(r) \/ Cache!GiveUp(r) PROVE CacheInv'
  BY <1>5, CacheNodeReads, CacheAnswer, CacheGiveUp
<1>6. CASE UNCHANGED Cache!vars
  BY <1>6 DEF Cache!vars, CacheInv, CacheTypes, NodeIsCurrent, KeptWasCurrent, Read
<1> QED BY <1>1, <1>2, <1>3, <1>4, <1>5, <1>6 DEF Cache!Next

LEMMA CacheInvAlways ==
  ASSUME Cache!NodeCacheAssumption
  PROVE  Cache!Spec => []CacheInv
<1>1. Cache!Init => CacheInv
  BY CacheInvAtFirst
<1>2. CacheInv /\ [Cache!Next]_(Cache!vars) => CacheInv'
  BY CacheInvStep
<1> QED BY <1>1, <1>2, PTL DEF Cache!Spec

\* Whoever stores last, an older answer with a fresh time to live included, what is
\* served from a cache was the node's value less than the time to live and the
\* longest request ago (ObjectProxy::cached, ChainTip::latest).
THEOREM ServedIsRecent ==
  ASSUME Cache!NodeCacheAssumption
  PROVE  Cache!Spec => []Cache!BoundedStale
<1>1. CacheInv => Cache!BoundedStale
  <2> SUFFICES ASSUME CacheInv, NEW k \in Objects, Cache!Fresh(k)
               PROVE  now - until[k][cache[k].v] < TTL + TIMEOUT
    BY DEF Cache!BoundedStale
  <2>1. cache[k] # Cache!None /\ now - cache[k].at < TTL
    BY DEF Cache!Fresh
  <2>2. cache[k].v \in 0..MaxVersion /\ cache[k].at - until[k][cache[k].v] <= TIMEOUT
    BY <2>1 DEF CacheInv, KeptWasCurrent
  <2>3. /\ now \in Nat /\ cache[k].at \in Nat /\ until[k][cache[k].v] \in Nat
        /\ TTL \in Nat /\ TIMEOUT \in Nat
    BY <2>2, KeptFields DEF CacheInv, CacheTypes, Cache!NodeCacheAssumption
  <2> QED BY <2>1, <2>2, <2>3
<1> QED BY <1>1, CacheInvAlways, PTL

\* A missing object is asked for again each time, so one that exists when it is
\* asked for is not reported missing (ObjectProxy::object).
THEOREM MissingWasMissing ==
  ASSUME Cache!NodeCacheAssumption
  PROVE  Cache!Spec => []Cache!NotFoundIsTrue
<1>1. CacheInv => Cache!NotFoundIsTrue
  BY DEF CacheInv, Read, Cache!NotFoundIsTrue, Cache!Done
<1> QED BY <1>1, CacheInvAlways, PTL
=============================================================================
