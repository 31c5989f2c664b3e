------------------------------ MODULE LiveHub ------------------------------
(***************************************************************************)
(* The live pushes of the indexer (ws.rs, api/routes/ws.rs): the ingestion *)
(* stores an event and then publishes it to the channels its payload names,*)
(* each socket pumps the frames of one channel to its client.  A channel is*)
(* a ring of frames shared by its subscribers, and sockets are capped.     *)
(* The client is one of backend.md §5.2: it waits for the handshake, reads *)
(* the history over REST and then goes by the frames.                      *)
(***************************************************************************)
EXTENDS Integers, FiniteSets, Sequences

CONSTANTS
  Keys,              \* asset:<id>, address:<addr>, dispute:<id>
  Conns,
  CHANNEL_CAPACITY,
  MaxWs,             \* the cap of api/limit.rs
  MaxEvents

LiveHubAssumption ==
  /\ IsFiniteSet(Keys) /\ IsFiniteSet(Conns) /\ MaxEvents \in Nat
  /\ {CHANNEL_CAPACITY, MaxWs} \subseteq Nat \ {0}

VARIABLES
  stored,      \* the keys of each event in the store, in order
  published,   \* how many of them have been published
  senders,     \* the keys with a sender
  frames,      \* per key, the events sent to its sender
  conn,        \* the sockets: how far they got, their key, their next frame
  permits, gauge,
  history,     \* what each client read over REST
  got,         \* what each client was sent, in order
  missed       \* the frames each socket skipped

hub == <<stored, published, senders, frames>>
client == <<history, got, missed>>
vars == <<hub, conn, permits, gauge, client>>

Off == [st |-> "off", key |-> "", next |-> 1]
Live(c) == conn[c].st \in {"subscribed", "connected"}

-----------------------------------------------------------------------------
(* The ingestion. *)
Store(ks) ==
  /\ Len(stored) < MaxEvents /\ published = Len(stored)
  /\ stored' = Append(stored, ks)
  /\ UNCHANGED <<published, senders, frames, conn, permits, gauge, client>>

Send(e, ks) == [k \in Keys |-> IF k \in ks \cap senders THEN Append(frames[k], e) ELSE frames[k]]

\* A key nobody ever subscribed to has no sender.
publish_event ==
  /\ published < Len(stored)
  /\ published' = published + 1
  /\ frames' = Send(published', stored[published'])
  /\ UNCHANGED <<stored, senders, conn, permits, gauge, client>>

-----------------------------------------------------------------------------
(* A socket. *)
\* The cap is full, or the upgrade holds a permit.
Upgrade(c, k) ==
  /\ conn[c].st = "off" /\ permits > 0
  /\ permits' = permits - 1
  /\ conn' = [conn EXCEPT ![c] = [st |-> "upgraded", key |-> k, next |-> 1]]
  /\ UNCHANGED <<hub, gauge, client>>

\* The receiver sees what is sent from here on.
\* Mutant: the first subscriber of a key creates no sender.
Subscribe_NoSender(c) ==
  LET k == conn[c].key IN
  /\ conn[c].st = "upgraded"
  /\ conn' = [conn EXCEPT ![c].st = "subscribed", ![c].next = Len(frames[k]) + 1]
  /\ gauge' = gauge + 1
  /\ UNCHANGED <<hub, permits, client>>
Subscribe(c) ==
  LET k == conn[c].key IN
  /\ conn[c].st = "upgraded"
  /\ senders' = senders \cup {k}
  /\ conn' = [conn EXCEPT ![c].st = "subscribed", ![c].next = Len(frames[k]) + 1]
  /\ gauge' = gauge + 1
  /\ UNCHANGED <<stored, published, frames, permits, client>>

\* The socket ends: its permit and its place in the gauge are given back, and
\* what its client had of it is of no more account.
\* Mutant: a handshake that fails leaves its place in the gauge.
End_KeepsGauge(c) ==
  /\ permits' = permits + 1
  /\ gauge' = IF conn[c].st = "subscribed" THEN gauge ELSE gauge - 1
  /\ conn' = [conn EXCEPT ![c] = Off]
  /\ history' = [history EXCEPT ![c] = -1] /\ got' = [got EXCEPT ![c] = <<>>]
  /\ missed' = [missed EXCEPT ![c] = {}]
  /\ UNCHANGED hub
End(c) ==
  /\ permits' = permits + 1 /\ gauge' = gauge - 1
  /\ conn' = [conn EXCEPT ![c] = Off]
  /\ history' = [history EXCEPT ![c] = -1] /\ got' = [got EXCEPT ![c] = <<>>]
  /\ missed' = [missed EXCEPT ![c] = {}]
  /\ UNCHANGED hub

Hello(c) ==
  /\ conn[c].st = "subscribed"
  /\ conn' = [conn EXCEPT ![c].st = "connected"]
  /\ UNCHANGED <<hub, permits, gauge, client>>

\* What the ring still holds starts here.
Oldest(k) ==
  IF Len(frames[k]) > CHANNEL_CAPACITY THEN Len(frames[k]) - CHANNEL_CAPACITY + 1 ELSE 1

\* The next frame, or, too far behind, the oldest the ring holds.
\* Mutant: whoever is too far behind goes on with the newest.
Pump_Newest(c) ==
  LET k == conn[c].key  n == conn[c].next IN
  /\ conn[c].st = "connected" /\ n <= Len(frames[k])
  /\ IF n >= Oldest(k)
     THEN /\ got' = [got EXCEPT ![c] = Append(@, frames[k][n])]
          /\ conn' = [conn EXCEPT ![c].next = n + 1]
          /\ UNCHANGED missed
     ELSE /\ missed' = [missed EXCEPT ![c] = @ \cup {frames[k][i] : i \in n..(Len(frames[k]) - 1)}]
          /\ conn' = [conn EXCEPT ![c].next = Len(frames[k])]
          /\ UNCHANGED got
  /\ UNCHANGED <<hub, permits, gauge, history>>
\* Mutant: a socket that is too far behind is left where it is.
Pump_Stalls(c) ==
  LET k == conn[c].key  n == conn[c].next IN
  /\ conn[c].st = "connected" /\ n <= Len(frames[k]) /\ n >= Oldest(k)
  /\ got' = [got EXCEPT ![c] = Append(@, frames[k][n])]
  /\ conn' = [conn EXCEPT ![c].next = n + 1]
  /\ UNCHANGED <<hub, permits, gauge, history, missed>>
Pump(c) ==
  LET k == conn[c].key  n == conn[c].next IN
  /\ conn[c].st = "connected" /\ n <= Len(frames[k])
  /\ IF n >= Oldest(k)
     THEN /\ got' = [got EXCEPT ![c] = Append(@, frames[k][n])]
          /\ conn' = [conn EXCEPT ![c].next = n + 1]
          /\ UNCHANGED missed
     ELSE /\ missed' = [missed EXCEPT ![c] = @ \cup {frames[k][i] : i \in n..(Oldest(k) - 1)}]
          /\ conn' = [conn EXCEPT ![c].next = Oldest(k)]
          /\ UNCHANGED got
  /\ UNCHANGED <<hub, permits, gauge, history>>

\* A send fails, or the client closes.
Close(c) == Live(c) /\ End(c)

-----------------------------------------------------------------------------
(* The client. *)
ReadHistory(c) ==
  /\ conn[c].st = "connected" /\ history[c] = -1
  /\ history' = [history EXCEPT ![c] = Len(stored)]
  /\ UNCHANGED <<hub, conn, permits, gauge, got, missed>>

-----------------------------------------------------------------------------
Init ==
  /\ stored = <<>> /\ published = 0 /\ senders = {} /\ frames = [k \in Keys |-> <<>>]
  /\ conn = [c \in Conns |-> Off] /\ permits = MaxWs /\ gauge = 0
  /\ history = [c \in Conns |-> -1] /\ got = [c \in Conns |-> <<>>]
  /\ missed = [c \in Conns |-> {}]

Next ==
  \/ \E ks \in SUBSET Keys \ {{}} : Store(ks)
  \/ publish_event
  \/ \E c \in Conns : \/ \E k \in Keys : Upgrade(c, k)
                      \/ Subscribe(c) \/ Hello(c) \/ Pump(c) \/ Close(c) \/ ReadHistory(c)

Spec == Init /\ [][Next]_vars

\* The ingestion publishes what it stored; the task of a socket runs, and its
\* client takes what it is sent.
FairSpec ==
  /\ Spec /\ WF_vars(publish_event)
  /\ \A c \in Conns : WF_vars(Hello(c)) /\ WF_vars(Pump(c))

-----------------------------------------------------------------------------
Elements(s) == {s[i] : i \in 1..Len(s)}
Concerns(c, e) == conn[c].key \in stored[e]
Due(c) == {frames[conn[c].key][i] : i \in conn[c].next..Len(frames[conn[c].key])}

TypeOK ==
  /\ published \in {Len(stored), Len(stored) - 1} /\ published >= 0
  /\ permits \in 0..MaxWs /\ gauge \in 0..MaxWs /\ senders \subseteq Keys
  /\ \A k \in Keys : frames[k] # <<>> => k \in senders
  /\ \A c \in Conns : conn[c].st \in {"off", "upgraded", "subscribed", "connected"}

\* Between the history it reads and the frames it is sent, a client that waits for
\* the handshake misses nothing its socket did not skip, however storing,
\* publishing, subscribing and reading fall (run, publish_event, process_event).
NothingSlips ==
  \A c \in Conns : conn[c].st = "connected" /\ history[c] # -1 =>
    \A e \in 1..published : Concerns(c, e) /\ e > history[c] =>
      e \in Elements(got[c]) \cup missed[c] \cup Due(c)

\* Frames come in the order of the events, none twice, and one is skipped only by
\* a socket that fell a whole ring behind it (Hub, RecvError::Lagged).
InOrder ==
  \A c \in Conns :
    /\ \A i, j \in 1..Len(got[c]) : i < j => got[c][i] < got[c][j]
    /\ missed[c] \cap Elements(got[c]) = {}
    /\ \A e \in missed[c] :
         Cardinality({f \in e + 1..published : Concerns(c, f)}) >= CHANNEL_CAPACITY

\* However sockets end, before or after their handshake, their slots come back and
\* the gauge counts the ones that live (run, WsPermit).
SlotsExact ==
  /\ permits + Cardinality({c \in Conns : conn[c].st # "off"}) = MaxWs
  /\ gauge = Cardinality({c \in Conns : Live(c)})

Awaits(c, e) == Live(c) /\ e \in Due(c)
Served(c, e) == ~Live(c) \/ e \in Elements(got[c]) \cup missed[c]

\* A client that stays is sent every frame its socket did not skip.
Delivered == \A c \in Conns : \A e \in 1..MaxEvents : []<>(Awaits(c, e) => Served(c, e))
=============================================================================
