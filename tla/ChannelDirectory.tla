-------------------------- MODULE ChannelDirectory --------------------------
(***************************************************************************)
(* What a foxglove bridge promises to its clients, whatever threads and    *)
(* maps it is made of: a directory of channels, one per topic, that the    *)
(* clients are told of, and a stream of messages for every channel that a  *)
(* client wants.  ros2_foxglove_bridge and ros1_foxglove_bridge both       *)
(* implement it.                                                           *)
(***************************************************************************)
EXTENDS Naturals

CONSTANTS Clients, Topics, MaxId

VARIABLES
  lastId,   \* channel ids are 1, 2, ... in the order of their creation
  offered,  \* the channels: pairs <<channel id, topic>>
  status,   \* of a client: "none", "open", "lost", "closed"
  view,     \* the channel ids that an open client was told of
  wanted,   \* per client, the channel ids it subscribed to
  streams   \* pairs <<channel id, client>>: the bridge subscribed to the topic

dirVars == <<lastId, offered, status, view, wanted, streams>>

Ids == {o[1] : o \in offered}

DirInit ==
  /\ lastId = 0
  /\ offered = {}
  /\ status = [c \in Clients |-> "none"]
  /\ view = [c \in Clients |-> {}]
  /\ wanted = [c \in Clients |-> {}]
  /\ streams = {}

\* A topic gets a channel with an id that was never used.
Offer(t) ==
  /\ lastId < MaxId
  /\ \A o \in offered : o[2] # t
  /\ lastId' = lastId + 1
  /\ offered' = offered \union {<<lastId + 1, t>>}
  /\ UNCHANGED <<status, view, wanted, streams>>

\* A channel goes away, and with it, at once, all that depends on it.
Withdraw(id) ==
  /\ id \in Ids
  /\ offered' = {o \in offered : o[1] # id}
  /\ view' = [c \in Clients |-> view[c] \ {id}]
  /\ wanted' = [c \in Clients |-> wanted[c] \ {id}]
  /\ streams' = {s \in streams : s[1] # id}
  /\ UNCHANGED <<lastId, status>>

\* All open clients are told of all channels.
Announce ==
  /\ view' = [c \in Clients |-> IF status[c] = "open" THEN Ids ELSE {}]
  /\ UNCHANGED <<lastId, offered, status, wanted, streams>>

Refuse(c) ==
  /\ status[c] = "none"
  /\ status' = [status EXCEPT ![c] = "closed"]
  /\ UNCHANGED <<lastId, offered, view, wanted, streams>>

\* A new client is told of all channels.
Connect(c) ==
  /\ status[c] = "none"
  /\ status' = [status EXCEPT ![c] = "open"]
  /\ view' = [view EXCEPT ![c] = Ids]
  /\ UNCHANGED <<lastId, offered, wanted, streams>>

Lose(c) ==
  /\ status[c] = "open"
  /\ status' = [status EXCEPT ![c] = "lost"]
  /\ view' = [view EXCEPT ![c] = {}]
  /\ UNCHANGED <<lastId, offered, wanted, streams>>

\* A lost client wants nothing any more, ...
Forget(c) ==
  /\ status[c] = "lost"
  /\ wanted' = [wanted EXCEPT ![c] = {}]
  /\ UNCHANGED <<lastId, offered, status, view, streams>>

\* ... and is gone once it has no stream left.
Close(c) ==
  /\ status[c] = "lost"
  /\ wanted[c] = {}
  /\ \A s \in streams : s[2] # c
  /\ status' = [status EXCEPT ![c] = "closed"]
  /\ UNCHANGED <<lastId, offered, view, wanted, streams>>

\* Clients want only what is offered.  What they sent before they were lost is
\* still served.
Want(c, id) ==
  /\ status[c] \in {"open", "lost"}
  /\ id \in Ids
  /\ wanted' = [wanted EXCEPT ![c] = @ \union {id}]
  /\ UNCHANGED <<lastId, offered, status, view, streams>>

Unwant(c, id) ==
  /\ wanted' = [wanted EXCEPT ![c] = @ \ {id}]
  /\ UNCHANGED <<lastId, offered, status, view, streams>>

\* A stream starts only for a client that wants it, and ends only for one that
\* does not.
StartStream(c, id) ==
  /\ id \in wanted[c]
  /\ streams' = streams \union {<<id, c>>}
  /\ UNCHANGED <<lastId, offered, status, view, wanted>>

EndStream(c, id) ==
  /\ id \notin wanted[c]
  /\ streams' = streams \ {<<id, c>>}
  /\ UNCHANGED <<lastId, offered, status, view, wanted>>

DirNext ==
  \/ \E t \in Topics : Offer(t)
  \/ \E id \in 1..MaxId : Withdraw(id)
  \/ Announce
  \/ \E c \in Clients : \/ Refuse(c) \/ Connect(c) \/ Lose(c)
                        \/ Forget(c) \/ Close(c)
  \/ \E c \in Clients, id \in 1..MaxId :
       Want(c, id) \/ Unwant(c, id) \/ StartStream(c, id) \/ EndStream(c, id)

DirSpec == DirInit /\ [][DirNext]_dirVars
=============================================================================
