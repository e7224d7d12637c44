---------------------------- MODULE MarketStream ----------------------------
(***************************************************************************)
(* apps/api: GET /stream/market.  Each stream awaits one subscription per  *)
(* channel on the process's single Redis subscriber and only then registers *)
(* what to do when its client goes away.  Unsubscribing names the channel  *)
(* and no listener.                                                        *)
(***************************************************************************)
EXTENDS Integers, SequencesExt

CONSTANTS
    Streams,        \* the event streams clients ever open
    Channels,       \* buildSymbolChannels: the order of subscription
    Wanted,         \* the channels each stream's client has a listener for
    MaxEvents       \* bound on the records of each channel

ASSUME MarketStreamAssumption ==
    /\ Channels # << >> /\ Channels \in Seq(ToSet(Channels)) /\ IsInjective(Channels)
    /\ Wanted \in [Streams -> SUBSET ToSet(Channels)]
    /\ MaxEvents \in [ToSet(Channels) -> Nat]

VARIABLES
    handler,        \* subscriptions made by each stream's route, or Unopened
    client,         \* "here", or when it left: "early", "late"
    listeners,      \* the streams each channel of the subscriber calls
    unsubscribing,  \* unsubscribe commands under way
    stored,         \* records of each channel inserted so far
    published,      \* records of each channel published so far
    pipe            \* the events on their way to each client

hub == <<handler, client, listeners, unsubscribing>>
feed == <<stored, published>>
streamVars == <<hub, feed, pipe>>

Unopened == -1
ChannelSet == ToSet(Channels)

\* The route is past its last await, its close handler is registered.
Registered(k) == handler[k] = Len(Channels)

StreamInit ==
    /\ handler = [k \in Streams |-> Unopened]
    /\ client = [k \in Streams |-> "here"]
    /\ listeners = [c \in ChannelSet |-> {}]
    /\ unsubscribing = {}
    /\ stored = [c \in ChannelSet |-> 0]
    /\ published = [c \in ChannelSet |-> 0]
    /\ pipe = [k \in Streams |-> << >>]

\* reply.hijack() and the headers.
Open(k) ==
    /\ handler[k] = Unopened /\ client[k] = "here"
    /\ handler' = [handler EXCEPT ![k] = 0]
    /\ UNCHANGED <<client, listeners, unsubscribing, feed, pipe>>

\* One turn of the loop over the channels, whether or not the client is still
\* there.
Subscribe(k) ==
    /\ handler[k] \in 0..(Len(Channels) - 1)
    /\ handler' = [handler EXCEPT ![k] = @ + 1]
    /\ listeners' = [listeners EXCEPT ![Channels[handler'[k]]] = @ \cup {k}]
    /\ UNCHANGED <<client, unsubscribing, feed, pipe>>

\* Mutants of Leave: only the first channel is unsubscribed; the close handler
\* is registered before the subscriptions.
LeaveFirst(k) ==
    /\ handler[k] # Unopened /\ client[k] = "here"
    /\ client' = [client EXCEPT ![k] = IF Registered(k) THEN "late" ELSE "early"]
    /\ unsubscribing' = unsubscribing \cup
        {<<k, c>> : c \in IF Registered(k) THEN {Channels[1]} ELSE {}}
    /\ pipe' = [pipe EXCEPT ![k] = << >>]
    /\ UNCHANGED <<handler, listeners, feed>>

LeaveRegisteredFirst(k) ==
    /\ handler[k] # Unopened /\ client[k] = "here"
    /\ client' = [client EXCEPT ![k] = IF Registered(k) THEN "late" ELSE "early"]
    /\ unsubscribing' = unsubscribing \cup {<<k, c>> : c \in ChannelSet}
    /\ pipe' = [pipe EXCEPT ![k] = << >>]
    /\ UNCHANGED <<handler, listeners, feed>>

\* The client closes its stream.  The close event calls what is registered.
Leave(k) ==
    /\ handler[k] # Unopened /\ client[k] = "here"
    /\ client' = [client EXCEPT ![k] = IF Registered(k) THEN "late" ELSE "early"]
    /\ unsubscribing' = unsubscribing \cup
        {<<k, c>> : c \in IF Registered(k) THEN ChannelSet ELSE {}}
    /\ pipe' = [pipe EXCEPT ![k] = << >>]
    /\ UNCHANGED <<handler, listeners, feed>>

\* unsubscribe(channel) takes effect: the Redis client drops every listener.
Unsubscribe(k, c) ==
    /\ <<k, c>> \in unsubscribing
    /\ unsubscribing' = unsubscribing \ {<<k, c>>}
    /\ listeners' = [listeners EXCEPT ![c] = {}]
    /\ UNCHANGED <<handler, client, feed, pipe>>

\* services/market-data inserts the next record of a channel; here records of
\* one channel settle one after another, FeedIngest is about those that do not.
Store(c) ==
    /\ stored[c] < MaxEvents[c] /\ stored[c] = published[c]
    /\ stored' = [stored EXCEPT ![c] = @ + 1]
    /\ UNCHANGED <<hub, published, pipe>>

\* Mutant of Publish: before the record is stored.
PublishFirst(c) ==
    /\ published[c] < MaxEvents[c]
    /\ published' = [published EXCEPT ![c] = @ + 1]
    /\ pipe' = [k \in Streams |->
                    IF k \in listeners[c] /\ client[k] = "here" /\ c \in Wanted[k]
                    THEN Append(pipe[k], [channel |-> c, no |-> published'[c]])
                    ELSE pipe[k]]
    /\ UNCHANGED <<hub, stored>>

\* It publishes the record afterwards: the listeners write it to their streams.
Publish(c) ==
    /\ published[c] < stored[c]
    /\ published' = [published EXCEPT ![c] = @ + 1]
    /\ pipe' = [k \in Streams |->
                    IF k \in listeners[c] /\ client[k] = "here" /\ c \in Wanted[k]
                    THEN Append(pipe[k], [channel |-> c, no |-> published'[c]])
                    ELSE pipe[k]]
    /\ UNCHANGED <<hub, stored>>

StreamNext ==
    \/ \E k \in Streams : Open(k) \/ Subscribe(k) \/ Leave(k)
    \/ \E k \in Streams, c \in ChannelSet : Unsubscribe(k, c)
    \/ \E c \in ChannelSet : Store(c) \/ Publish(c)

-----------------------------------------------------------------------------

StreamTypeOK ==
    /\ handler \in [Streams -> Unopened..Len(Channels)]
    /\ client \in [Streams -> {"here", "early", "late"}]
    /\ listeners \in [ChannelSet -> SUBSET Streams]
    /\ unsubscribing \subseteq Streams \X ChannelSet
    /\ \A c \in ChannelSet : stored[c] \in 0..MaxEvents[c] /\ published[c] \in 0..stored[c]

\* Unsubscribing names no listener, so a stream that is fully subscribed may go
\* silent while its client waits.  It does so only after another one left, and
\* only after that one was itself fully subscribed.
OnlyLeaversSilence ==
    \A k \in Streams, c \in ChannelSet :
        Registered(k) /\ client[k] = "here" /\ k \notin listeners[c] =>
            \E other \in Streams \ {k} : client[other] = "late"

\* A stream whose client left after the close handler was registered is not
\* called any more once its commands are through.  One that left before is
\* called until somebody else's unsubscription happens to drop it.
LeaversAreForgotten ==
    \A k \in Streams, c \in ChannelSet :
        client[k] = "late" /\ k \in listeners[c] => <<k, c>> \in unsubscribing

=============================================================================
