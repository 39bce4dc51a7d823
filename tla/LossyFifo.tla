----------------------------- MODULE LossyFifo -----------------------------
(***************************************************************************)
(* What asynchronous sending promises: messages, numbered as the           *)
(* application takes them from its store, are delivered in that order or   *)
(* lost, each once.  One is lost when it is its turn (its send fails) or   *)
(* on entry (the queue is full), never from the middle.                    *)
(***************************************************************************)
EXTENDS Naturals, Sequences

VARIABLES
    last,       \* how many messages have been taken
    channel,    \* those on their way, the oldest first
    delivered,
    lost

fvars == <<last, channel, delivered, lost>>

Take ==
    /\ last' = last + 1
    /\ channel' = Append(channel, last + 1)
    /\ UNCHANGED <<delivered, lost>>

Deliver ==
    /\ channel # <<>>
    /\ delivered' = Append(delivered, Head(channel))
    /\ channel' = Tail(channel)
    /\ UNCHANGED <<last, lost>>

LoseOldest ==
    /\ channel # <<>>
    /\ lost' = lost \cup {Head(channel)}
    /\ channel' = Tail(channel)
    /\ UNCHANGED <<last, delivered>>

LoseNewest ==
    /\ channel # <<>>
    /\ lost' = lost \cup {channel[Len(channel)]}
    /\ channel' = SubSeq(channel, 1, Len(channel) - 1)
    /\ UNCHANGED <<last, delivered>>

FInit == last = 0 /\ channel = <<>> /\ delivered = <<>> /\ lost = {}

FNext == Take \/ Deliver \/ LoseOldest \/ LoseNewest

FSpec == FInit /\ [][FNext]_fvars

=============================================================================
