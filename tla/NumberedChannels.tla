-------------------------- MODULE NumberedChannels --------------------------
(***************************************************************************)
(* What the sequence stores promise, without files, connections and        *)
(* processes: every channel has one counter, which never goes back; a      *)
(* message takes the next number of its peer's channel and is received or  *)
(* lost before the next one is numbered.                                   *)
(***************************************************************************)
EXTENDS Naturals, Sequences

CONSTANT Channels

VARIABLES
    channel,   \* the channel of each peer; peers may share one
    counter,
    inFlight,  \* the message that was numbered last, while it is sent
    received,  \* the numbers each peer has got, in order
    lost

nvars == <<channel, counter, inFlight, received, lost>>

NInit ==
    /\ \A p \in DOMAIN channel : channel[p] \in Channels
    /\ counter = [c \in Channels |-> 0]
    /\ inFlight = {}
    /\ received = [p \in DOMAIN channel |-> <<>>]
    /\ lost = {}

Number(p) ==
    /\ inFlight = {}
    /\ counter' = [counter EXCEPT ![channel[p]] = @ + 1]
    /\ inFlight' = {[to |-> p, number |-> counter[channel[p]] + 1]}
    /\ UNCHANGED <<channel, received, lost>>

Receive(m) ==
    /\ received' = [received EXCEPT ![m.to] = Append(@, m.number)]
    /\ inFlight' = {}
    /\ UNCHANGED <<channel, counter, lost>>

Lose(m) ==
    /\ lost' = lost \cup {m}
    /\ inFlight' = {}
    /\ UNCHANGED <<channel, counter, received>>

NNext ==
    \/ \E p \in DOMAIN channel : Number(p)
    \/ \E m \in inFlight : Receive(m) \/ Lose(m)

NSpec == NInit /\ [][NNext]_nvars

=============================================================================
