--------------------------- MODULE ProtocolSession ---------------------------
(***************************************************************************)
(* ProtocolA and ProtocolB in the running process: session messages and    *)
(* their answers, and the number every outgoing message takes from the     *)
(* session's SequenceStore before it is written to the socket.  A handler  *)
(* is cut into its writes, for the process may end between any two.        *)
(*                                                                         *)
(* A session is known by its place in config.  Frames are whole here       *)
(* (Transport cuts them), and who answers an application message is open   *)
(* (MessageRouting decides).                                               *)
(***************************************************************************)
EXTENDS Startup

CONSTANTS
    MaxEntries,   \* no configuration has more entries
    Burst,        \* frames the buffer takes in one read, at least
    MaxFrames     \* bound on the frames peers send

ASSUME SessionAssumption ==
    /\ MaxEntries \in Nat
    /\ \A c \in Configs : Len(c) <= MaxEntries
    /\ Burst \in Nat /\ MaxFrames \in Nat

VARIABLES
    inbox,    \* frames of each session's peer still to handle
    due,      \* how many of them the reads of raised events are sure to take
    pending,  \* what the handler at work has still to send
    number,   \* the number taken for the first of these, 0 if none is
    seen,     \* history: what the peers received, of all processes
    lost,     \* history: what was numbered and not received
    frames    \* how many frames peers have sent

hvars == <<inbox, due, pending, number, seen, lost, frames>>
pvars == <<svars, hvars>>

FrameKinds == {"Logon", "Logout", "Heartbeat", "Application"}
Sends == [to : 1..MaxEntries, kind : FrameKinds]

\* A process at work on nothing else.
Idle == process = "running" /\ pending = <<>>

IsConnected(p) == link[p] \in {"up", "full", "torn", "ended"}

-----------------------------------------------------------------------------
(* The peers.                                                              *)

\* A client of a listening session connects and is accepted.
Accept(p) ==
    /\ Idle /\ link[p] = "listening"
    /\ link' = [link EXCEPT ![p] = "up"]
    /\ UNCHANGED <<config, process, next, stage, file, interrupted, crashes,
                   hvars>>

\* An arrival raises one event, and one read follows it: what the buffer
\* does not take stays until more arrives.
FromPeer(p, kind) ==
    /\ process = "running" /\ link[p] \in {"up", "full", "torn"}
    /\ frames < MaxFrames
    /\ inbox' = [inbox EXCEPT ![p] = Append(@, kind)]
    /\ due' = [due EXCEPT ![p] = IF Len(inbox'[p]) < Burst
                                 THEN Len(inbox'[p]) ELSE Burst]
    /\ frames' = frames + 1
    /\ UNCHANGED <<svars, pending, number, seen, lost>>

\* The peer stops reading until the socket is full, or goes on, or leaves.
PeerReads(p) ==
    /\ process = "running"
    /\ \/ link[p] = "up" /\ link' = [link EXCEPT ![p] = "full"]
       \/ /\ link[p] \in {"connecting", "full"}
          /\ link' = [link EXCEPT ![p] = "up"]
       \/ /\ link[p] \in {"connecting", "up", "full", "torn"}
          /\ link' = [link EXCEPT ![p] = "ended"]
    /\ UNCHANGED <<config, process, next, stage, file, interrupted, crashes,
                   hvars>>

-----------------------------------------------------------------------------
(* The handlers.                                                           *)

\* The event of an ended connection: on_disconnect of the transport.
Disconnected(p) ==
    /\ Idle /\ link[p] = "ended"
    /\ link' = [link EXCEPT ![p] = IF config[p].role = "server"
                                   THEN "listening" ELSE "closed"]
    /\ inbox' = [inbox EXCEPT ![p] = <<>>]
    /\ due' = [due EXCEPT ![p] = 0]
    /\ UNCHANGED <<config, process, next, stage, file, interrupted, crashes,
                   pending, number, seen, lost, frames>>

\* Mutant: validate_logon refuses.
ValidateLogon_Refuses == FALSE

\* validate_logon, validate_logout and validate_heartbeat refuse nothing.
ValidateLogon == TRUE

\* on_logon; the disconnect that follows a refusal is never reached.
on_logon(p) ==
    <<[to |-> p, kind |-> IF ValidateLogon THEN "Logon" ELSE "Logout"]>>

on_logout(p) == <<[to |-> p, kind |-> "Logout"]>>

(***************************************************************************)
(* What the session's handler of an application message may send: a        *)
(* request goes on to a destination or is rejected, once or twice, and a   *)
(* refused one may go on all the same; a report goes on to a source.       *)
(***************************************************************************)
Application(p) ==
    LET send(q) == [to |-> q, kind |-> "Application"] IN
    IF config[p].kind = "source"
    THEN LET targets == {q \in Positions :
                           /\ config[q].kind = "destination"
                           /\ config[q].id \in Routed(config[p])}
         IN {<<send(p)>>, <<send(p), send(p)>>}
              \cup {<<send(q)>> : q \in targets}
              \cup {<<send(p), send(q)>> : q \in targets}
    ELSE {<<>>} \cup
         {<<send(q)>> : q \in {r \in Positions : config[r].kind = "source"}}

\* on_data_impl of a frame: its dispatch.
on_data_impl(p) ==
    /\ Idle /\ IsConnected(p) /\ inbox[p] # <<>>
    /\ LET kind == Head(inbox[p]) IN
       pending' \in CASE kind = "Logon" -> {on_logon(p)}
                      [] kind = "Logout" -> {on_logout(p)}
                      [] kind = "Heartbeat" -> {<<>>}
                      [] kind = "Application" -> Application(p)
    /\ inbox' = [inbox EXCEPT ![p] = Tail(@)]
    /\ due' = [due EXCEPT ![p] = IF @ = 0 THEN 0 ELSE @ - 1]
    /\ UNCHANGED <<svars, number, seen, lost, frames>>

File(p) == config[p].name

\* Mutant: the message is given the number before the increment.
Taken_Postfix(out) == out

\* next_out_sequence_number is a prefix increment.
Taken(out) == out + 1

Unwritten ==
    IF number = 0 THEN {}
    ELSE {[to |-> pending[1].to, kind |-> pending[1].kind, number |-> number]}

\* The process ends with the handler's work undone.
HandlerEnds ==
    /\ inbox' = [p \in 1..MaxEntries |-> <<>>]
    /\ due' = [p \in 1..MaxEntries |-> 0]
    /\ pending' = <<>>
    /\ number' = 0
    /\ lost' = lost \cup Unwritten
    /\ UNCHANGED <<seen, frames>>

\* enrich_for_send_impl: SIGBUS if the file has no length.
enrich_for_send ==
    /\ pending # <<>> /\ number = 0
    /\ LET f == File(pending[1].to) IN
       IF file[f].state = "empty"
       THEN Exit /\ HandlerEnds /\ UNCHANGED <<file, interrupted, crashes>>
       ELSE /\ file' = [file EXCEPT ![f].out = @ + 1]
            /\ number' = Taken(file[f].out)
            /\ UNCHANGED <<config, process, next, stage, link, interrupted,
                           crashes, inbox, due, pending, seen, lost, frames>>

\* Mutant: the next message goes out under the same number.
SendNext_KeepsNumber ==
    pending' = Tail(pending) /\ UNCHANGED number

\* send_to_transport returns, and the handler goes on to its next message.
SendNext ==
    pending' = Tail(pending) /\ number' = 0

\* The peer receives the message.
Written(p) ==
    /\ link[p] = "up"
    /\ seen' = [seen EXCEPT ![p] =
                  Append(@, [number |-> number, kind |-> pending[1].kind])]
    /\ UNCHANGED <<link, lost>>

\* It does not, and nobody hears of it: nothing was written, or a part, or all
\* of it and the connection ends before it gets there.
NotReceived(p) ==
    /\ lost' = lost \cup Unwritten
    /\ \/ link[p] # "up" /\ UNCHANGED link
       \/ link[p] \in {"up", "full"} /\ link' = [link EXCEPT ![p] = "torn"]
    /\ UNCHANGED seen

SendReturns ==
    LET p == pending[1].to IN
    /\ Written(p) \/ NotReceived(p)
    /\ SendNext
    /\ UNCHANGED <<config, process, next, stage, file, interrupted, crashes,
                   inbox, due, frames>>

(***************************************************************************)
(* send_data: a whole message to a peer that reads, a part of it or none   *)
(* to one that does not; a connection that has ended fails the send, or    *)
(* raises SIGPIPE, which ends the process.                                 *)
(***************************************************************************)
send_data ==
    /\ number # 0
    /\ \/ SendReturns
       \/ /\ link[pending[1].to] = "ended"
          /\ Exit /\ HandlerEnds
          /\ UNCHANGED <<file, interrupted, crashes>>

-----------------------------------------------------------------------------
PInit ==
    /\ SInit
    /\ inbox = [p \in 1..MaxEntries |-> <<>>]
    /\ due = [p \in 1..MaxEntries |-> 0]
    /\ pending = <<>>
    /\ number = 0
    /\ seen = [p \in 1..MaxEntries |-> <<>>]
    /\ lost = {}
    /\ frames = 0

Peer(p) ==
    \/ Accept(p)
    \/ \E kind \in FrameKinds : FromPeer(p, kind)
    \/ PeerReads(p)

PNext ==
    \/ (Start \/ init) /\ UNCHANGED hvars
    \/ Crash /\ HandlerEnds
    \/ \E p \in Positions : IsSession(p) /\ Peer(p)
    \/ \E p \in Positions : on_data_impl(p) \/ Disconnected(p)
    \/ enrich_for_send
    \/ send_data

\* Every event epoll_wait returns is handled, by one read, and handlers do
\* not block.
Fairness ==
    /\ WF_pvars(enrich_for_send \/ send_data)
    /\ \A p \in 1..MaxEntries :
         WF_pvars(p \in Positions /\ due[p] > 0 /\ on_data_impl(p))

PSpec == PInit /\ [][PNext]_pvars /\ Fairness

-----------------------------------------------------------------------------
Numbered == [to : 1..MaxEntries, kind : FrameKinds, number : Nat]

PTypeOK ==
    /\ STypeOK
    /\ inbox \in [1..MaxEntries -> Seq(FrameKinds)]
    /\ due \in [1..MaxEntries -> Nat]
    /\ pending \in Seq(Sends) /\ Len(pending) <= 2
    /\ number \in Nat /\ (pending = <<>> => number = 0)
    /\ seen \in [1..MaxEntries -> Seq([number : Nat, kind : FrameKinds])]
    /\ lost \subseteq Numbered
    /\ frames \in 0..MaxFrames

(***************************************************************************)
(* The numbers a session's peer receives only grow, over all connections   *)
(* and all processes: the counter in the mapped file outlives the process, *)
(* whenever that ends.                                                     *)
(***************************************************************************)
NumbersIncrease ==
    \A p \in 1..MaxEntries : \A i, j \in DOMAIN seen[p] :
      i < j => seen[p][i].number < seen[p][j].number

(***************************************************************************)
(* A number below the counter was received by one peer, lost on the way,   *)
(* or is about to be sent: a peer sees a gap only for a message that was   *)
(* lost, or given to the other session if two share a name and a file.     *)
(***************************************************************************)
NumbersAreAccountedFor ==
    \A f \in Names : \A n \in 1..file[f].out :
      \/ \E p \in Positions : /\ IsSession(p) /\ File(p) = f
                              /\ \E i \in DOMAIN seen[p] :
                                   seen[p][i].number = n
      \/ \E l \in lost \cup Unwritten : l.number = n /\ File(l.to) = f

Logons(p) == Len(SelectSeq(seen[p], LAMBDA s : s.kind = "Logon"))
Reached(p) == process = "running" /\ p \in Positions /\ link[p] = "up"

(***************************************************************************)
(* A logon that the read of a raised event takes, not one that a burst     *)
(* leaves beyond it, is answered by a logon if its peer reads, unless the  *)
(* process or the connection ends first.                                   *)
(***************************************************************************)
LogonsAreAnswered ==
    \A p \in 1..MaxEntries, n \in 0..MaxFrames :
      (/\ Reached(p) /\ inbox[p] = <<"Logon">> /\ due[p] > 0
       /\ Logons(p) = n)
        ~> (~Reached(p) \/ Logons(p) > n)

-----------------------------------------------------------------------------
(* What is left of it without kinds, files, links and processes.           *)

Sessions == {p \in Positions : IsSession(p)}
Numbers(messages) == {[to |-> m.to, number |-> m.number] : m \in messages}
Received(p) == [i \in DOMAIN seen[p] |-> seen[p][i].number]

Promise == INSTANCE NumberedChannels WITH
               Channels <- Names,
               channel  <- [p \in Sessions |-> File(p)],
               counter  <- [n \in Names |-> file[n].out],
               inFlight <- Numbers(Unwritten),
               received <- [p \in Sessions |-> Received(p)],
               lost     <- Numbers(lost)

(***************************************************************************)
(* Across connections, crashes and restarts the stores are counters that   *)
(* never go back; each number is given to one message, which is received   *)
(* or lost before another is numbered.                                     *)
(***************************************************************************)
ImplementsNumberedChannels == Promise!NSpec

=============================================================================
