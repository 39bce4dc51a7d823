----------------------------- MODULE FrameStream -----------------------------
(***************************************************************************)
(* What a transport promises its protocol: connections one after the       *)
(* other, and of each the frames its peer sends, one at a time, whole and  *)
(* in order, until it is dropped.  There are no bytes here, no reads and   *)
(* no buffer.                                                              *)
(***************************************************************************)
EXTENDS Naturals, Sequences

CONSTANT Frames

VARIABLES
    connected,
    sent,     \* the frames the peer of the last connection sends
    handled   \* those of them the protocol was given

fvars == <<connected, sent, handled>>

FInit ==
    /\ connected = FALSE
    /\ sent = <<>>
    /\ handled = <<>>

Connected ==
    /\ ~connected
    /\ connected' = TRUE
    /\ sent' \in Seq(Frames)
    /\ handled' = <<>>

Handle ==
    /\ connected
    /\ Len(handled) < Len(sent)
    /\ handled' = Append(handled, sent[Len(handled) + 1])
    /\ UNCHANGED <<connected, sent>>

Dropped ==
    /\ connected
    /\ connected' = FALSE
    /\ UNCHANGED <<sent, handled>>

FNext == Connected \/ Handle \/ Dropped

FSpec == FInit /\ [][FNext]_fvars

=============================================================================
