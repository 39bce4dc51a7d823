-------------------------- MODULE MCProtocolSession --------------------------
(***************************************************************************)
(* ProtocolSession with small configurations: two that can be built and    *)
(* one for each way init fails.                                            *)
(***************************************************************************)
EXTENDS ProtocolSession

Validator(id) ==
    [kind |-> "validator", id |-> id, type |-> "ValidatorX", name |-> Missing,
     role |-> Missing, router |-> Missing, refs |-> <<>>]
Destination(id, name, validator) ==
    [kind |-> "destination", id |-> id, type |-> "ProtocolB", name |-> name,
     role |-> "client", router |-> Missing, refs |-> <<validator>>]
Source(id, name, router, refs) ==
    [kind |-> "source", id |-> id, type |-> "ProtocolA", name |-> name,
     role |-> "server", router |-> router, refs |-> refs]

\* One session of each kind, with files of their own; and with one file and
\* their roles exchanged, for either kind may listen or connect.
Separate == <<Validator(1), Destination(3, "d", 1),
              Source(2, "s", "RoundRobin", <<3>>)>>
Shared == <<Validator(1), [Destination(3, "s", 1) EXCEPT !.role = "server"],
            [Source(2, "s", "OneToOne", <<3>>) EXCEPT !.role = "client"]>>

\* Configurations no process gets through.
DuplicateId == <<Validator(1), Destination(3, "d", 1), Destination(3, "s", 1)>>
NoValidator == <<Validator(1), Destination(3, "d", 4)>>
NoDestination == <<Validator(1), Destination(3, "d", 1),
                   Source(2, "s", "RoundRobin", <<3, 4>>)>>
NoTarget == <<Source(2, "s", "OneToOne", <<>>)>>
NoSuchType == <<[Validator(1) EXCEPT !.type = "ValidatorY"]>>
NoId == <<Validator(Missing)>>

MCConfigs == {Separate, Shared, DuplicateId, NoValidator, NoDestination,
              NoTarget, NoSuchType, NoId}

=============================================================================
