------------------------------- MODULE Startup -------------------------------
(***************************************************************************)
(* The life of the router process: Application::init builds the validators *)
(* and sessions config.xml lists, one after the other, each session with   *)
(* its socket and its sequence store, and the event loop begins when all   *)
(* are built.  An exception ends the process, and so may a crash at any    *)
(* moment; what stays is the stores' files.                                *)
(***************************************************************************)
EXTENDS Naturals, Sequences

CONSTANTS
    Configs,     \* what config.xml may say, see IsEntry
    Names,       \* names of sessions; a session's file is its name's
    Missing,     \* an entry has no such field
    MaxCrashes   \* bound on the crashes of one behaviour

\* The factories' keys after the register_all_ functions of Factory.h.
Registered ==
    [validator   |-> {"ValidatorX"},
     destination |-> {"ProtocolB"},
     source      |-> {"ProtocolA"},
     router      |-> {"OneToOne", "RoundRobin"}]

(***************************************************************************)
(* An entry of config.xml; refs is the validator_id of a destination and   *)
(* the destination_session_ids of a source's router.                       *)
(***************************************************************************)
IsEntry(e) ==
    /\ e.kind \in {"validator", "destination", "source"}
    /\ e.id \in Nat \cup {Missing}
    /\ e.kind # "validator" =>
         e.name \in Names /\ e.role \in {"server", "client"}
    /\ e.refs \in Seq(Nat)
    /\ e.kind = "destination" => Len(e.refs) = 1

\* Entries in the order they are built: validators, destinations, sources.
ASSUME ConfigAssumption ==
    /\ Missing \notin Nat
    /\ MaxCrashes \in Nat
    /\ \A c \in Configs : /\ Len(c) \in Nat /\ DOMAIN c = 1..Len(c)
                          /\ \A p \in DOMAIN c : IsEntry(c[p])

VARIABLES
    config,       \* the configuration, the same for every process
    process,      \* "down", "starting" or "running"
    next,         \* the entry init is at
    stage,        \* where it is with that entry
    link,         \* the socket of each session, by its place in config
    file,         \* the file of each name; out is its outgoing number
    interrupted,  \* history: files whose creation a crash cut short
    crashes

svars == <<config, process, next, stage, link, file, interrupted, crashes>>

Files == [state : {"absent", "empty", "sized"}, out : Nat]
Links == {"closed", "listening", "connecting", "up", "full", "torn", "ended"}

Positions == DOMAIN config
Entry == config[next]
Built == 1..(next - 1)
IsSession(p) == config[p].kind # "validator"

\* Ids of one kind that Application's maps hold.
IdsOf(kind) == {config[p].id : p \in {q \in Built : config[q].kind = kind}}

-----------------------------------------------------------------------------
\* The process is gone: the kernel closes its sockets, files stay.
Exit ==
    /\ process' = "down"
    /\ next' = 1
    /\ stage' = "begin"
    /\ link' = [p \in Positions |-> "closed"]
    /\ UNCHANGED config

\* Destination ids a router looks up when it is constructed.
Routed(e) ==
    {e.refs[i] : i \in {j \in DOMAIN e.refs : e.router = "OneToOne" => j = 1}}

RouterCanBeBuilt(e) ==
    /\ e.router \in Registered.router
    /\ e.router = "OneToOne" => e.refs # <<>>
    /\ Routed(e) \subseteq IdsOf("destination")

\* Mutant: a router takes what the configuration says on trust.
CanBeBuilt_NoLookup(e) == e.type \in Registered[e.kind]

\* No lookup of create, get_validator_by_id or destinations.at throws.
CanBeBuilt(e) ==
    /\ e.type \in Registered[e.kind]
    /\ e.kind = "destination" => e.refs[1] \in IdsOf("validator")
    /\ e.kind = "source" => RouterCanBeBuilt(e)

\* listen or connect; a failure is logged, and nobody tries again.
Opened(e) ==
    {"closed", IF e.role = "server" THEN "listening" ELSE "connecting"}

\* ConfigManager::load_configuration throws for an entry without an id.
Start ==
    /\ process = "down"
    /\ \A p \in Positions : config[p].id # Missing
    /\ process' = "starting"
    /\ UNCHANGED <<config, next, stage, link, file, interrupted, crashes>>

(***************************************************************************)
(* The factory constructs an entry.  A session opens its socket first and  *)
(* then its store, which asks whether the file exists.                     *)
(***************************************************************************)
Construct ==
    /\ process = "starting" /\ stage = "begin" /\ next \in Positions
    /\ IF ~CanBeBuilt(Entry) THEN Exit
       ELSE /\ IF Entry.kind = "validator"
               THEN stage' = "register" /\ UNCHANGED link
               ELSE /\ \E l \in Opened(Entry) :
                         link' = [link EXCEPT ![next] = l]
                    /\ stage' = IF file[Entry.name].state = "absent"
                                THEN "create" ELSE "map"
            /\ UNCHANGED <<config, process, next>>
    /\ UNCHANGED <<file, interrupted, crashes>>

\* create_empty_file: the file appears with no length.
CreateFile ==
    /\ stage = "create"
    /\ file' = [file EXCEPT ![Entry.name].state = "empty"]
    /\ stage' = "write"
    /\ UNCHANGED <<config, process, next, link, interrupted, crashes>>

\* Mutant: the byte that gives the file its length is not written.
WriteFile_Nothing ==
    /\ stage = "write"
    /\ stage' = "map new"
    /\ UNCHANGED <<config, process, next, link, file, interrupted, crashes>>

\* create_empty_file: its last byte is written when the stream is closed.
WriteFile ==
    /\ stage = "write"
    /\ file' = [file EXCEPT ![Entry.name] = [state |-> "sized", out |-> 0]]
    /\ stage' = "map new"
    /\ UNCHANGED <<config, process, next, link, interrupted, crashes>>

\* Mutant: initialize runs whether or not the file is new.
MapFile_AlwaysNew ==
    /\ stage \in {"map new", "map"}
    /\ stage' = "initialize"
    /\ UNCHANGED <<config, process, next, link, file, interrupted, crashes>>

\* Mapping succeeds whatever the length of the file.
MapFile ==
    /\ stage \in {"map new", "map"}
    /\ stage' = IF stage = "map new" THEN "initialize" ELSE "register"
    /\ UNCHANGED <<config, process, next, link, file, interrupted, crashes>>

\* SequenceData::initialize; a page beyond the end of the file is SIGBUS.
InitializeFile ==
    /\ stage = "initialize"
    /\ IF file[Entry.name].state = "empty"
       THEN Exit /\ UNCHANGED file
       ELSE /\ file' = [file EXCEPT ![Entry.name].out = 0]
            /\ stage' = "register"
            /\ UNCHANGED <<config, process, next, link>>
    /\ UNCHANGED <<interrupted, crashes>>

\* try_emplace in Application's maps: a duplicate id throws.
Register ==
    /\ stage = "register"
    /\ IF Entry.id \in IdsOf(Entry.kind)
       THEN Exit
       ELSE /\ next' = next + 1
            /\ stage' = "begin"
            /\ UNCHANGED <<config, process, link>>
    /\ UNCHANGED <<file, interrupted, crashes>>

\* init returns and run is called.
Run ==
    /\ process = "starting" /\ stage = "begin" /\ next \notin Positions
    /\ process' = "running"
    /\ UNCHANGED <<config, next, stage, link, file, interrupted, crashes>>

init == Construct \/ CreateFile \/ WriteFile \/ MapFile
          \/ InitializeFile \/ Register \/ Run

\* The process is killed, at any moment.
Crash ==
    /\ process # "down" /\ crashes < MaxCrashes
    /\ crashes' = crashes + 1
    /\ interrupted' = IF stage = "write" THEN interrupted \cup {Entry.name}
                                         ELSE interrupted
    /\ Exit
    /\ UNCHANGED file

-----------------------------------------------------------------------------
SInit ==
    /\ config \in Configs
    /\ process = "down"
    /\ next = 1
    /\ stage = "begin"
    /\ link = [p \in Positions |-> "closed"]
    /\ file = [n \in Names |-> [state |-> "absent", out |-> 0]]
    /\ interrupted = {}
    /\ crashes = 0

SNext == Start \/ init \/ Crash

SSpec == SInit /\ [][SNext]_svars

-----------------------------------------------------------------------------
Stages == {"begin", "create", "write", "map new", "map", "initialize",
           "register"}

STypeOK ==
    /\ config \in Configs
    /\ process \in {"down", "starting", "running"}
    /\ next \in 1..(Len(config) + 1)
    /\ stage \in Stages
    /\ link \in [Positions -> Links]
    /\ file \in [Names -> Files]
    /\ interrupted \subseteq Names
    /\ crashes \in 0..MaxCrashes

(***************************************************************************)
(* The event loop runs only with everything the configuration lists: no    *)
(* two entries of a kind share an id, and every validator or destination   *)
(* an entry uses was built before it.                                      *)
(***************************************************************************)
RunningIsComplete ==
    process = "running" =>
      /\ \A p, q \in Positions :
           config[p].kind = config[q].kind /\ config[p].id = config[q].id
             => p = q
      /\ \A p \in Positions :
           /\ config[p].kind = "destination" =>
                \E q \in 1..(p - 1) : /\ config[q].kind = "validator"
                                      /\ config[q].id = config[p].refs[1]
           /\ config[p].kind = "source" =>
                \A id \in Routed(config[p]) :
                  \E q \in 1..(p - 1) : /\ config[q].kind = "destination"
                                        /\ config[q].id = id

(***************************************************************************)
(* A file without length, which kills every process that numbers a message *)
(* with it, is left only by a crash between the two halves of its creation.*)
(***************************************************************************)
UnusableFilesWereInterrupted ==
    \A n \in Names : file[n].state = "empty" =>
      \/ n \in interrupted
      \/ process = "starting" /\ stage = "write" /\ Entry.name = n

=============================================================================
