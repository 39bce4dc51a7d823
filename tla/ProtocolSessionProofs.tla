------------------------ MODULE ProtocolSessionProofs ------------------------
(***************************************************************************)
(* The numbers a session's peer sees only grow and none goes missing       *)
(* unexplained, for every configuration and however often the process      *)
(* ends, at whatever point.                                                *)
(***************************************************************************)
EXTENDS ProtocolSession, StartupProofs

PTypes ==
    /\ inbox \in [1..MaxEntries -> Seq(FrameKinds)]
    /\ due \in [1..MaxEntries -> Nat]
    /\ pending \in Seq(Sends) /\ Len(pending) <= 2
    /\ number \in Nat /\ (pending = <<>> => number = 0)
    /\ seen \in [1..MaxEntries -> Seq([number : Nat, kind : FrameKinds])]
    /\ lost \subseteq Numbered
    /\ frames \in 0..MaxFrames

\* A handler is at work only in a running process, and sends to sessions.
HandlerFits ==
    /\ pending # <<>> => process = "running"
    /\ \A i \in DOMAIN pending :
         pending[i].to \in Positions /\ IsSession(pending[i].to)
    /\ \A p \in Positions : link[p] # "closed" => IsSession(p)

\* No number is taken from a file before it is initialised.
FilesFit ==
    /\ \A n \in Names : file[n].state # "sized" => file[n].out = 0
    /\ stage = "create" => file[Entry.name].state = "absent"
    /\ stage = "write" => file[Entry.name].state = "empty"
    /\ stage \in {"map new", "initialize"} => file[Entry.name].out = 0

\* The file of a session that was built was created.
FilesExist ==
    /\ \A p \in Built : IsSession(p) => file[File(p)].state # "absent"
    /\ stage \notin {"begin", "create"} /\ IsSession(next)
         => file[File(next)].state # "absent"

\* No number in use is ahead of the counter it was taken from; the one a
\* message was just given is newer than what any peer has seen.
Counted ==
    /\ \A p \in 1..MaxEntries : seen[p] # <<>> => p \in Positions /\ IsSession(p)
    /\ \A p \in Positions : IsSession(p) => \A i \in DOMAIN seen[p] :
         /\ seen[p][i].number <= file[File(p)].out
         /\ (number # 0 /\ File(p) = File(pending[1].to))
              => seen[p][i].number < number
    /\ number # 0 => number = file[File(pending[1].to)].out

NumbersFit == Counted /\ NumbersIncrease /\ NumbersAreAccountedFor

PInv ==
    SInv /\ PTypes /\ HandlerFits /\ FilesFit /\ FilesExist /\ NumbersFit

-----------------------------------------------------------------------------
LEMMA SessionFacts ==
    ASSUME SInv
    PROVE  /\ MaxEntries \in Nat /\ Positions \subseteq 1..MaxEntries
           /\ \A p \in Positions : IsSession(p) => File(p) \in Names
           /\ \A n \in Names : file[n].out \in Nat
<1>1. MaxEntries \in Nat /\ Positions \subseteq 1..MaxEntries
  BY ConfigFacts, SessionAssumption DEF SInv, STypeOK
<1>2. \A n \in Names : file[n].out \in Nat
  BY DEF SInv, STypeOK, Files
<1> QED
  BY <1>1, <1>2, ConfigFacts DEF SInv, File

LEMMA SeenFacts ==
    ASSUME PTypes
    PROVE  \A p \in 1..MaxEntries :
             /\ seen[p] \in Seq([number : Nat, kind : FrameKinds])
             /\ Len(seen[p]) \in Nat /\ DOMAIN seen[p] = 1..Len(seen[p])
             /\ \A i \in DOMAIN seen[p] : seen[p][i].number \in Nat
<1> DEFINE S == [number : Nat, kind : FrameKinds]
<1>1. \A e \in S : e.number \in Nat
  OBVIOUS
<1>2. \A p \in 1..MaxEntries : seen[p] \in Seq(S)
  BY DEF PTypes
<1> HIDE DEF S
<1>3. \A p \in 1..MaxEntries :
        /\ Len(seen[p]) \in Nat /\ DOMAIN seen[p] = 1..Len(seen[p])
        /\ \A i \in DOMAIN seen[p] : seen[p][i] \in S
  BY <1>2
<1> QED
  BY <1>1, <1>2, <1>3 DEF S

\* The message at work is one of a session.
LEMMA PendingFacts ==
    ASSUME PInv, pending # <<>>
    PROVE  /\ process = "running" /\ stage = "begin"
           /\ pending[1].to \in Positions /\ IsSession(pending[1].to)
           /\ File(pending[1].to) \in Names
           /\ pending[1].kind \in FrameKinds
           /\ Tail(pending) \in Seq(Sends) /\ Len(Tail(pending)) <= 2
           /\ \A i \in DOMAIN Tail(pending) :
                /\ i + 1 \in DOMAIN pending
                /\ Tail(pending)[i] = pending[i + 1]
<1>1. process = "running" /\ stage = "begin"
  BY DEF PInv, HandlerFits, SInv, StagesFit
<1>2. pending \in Seq(Sends) /\ Len(pending) <= 2
  BY DEF PInv, PTypes
<1>3. /\ 1 \in DOMAIN pending /\ pending[1] \in Sends
      /\ Tail(pending) \in Seq(Sends) /\ Len(Tail(pending)) <= 2
      /\ \A i \in DOMAIN Tail(pending) :
           /\ i + 1 \in DOMAIN pending
           /\ Tail(pending)[i] = pending[i + 1]
  BY <1>2
<1>4. \A e \in Sends : e.kind \in FrameKinds
  BY DEF Sends
<1>5. pending[1].to \in Positions /\ IsSession(pending[1].to)
  BY <1>3 DEF PInv, HandlerFits
<1> QED
  BY <1>1, <1>3, <1>4, <1>5, SessionFacts DEF PInv

LEMMA UnwrittenFacts ==
    ASSUME PInv
    PROVE  Unwritten \subseteq Numbered /\ (pending = <<>> => Unwritten = {})
<1>1. CASE number = 0
  BY <1>1 DEF Unwritten
<1>2. CASE number # 0
  <2>1. pending # <<>>
    BY <1>2 DEF PInv, PTypes
  <2>2. /\ pending[1].to \in 1..MaxEntries /\ pending[1].kind \in FrameKinds
        /\ number \in Nat
    BY <2>1, PendingFacts, SessionFacts DEF PInv, PTypes
  <2> QED
    BY <2>1, <2>2 DEF Unwritten, Numbered
<1> QED
  BY <1>1, <1>2

-----------------------------------------------------------------------------
(* Steps that take no number and deliver none.                             *)

LEMMA NumbersKept ==
    ASSUME PInv, UNCHANGED <<config, seen>>,
           \A n \in Names : file'[n].out = file[n].out,
           lost \cup Unwritten \subseteq lost' \cup Unwritten',
           number' # 0 => UNCHANGED <<number, pending>>
    PROVE  NumbersFit'
<1>1. /\ Positions' = Positions
      /\ \A p : File(p)' = File(p) /\ IsSession(p)' = IsSession(p)
  BY DEF Positions, File, IsSession
<1>2. \A p \in Positions : IsSession(p) => File(p) \in Names
  BY SessionFacts DEF PInv
<1>3. number' # 0 => /\ pending # <<>> /\ number' = number
                     /\ pending'[1].to = pending[1].to
                     /\ File(pending[1].to) \in Names
  BY PendingFacts DEF PInv, PTypes
<1>4. Counted'
  <2> DEFINE G == File(pending[1].to)'
  <2>1. number' # 0 => G = File(pending[1].to)
    BY <1>3 DEF File
  <2>2. number' # 0 => number' = file'[G].out
    BY <1>3, <2>1 DEF PInv, NumbersFit, Counted
  <2>3. \A p \in Positions : IsSession(p) => \A i \in DOMAIN seen[p] :
          /\ seen[p][i].number <= file'[File(p)].out
          /\ (number' # 0 /\ File(p) = G) => seen[p][i].number < number'
    BY <1>2, <1>3, <2>1 DEF PInv, NumbersFit, Counted
  <2>4. \A p \in 1..MaxEntries :
          seen'[p] # <<>> => p \in Positions /\ IsSession(p)
    BY DEF PInv, NumbersFit, Counted
  <2> QED
    BY <1>1, <2>2, <2>3, <2>4 DEF Counted
<1>5. NumbersIncrease'
  BY DEF PInv, NumbersFit, NumbersIncrease
<1>6. NumbersAreAccountedFor'
  <2> SUFFICES ASSUME NEW f \in Names, NEW n \in 1..file'[f].out
               PROVE  \/ \E p \in Positions : /\ IsSession(p) /\ File(p) = f
                                              /\ \E i \in DOMAIN seen[p] :
                                                   seen[p][i].number = n
                      \/ \E l \in (lost \cup Unwritten)' :
                           l.number = n /\ File(l.to) = f
    BY <1>1 DEF NumbersAreAccountedFor
  <2>1. n \in 1..file[f].out
    OBVIOUS
  <2> QED
    BY <2>1 DEF PInv, NumbersFit, NumbersAreAccountedFor
<1> QED
  BY <1>4, <1>5, <1>6 DEF NumbersFit

\* Only the creation of a file touches what FilesFit says of it.
LEMMA FilesKept ==
    ASSUME FilesFit, UNCHANGED <<config, file>>,
           \/ stage' = "begin" \/ UNCHANGED <<stage, next>>
    PROVE  FilesFit'
  BY DEF FilesFit, Entry

\* Nothing is built in between, or the process ends.
LEMMA FilesStay ==
    ASSUME SInv, FilesExist, UNCHANGED config,
           \A n \in Names : file'[n].state = file[n].state,
           (next' = 1 /\ stage' = "begin") \/ UNCHANGED <<stage, next>>
    PROVE  FilesExist'
<1>1. \A p \in Positions : IsSession(p) => File(p) \in Names
  BY SessionFacts
<1>2. /\ Built \subseteq Positions
      /\ stage # "begin" => next \in Positions
  BY ConfigFacts DEF SInv, StagesFit
<1>3. \A p : IsSession(p)' = IsSession(p) /\ File(p)' = File(p)
  BY DEF IsSession, File
<1>4. CASE next' = 1 /\ stage' = "begin"
  <2>1. Built' = {}
    BY <1>4 DEF Built
  <2> QED
    BY <1>4, <2>1 DEF FilesExist
<1>5. CASE UNCHANGED <<stage, next>>
  <2>1. Built' = Built /\ IsSession(next)' = IsSession(next)
          /\ File(next)' = File(next)
    BY <1>3, <1>5 DEF Built, IsSession, File
  <2> QED
    BY <1>1, <1>2, <1>3, <1>5, <2>1 DEF FilesExist
<1> QED
  BY <1>4, <1>5

\* The process ends, by itself or not: what was numbered is lost.
LEMMA EndStep ==
    ASSUME PInv, Exit, HandlerEnds, UNCHANGED file, SInv'
    PROVE  PInv'
<1>1. FilesFit'
  BY FilesKept DEF PInv, Exit
<1>2. /\ pending' = <<>> /\ number' = 0 /\ lost' = lost \cup Unwritten
      /\ UNCHANGED <<config, seen, frames>>
      /\ inbox' = [p \in 1..MaxEntries |-> <<>>]
      /\ due' = [p \in 1..MaxEntries |-> 0]
      /\ link' = [p \in Positions |-> "closed"]
  BY DEF HandlerEnds, Exit
<1>3. PTypes'
  <2>1. <<>> \in Seq(FrameKinds) /\ <<>> \in Seq(Sends) /\ Len(<<>>) = 0
    OBVIOUS
  <2>2. /\ inbox' \in [1..MaxEntries -> Seq(FrameKinds)]
        /\ due' \in [1..MaxEntries -> Nat]
        /\ pending' \in Seq(Sends) /\ Len(pending') <= 2
    BY <1>2, <2>1
  <2>3. lost' \subseteq Numbered
    BY <1>2, UnwrittenFacts DEF PInv, PTypes
  <2> QED
    BY <1>2, <2>2, <2>3 DEF PInv, PTypes
<1>4. HandlerFits'
  BY <1>2 DEF HandlerFits, Positions
<1>5. NumbersFit'
  BY <1>2, NumbersKept
<1>6. FilesExist'
  BY FilesStay DEF PInv, Exit
<1> QED
  BY <1>1, <1>3, <1>4, <1>5, <1>6 DEF PInv

LEMMA CrashEnds ==
    ASSUME PInv, Crash, HandlerEnds
    PROVE  PInv'
  BY CrashStep, EndStep DEF PInv, Crash

-----------------------------------------------------------------------------
(* Start-up: the counters of files that were numbered from stay.           *)

LEMMA InitIsAlone ==
    ASSUME PInv, Start \/ init
    PROVE  pending = <<>> /\ number = 0
<1>1. process # "running"
  BY DEF PInv, SInv, StagesFit, Start, init, Construct, CreateFile, WriteFile,
         MapFile, InitializeFile, Register, Run
<1> QED
  BY <1>1 DEF PInv, HandlerFits, PTypes

LEMMA CountersKept ==
    ASSUME PInv, Start \/ init
    PROVE  FilesFit' /\ \A n \in Names : file'[n].out = file[n].out
<1>1. file \in [Names -> Files]
  BY DEF PInv, SInv, STypeOK
<1>2. AtFile => Entry.name \in Names
  BY ConfigFacts DEF PInv, SInv, StagesFit, AtFile, Entry
<1>3. CASE UNCHANGED file /\ stage' = "begin"
  BY <1>3 DEF PInv, FilesFit
<1>4. CASE Start
  <2>1. stage' = "begin"
    BY <1>4 DEF Start, PInv, SInv, StagesFit
  <2> QED
    BY <1>4, <2>1 DEF Start, PInv, FilesFit
<1>5. CASE Construct
  <2>1. UNCHANGED file
    BY <1>5 DEF Construct
  <2>2. stage' \in {"begin", "register", "map"}
          \/ (stage' = "create" /\ file[Entry.name].state = "absent"
              /\ UNCHANGED <<config, next>>)
    BY <1>5 DEF Construct, Exit
  <2> QED
    BY <2>1, <2>2 DEF PInv, FilesFit, Entry
<1>6. CASE CreateFile
  <2>1. /\ file' = [file EXCEPT ![Entry.name].state = "empty"]
        /\ stage' = "write" /\ Entry.name \in Names
        /\ file[Entry.name].state = "absent" /\ Entry' = Entry
    BY <1>2, <1>6 DEF CreateFile, AtFile, PInv, FilesFit, Entry
  <2>2. /\ \A n \in Names : file'[n].out = file[n].out
        /\ \A n \in Names : n # Entry.name => file'[n] = file[n]
        /\ file'[Entry.name].state = "empty"
    BY <1>1, <2>1 DEF Files
  <2> QED
    BY <2>1, <2>2 DEF PInv, FilesFit
<1>7. CASE WriteFile
  <2>1. /\ file' = [file EXCEPT ![Entry.name] = [state |-> "sized", out |-> 0]]
        /\ stage' = "map new" /\ Entry.name \in Names
        /\ file[Entry.name].state = "empty" /\ Entry' = Entry
    BY <1>2, <1>7 DEF WriteFile, AtFile, PInv, FilesFit, Entry
  <2>2. /\ \A n \in Names : n # Entry.name => file'[n] = file[n]
        /\ file'[Entry.name].state = "sized" /\ file'[Entry.name].out = 0
    BY <1>1, <2>1
  <2>3. file[Entry.name].out = 0
    BY <2>1 DEF PInv, FilesFit
  <2> QED
    BY <2>1, <2>2, <2>3 DEF PInv, FilesFit
<1>8. CASE MapFile
  BY <1>8 DEF MapFile, PInv, FilesFit, Entry
<1>9. CASE InitializeFile
  <2>1. stage = "initialize" /\ Entry.name \in Names /\ file[Entry.name].out = 0
    BY <1>2, <1>9 DEF InitializeFile, AtFile, PInv, FilesFit
  <2>2. CASE file[Entry.name].state = "empty"
    BY <1>3, <1>9, <2>2 DEF InitializeFile, Exit
  <2>3. CASE file[Entry.name].state # "empty"
    <3>1. file' = [file EXCEPT ![Entry.name].out = 0] /\ stage' = "register"
      BY <1>9, <2>3 DEF InitializeFile
    <3>2. \A n \in Names : /\ file'[n].out = file[n].out
                           /\ file'[n].state = file[n].state
      BY <1>1, <2>1, <3>1 DEF Files
    <3> QED
      BY <3>1, <3>2 DEF PInv, FilesFit
  <2> QED
    BY <2>2, <2>3
<1>10. CASE Register
  BY <1>3, <1>10 DEF Register, Exit
<1>11. CASE Run
  BY <1>3, <1>11 DEF Run
<1> QED
  BY <1>4, <1>5, <1>6, <1>7, <1>8, <1>9, <1>10, <1>11 DEF init

LEMMA FilesAppear ==
    ASSUME PInv, Start \/ init
    PROVE  FilesExist'
<1>1. file \in [Names -> Files]
  BY DEF PInv, SInv, STypeOK
<1>2. /\ \A p \in Positions : IsSession(p) => File(p) \in Names
      /\ Built \subseteq Positions
      /\ stage # "begin" => next \in Positions
      /\ AtFile => IsSession(next) /\ Entry.name \in Names
                     /\ File(next) = Entry.name
  BY ConfigFacts, SessionFacts
  DEF PInv, SInv, StagesFit, AtFile, Entry, File
<1>3. CASE (next' = 1 /\ stage' = "begin" /\ UNCHANGED file)
  <2>1. Built' = {}
    BY <1>3 DEF Built
  <2> QED
    BY <1>3, <2>1 DEF FilesExist
<1>4. ASSUME UNCHANGED <<config, next>>,
             \A n \in Names : file[n].state # "absent"
                                 => file'[n].state # "absent",
             stage' \notin {"begin", "create"} /\ IsSession(next)
               => file'[File(next)].state # "absent"
      PROVE  FilesExist'
  <2>1. /\ Built' = Built /\ \A p : IsSession(p)' = IsSession(p)
        /\ \A p : File(p)' = File(p)
        /\ IsSession(next)' = IsSession(next) /\ File(next)' = File(next)
    BY <1>4 DEF Built, IsSession, File
  <2> QED
    BY <1>2, <1>4, <2>1 DEF PInv, FilesExist
<1>5. CASE Start \/ Run
  BY <1>4, <1>5 DEF Start, Run, PInv, FilesExist
<1>6. CASE Construct
  <2>1. CASE Exit /\ UNCHANGED file
    BY <1>3, <2>1 DEF Exit
  <2>2. CASE ~Exit
    BY <1>4, <1>6, <2>2 DEF Construct, IsSession, Entry, File
  <2> QED
    BY <1>6, <2>1, <2>2 DEF Construct
<1>7. CASE CreateFile \/ WriteFile
  <2>1. AtFile /\ UNCHANGED <<config, next>>
    BY <1>7 DEF CreateFile, WriteFile, AtFile
  <2>2. CASE CreateFile
    <3>1. file' = [file EXCEPT ![Entry.name].state = "empty"]
      BY <2>2 DEF CreateFile
    <3>2. /\ \A n \in Names : n # Entry.name => file'[n] = file[n]
          /\ file'[Entry.name].state = "empty"
      BY <1>1, <1>2, <2>1, <3>1 DEF Files
    <3> QED
      BY <1>2, <1>4, <2>1, <3>2
  <2>3. CASE WriteFile
    <3>1. file' = [file EXCEPT ![Entry.name] = [state |-> "sized", out |-> 0]]
      BY <2>3 DEF WriteFile
    <3>2. /\ \A n \in Names : n # Entry.name => file'[n] = file[n]
          /\ file'[Entry.name].state = "sized"
      BY <1>1, <1>2, <2>1, <3>1
    <3> QED
      BY <1>2, <1>4, <2>1, <3>2
  <2> QED
    BY <1>7, <2>2, <2>3
<1>8. CASE MapFile
  BY <1>4, <1>8 DEF MapFile, PInv, FilesExist
<1>9. CASE InitializeFile
  <2>1. CASE file[Entry.name].state = "empty"
    BY <1>3, <1>9, <2>1 DEF InitializeFile, Exit
  <2>2. CASE file[Entry.name].state # "empty"
    <3>1. /\ file' = [file EXCEPT ![Entry.name].out = 0]
          /\ stage = "initialize" /\ UNCHANGED <<config, next>>
      BY <1>9, <2>2 DEF InitializeFile
    <3>2. \A n \in Names : file'[n].state = file[n].state
      BY <1>1, <1>2, <3>1 DEF AtFile, Files
    <3> QED
      BY <1>2, <1>4, <3>1, <3>2 DEF AtFile, PInv, FilesExist
  <2> QED
    BY <2>1, <2>2
<1>10. CASE Register
  <2>1. CASE Exit /\ UNCHANGED file
    BY <1>3, <2>1 DEF Exit
  <2>2. CASE next' = next + 1 /\ stage' = "begin" /\ UNCHANGED <<config, file>>
    <3>1. Built' = Built \cup {next}
      BY <1>2, <2>2, ConfigFacts DEF Built, PInv, SInv
    <3>2. \A p : IsSession(p)' = IsSession(p) /\ File(p)' = File(p)
      BY <2>2 DEF IsSession, File
    <3>3. stage = "register"
      BY <1>10 DEF Register
    <3> QED
      BY <2>2, <3>1, <3>2, <3>3 DEF PInv, FilesExist
  <2> QED
    BY <1>10, <2>1, <2>2 DEF Register
<1> QED
  BY <1>5, <1>6, <1>7, <1>8, <1>9, <1>10 DEF init

LEMMA LinksFitInit ==
    ASSUME PInv, Start \/ init
    PROVE  \A p \in Positions' : link'[p] # "closed" => IsSession(p)'
<1>1. /\ \A p \in Positions : link[p] # "closed" => IsSession(p)
      /\ link \in [Positions -> Links]
  BY DEF PInv, HandlerFits, SInv, STypeOK
<1>2. config' = config
  BY DEF Start, init, Construct, CreateFile, WriteFile, MapFile,
         InitializeFile, Register, Run, Exit
<1>3. Positions' = Positions /\ \A p : IsSession(p)' = IsSession(p)
  BY <1>2 DEF Positions, IsSession
<1>4. CASE UNCHANGED link \/ link' = [p \in Positions |-> "closed"]
  BY <1>1, <1>3, <1>4
<1>5. CASE IsSession(next) /\ \E l : link' = [link EXCEPT ![next] = l]
  BY <1>1, <1>3, <1>5
<1> QED
  BY <1>4, <1>5 DEF Start, init, Construct, CreateFile, WriteFile, MapFile,
                    InitializeFile, Register, Run, Exit, IsSession, Entry

LEMMA StartupSteps ==
    ASSUME PInv, Start \/ init, UNCHANGED hvars
    PROVE  PInv'
<1>1. SInv'
  BY StartStep, InitStep DEF PInv
<1>2. config' = config
  BY DEF Start, init, Construct, CreateFile, WriteFile, MapFile,
         InitializeFile, Register, Run, Exit
<1>3. PTypes'
  BY DEF PInv, PTypes, hvars
<1>4. HandlerFits'
  BY InitIsAlone, LinksFitInit DEF HandlerFits, hvars
<1>5. Unwritten' = Unwritten
  BY DEF Unwritten, hvars
<1>6. NumbersFit'
  BY <1>2, <1>5, CountersKept, NumbersKept DEF hvars
<1> QED
  BY <1>1, <1>3, <1>4, <1>6, CountersKept, FilesAppear DEF PInv

-----------------------------------------------------------------------------
(* Peers and handlers.                                                     *)

\* A step of the running process that leaves the files alone.
LEMMA QuietStep ==
    ASSUME PInv, link' \in [Positions -> Links],
           \A p \in Positions : link'[p] # "closed" => IsSession(p),
           UNCHANGED <<config, process, next, stage, file, interrupted, crashes>>,
           PTypes', UNCHANGED <<seen, lost, number>>,
           \/ UNCHANGED pending
           \/ /\ Idle
              /\ \A i \in DOMAIN pending' :
                   pending'[i].to \in Positions /\ IsSession(pending'[i].to)
    PROVE  PInv'
<1>1. SInv'
  BY LinkStep DEF PInv
<1>2. Positions' = Positions /\ \A p : IsSession(p)' = IsSession(p)
  BY DEF Positions, IsSession
<1>3. HandlerFits'
  BY <1>2 DEF PInv, HandlerFits, Idle
<1>4. FilesFit'
  BY FilesKept DEF PInv
<1>5. number # 0 => UNCHANGED pending
  BY DEF Idle, PInv, PTypes
<1>6. Unwritten' = Unwritten
  BY <1>5 DEF Unwritten
<1>7. NumbersFit'
  BY <1>5, <1>6, NumbersKept
<1>8. FilesExist'
  BY FilesStay DEF PInv
<1> QED
  BY <1>1, <1>3, <1>4, <1>7, <1>8 DEF PInv

LEMMA PeerStep ==
    ASSUME PInv, NEW p \in Positions, IsSession(p), Peer(p)
    PROVE  PInv'
<1>1. /\ link \in [Positions -> Links]
      /\ \A q \in Positions : link[q] # "closed" => IsSession(q)
  BY DEF PInv, SInv, STypeOK, HandlerFits
<1>2. CASE Accept(p) \/ PeerReads(p)
  <2>1. \E l \in Links : link' = [link EXCEPT ![p] = l]
    BY <1>2 DEF Accept, PeerReads, Links
  <2>2. /\ link' \in [Positions -> Links]
        /\ \A q \in Positions : link'[q] # "closed" => IsSession(q)
    BY <1>1, <2>1
  <2>3. /\ UNCHANGED <<config, process, next, stage, file, interrupted, crashes>>
        /\ UNCHANGED hvars
    BY <1>2 DEF Accept, PeerReads
  <2>4. PTypes'
    BY <2>3 DEF PInv, PTypes, hvars
  <2> QED
    BY <2>2, <2>3, <2>4, QuietStep DEF hvars
<1>3. CASE \E kind \in FrameKinds : FromPeer(p, kind)
  <2>1. PICK kind \in FrameKinds : FromPeer(p, kind)
    BY <1>3
  <2>2. /\ inbox' = [inbox EXCEPT ![p] = Append(inbox[p], kind)]
        /\ frames' = frames + 1 /\ frames < MaxFrames
        /\ UNCHANGED <<svars, pending, number, seen, lost>>
    BY <2>1 DEF FromPeer
  <2>3. inbox' \in [1..MaxEntries -> Seq(FrameKinds)]
    <3>1. inbox \in [1..MaxEntries -> Seq(FrameKinds)] /\ p \in 1..MaxEntries
      BY SessionFacts DEF PInv, PTypes
    <3>2. Append(inbox[p], kind) \in Seq(FrameKinds)
      BY <3>1
    <3> QED
      BY <2>2, <3>1, <3>2
  <2>4. due' \in [1..MaxEntries -> Nat]
    <3>1. PICK n \in Nat : due' = [due EXCEPT ![p] = n]
      <4>1. inbox'[p] \in Seq(FrameKinds)
        BY <2>3, SessionFacts DEF PInv
      <4>2. Len(inbox'[p]) \in Nat /\ Burst \in Nat
        BY <4>1, SessionAssumption
      <4> QED
        BY <2>1, <4>2 DEF FromPeer
    <3> QED
      BY <3>1 DEF PInv, PTypes
  <2>5. frames' \in 0..MaxFrames
    BY <2>2, SessionAssumption DEF PInv, PTypes
  <2>6. PTypes'
    BY <2>2, <2>3, <2>4, <2>5 DEF PInv, PTypes
  <2> QED
    BY <1>1, <2>2, <2>6, QuietStep DEF svars
<1> QED
  BY <1>2, <1>3 DEF Peer

LEMMA DisconnectedStep ==
    ASSUME PInv, NEW p \in Positions, Disconnected(p)
    PROVE  PInv'
<1>1. /\ link \in [Positions -> Links]
      /\ \A q \in Positions : link[q] # "closed" => IsSession(q)
  BY DEF PInv, SInv, STypeOK, HandlerFits
<1>2. IsSession(p)
  BY <1>1 DEF Disconnected
<1>3. \E l \in Links : link' = [link EXCEPT ![p] = l]
  BY DEF Disconnected, Links
<1>4. /\ link' \in [Positions -> Links]
      /\ \A q \in Positions : link'[q] # "closed" => IsSession(q)
  BY <1>1, <1>2, <1>3
<1>5. inbox' \in [1..MaxEntries -> Seq(FrameKinds)]
  <2>1. /\ inbox \in [1..MaxEntries -> Seq(FrameKinds)]
        /\ inbox' = [inbox EXCEPT ![p] = <<>>]
    BY DEF Disconnected, PInv, PTypes
  <2>2. <<>> \in Seq(FrameKinds)
    OBVIOUS
  <2> QED
    BY <2>1, <2>2
<1>6. due' \in [1..MaxEntries -> Nat]
  BY DEF Disconnected, PInv, PTypes
<1>7. PTypes'
  BY <1>5, <1>6 DEF Disconnected, PInv, PTypes
<1> QED
  BY <1>4, <1>7, QuietStep DEF Disconnected

\* Whatever a frame leads to is sent to sessions of the configuration.
LEMMA AnswersGoToSessions ==
    ASSUME NEW p \in Positions, IsSession(p), Positions \subseteq 1..MaxEntries,
           NEW kind \in FrameKinds,
           NEW answer \in CASE kind = "Logon" -> {on_logon(p)}
                            [] kind = "Logout" -> {on_logout(p)}
                            [] kind = "Heartbeat" -> {<<>>}
                            [] kind = "Application" -> Application(p)
    PROVE  /\ answer \in Seq(Sends) /\ Len(answer) <= 2
           /\ \A i \in DOMAIN answer :
                answer[i].to \in Positions /\ IsSession(answer[i].to)
<1> DEFINE send(q, k) == [to |-> q, kind |-> k]
           Targets == {q \in Positions : IsSession(q)}
<1>1. \A q \in Targets, k \in FrameKinds :
        /\ send(q, k) \in Sends /\ send(q, k).to \in Positions
        /\ IsSession(send(q, k).to)
  BY DEF Sends
<1>2. \/ answer = <<>>
      \/ \E q \in Targets, k \in FrameKinds : answer = <<send(q, k)>>
      \/ \E q, r \in Targets, k \in FrameKinds :
           answer = <<send(q, k), send(r, k)>>
  <2>1. CASE kind = "Logon" \/ kind = "Logout"
    BY <2>1 DEF on_logon, on_logout, FrameKinds
  <2>2. CASE kind = "Heartbeat"
    BY <2>2
  <2>3. CASE kind = "Application"
    <3>1. answer \in Application(p)
      BY <2>3
    <3>2. CASE config[p].kind = "source"
      BY <3>1, <3>2 DEF Application, FrameKinds, IsSession
    <3>3. CASE config[p].kind # "source"
      BY <3>1, <3>3 DEF Application, FrameKinds, IsSession
    <3> QED
      BY <3>2, <3>3
  <2> QED
    BY <2>1, <2>2, <2>3 DEF FrameKinds
<1> HIDE DEF send, Targets
<1>3. CASE answer = <<>>
  BY <1>3
<1>4. CASE \E q \in Targets, k \in FrameKinds : answer = <<send(q, k)>>
  BY <1>1, <1>4
<1>5. CASE \E q, r \in Targets, k \in FrameKinds :
             answer = <<send(q, k), send(r, k)>>
  BY <1>1, <1>5
<1> QED
  BY <1>2, <1>3, <1>4, <1>5

LEMMA HandleStep ==
    ASSUME PInv, NEW p \in Positions, on_data_impl(p)
    PROVE  PInv'
<1>1. /\ IsSession(p) /\ p \in 1..MaxEntries
      /\ Positions \subseteq 1..MaxEntries
  BY SessionFacts DEF PInv, HandlerFits, on_data_impl, IsConnected
<1>2. inbox[p] \in Seq(FrameKinds) /\ inbox[p] # <<>>
  BY <1>1 DEF PInv, PTypes, on_data_impl
<1>3. Head(inbox[p]) \in FrameKinds /\ Tail(inbox[p]) \in Seq(FrameKinds)
  BY <1>2
<1>4. /\ pending' \in Seq(Sends) /\ Len(pending') <= 2
      /\ \A i \in DOMAIN pending' :
           pending'[i].to \in Positions /\ IsSession(pending'[i].to)
  BY <1>1, <1>3, AnswersGoToSessions DEF on_data_impl
<1>5. /\ inbox' \in [1..MaxEntries -> Seq(FrameKinds)]
      /\ due' \in [1..MaxEntries -> Nat]
  BY <1>1, <1>3 DEF on_data_impl, PInv, PTypes
<1>6. Idle /\ number = 0 /\ UNCHANGED <<svars, number, seen, lost, frames>>
  BY DEF on_data_impl, Idle, PInv, PTypes
<1>7. PTypes'
  BY <1>4, <1>5, <1>6 DEF PInv, PTypes
<1>8. /\ link' \in [Positions -> Links]
      /\ \A q \in Positions : link'[q] # "closed" => IsSession(q)
  BY <1>6 DEF svars, PInv, SInv, STypeOK, HandlerFits
<1> QED
  BY <1>4, <1>6, <1>7, <1>8, QuietStep DEF svars

\* The message at work takes its number, or kills the process.
LEMMA EnrichStep ==
    ASSUME PInv, enrich_for_send
    PROVE  PInv'
<1> DEFINE p == pending[1].to
           f == File(p)
<1>1. /\ pending # <<>> /\ number = 0
      /\ process = "running" /\ stage = "begin"
      /\ p \in Positions /\ IsSession(p) /\ f \in Names
  BY PendingFacts DEF enrich_for_send
<1>2. CASE file[f].state = "empty"
  <2>1. Exit /\ HandlerEnds /\ UNCHANGED <<file, interrupted, crashes>>
    BY <1>2 DEF enrich_for_send
  <2>2. SInv'
    BY <1>1, <2>1, ExitStep DEF PInv, SInv, STypeOK
  <2> QED
    BY <2>1, <2>2, EndStep
<1>3. CASE file[f].state # "empty"
  <2>1. /\ file' = [file EXCEPT ![f].out = file[f].out + 1]
        /\ number' = file[f].out + 1
        /\ UNCHANGED <<config, process, next, stage, link, interrupted,
                       crashes, inbox, due, pending, seen, lost, frames>>
    BY <1>3 DEF enrich_for_send, Taken
  <2> HIDE DEF f, p
  <2>2. /\ file \in [Names -> Files] /\ file[f].out \in Nat
        /\ next = Len(config) + 1 /\ Built = Positions
    BY <1>1, ConfigFacts
    DEF PInv, SInv, STypeOK, StagesFit, Built, Files
  <2>3. /\ \A n \in Names : /\ file'[n].state = file[n].state
                            /\ n # f => file'[n] = file[n]
        /\ file'[f].out = file[f].out + 1
        /\ file' \in [Names -> Files]
    BY <1>1, <2>1, <2>2 DEF Files
  <2>4. SInv'
    <3>1. StagesFit'
      <4>1. Positions' = Positions /\ IsSession(next)' = IsSession(next)
        BY <2>1 DEF Positions, IsSession
      <4> QED
        BY <2>1, <4>1 DEF PInv, SInv, StagesFit, AtFile
    <3>2. \A n \in Names : file'[n].state = "empty" => n \in interrupted
      <4>1. \A n \in Names : file[n].state = "empty" => n \in interrupted
        BY <1>1 DEF PInv, SInv, UnusableFilesWereInterrupted
      <4> QED
        BY <2>3, <4>1
    <3> QED
      BY <1>1, <2>1, <2>3, <3>1, <3>2, FileStep DEF PInv, SInv, STypeOK
  <2>5. PTypes'
    <3>1. number' \in Nat /\ pending' # <<>>
      BY <1>1, <2>1, <2>2
    <3> QED
      BY <2>1, <3>1 DEF PInv, PTypes
  <2>6. /\ Positions' = Positions
        /\ \A q : IsSession(q)' = IsSession(q) /\ File(q)' = File(q)
        /\ f = File(p)' /\ p = pending'[1].to
    BY <2>1 DEF Positions, IsSession, File, f, p
  <2>7. HandlerFits'
    BY <2>1, <2>6 DEF PInv, HandlerFits
  <2>8. FilesExist'
    BY <2>1, <2>3, FilesStay DEF PInv
  <2>9. FilesFit'
    <3>1. file[f].state # "absent"
      BY <1>1, <2>2 DEF PInv, FilesExist, f
    <3>2. file[f].state = "sized"
      BY <1>1, <1>3, <2>2, <3>1 DEF Files
    <3> QED
      BY <1>1, <2>1, <2>3, <3>2 DEF PInv, FilesFit
  <2>10. \A q \in Positions : IsSession(q) => File(q) \in Names
    BY SessionFacts DEF PInv
  <2>11. \A q \in Positions : q \in 1..MaxEntries
    BY SessionFacts DEF PInv
  <2>12. Counted'
    <3>1. \A q \in Positions : IsSession(q) => \A i \in DOMAIN seen[q] :
            /\ seen[q][i].number \in Nat
            /\ seen[q][i].number <= file[File(q)].out
            /\ file[File(q)].out \in Nat
      BY <2>10, <2>11, SeenFacts, SessionFacts
      DEF PInv, NumbersFit, Counted
    <3>2. \A q \in Positions : IsSession(q) => \A i \in DOMAIN seen[q] :
            /\ seen[q][i].number <= file'[File(q)].out
            /\ File(q) = f => seen[q][i].number < number'
      BY <2>1, <2>2, <2>3, <2>10, <3>1
    <3>3. \A q \in 1..MaxEntries :
            seen'[q] # <<>> => q \in Positions /\ IsSession(q)
      BY <2>1 DEF PInv, NumbersFit, Counted
    <3>4. number' = file'[f].out
      BY <2>1, <2>3
    <3> QED
      BY <2>1, <2>6, <3>2, <3>3, <3>4 DEF Counted, f, p
  <2>13. NumbersIncrease'
    BY <2>1 DEF PInv, NumbersFit, NumbersIncrease
  <2>14. NumbersAreAccountedFor'
    <3> SUFFICES ASSUME NEW g \in Names, NEW n \in 1..file'[g].out
                 PROVE  \/ \E q \in Positions :
                             /\ IsSession(q) /\ File(q) = g
                             /\ \E i \in DOMAIN seen[q] : seen[q][i].number = n
                        \/ \E l \in (lost \cup Unwritten)' :
                             l.number = n /\ File(l.to) = g
      BY <2>1, <2>6 DEF NumbersAreAccountedFor
    <3>1. CASE n \in 1..file[g].out
      <4>1. Unwritten = {}
        BY <1>1 DEF Unwritten
      <4> QED
        BY <2>1, <3>1, <4>1 DEF PInv, NumbersFit, NumbersAreAccountedFor
    <3>2. CASE n \notin 1..file[g].out
      <4>1. g = f /\ n = number' /\ number' # 0
        BY <2>1, <2>2, <2>3, <3>2
      <4>2. Unwritten' = {[to |-> p, kind |-> pending[1].kind,
                           number |-> number']}
        BY <2>1, <4>1 DEF Unwritten, p
      <4> QED
        <5>1. PICK l \in Unwritten' : l.number = number' /\ l.to = p
          BY <4>2
        <5> QED
          BY <4>1, <5>1 DEF f
    <3> QED
      BY <3>1, <3>2
  <2> QED
    BY <2>4, <2>5, <2>7, <2>8, <2>9, <2>12, <2>13, <2>14
    DEF PInv, NumbersFit
<1> QED
  BY <1>2, <1>3

-----------------------------------------------------------------------------
(* The message at work leaves the handler.                                 *)

\* Nobody receives it.
LEMMA LostStep ==
    ASSUME PInv, number # 0, SendReturns, NotReceived(pending[1].to)
    PROVE  PInv'
<1>1. pending # <<>>
  BY DEF PInv, PTypes
<1>2. /\ pending' = Tail(pending) /\ number' = 0
      /\ lost' = lost \cup Unwritten
      /\ UNCHANGED <<config, process, next, stage, file, interrupted, crashes,
                     inbox, due, seen, frames>>
      /\ link' = link \/ link' = [link EXCEPT ![pending[1].to] = "torn"]
  BY DEF SendReturns, SendNext, NotReceived
<1>3. /\ link' \in [Positions -> Links]
      /\ \A q \in Positions : link'[q] # "closed" => IsSession(q)
  BY <1>1, <1>2, PendingFacts DEF PInv, SInv, STypeOK, HandlerFits, Links
<1>4. SInv'
  BY <1>2, <1>3, LinkStep DEF PInv
<1>5. PTypes'
  BY <1>1, <1>2, PendingFacts, UnwrittenFacts DEF PInv, PTypes
<1>6. HandlerFits'
  <2>1. Positions' = Positions /\ \A q : IsSession(q)' = IsSession(q)
    BY <1>2 DEF Positions, IsSession
  <2> QED
    BY <1>1, <1>2, <1>3, <2>1, PendingFacts DEF PInv, HandlerFits
<1>7. FilesFit' /\ FilesExist'
  BY <1>2, FilesKept, FilesStay DEF PInv
<1>8. NumbersFit'
  BY <1>2, NumbersKept
<1> QED
  BY <1>4, <1>5, <1>6, <1>7, <1>8 DEF PInv

\* Its receiver has seen nothing as new as it.
LEMMA WrittenStep ==
    ASSUME PInv, number # 0, SendReturns, Written(pending[1].to)
    PROVE  PInv'
<1> DEFINE p == pending[1].to
           e == [number |-> number, kind |-> pending[1].kind]
           S == [number : Nat, kind : FrameKinds]
<1>1. pending # <<>>
  BY DEF PInv, PTypes
<1>2. /\ pending' = Tail(pending) /\ number' = 0
      /\ seen' = [seen EXCEPT ![p] = Append(seen[p], e)]
      /\ UNCHANGED <<config, process, next, stage, link, file, interrupted,
                     crashes, inbox, due, lost, frames>>
  BY DEF SendReturns, SendNext, Written
<1>3. /\ p \in Positions /\ p \in 1..MaxEntries /\ IsSession(p)
      /\ number \in Nat /\ e \in S
  BY <1>1, PendingFacts, SessionFacts DEF PInv, PTypes
<1>4. seen \in [1..MaxEntries -> Seq(S)]
  BY DEF PInv, PTypes
<1>5. e.number = number
  OBVIOUS
<1> HIDE DEF p, e, S
<1>6. /\ seen' \in [1..MaxEntries -> Seq(S)]
      /\ \A q \in 1..MaxEntries : q # p => seen'[q] = seen[q]
      /\ seen'[p] = Append(seen[p], e)
  <2>1. Append(seen[p], e) \in Seq(S)
    BY <1>3, <1>4
  <2> QED
    BY <1>2, <1>3, <1>4, <2>1
<1>7. /\ Len(seen[p]) \in Nat /\ DOMAIN seen[p] = 1..Len(seen[p])
      /\ DOMAIN seen'[p] = 1..(Len(seen[p]) + 1)
      /\ \A i \in 1..Len(seen[p]) : seen'[p][i] = seen[p][i]
      /\ seen'[p][Len(seen[p]) + 1] = e
  BY <1>3, <1>4, <1>6
<1>8. /\ Positions' = Positions
      /\ \A q : IsSession(q)' = IsSession(q) /\ File(q)' = File(q)
  BY <1>2 DEF Positions, IsSession, File
<1>9. SInv'
  BY <1>2, LinkStep DEF PInv, SInv, STypeOK
<1>10. PTypes'
  BY <1>1, <1>2, <1>6, PendingFacts DEF PInv, PTypes, S
<1>11. HandlerFits'
  BY <1>1, <1>2, <1>8, PendingFacts DEF PInv, HandlerFits
<1>12. FilesFit' /\ FilesExist'
  BY <1>2, FilesKept, FilesStay DEF PInv
<1>13. number = file[File(p)].out
  BY DEF PInv, NumbersFit, Counted, p
<1>14. \A q \in Positions : q \in 1..MaxEntries
  BY SessionFacts DEF PInv
<1>15. Counted'
  <2>1. \A q \in 1..MaxEntries :
          seen'[q] # <<>> => q \in Positions /\ IsSession(q)
    BY <1>3, <1>6 DEF PInv, NumbersFit, Counted
  <2>2. \A q \in Positions : IsSession(q) => \A i \in DOMAIN seen'[q] :
          seen'[q][i].number <= file[File(q)].out
    <3> SUFFICES ASSUME NEW q \in Positions, IsSession(q),
                        NEW i \in DOMAIN seen'[q]
                 PROVE  seen'[q][i].number <= file[File(q)].out
      OBVIOUS
    <3>1. CASE q # p
      BY <1>6, <1>14, <3>1 DEF PInv, NumbersFit, Counted
    <3>2. CASE q = p /\ i \in 1..Len(seen[p])
      BY <1>7, <3>2 DEF PInv, NumbersFit, Counted
    <3>3. CASE q = p /\ i = Len(seen[p]) + 1
      BY <1>3, <1>5, <1>7, <1>13, <3>3
    <3> QED
      BY <1>7, <3>1, <3>2, <3>3
  <2> QED
    BY <1>2, <1>8, <2>1, <2>2 DEF Counted
<1>16. NumbersIncrease'
  <2> SUFFICES ASSUME NEW q \in 1..MaxEntries,
                      NEW i \in DOMAIN seen'[q], NEW j \in DOMAIN seen'[q],
                      i < j
               PROVE  seen'[q][i].number < seen'[q][j].number
    BY DEF NumbersIncrease
  <2>1. CASE q # p
    BY <1>6, <2>1 DEF PInv, NumbersFit, NumbersIncrease
  <2>2. CASE q = p /\ j \in 1..Len(seen[p])
    <3>1. /\ Len(seen[p]) \in Nat /\ i \in 1..(Len(seen[p]) + 1)
          /\ j \in 1..Len(seen[p])
      BY <1>7, <2>2
    <3>2. i \in 1..Len(seen[p])
      BY <3>1
    <3>3. seen'[q][i] = seen[p][i] /\ seen'[q][j] = seen[p][j]
      BY <1>7, <2>2, <3>1, <3>2
    <3>4. i \in DOMAIN seen[p] /\ j \in DOMAIN seen[p]
      BY <1>7, <3>1, <3>2
    <3> QED
      BY <1>3, <3>3, <3>4 DEF PInv, NumbersFit, NumbersIncrease
  <2>3. CASE q = p /\ j = Len(seen[p]) + 1
    <3>1. i \in DOMAIN seen[p] /\ seen'[q][i] = seen[p][i]
      <4>1. Len(seen[p]) \in Nat /\ i \in 1..(Len(seen[p]) + 1)
        BY <1>7, <2>3
      <4>2. i \in 1..Len(seen[p])
        BY <2>3, <4>1
      <4> QED
        BY <1>7, <2>3, <4>2
    <3>2. seen[p][i].number < number
      BY <1>3, <3>1 DEF PInv, NumbersFit, Counted, p
    <3> QED
      BY <1>5, <1>7, <2>3, <3>1, <3>2
  <2> QED
    BY <1>7, <2>1, <2>2, <2>3
<1>17. NumbersAreAccountedFor'
  <2> SUFFICES ASSUME NEW g \in Names, NEW n \in 1..file[g].out
               PROVE  \/ \E q \in Positions :
                           /\ IsSession(q) /\ File(q) = g
                           /\ \E i \in DOMAIN seen'[q] : seen'[q][i].number = n
                      \/ \E l \in lost : l.number = n /\ File(l.to) = g
    BY <1>2, <1>8 DEF NumbersAreAccountedFor
  <2>1. CASE \E q \in Positions :
               /\ IsSession(q) /\ File(q) = g
               /\ \E i \in DOMAIN seen[q] : seen[q][i].number = n
    <3>1. PICK q \in Positions :
            /\ IsSession(q) /\ File(q) = g
            /\ \E i \in DOMAIN seen[q] : seen[q][i].number = n
      BY <2>1
    <3>2. \E i \in DOMAIN seen'[q] : seen'[q][i].number = n
      <4>1. CASE q # p
        BY <1>6, <1>14, <3>1, <4>1
      <4>2. CASE q = p
        BY <1>7, <3>1, <4>2
      <4> QED
        BY <4>1, <4>2
    <3> QED
      BY <3>1, <3>2
  <2>2. CASE \E l \in lost : l.number = n /\ File(l.to) = g
    BY <2>2
  <2>3. CASE \E l \in Unwritten : l.number = n /\ File(l.to) = g
    <3>1. n = number /\ File(p) = g
      BY <2>3 DEF Unwritten, p
    <3>2. Len(seen[p]) + 1 \in DOMAIN seen'[p]
      BY <1>7
    <3> QED
      BY <1>3, <1>5, <1>7, <3>1, <3>2
  <2> QED
    BY <2>1, <2>2, <2>3 DEF PInv, NumbersFit, NumbersAreAccountedFor
<1> QED
  BY <1>9, <1>10, <1>11, <1>12, <1>15, <1>16, <1>17 DEF PInv, NumbersFit

LEMMA SendStep ==
    ASSUME PInv, send_data
    PROVE  PInv'
<1>1. CASE SendReturns
  BY <1>1, LostStep, WrittenStep DEF send_data, SendReturns
<1>2. CASE Exit /\ HandlerEnds /\ UNCHANGED <<file, interrupted, crashes>>
  <2>1. stage = "begin"
    BY PendingFacts DEF send_data, PInv, PTypes
  <2>2. SInv'
    BY <1>2, <2>1, ExitStep DEF PInv, SInv, STypeOK
  <2> QED
    BY <1>2, <2>2, EndStep
<1> QED
  BY <1>1, <1>2 DEF send_data

-----------------------------------------------------------------------------
LEMMA SessionInit == PInit => PInv
<1> SUFFICES ASSUME PInit PROVE PInv
  OBVIOUS
<1>1. SInv
  BY StartupInit DEF PInit
<1>2. PTypes
  <2>1. /\ <<>> \in Seq(FrameKinds) /\ <<>> \in Seq(Sends) /\ Len(<<>>) = 0
        /\ <<>> \in Seq([number : Nat, kind : FrameKinds])
    OBVIOUS
  <2> QED
    BY <2>1, SessionAssumption DEF PInit, PTypes
<1>3. HandlerFits
  BY DEF PInit, SInit, HandlerFits
<1>4. FilesFit /\ FilesExist
  <2>1. Built = {}
    BY DEF PInit, SInit, Built
  <2> QED
    BY <2>1 DEF PInit, SInit, FilesFit, FilesExist
<1>5. \A p \in Positions : p \in 1..MaxEntries
  BY <1>1, SessionFacts
<1>6. NumbersFit
  BY <1>5 DEF PInit, SInit, NumbersFit, Counted, NumbersIncrease,
           NumbersAreAccountedFor
<1> QED
  BY <1>1, <1>2, <1>3, <1>4, <1>6 DEF PInv

LEMMA SessionStep == PInv /\ [PNext]_pvars => PInv'
<1> SUFFICES ASSUME PInv, [PNext]_pvars PROVE PInv'
  OBVIOUS
<1>1. CASE (Start \/ init) /\ UNCHANGED hvars
  BY <1>1, StartupSteps
<1>2. CASE Crash /\ HandlerEnds
  BY <1>2, CrashEnds
<1>3. CASE \E p \in Positions : IsSession(p) /\ Peer(p)
  BY <1>3, PeerStep
<1>4. CASE \E p \in Positions : on_data_impl(p) \/ Disconnected(p)
  BY <1>4, HandleStep, DisconnectedStep
<1>5. CASE enrich_for_send
  BY <1>5, EnrichStep
<1>6. CASE send_data
  BY <1>6, SendStep
<1>7. CASE UNCHANGED pvars
  <2>1. UNCHANGED svars /\ UNCHANGED hvars
    BY <1>7 DEF pvars
  <2>2. SInv'
    BY <2>1, LinkStep DEF svars, PInv, SInv, STypeOK
  <2>3. Unwritten' = Unwritten
    BY <2>1 DEF Unwritten, hvars
  <2>4. NumbersFit'
    BY <2>1, <2>3, NumbersKept DEF svars, hvars
  <2>5. PTypes'
    BY <2>1 DEF PInv, PTypes, hvars
  <2>6. HandlerFits'
    BY <2>1 DEF PInv, HandlerFits, svars, hvars, Positions, IsSession
  <2>7. FilesFit' /\ FilesExist'
    BY <2>1, FilesKept, FilesStay DEF PInv, svars
  <2> QED
    BY <2>2, <2>4, <2>5, <2>6, <2>7 DEF PInv
<1> QED
  BY <1>1, <1>2, <1>3, <1>4, <1>5, <1>6, <1>7 DEF PNext

LEMMA SessionInvariant == PSpec => []PInv
  BY SessionInit, SessionStep, PTL DEF PSpec

(***************************************************************************)
(* The router and its sessions are always in a state of the declared       *)
(* types: no handler has more than two messages to send, and none is       *)
(* numbered when no handler is at work.                                    *)
(***************************************************************************)
THEOREM SessionTypeCorrect == PSpec => []PTypeOK
<1>1. PInv => PTypeOK
  BY DEF PInv, SInv, PTypes, PTypeOK
<1> QED
  BY <1>1, SessionInvariant, PTL

(***************************************************************************)
(* However the sessions' traffic and the process's crashes interleave, the *)
(* event loop runs only with everything the configuration lists.           *)
(***************************************************************************)
THEOREM LoopIsComplete == PSpec => []RunningIsComplete
<1>1. PInv => RunningIsComplete
  BY StartupComplete DEF PInv, SInv
<1> QED
  BY <1>1, SessionInvariant, PTL

(***************************************************************************)
(* A file no process can number from was left by a crash in the middle of  *)
(* its creation, whatever sessions did with it since.                      *)
(***************************************************************************)
THEOREM UnusableFilesExplained == PSpec => []UnusableFilesWereInterrupted
<1>1. PInv => UnusableFilesWereInterrupted
  BY DEF PInv, SInv
<1> QED
  BY <1>1, SessionInvariant, PTL

(***************************************************************************)
(* Over all connections and processes, a peer sees growing numbers.        *)
(***************************************************************************)
THEOREM NumbersGrow == PSpec => []NumbersIncrease
<1>1. PInv => NumbersIncrease
  BY DEF PInv, NumbersFit
<1> QED
  BY <1>1, SessionInvariant, PTL

(***************************************************************************)
(* Every number taken from a file was received by a peer of a session that *)
(* uses the file, lost with its message, or is being sent.                 *)
(***************************************************************************)
THEOREM NumbersAccounted == PSpec => []NumbersAreAccountedFor
<1>1. PInv => NumbersAreAccountedFor
  BY DEF PInv, NumbersFit
<1> QED
  BY <1>1, SessionInvariant, PTL

-----------------------------------------------------------------------------
(* NumberedChannels, step by step.                                         *)

LEMMA NumbersOfTwo ==
    ASSUME NEW A, NEW B
    PROVE  Numbers(A \cup B) = Numbers(A) \cup Numbers(B)
  BY DEF Numbers

\* The message at work is the one in flight.
LEMMA InFlight ==
    /\ number = 0 => Numbers(Unwritten) = {}
    /\ number # 0 => Numbers(Unwritten)
                       = {[to |-> pending[1].to, number |-> number]}
<1>1. CASE number = 0
  BY <1>1 DEF Unwritten, Numbers
<1>2. CASE number # 0
  <2>1. Unwritten = {[to |-> pending[1].to, kind |-> pending[1].kind,
                      number |-> number]}
    BY <1>2 DEF Unwritten
  <2> QED
    BY <1>2, <2>1 DEF Numbers
<1> QED
  BY <1>1, <1>2

\* What channels, counters and receivers are made of does not change.
LEMMA PictureKept ==
    ASSUME UNCHANGED config, \A n \in Names : file'[n].out = file[n].out
    PROVE  /\ Sessions' = Sessions
           /\ [p \in Sessions |-> File(p)]' = [p \in Sessions |-> File(p)]
           /\ [n \in Names |-> file[n].out]' = [n \in Names |-> file[n].out]
           /\ UNCHANGED seen => [p \in Sessions |-> Received(p)]'
                                  = [p \in Sessions |-> Received(p)]
<1>1. Sessions' = Sessions
  BY DEF Sessions, Positions, IsSession
<1> QED
  BY <1>1 DEF File, Received

LEMMA QuietPromise ==
    ASSUME UNCHANGED <<config, seen, lost>>,
           \A n \in Names : file'[n].out = file[n].out,
           Unwritten' = Unwritten
    PROVE  UNCHANGED Promise!nvars
<1>1. UNCHANGED <<Numbers(Unwritten), Numbers(lost)>>
  BY DEF Numbers
<1> QED
  BY <1>1, PictureKept DEF Promise!nvars

LEMMA LostPromise ==
    ASSUME number # 0, number' = 0, lost' = lost \cup Unwritten,
           UNCHANGED <<config, seen>>,
           \A n \in Names : file'[n].out = file[n].out
    PROVE  Promise!NNext
<1> DEFINE m == [to |-> pending[1].to, number |-> number]
<1>1. Numbers(Unwritten) = {m} /\ Numbers(Unwritten)' = {}
  <2>1. Unwritten' = {}
    BY DEF Unwritten
  <2> QED
    BY <2>1, InFlight DEF Numbers
<1>2. Numbers(lost)' = Numbers(lost) \cup {m}
  <2>1. Numbers(lost)' = Numbers(lost \cup Unwritten)
    BY DEF Numbers
  <2> QED
    BY <1>1, <2>1, NumbersOfTwo
<1>3. Promise!Lose(m)
  BY <1>1, <1>2, PictureKept DEF Promise!Lose
<1> QED
  BY <1>1, <1>3 DEF Promise!NNext

LEMMA EndPromise ==
    ASSUME Exit, HandlerEnds, UNCHANGED file
    PROVE  [Promise!NNext]_(Promise!nvars)
<1>1. /\ number' = 0 /\ lost' = lost \cup Unwritten
      /\ UNCHANGED <<config, seen>>
  BY DEF Exit, HandlerEnds
<1>2. CASE number # 0
  BY <1>1, <1>2, LostPromise
<1>3. CASE number = 0
  <2>1. Unwritten = {} /\ Unwritten' = {}
    BY <1>1, <1>3 DEF Unwritten
  <2> QED
    BY <1>1, <2>1, QuietPromise
<1> QED
  BY <1>2, <1>3

LEMMA EnrichPromise ==
    ASSUME PInv, enrich_for_send
    PROVE  [Promise!NNext]_(Promise!nvars)
<1>0. PICK p : p = pending[1].to
  OBVIOUS
<1> DEFINE f == File(p)
           out == [n \in Names |-> file[n].out]
<1>1. /\ number = 0 /\ p \in Sessions /\ f \in Names
      /\ file \in [Names -> Files] /\ file[f].out \in Nat
  BY <1>0, PendingFacts
  DEF enrich_for_send, Sessions, PInv, SInv, STypeOK, Files
<1>2. CASE file[f].state = "empty"
  <2>1. Exit /\ HandlerEnds /\ UNCHANGED file
    BY <1>0, <1>2 DEF enrich_for_send
  <2> QED
    BY <2>1, EndPromise
<1>3. CASE file[f].state # "empty"
  <2>1. /\ file' = [file EXCEPT ![f].out = file[f].out + 1]
        /\ number' = file[f].out + 1
        /\ UNCHANGED <<config, pending, seen, lost>>
    BY <1>0, <1>3 DEF enrich_for_send, Taken
  <2>2. Numbers(Unwritten) = {}
    BY <1>1, InFlight
  <2>3. Numbers(Unwritten)' = {[to |-> p, number |-> out[f] + 1]}
    <3>1. number' # 0 /\ number' = out[f] + 1 /\ pending' = pending
      BY <1>1, <2>1
    <3>2. Unwritten' = {[to |-> p, kind |-> pending[1].kind,
                         number |-> number']}
      BY <1>0, <3>1 DEF Unwritten
    <3> QED
      BY <3>1, <3>2 DEF Numbers
  <2>4. out' = [out EXCEPT ![f] = @ + 1]
    <3>1. \A n \in Names : /\ n # f => file'[n] = file[n]
                           /\ n = f => file'[n].out = file[n].out + 1
      BY <1>1, <2>1 DEF Files
    <3> QED
      BY <1>1, <3>1
  <2>5. /\ Sessions' = Sessions
        /\ [q \in Sessions |-> File(q)]' = [q \in Sessions |-> File(q)]
        /\ [q \in Sessions |-> Received(q)]' = [q \in Sessions |-> Received(q)]
        /\ Numbers(lost)' = Numbers(lost)
    BY <2>1 DEF Sessions, Positions, IsSession, File, Received, Numbers
  <2>6. Promise!Number(p)
    BY <1>1, <2>2, <2>3, <2>4, <2>5 DEF Promise!Number
  <2>7. p \in DOMAIN [q \in Sessions |-> File(q)]
    BY <1>1
  <2> QED
    BY <2>6, <2>7 DEF Promise!NNext
<1> QED
  BY <1>2, <1>3

LEMMA WrittenPromise ==
    ASSUME PInv, number # 0, SendReturns, Written(pending[1].to)
    PROVE  Promise!NNext
<1>0. PICK p : p = pending[1].to
  OBVIOUS
<1> DEFINE m == [to |-> p, number |-> number]
           e == [number |-> number, kind |-> pending[1].kind]
           got == [q \in Sessions |-> Received(q)]
<1>1. /\ number' = 0 /\ UNCHANGED <<config, file, lost>>
      /\ seen' = [seen EXCEPT ![p] = Append(seen[p], e)]
  BY <1>0 DEF SendReturns, SendNext, Written
<1>2. p \in Sessions /\ p \in 1..MaxEntries
  BY <1>0, PendingFacts, SessionFacts DEF PInv, PTypes, Sessions
<1>3. Numbers(Unwritten) = {m} /\ Numbers(Unwritten)' = {}
  <2>1. Unwritten' = {}
    BY <1>1 DEF Unwritten
  <2> QED
    BY <1>0, <2>1, InFlight DEF Numbers
<1>4. got' = [got EXCEPT ![p] = Append(@, number)]
  <2> DEFINE S == [number : Nat, kind : FrameKinds]
  <2>1. seen \in [1..MaxEntries -> Seq(S)]
    BY DEF PInv, PTypes
  <2>2. e.number = number
    OBVIOUS
  <2> HIDE DEF S, e
  <2>3. seen'[p] = Append(seen[p], e)
        /\ \A q \in 1..MaxEntries : q # p => seen'[q] = seen[q]
    BY <1>1, <1>2, <2>1
  <2>4. Received(p)' = Append(Received(p), number)
    <3>1. /\ Len(seen[p]) \in Nat /\ DOMAIN seen[p] = 1..Len(seen[p])
          /\ DOMAIN seen'[p] = 1..(Len(seen[p]) + 1)
          /\ \A i \in 1..Len(seen[p]) : seen'[p][i] = seen[p][i]
          /\ seen'[p][Len(seen[p]) + 1] = e
      BY <1>2, <2>1, <2>3
    <3>2. Received(p) = [i \in 1..Len(seen[p]) |-> seen[p][i].number]
      BY <3>1 DEF Received
    <3>3. Received(p)' = [i \in 1..(Len(seen[p]) + 1) |-> seen'[p][i].number]
      BY <3>1 DEF Received
    <3>4. Len(Received(p)) = Len(seen[p])
      BY <3>1, <3>2
    <3>5. Append(Received(p), number)
            = [i \in 1..(Len(seen[p]) + 1) |->
                 IF i = Len(seen[p]) + 1 THEN number ELSE seen[p][i].number]
      BY <3>1, <3>2, <3>4
    <3> QED
      BY <2>2, <3>1, <3>3, <3>5
  <2>5. /\ Sessions' = Sessions
        /\ \A q \in Sessions : q \in 1..MaxEntries
    BY <1>1, SessionFacts DEF Sessions, Positions, IsSession, PInv
  <2>6. \A q \in Sessions : q # p => Received(q)' = Received(q)
    BY <2>3, <2>5 DEF Received
  <2>7. got' = [q \in Sessions |-> Received(q)']
    BY <2>5
  <2>8. [got EXCEPT ![p] = Append(@, number)]
          = [q \in Sessions |-> IF q = p THEN Append(Received(p), number)
                                         ELSE Received(q)]
    BY <1>2
  <2> QED
    BY <2>4, <2>6, <2>7, <2>8
<1>5. Promise!Receive(m)
  <2>1. Numbers(lost)' = Numbers(lost)
    BY <1>1 DEF Numbers
  <2> QED
    BY <1>1, <1>3, <1>4, <2>1, PictureKept DEF Promise!Receive
<1> QED
  BY <1>3, <1>5 DEF Promise!NNext

LEMMA PromiseStep ==
    ASSUME PInv, [PNext]_pvars
    PROVE  [Promise!NNext]_(Promise!nvars)
<1>1. CASE (Start \/ init) /\ UNCHANGED hvars
  <2>1. config' = config
    BY <1>1 DEF Start, init, Construct, CreateFile, WriteFile, MapFile,
                InitializeFile, Register, Run, Exit
  <2>2. Unwritten' = Unwritten /\ UNCHANGED <<seen, lost>>
    BY <1>1 DEF Unwritten, hvars
  <2> QED
    BY <1>1, <2>1, <2>2, CountersKept, QuietPromise
<1>2. CASE Crash /\ HandlerEnds
  BY <1>2, EndPromise DEF Crash
<1>3. CASE \/ \E p \in Positions : Peer(p)
           \/ \E p \in Positions : on_data_impl(p) \/ Disconnected(p)
           \/ UNCHANGED pvars
  <2>1. UNCHANGED <<config, file, seen, lost, number>>
    BY <1>3 DEF Peer, Accept, FromPeer, PeerReads, on_data_impl, Disconnected,
                pvars, svars, hvars
  <2>2. number # 0 => UNCHANGED pending
    BY <1>3 DEF Peer, Accept, FromPeer, PeerReads, on_data_impl, Disconnected,
                Idle, pvars, svars, hvars, PInv, PTypes
  <2>3. Unwritten' = Unwritten
    BY <2>1, <2>2 DEF Unwritten
  <2> QED
    BY <2>1, <2>3, QuietPromise
<1>4. CASE enrich_for_send
  BY <1>4, EnrichPromise
<1>5. CASE send_data
  <2>1. CASE SendReturns /\ Written(pending[1].to)
    BY <1>5, <2>1, WrittenPromise DEF send_data
  <2>2. CASE SendReturns /\ NotReceived(pending[1].to)
    BY <1>5, <2>2, LostPromise DEF send_data, SendReturns, SendNext, NotReceived
  <2>3. CASE Exit /\ HandlerEnds /\ UNCHANGED file
    BY <2>3, EndPromise
  <2> QED
    BY <1>5, <2>1, <2>2, <2>3 DEF send_data, SendReturns
<1> QED
  BY <1>1, <1>2, <1>3, <1>4, <1>5 DEF PNext

(***************************************************************************)
(* The stores are counters that crashes and restarts do not set back: each *)
(* number is given to one message, which is received or lost before        *)
(* another is numbered.                                                    *)
(***************************************************************************)
THEOREM SessionsAreNumberedChannels == PSpec => ImplementsNumberedChannels
<1>1. PInit => Promise!NInit
  <2> SUFFICES ASSUME PInit PROVE Promise!NInit
    OBVIOUS
  <2>1. \A p \in Sessions : File(p) \in Names /\ p \in 1..MaxEntries
    BY SessionInit, SessionFacts DEF PInv, Sessions
  <2>2. \A p \in Sessions : Received(p) = <<>>
    BY <2>1 DEF PInit, Received
  <2>3. [n \in Names |-> file[n].out] = [n \in Names |-> 0]
    BY DEF PInit, SInit
  <2>4. Numbers(Unwritten) = {} /\ Numbers(lost) = {}
    BY InFlight DEF PInit, Numbers
  <2> QED
    BY <2>1, <2>2, <2>3, <2>4 DEF Promise!NInit
<1> QED
  BY SessionInit, SessionStep, <1>1, PromiseStep, PTL
     DEF PSpec, ImplementsNumberedChannels, Promise!NSpec

=============================================================================
