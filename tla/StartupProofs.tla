---------------------------- MODULE StartupProofs ----------------------------
(***************************************************************************)
(* Whatever config.xml says and whenever the process ends: the event loop  *)
(* runs only with a complete application, and a file without length is     *)
(* left only by a crash in the middle of its creation.                     *)
(***************************************************************************)
EXTENDS Startup, Integers, TLAPS

AtFile == stage \in {"create", "write", "map new", "map", "initialize"}

\* Where init may be.
StagesFit ==
    /\ stage # "begin" => process = "starting" /\ next \in Positions
    /\ AtFile => IsSession(next)
    /\ process = "running" => next = Len(config) + 1

\* What an entry uses was built before it.
Grounded(p) ==
    /\ config[p].kind = "destination" =>
         \E q \in 1..(p - 1) : /\ config[q].kind = "validator"
                               /\ config[q].id = config[p].refs[1]
    /\ config[p].kind = "source" =>
         \A id \in Routed(config[p]) :
           \E q \in 1..(p - 1) : /\ config[q].kind = "destination"
                                 /\ config[q].id = id

\* What is built is complete, and so is the entry that is being built.
BuiltIsComplete ==
    /\ \A p, q \in Built :
         config[p].kind = config[q].kind /\ config[p].id = config[q].id => p = q
    /\ \A p \in Built : Grounded(p)
    /\ stage # "begin" => Grounded(next)

SInv == /\ STypeOK /\ StagesFit /\ BuiltIsComplete
        /\ UnusableFilesWereInterrupted

LEMMA ConfigFacts ==
    ASSUME STypeOK
    PROVE  /\ Len(config) \in Nat /\ Positions = 1..Len(config)
           /\ \A p \in Positions : IsEntry(config[p])
           /\ next \in Nat /\ next >= 1 /\ Built \subseteq Positions
           /\ \A p \in Positions : IsSession(p) => config[p].name \in Names
<1>1. /\ Len(config) \in Nat /\ Positions = 1..Len(config)
      /\ \A p \in Positions : IsEntry(config[p])
  BY ConfigAssumption DEF STypeOK, Positions
<1>2. next \in Nat /\ next >= 1 /\ Built \subseteq Positions
  BY <1>1 DEF STypeOK, Built
<1>3. \A p \in Positions : IsSession(p) => config[p].name \in Names
  BY <1>1 DEF IsSession, IsEntry
<1> QED
  BY <1>1, <1>2, <1>3

-----------------------------------------------------------------------------
(* Steps any of whose kinds occur in several actions.                      *)

\* The process ends, but not in the middle of a file's creation unnoticed.
LEMMA ExitStep ==
    ASSUME SInv, Exit, UNCHANGED file,
           crashes' \in 0..MaxCrashes,
           \/ stage # "write" /\ UNCHANGED interrupted
           \/ stage = "write" /\ interrupted' = interrupted \cup {Entry.name}
    PROVE  SInv'
<1>1. /\ config' = config /\ process' = "down" /\ next' = 1 /\ stage' = "begin"
      /\ link' = [p \in Positions |-> "closed"]
  BY DEF Exit
<1>2. Positions' = Positions
  BY <1>1 DEF Positions
<1>3. interrupted' \subseteq Names
  <2>1. interrupted \subseteq Names
    BY DEF SInv, STypeOK
  <2>2. stage = "write" => Entry.name \in Names
    BY ConfigFacts DEF SInv, StagesFit, AtFile, Entry
  <2> QED
    BY <2>1, <2>2
<1>4. STypeOK'
  <2>1. next' \in 1..(Len(config) + 1)
    BY <1>1, ConfigFacts DEF SInv
  <2>2. link' \in [Positions -> Links]
    BY <1>1 DEF Links
  <2> QED
    BY <1>1, <1>2, <1>3, <2>1, <2>2 DEF SInv, STypeOK, Stages
<1>5. StagesFit'
  BY <1>1 DEF StagesFit, AtFile
<1>6. BuiltIsComplete'
  BY <1>1 DEF BuiltIsComplete, Built
<1>7. UnusableFilesWereInterrupted'
  BY <1>1 DEF SInv, UnusableFilesWereInterrupted
<1> QED
  BY <1>4, <1>5, <1>6, <1>7 DEF SInv

\* A socket changes.
LEMMA LinkStep ==
    ASSUME SInv, link' \in [Positions -> Links],
           UNCHANGED <<config, process, next, stage, file, interrupted, crashes>>
    PROVE  SInv'
<1>1. Positions' = Positions /\ Built' = Built
  BY DEF Positions, Built
<1>2. STypeOK'
  BY <1>1 DEF SInv, STypeOK
<1>3. StagesFit'
  BY <1>1 DEF SInv, StagesFit, AtFile, IsSession
<1>4. \A p : Grounded(p)' = Grounded(p)
  BY DEF Grounded
<1>5. BuiltIsComplete'
  BY <1>1, <1>4 DEF SInv, BuiltIsComplete
<1>6. UnusableFilesWereInterrupted'
  BY DEF SInv, UnusableFilesWereInterrupted, Entry
<1> QED
  BY <1>2, <1>3, <1>5, <1>6 DEF SInv

\* init goes on with the same entry, or the counter of a file changes; a file
\* is empty only while it is created.
LEMMA FileStep ==
    ASSUME SInv, file' \in [Names -> Files], stage' \in Stages,
           process' \in {"starting", "running"}, StagesFit',
           link' \in [Positions -> Links],
           UNCHANGED <<config, next, interrupted, crashes>>,
           stage' # "begin" => Grounded(next),
           \A n \in Names : file'[n].state = "empty" =>
             \/ n \in interrupted
             \/ process' = "starting" /\ stage' = "write" /\ Entry.name = n
    PROVE  SInv'
<1>1. Positions' = Positions /\ Built' = Built
  BY DEF Positions, Built
<1>2. STypeOK'
  BY <1>1 DEF SInv, STypeOK
<1>3. BuiltIsComplete'
  BY <1>1 DEF SInv, BuiltIsComplete, Grounded
<1>4. UnusableFilesWereInterrupted'
  BY DEF SInv, UnusableFilesWereInterrupted, Entry
<1> QED
  BY <1>2, <1>3, <1>4 DEF SInv

-----------------------------------------------------------------------------
(* The steps of init.                                                      *)

LEMMA StartStep == SInv /\ Start => SInv'
<1> SUFFICES ASSUME SInv, Start PROVE SInv'
  OBVIOUS
<1>1. stage = "begin"
  BY DEF SInv, StagesFit, Start
<1>2. StagesFit'
  BY <1>1 DEF Start, StagesFit, AtFile
<1>3. \A n \in Names : file[n].state = "empty" => n \in interrupted
  BY <1>1 DEF SInv, UnusableFilesWereInterrupted
<1> QED
  BY <1>1, <1>2, <1>3, FileStep DEF Start, SInv, STypeOK

\* CanBeBuilt looks everything up in what is built.
LEMMA LookupsGround ==
    ASSUME STypeOK, next \in Positions, CanBeBuilt(Entry)
    PROVE  Grounded(next)
<1>1. \A kind : \A id \in IdsOf(kind) :
        \E q \in 1..(next - 1) : config[q].kind = kind /\ config[q].id = id
  BY DEF IdsOf, Built
<1>2. Entry = config[next]
  BY DEF Entry
<1>3. config[next].kind = "destination" =>
        config[next].refs[1] \in IdsOf("validator")
  BY <1>2 DEF CanBeBuilt
<1>4. config[next].kind = "source" =>
        Routed(config[next]) \subseteq IdsOf("destination")
  BY <1>2 DEF CanBeBuilt, RouterCanBeBuilt
<1> QED
  BY <1>1, <1>3, <1>4 DEF Grounded

LEMMA ConstructStep == SInv /\ Construct => SInv'
<1> SUFFICES ASSUME SInv, Construct PROVE SInv'
  OBVIOUS
<1>1. /\ process = "starting" /\ stage = "begin" /\ next \in Positions
      /\ UNCHANGED <<file, interrupted, crashes>>
  BY DEF Construct
<1>2. CASE ~CanBeBuilt(Entry)
  BY <1>1, <1>2, ExitStep DEF Construct, SInv, STypeOK
<1>3. CASE CanBeBuilt(Entry)
  <2>1. UNCHANGED <<config, process, next>>
    BY <1>3 DEF Construct
  <2>2. Grounded(next)
    BY <1>1, <1>3, LookupsGround DEF SInv
  <2>3. \/ Entry.kind = "validator" /\ stage' = "register" /\ UNCHANGED link
        \/ /\ Entry.kind # "validator" /\ stage' \in {"create", "map"}
           /\ \E l \in Opened(Entry) : link' = [link EXCEPT ![next] = l]
    BY <1>3 DEF Construct
  <2>4. link' \in [Positions -> Links] /\ stage' \in Stages
    BY <2>3 DEF SInv, STypeOK, Opened, Links, Stages
  <2>5. StagesFit'
    BY <1>1, <2>1, <2>3
       DEF SInv, StagesFit, AtFile, IsSession, Entry, Positions
  <2>6. \A n \in Names : file[n].state = "empty" => n \in interrupted
    BY <1>1 DEF SInv, UnusableFilesWereInterrupted
  <2> QED
    BY <1>1, <2>1, <2>2, <2>4, <2>5, <2>6, FileStep DEF SInv, STypeOK
<1> QED
  BY <1>2, <1>3

LEMMA CreateStep == SInv /\ (CreateFile \/ WriteFile \/ MapFile) => SInv'
<1> SUFFICES ASSUME SInv, CreateFile \/ WriteFile \/ MapFile PROVE SInv'
  OBVIOUS
<1>1. /\ stage # "begin" /\ AtFile
      /\ UNCHANGED <<config, process, next, link, interrupted, crashes>>
  BY DEF CreateFile, WriteFile, MapFile, AtFile
<1>2. /\ process = "starting" /\ next \in Positions /\ Grounded(next)
      /\ IsSession(next)
  BY <1>1 DEF SInv, StagesFit, BuiltIsComplete
<1>3. Entry.name \in Names
  BY <1>2, ConfigFacts DEF SInv, Entry
<1>4. stage' \in Stages /\ stage' # "begin"
  BY DEF CreateFile, WriteFile, MapFile, Stages
<1>5. StagesFit'
  BY <1>1, <1>2, <1>4 DEF StagesFit, IsSession, Positions
<1>6. file' \in [Names -> Files]
  <2>1. file \in [Names -> Files]
    BY DEF SInv, STypeOK
  <2>2. CASE CreateFile
    <3>1. file' = [file EXCEPT ![Entry.name] =
                     [file[Entry.name] EXCEPT !.state = "empty"]]
      BY <2>2 DEF CreateFile
    <3>2. [file[Entry.name] EXCEPT !.state = "empty"] \in Files
      BY <1>3, <2>1 DEF Files
    <3> QED
      BY <2>1, <3>1, <3>2
  <2>3. CASE WriteFile
    BY <2>1, <2>3 DEF WriteFile, Files
  <2>4. CASE MapFile
    BY <2>1, <2>4 DEF MapFile
  <2> QED
    BY <2>2, <2>3, <2>4
<1>7. \A n \in Names : file'[n].state = "empty" =>
        \/ n \in interrupted
        \/ process' = "starting" /\ stage' = "write" /\ Entry.name = n
  <2>1. file \in [Names -> Files]
    BY DEF SInv, STypeOK
  <2>2. \A n \in Names : n # Entry.name => file'[n] = file[n]
    BY <2>1 DEF CreateFile, WriteFile, MapFile
  <2>3. CASE CreateFile
    BY <1>1, <1>2, <2>2, <2>3
       DEF CreateFile, SInv, UnusableFilesWereInterrupted
  <2>4. CASE WriteFile
    <3>1. file'[Entry.name].state = "sized"
      BY <1>3, <2>1, <2>4 DEF WriteFile
    <3> QED
      BY <2>2, <3>1 DEF SInv, UnusableFilesWereInterrupted
  <2>5. CASE MapFile
    BY <2>5 DEF MapFile, SInv, UnusableFilesWereInterrupted
  <2> QED
    BY <2>3, <2>4, <2>5
<1> QED
  BY <1>1, <1>2, <1>4, <1>5, <1>6, <1>7, FileStep DEF SInv, STypeOK

LEMMA InitializeStep == SInv /\ InitializeFile => SInv'
<1> SUFFICES ASSUME SInv, InitializeFile PROVE SInv'
  OBVIOUS
<1>1. stage = "initialize" /\ UNCHANGED <<interrupted, crashes>>
  BY DEF InitializeFile
<1>2. CASE file[Entry.name].state = "empty"
  BY <1>1, <1>2, ExitStep DEF InitializeFile, SInv, STypeOK
<1>3. CASE file[Entry.name].state # "empty"
  <2>1. /\ file' = [file EXCEPT ![Entry.name].out = 0]
        /\ stage' = "register" /\ UNCHANGED <<config, process, next, link>>
    BY <1>3 DEF InitializeFile
  <2>2. process = "starting" /\ next \in Positions /\ Grounded(next)
    BY <1>1 DEF SInv, StagesFit, BuiltIsComplete
  <2>3. file \in [Names -> Files]
    BY DEF SInv, STypeOK
  <2>4. /\ file' \in [Names -> Files]
        /\ \A n \in Names : file'[n].state = file[n].state
    <3>1. \A n \in Names : [file[n] EXCEPT !.out = 0] \in Files
      BY <2>3 DEF Files
    <3>2. \A n \in Names : [file[n] EXCEPT !.out = 0].state = file[n].state
      BY <2>3 DEF Files
    <3> QED
      BY <2>1, <2>3, <3>1, <3>2
  <2>5. StagesFit'
    BY <2>1, <2>2 DEF StagesFit, AtFile, Positions
  <2>6. \A n \in Names : file'[n].state = "empty" => n \in interrupted
    BY <1>1, <2>4 DEF SInv, UnusableFilesWereInterrupted
  <2> QED
    BY <1>1, <2>1, <2>2, <2>4, <2>5, <2>6, FileStep DEF SInv, STypeOK, Stages
<1> QED
  BY <1>2, <1>3

\* try_emplace succeeds, so the id is new among its kind.
LEMMA RegisterStep == SInv /\ Register => SInv'
<1> SUFFICES ASSUME SInv, Register PROVE SInv'
  OBVIOUS
<1>1. stage = "register" /\ UNCHANGED <<file, interrupted, crashes>>
  BY DEF Register
<1>2. CASE Entry.id \in IdsOf(Entry.kind)
  BY <1>1, <1>2, ExitStep DEF Register, SInv, STypeOK
<1>3. CASE Entry.id \notin IdsOf(Entry.kind)
  <2>1. next' = next + 1 /\ stage' = "begin" /\ UNCHANGED <<config, process, link>>
    BY <1>3 DEF Register
  <2>2. process = "starting" /\ next \in Positions /\ Grounded(next)
    BY <1>1 DEF SInv, StagesFit, BuiltIsComplete
  <2>3. /\ next \in Nat /\ Positions = 1..Len(config) /\ Len(config) \in Nat
        /\ Positions' = Positions
    BY <2>1, ConfigFacts DEF SInv, Positions
  <2>4. STypeOK'
    BY <1>1, <2>1, <2>2, <2>3 DEF SInv, STypeOK, Stages
  <2>5. StagesFit'
    BY <2>1, <2>2 DEF StagesFit, AtFile
  <2>6. Built = 1..(next - 1) /\ \A p \in Built' : p \in Built \/ p = next
    BY <2>1, <2>3 DEF Built
  <2>7. \A p \in Built :
          ~(config[p].kind = config[next].kind /\ config[p].id = config[next].id)
    BY <1>3 DEF IdsOf, Entry
  <2>8. \A p : Grounded(p)' = Grounded(p)
    BY <2>1 DEF Grounded
  <2>9. BuiltIsComplete'
    BY <2>1, <2>2, <2>6, <2>7, <2>8 DEF SInv, BuiltIsComplete
  <2>10. UnusableFilesWereInterrupted'
    BY <1>1, <2>1 DEF SInv, UnusableFilesWereInterrupted
  <2> QED
    BY <2>4, <2>5, <2>9, <2>10 DEF SInv
<1> QED
  BY <1>2, <1>3

LEMMA RunStep == SInv /\ Run => SInv'
<1> SUFFICES ASSUME SInv, Run PROVE SInv'
  OBVIOUS
<1>1. next = Len(config) + 1
  BY ConfigFacts DEF SInv, STypeOK, Run
<1>2. StagesFit'
  BY <1>1 DEF Run, StagesFit, AtFile
<1>3. \A n \in Names : file[n].state = "empty" => n \in interrupted
  BY DEF Run, SInv, UnusableFilesWereInterrupted
<1> QED
  BY <1>2, <1>3, FileStep DEF Run, SInv, STypeOK

LEMMA CrashStep == SInv /\ Crash => SInv'
<1> SUFFICES ASSUME SInv, Crash PROVE SInv'
  OBVIOUS
<1>1. crashes' \in 0..MaxCrashes
  BY ConfigAssumption DEF SInv, STypeOK, Crash
<1> QED
  BY <1>1, ExitStep DEF Crash

LEMMA InitStep == SInv /\ init => SInv'
  BY ConstructStep, CreateStep, InitializeStep, RegisterStep, RunStep DEF init

LEMMA StartupInit == SInit => SInv
<1> SUFFICES ASSUME SInit PROVE SInv
  OBVIOUS
<1>1. Len(config) \in Nat
  BY ConfigAssumption DEF SInit
<1>2. file \in [Names -> Files]
  BY DEF SInit, Files
<1>3. \A n \in Names : file[n].state = "absent"
  BY DEF SInit
<1>4. STypeOK
  BY <1>1, <1>2, ConfigAssumption DEF SInit, STypeOK, Stages, Links
<1>5. StagesFit
  BY DEF SInit, StagesFit, AtFile
<1>6. BuiltIsComplete
  BY DEF SInit, BuiltIsComplete, Built
<1> QED
  BY <1>3, <1>4, <1>5, <1>6 DEF SInv, UnusableFilesWereInterrupted

LEMMA StartupComplete == SInv => RunningIsComplete
<1> SUFFICES ASSUME SInv, process = "running" PROVE RunningIsComplete
  BY DEF RunningIsComplete
<1>1. Built = Positions
  BY ConfigFacts DEF SInv, StagesFit, Built
<1> QED
  BY <1>1 DEF SInv, BuiltIsComplete, Grounded, RunningIsComplete

LEMMA StartupStep == SInv /\ [SNext]_svars => SInv'
<1> SUFFICES ASSUME SInv, [SNext]_svars PROVE SInv'
  OBVIOUS
<1>1. CASE UNCHANGED svars
  BY <1>1, LinkStep DEF svars, SInv, STypeOK
<1> QED
  BY <1>1, StartStep, InitStep, CrashStep DEF SNext

\* The life of a process that only starts and ends.
THEOREM StartupIsComplete == SSpec => [](STypeOK /\ RunningIsComplete)
<1>1. SInv => STypeOK /\ RunningIsComplete
  BY StartupComplete DEF SInv
<1> QED
  BY StartupInit, StartupStep, <1>1, PTL DEF SSpec

=============================================================================
