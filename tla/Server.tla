------------------------------- MODULE Server -------------------------------
(***************************************************************************)
(* cmd/server.go, conf/watch.go, node/node.go: the process reads its       *)
(* configuration, makes the core and starts a controller for each node,    *)
(* and does so again when the watched file changes.  The watcher drops the *)
(* events of ten seconds after one it took; each reload is a goroutine     *)
(* that waits five seconds and then reads the file.                        *)
(***************************************************************************)
EXTENDS Naturals

CONSTANTS
    MaxEdits,    \* bound on the saves of the file
    MaxFaults,   \* bound on the calls that fail
    Reloads,     \* goroutines that may reload at a time: two when reloads are slow
    None         \* no core, or the empty configuration of conf.New

ASSUME ServerAssumption ==
    /\ MaxEdits \in Nat /\ MaxFaults \in Nat
    /\ None \notin Nat

VARIABLES
    file,        \* the version in the file
    torn,        \* the file is being written
    watched,     \* the file Watch has added is still the one of the path
    window,      \* the time since pre: below five seconds ("early"), below ten ("late"), more ("open")
    missed,      \* the file has changed and nobody is going to read it
    conf,        \* the version in *p, None when it is empty
    vc,          \* the core: the version of its configuration, and whether it runs
    nodes,       \* the controllers: their version, and whether there are none, all, or some nil
    pc,          \* the step of each reload
    process,     \* "up", "crashed" or "exited"
    faults       \* the calls that have failed

vars == <<file, torn, watched, window, missed, conf, vc, nodes, pc, process, faults>>

Core(v, s)  == [version |-> v, state |-> s]
Nodes(v, s) == [version |-> v, state |-> s]
NoNodes     == Nodes(None, "none")

Init ==
    /\ file = 0 /\ torn = FALSE /\ watched = TRUE
    /\ window = "open" /\ missed = FALSE
    /\ conf = 0
    /\ vc = Core(0, "running") /\ nodes = Nodes(0, "all")
    /\ pc = [r \in Reloads |-> "idle"]
    /\ process = "up"
    /\ faults = 0

Idle == \A r \in Reloads : pc[r] = "idle"
Fails == faults < MaxFaults /\ faults' = faults + 1
Works == UNCHANGED faults

-----------------------------------------------------------------------------
\* The file and the watcher

\* The loop of Watch takes an event when the last one it took is ten seconds
\* ago.  A dropped one makes no difference as long as its reload has not read.
Event ==
    IF process # "up" THEN UNCHANGED <<window, missed, pc>>
    ELSE IF window = "open"
      THEN \E r \in Reloads : /\ pc[r] = "idle"
                              /\ pc' = [pc EXCEPT ![r] = "sleep"]
                              /\ window' = "early" /\ missed' = FALSE
      ELSE missed' = (missed \/ window = "late") /\ UNCHANGED <<window, pc>>

\* A save in place, at once or by truncating and then writing: two events.
Save ==
    /\ ~torn /\ watched /\ file < MaxEdits
    /\ file' = file + 1
    /\ torn' \in BOOLEAN
    /\ Event
    /\ UNCHANGED <<watched, conf, vc, nodes, process, faults>>

Written ==
    /\ torn /\ torn' = FALSE
    /\ Event
    /\ UNCHANGED <<file, watched, conf, vc, nodes, process, faults>>

\* A save that renames a new file over the old one: its event is the last.
Replace ==
    /\ ~torn /\ file < MaxEdits
    /\ file' = file + 1
    /\ watched' = FALSE
    /\ IF watched THEN Event ELSE missed' = (process = "up") /\ UNCHANGED <<window, pc>>
    /\ UNCHANGED <<torn, conf, vc, nodes, process, faults>>

\* Ten seconds are over, the five of the reload before them.
Elapse ==
    /\ process = "up" /\ window = "late" /\ window' = "open"
    /\ UNCHANGED <<file, torn, watched, missed, conf, vc, nodes, pc, process, faults>>

-----------------------------------------------------------------------------
\* A reload, step by step

Step(r, from, to) == process = "up" /\ pc[r] = from /\ pc' = [pc EXCEPT ![r] = to]

\* A panic of any goroutine ends the process.
Crash == /\ process' = "crashed"
         /\ conf' = None /\ vc' = Core(None, "none") /\ nodes' = NoNodes
         /\ pc' = [r \in Reloads |-> "idle"]

\* Fault: the file is read before the five seconds, not after them.
Clear_Reads(r) ==
    /\ Step(r, "sleep", "closeNodes")
    /\ conf' = IF torn THEN None ELSE file
    /\ UNCHANGED <<file, torn, watched, window, missed, vc, nodes, process, faults>>

\* *p = *New()
Clear(r) ==
    /\ Step(r, "sleep", "load")
    /\ conf' = None
    /\ UNCHANGED <<file, torn, watched, window, missed, vc, nodes, process, faults>>

\* LoadFromPath.  Its error is logged, and reload runs all the same.
Load(r) ==
    /\ Step(r, "load", "closeNodes")
    /\ conf' = IF torn THEN conf ELSE file
    /\ window' = IF window = "early" THEN "late" ELSE window
    /\ UNCHANGED <<file, torn, watched, missed, vc, nodes, process, faults>>

\* Node.Close panics at an error and at a controller that was never made, as
\* there may be after a Start that stopped early or has not ended.
CloseNodes(r) ==
    /\ \/ /\ Works
          /\ Step(r, "closeNodes", "closeCore")
          /\ nodes' = NoNodes
          /\ UNCHANGED <<conf, vc, process>>
       \/ /\ process = "up" /\ pc[r] = "closeNodes"
          /\ IF nodes.state = "some" THEN Works ELSE nodes.state = "all" /\ Fails
          /\ Crash
    /\ UNCHANGED <<file, torn, watched, window, missed>>

\* The close of a core that runs; one that is nil panics.
Close(r) ==
    \/ /\ vc.state # "none" /\ Works
       /\ Step(r, "closeCore", "newCore")
       /\ vc' = Core(vc.version, "closed")
       /\ UNCHANGED <<conf, nodes, process>>
    \/ /\ vc.state = "none" /\ Works
       /\ process = "up" /\ pc[r] = "closeCore"
       /\ Crash

\* After a close that fails the reload returns: the nodes are gone.
CloseCore(r) ==
    /\ \/ Close(r)
       \/ /\ vc.state # "none" /\ Fails
          /\ Step(r, "closeCore", "idle")
          /\ UNCHANGED <<conf, vc, nodes, process>>
    /\ UNCHANGED <<file, torn, watched, window, missed>>

\* Fault: the length of the list is checked as it is meant to be.
NewCore_Checks(r) ==
    /\ IF conf # None THEN Works /\ Step(r, "newCore", "startCore") /\ vc' = Core(conf, "new")
                      ELSE Works /\ Step(r, "newCore", "idle") /\ vc' = Core(None, "none")
    /\ UNCHANGED <<file, torn, watched, window, missed, conf, nodes, process>>

\* What goes wrong when a core is made: xray's getCore panics about what it
\* reads, the others return an error, and the core is nil.
GetCore(r) == /\ process = "up" /\ pc[r] = "newCore"
              /\ Crash
SingNew(r) == /\ Step(r, "newCore", "idle")
              /\ vc' = Core(None, "none")
              /\ UNCHANGED <<conf, nodes, process>>

\* NewCore takes c[0] of an empty list.
NewCore(r) ==
    /\ \/ /\ conf # None /\ Works
          /\ Step(r, "newCore", "startCore")
          /\ vc' = Core(conf, "new")
          /\ UNCHANGED <<conf, nodes, process>>
       \/ /\ conf # None /\ Fails
          /\ GetCore(r) \/ SingNew(r)
       \/ /\ conf = None /\ Works
          /\ process = "up" /\ pc[r] = "newCore"
          /\ Crash
    /\ UNCHANGED <<file, torn, watched, window, missed>>

StartCore(r) ==
    /\ \/ /\ Works
          /\ Step(r, "startCore", "startNodes")
          /\ vc' = [vc EXCEPT !.state = "running"]
       \/ /\ Fails
          /\ Step(r, "startCore", "idle")
          /\ UNCHANGED vc
    /\ UNCHANGED <<file, torn, watched, window, missed, conf, nodes, process>>

\* Node.Start makes the controllers one by one and stops at the first that
\* does not start.
StartNodes(r) ==
    /\ Step(r, "startNodes", "started")
    /\ nodes' = Nodes(conf, "some")
    /\ UNCHANGED <<file, torn, watched, window, missed, conf, vc, process, faults>>

StartedNodes(r) ==
    /\ Step(r, "started", "idle")
    /\ \/ Works /\ nodes' = [nodes EXCEPT !.state = "all"]
       \/ Fails /\ UNCHANGED nodes
    /\ UNCHANGED <<file, torn, watched, window, missed, conf, vc, process>>

-----------------------------------------------------------------------------
\* The unit restarts a process that has crashed, not one that has returned:
\* serverHandle logs what fails at the start and returns.
Boot ==
    /\ process = "crashed"
    /\ \/ /\ ~torn /\ Works
          /\ process' = "up"
          /\ conf' = file /\ vc' = Core(file, "running") /\ nodes' = Nodes(file, "all")
       \/ /\ IF torn THEN Works ELSE Fails
          /\ process' = "exited"
          /\ UNCHANGED <<conf, vc, nodes>>
    /\ window' = "open" /\ missed' = FALSE /\ watched' = TRUE
    /\ UNCHANGED <<file, torn, pc>>

ReloadStep ==
    \E r \in Reloads : \/ Clear(r) \/ Load(r) \/ CloseNodes(r) \/ CloseCore(r)
                       \/ NewCore(r) \/ StartCore(r) \/ StartNodes(r) \/ StartedNodes(r)

Next == Save \/ Written \/ Replace \/ Elapse \/ ReloadStep \/ Boot

\* Time passes, a started reload goes on, a save is completed, and the unit
\* restarts the process.
Spec == Init /\ [][Next]_vars /\ WF_vars(Elapse) /\ WF_vars(ReloadStep) /\ WF_vars(Written) /\ WF_vars(Boot)

-----------------------------------------------------------------------------
\* Properties

Serves(v) == vc = Core(v, "running") /\ nodes = Nodes(v, "all")

\* Between reloads, controllers that were all started run on a started core of
\* the version that was read last; and while no call has failed they do run: a
\* reload that read a half-written file ends the process, which is started
\* again, and does not leave it up and serving nobody.
ServesWhatItRead ==
    process = "up" /\ Idle /\ (nodes.state = "all" \/ faults = 0) => Serves(conf)

\* Without failures the process comes to serve what the file says, unless the
\* last change fell between the reading of a reload and the end of the ten
\* seconds, or came after the watched file was replaced: those nobody sees.
EventuallyServesFile ==
    <>[](faults = 0 /\ process = "up" => missed \/ Serves(file))
=============================================================================
