------------------------------ MODULE Startup ------------------------------
(***************************************************************************)
(* The start of the service (geo_location/main.cpp and the constructor,    *)
(* search_gps_device_drivers and start_device_feedbacks_logs_job of        *)
(* geo_location_svc_lib/sdk.cpp), by several processes on one machine: one *)
(* may be started while another runs, or again after it has ended.         *)
(*                                                                         *)
(* A process binds its PUB socket, loads the plugin files in the order of  *)
(* the directory until one fails, starts the job thread and makes a server *)
(* for each plugin it has found; an acceptor that cannot listen is         *)
(* reported and left out.  io_service.run() returns at once when there is  *)
(* no server, and main with it.                                            *)
(***************************************************************************)
EXTENDS Naturals, Sequences, FiniteSets

CONSTANTS
  Process,  \* the processes of the service that are started
  File,     \* the names of plugin files
  Port,     \* TCP ports of devices
  PortOf,   \* PortOf[f]: gps::serverPort() of the plugin in f
  ReusePort \* may an acceptor listen on a port that is taken, as with the
            \* SO_REUSEADDR of Windows?

ASSUME StartupAssumption ==
  /\ IsFiniteSet(File)
  /\ PortOf \in [File -> Port]
  /\ ReusePort \in BOOLEAN

VARIABLES
  directory, \* the plugin files, in the order FindNextFile gives them
  loadable,  \* those that LoadLibrary loads and that have a `load'
  foreign,   \* the ports that other programs listen on
  pc,        \* pc[p]: what main of p does next
  found,     \* found[p]: how many files p has loaded
  next,      \* next[p]: the plugin p makes a server for next
  job,       \* job[p]: "none", "started" or "subscribed"
  listening, \* listening[p]: the plugins p has a server for
  reported   \* reported[p]: those whose server it could not start

startVars ==
  <<directory, loadable, foreign, pc, found, next, job, listening, reported>>

-----------------------------------------------------------------------------
StartInit ==
  /\ directory \in {d \in UNION {[1..n -> File] : n \in 0..Cardinality(File)} :
                      \A i, j \in DOMAIN d : d[i] = d[j] => i = j}
  /\ loadable \in SUBSET File
  /\ foreign \in SUBSET Port
  /\ pc = [p \in Process |-> "off"]
  /\ found = [p \in Process |-> 0]
  /\ next = [p \in Process |-> 1]
  /\ job = [p \in Process |-> "none"]
  /\ listening = [p \in Process |-> {}]
  /\ reported = [p \in Process |-> {}]

machine == <<directory, loadable, foreign>>

Goto(p, label) == pc' = [pc EXCEPT ![p] = label]

(* The process ends, and the system closes its sockets.                    *)
EndProcess(p) ==
  /\ Goto(p, "ended")
  /\ job' = [job EXCEPT ![p] = "none"]
  /\ listening' = [listening EXCEPT ![p] = {}]

(* Who holds port 5555, where a ZeroMQ socket binds exclusively.           *)
Publishing == {p \in Process : pc[p] \in {"search", "job", "serve", "run"}}

(* Mutant: the error of bind is ignored.                                   *)
BindPublisherAnyway(p) ==
  /\ pc[p] = "off"
  /\ Goto(p, "search")
  /\ UNCHANGED <<machine, found, next, job, listening, reported>>

(* The constructor: publisher->bind, whose error nothing catches.          *)
BindPublisher(p) ==
  /\ pc[p] = "off"
  /\ IF Publishing = {}
       THEN Goto(p, "search") /\ UNCHANGED <<job, listening>>
       ELSE EndProcess(p)
  /\ UNCHANGED <<machine, found, next, reported>>

(* An iteration of the loop over the directory.                            *)
LoadPlugin(p) ==
  /\ pc[p] = "search"
  /\ found[p] < Len(directory)
  /\ directory[found[p] + 1] \in loadable
  /\ found' = [found EXCEPT ![p] = @ + 1]
  /\ UNCHANGED <<machine, pc, next, job, listening, reported>>

(* The search ends: a file that cannot be loaded makes it return what it   *)
(* has; so does an empty directory, whose search handle is not null, and   *)
(* whose empty file name is not found; or there is no further file.        *)
EndSearch(p) ==
  /\ pc[p] = "search"
  /\ found[p] < Len(directory) => directory[found[p] + 1] \notin loadable
  /\ Goto(p, "job")
  /\ UNCHANGED <<machine, found, next, job, listening, reported>>

(* start_device_feedbacks_logs_job: _beginthread.                          *)
StartJob(p) ==
  /\ pc[p] = "job"
  /\ Goto(p, "serve")
  /\ job' = [job EXCEPT ![p] = "started"]
  /\ UNCHANGED <<machine, found, next, listening, reported>>

(* The job thread connects and subscribes.                                 *)
JobSubscribes(p) ==
  /\ job[p] = "started"
  /\ job' = [job EXCEPT ![p] = "subscribed"]
  /\ UNCHANGED <<machine, pc, found, next, listening, reported>>

PortsInUse == foreign \cup {PortOf[f] : f \in UNION {listening[q] : q \in Process}}

PluginAhead(p) == pc[p] = "serve" /\ next[p] <= found[p]

(* `new server' listens on the plugin's port.                              *)
Listen(p) ==
  /\ PluginAhead(p)
  /\ ReusePort \/ PortOf[directory[next[p]]] \notin PortsInUse
  /\ listening' = [listening EXCEPT ![p] = @ \cup {directory[next[p]]}]
  /\ next' = [next EXCEPT ![p] = @ + 1]
  /\ UNCHANGED <<machine, pc, found, job, reported>>

(* Mutant: the try block is around the loop.                               *)
CannotListenEndsLoop(p) ==
  /\ PluginAhead(p)
  /\ PortOf[directory[next[p]]] \in PortsInUse
  /\ reported' = [reported EXCEPT ![p] = @ \cup {directory[next[p]]}]
  /\ next' = [next EXCEPT ![p] = found[p] + 1]
  /\ UNCHANGED <<machine, pc, found, job, listening>>

(* Its acceptor throws, and the loop goes on with the next plugin.         *)
CannotListen(p) ==
  /\ PluginAhead(p)
  /\ PortOf[directory[next[p]]] \in PortsInUse
  /\ reported' = [reported EXCEPT ![p] = @ \cup {directory[next[p]]}]
  /\ next' = [next EXCEPT ![p] = @ + 1]
  /\ UNCHANGED <<machine, pc, found, job, listening>>

(* Mutant: something keeps io_service.run() from returning.                *)
RunForEver(p) ==
  /\ pc[p] = "serve"
  /\ next[p] > found[p]
  /\ Goto(p, "run")
  /\ UNCHANGED <<machine, found, next, job, listening, reported>>

(* io_service.run() returns at once when there is no server, else never.   *)
Run(p) ==
  /\ pc[p] = "serve"
  /\ next[p] > found[p]
  /\ IF listening[p] = {}
       THEN EndProcess(p)
       ELSE Goto(p, "run") /\ UNCHANGED <<job, listening>>
  /\ UNCHANGED <<machine, found, next, reported>>

(* An exception, or whoever stops the service.                             *)
Stop(p) ==
  /\ pc[p] = "run"
  /\ EndProcess(p)
  /\ UNCHANGED <<machine, found, next, reported>>

MainStep(p) ==
  \/ LoadPlugin(p)
  \/ EndSearch(p)
  \/ StartJob(p)
  \/ Listen(p)
  \/ CannotListen(p)
  \/ Run(p)

StartNext ==
  \E p \in Process : BindPublisher(p) \/ MainStep(p) \/ JobSubscribes(p) \/ Stop(p)

(* What has been started goes on; nothing obliges anybody to start or to   *)
(* stop a process.                                                         *)
StartSpec ==
  /\ StartInit
  /\ [][StartNext]_startVars
  /\ \A p \in Process : WF_startVars(MainStep(p)) /\ WF_startVars(JobSubscribes(p))

-----------------------------------------------------------------------------
(* However starts, stops and failures interleave, at most one process      *)
(* serves devices: a second one ends before it listens on any port, even   *)
(* where ports may be shared.                                              *)
OneServes == Cardinality({p \in Process : listening[p] # {}}) <= 1

BeforeBadFile(f) ==
  \E i \in DOMAIN directory :
    /\ directory[i] = f
    /\ \A j \in 1..i : directory[j] \in loadable

PortClash(f) ==
  \/ PortOf[f] \in foreign
  \/ \E g \in File \ {f} : PortOf[g] = PortOf[f] /\ BeforeBadFile(g)

(* A running process serves every plugin up to the first file that cannot  *)
(* be loaded, whatever becomes of the others; left out is only a plugin    *)
(* whose port another one or another program has, and it is reported.      *)
PluginsServed ==
  \A p \in Process : pc[p] = "run" =>
    \A f \in File : BeforeBadFile(f) =>
      f \in listening[p] \/ (f \in reported[p] /\ PortClash(f))

(* A process that got past its constructor ends, or it serves devices with *)
(* the job thread subscribed, so that their fixes have somewhere to go.    *)
StartUpEnds ==
  \A p \in Process :
    pc[p] = "search" ~>
      pc[p] = "ended" \/ (listening[p] # {} /\ job[p] = "subscribed")
=============================================================================
