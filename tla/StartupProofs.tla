--------------------------- MODULE StartupProofs ---------------------------
(***************************************************************************)
(* OneServes and PluginsServed of Startup, for any number of processes,    *)
(* files and ports.  The exclusive port of the publisher lets at most one  *)
(* process past its constructor, and whoever has a server is past it; so   *)
(* the ports that stand in the way of a plugin are those of other programs *)
(* and those of the plugins the process itself has already served.         *)
(***************************************************************************)
EXTENDS Startup, FiniteSetTheorems, TLAPS

(* Where a process is once its publisher is bound.                         *)
PastConstructor == {"search", "job", "serve", "run"}

(* At most one process holds the publisher's port, and the servers are     *)
(* that one's.                                                             *)
PublisherInv ==
  /\ pc \in [Process -> {"off", "ended"} \cup PastConstructor]
  /\ DOMAIN listening = Process
  /\ \A p, q \in Process :
       pc[p] \in PastConstructor /\ pc[q] \in PastConstructor => p = q
  /\ \A p \in Process : listening[p] # {} => pc[p] \in PastConstructor

(* A process that is past its constructor goes on, or ends and gives up    *)
(* its servers, without another getting past it.                           *)
LEMMA GoesOn ==
  ASSUME PublisherInv, NEW p \in Process, pc[p] \in PastConstructor,
         NEW label \in {"ended"} \cup PastConstructor,
         pc' = [pc EXCEPT ![p] = label],
         DOMAIN listening' = Process,
         \A q \in Process \ {p} : listening'[q] = listening[q],
         label = "ended" => listening'[p] = {}
  PROVE  PublisherInv'
  BY DEF PublisherInv, PastConstructor

(* The constructor: who gets past it is alone.                             *)
LEMMA BindPublisherInv ==
  ASSUME PublisherInv, NEW p \in Process, BindPublisher(p)
  PROVE  PublisherInv'
<1>1. CASE Publishing = {}
  <2>1. \A q \in Process : pc[q] \notin PastConstructor
    BY <1>1 DEF Publishing, PastConstructor
  <2>2. /\ pc' = [pc EXCEPT ![p] = "search"]
        /\ listening' = listening
    BY <1>1 DEF BindPublisher, Goto
  <2> QED
    BY <2>1, <2>2 DEF PublisherInv, PastConstructor
<1>2. CASE Publishing # {}
  <2>1. /\ pc' = [pc EXCEPT ![p] = "ended"]
        /\ listening' = [listening EXCEPT ![p] = {}]
    BY <1>2 DEF BindPublisher, EndProcess, Goto
  <2> QED
    BY <2>1 DEF PublisherInv, PastConstructor
<1> QED
  BY <1>1, <1>2

(* The invariant is inductive: every action of a process that has started. *)
LEMMA NextInv ==
  ASSUME PublisherInv, [StartNext]_startVars
  PROVE  PublisherInv'
<1>1. CASE UNCHANGED startVars
  BY <1>1 DEF PublisherInv, startVars
<1>2. ASSUME NEW p \in Process, BindPublisher(p)
      PROVE  PublisherInv'
  BY <1>2, BindPublisherInv
<1>3. ASSUME NEW p \in Process, LoadPlugin(p) \/ CannotListen(p) \/ JobSubscribes(p)
      PROVE  PublisherInv'
  BY <1>3 DEF LoadPlugin, CannotListen, JobSubscribes, PublisherInv
<1>4. ASSUME NEW p \in Process, EndSearch(p)
      PROVE  PublisherInv'
  <2>1. /\ pc[p] \in PastConstructor
        /\ pc' = [pc EXCEPT ![p] = "job"]
        /\ listening' = listening
    BY <1>4 DEF EndSearch, Goto, PastConstructor
  <2> QED
    BY <2>1, GoesOn DEF PublisherInv, PastConstructor
<1>5. ASSUME NEW p \in Process, StartJob(p)
      PROVE  PublisherInv'
  <2>1. /\ pc[p] \in PastConstructor
        /\ pc' = [pc EXCEPT ![p] = "serve"]
        /\ listening' = listening
    BY <1>5 DEF StartJob, Goto, PastConstructor
  <2> QED
    BY <2>1, GoesOn DEF PublisherInv, PastConstructor
<1>6. ASSUME NEW p \in Process, Run(p)
      PROVE  PublisherInv'
  <2>1. CASE listening[p] = {}
    <3>1. /\ pc[p] \in PastConstructor
          /\ pc' = [pc EXCEPT ![p] = "ended"]
          /\ listening' = [listening EXCEPT ![p] = {}]
      BY <1>6, <2>1 DEF Run, EndProcess, Goto, PastConstructor
    <3> QED
      BY <3>1, GoesOn DEF PublisherInv
  <2>2. CASE listening[p] # {}
    <3>1. /\ pc[p] \in PastConstructor
          /\ pc' = [pc EXCEPT ![p] = "run"]
          /\ listening' = listening
      BY <1>6, <2>2 DEF Run, Goto, PastConstructor
    <3> QED
      BY <3>1, GoesOn DEF PublisherInv, PastConstructor
  <2> QED
    BY <2>1, <2>2
<1>7. ASSUME NEW p \in Process, Stop(p)
      PROVE  PublisherInv'
  <2>1. /\ pc[p] \in PastConstructor
        /\ pc' = [pc EXCEPT ![p] = "ended"]
        /\ listening' = [listening EXCEPT ![p] = {}]
    BY <1>7 DEF Stop, EndProcess, Goto, PastConstructor
  <2> QED
    BY <2>1, GoesOn DEF PublisherInv
<1>8. ASSUME NEW p \in Process, Listen(p)
      PROVE  PublisherInv'
  <2>1. /\ pc[p] \in PastConstructor
        /\ pc' = pc
        /\ listening' = [listening EXCEPT ![p] = @ \cup {directory[next[p]]}]
    BY <1>8 DEF Listen, PluginAhead, PastConstructor
  <2> QED
    BY <2>1 DEF PublisherInv
<1> QED
  BY <1>1, <1>2, <1>3, <1>4, <1>5, <1>6, <1>7, <1>8 DEF StartNext, MainStep

(* PublisherInv holds in every state, so that it is inductive.             *)
THEOREM PublisherInvariant == StartSpec => []PublisherInv
<1>1. StartInit => PublisherInv
  BY DEF StartInit, PublisherInv, PastConstructor
<1>2. PublisherInv /\ [StartNext]_startVars => PublisherInv'
  BY NextInv
<1> QED
  BY <1>1, <1>2, PTL DEF StartSpec

(* At most one process has servers, however many are started.              *)
THEOREM OneServesCorrect == StartSpec => []OneServes
<1>1. PublisherInv => OneServes
  <2> SUFFICES ASSUME PublisherInv
               PROVE  OneServes
    OBVIOUS
  <2> DEFINE Serving == {p \in Process : listening[p] # {}}
  <2>1. CASE Serving = {}
    BY <2>1, FS_EmptySet DEF OneServes
  <2>2. CASE Serving # {}
    <3>1. PICK p \in Process : Serving = {p}
      BY <2>2 DEF PublisherInv
    <3>2. Cardinality({p}) = 1
      BY FS_Singleton
    <3>3. Cardinality(Serving) = 1
      BY <3>1, <3>2
    <3> QED
      BY <3>3 DEF OneServes
  <2> QED
    BY <2>1, <2>2
<1> QED
  BY <1>1, PublisherInvariant, PTL

-----------------------------------------------------------------------------
(* The directory has each file once.                                       *)
DirectoryOK ==
  /\ directory \in Seq(File)
  /\ \A i, j \in 1..Len(directory) : directory[i] = directory[j] => i = j

(* What a process has found are the files up to the first bad one, and all *)
(* of them once the search is over.                                        *)
FoundOK(p) ==
  /\ found[p] \in 0..Len(directory)
  /\ \A i \in 1..found[p] : directory[i] \in loadable
  /\ pc[p] \in {"job", "serve", "run"} /\ found[p] < Len(directory) =>
       directory[found[p] + 1] \notin loadable

(* Before the loop over the plugins none has been tried, after it all.     *)
NextOK(p) ==
  /\ next[p] \in 1..(found[p] + 1)
  /\ pc[p] \in {"off", "search", "job"} => next[p] = 1
  /\ pc[p] = "run" => next[p] = found[p] + 1

(* The plugins that have been tried have a server or are reported for a    *)
(* good reason, and no other has one.                                      *)
TriedOK(p) ==
  /\ \A f \in listening[p] : \E i \in 1..(next[p] - 1) : f = directory[i]
  /\ pc[p] \in {"serve", "run"} =>
       \A i \in 1..(next[p] - 1) :
         \/ directory[i] \in listening[p]
         \/ directory[i] \in reported[p] /\ PortClash(directory[i])

ServedInv ==
  /\ DirectoryOK
  /\ found \in [Process -> Nat]
  /\ next \in [Process -> Nat]
  /\ DOMAIN reported = Process
  /\ \A p \in Process : FoundOK(p) /\ NextOK(p) /\ TriedOK(p)

(* What one process does leaves the others as they are.                    *)
LEMMA OthersAsTheyWere ==
  ASSUME ServedInv, UNCHANGED machine,
         NEW p \in Process,
         found' \in [Process -> Nat], next' \in [Process -> Nat],
         DOMAIN reported' = Process,
         \A q \in Process \ {p} :
           /\ pc'[q] = pc[q] /\ found'[q] = found[q] /\ next'[q] = next[q]
           /\ listening'[q] = listening[q] /\ reported'[q] = reported[q],
         FoundOK(p)', NextOK(p)', TriedOK(p)'
  PROVE  ServedInv'
<1>1. DirectoryOK'
  BY DEF ServedInv, DirectoryOK, machine
<1>2. \A f \in File : PortClash(f)' <=> PortClash(f)
  BY DEF PortClash, BeforeBadFile, machine
<1>3. ASSUME NEW q \in Process, q # p
      PROVE  FoundOK(q)' /\ NextOK(q)' /\ TriedOK(q)'
  <2>1. FoundOK(q)'
    BY <1>3 DEF ServedInv, FoundOK, machine
  <2>2. NextOK(q)'
    BY <1>3 DEF ServedInv, NextOK
  <2>3. \A i \in 1..(next[q] - 1) : directory[i] \in File
    BY SMTT(20) DEF ServedInv, DirectoryOK, FoundOK, NextOK
  <2>4. TriedOK(q)'
    BY <1>2, <1>3, <2>3 DEF ServedInv, TriedOK, machine
  <2> QED
    BY <2>1, <2>2, <2>4
<1> QED
  BY <1>1, <1>3 DEF ServedInv

(* A step that only moves the process, or ends it, keeps the invariant when *)
(* the place it moves to is one it is ready for.                            *)
LEMMA MovesOn ==
  ASSUME PublisherInv, ServedInv, UNCHANGED <<machine, found, next, reported>>,
         NEW p \in Process, NEW label,
         pc' = [pc EXCEPT ![p] = label],
         DOMAIN listening' = Process,
         \A q \in Process \ {p} : listening'[q] = listening[q],
         listening'[p] = listening[p] \/ listening'[p] = {},
         label \in {"serve", "run"} =>
           listening'[p] = listening[p] /\ (pc[p] = "serve" \/ next[p] = 1),
         label \in {"search", "job"} => pc[p] \in {"off", "search", "job"},
         label = "job" /\ found[p] < Len(directory) =>
           directory[found[p] + 1] \notin loadable,
         label \in {"serve", "run"} => pc[p] \in {"job", "serve"},
         label = "run" => next[p] > found[p],
         label \in {"search", "job", "serve", "run", "ended"}
  PROVE  ServedInv'
<1>1. pc'[p] = label
  BY DEF PublisherInv
<1>2. FoundOK(p)'
  BY <1>1 DEF ServedInv, FoundOK, machine
<1>3. NextOK(p)'
  BY <1>1 DEF ServedInv, NextOK, FoundOK
<1>4. \A i \in 1..(next[p] - 1) : directory[i] \in File
  BY DEF ServedInv, DirectoryOK, FoundOK, NextOK
<1>5. \A f \in File : PortClash(f)' <=> PortClash(f)
  BY DEF PortClash, BeforeBadFile, machine
<1>6. TriedOK(p)'
  BY <1>1, <1>4, <1>5 DEF ServedInv, TriedOK, machine, NextOK
<1>7. \A q \in Process \ {p} : pc'[q] = pc[q]
  BY DEF PublisherInv
<1> QED
  BY <1>2, <1>3, <1>6, <1>7, OthersAsTheyWere DEF ServedInv

(* The plugin that is ahead gets a server.                                 *)
LEMMA ListenServed ==
  ASSUME PublisherInv, ServedInv, NEW p \in Process, Listen(p)
  PROVE  ServedInv'
<1>1. /\ pc[p] = "serve" /\ next[p] <= found[p]
      /\ UNCHANGED <<machine, pc, found, reported>>
      /\ listening'[p] = listening[p] \cup {directory[next[p]]}
      /\ next'[p] = next[p] + 1 /\ next[p] \in Nat /\ found[p] \in Nat
      /\ \A q \in Process \ {p} : listening'[q] = listening[q] /\ next'[q] = next[q]
      /\ next' \in [Process -> Nat]
  BY DEF Listen, PluginAhead, ServedInv, PublisherInv
<1>2. FoundOK(p)'
  BY <1>1 DEF ServedInv, FoundOK, machine
<1>3. NextOK(p)'
  BY <1>1 DEF ServedInv, NextOK
<1>4. \A i \in 1..(next[p] - 1) : directory[i] \in File
  BY <1>1 DEF ServedInv, DirectoryOK, FoundOK, NextOK
<1>5. \A f \in File : PortClash(f)' <=> PortClash(f)
  BY <1>1 DEF PortClash, BeforeBadFile, machine
<1>6. TriedOK(p)'
  <2>1. \A f \in listening'[p] : \E i \in 1..(next'[p] - 1) : f = directory[i]
    BY <1>1 DEF ServedInv, TriedOK, NextOK
  <2>2. ASSUME NEW i \in 1..(next'[p] - 1)
        PROVE  \/ directory[i] \in listening'[p]
               \/ directory[i] \in reported'[p] /\ PortClash(directory[i])'
    <3>1. CASE i = next[p]
      BY <1>1, <3>1
    <3>2. CASE i # next[p]
      <4>1. i \in 1..(next[p] - 1)
        BY <1>1, <3>2
      <4> QED
        BY <1>1, <1>4, <1>5, <4>1 DEF ServedInv, TriedOK, machine
    <3> QED
      BY <3>1, <3>2
  <2> QED
    BY <1>1, <2>1, <2>2 DEF TriedOK, machine
<1> QED
  BY <1>1, <1>2, <1>3, <1>6, OthersAsTheyWere DEF ServedInv

(* The plugin that is ahead is reported: its port is another program's, or *)
(* that of a plugin of the same process, which is before the first bad     *)
(* file and another one.                                                   *)
LEMMA CannotListenServed ==
  ASSUME PublisherInv, ServedInv, NEW p \in Process, CannotListen(p)
  PROVE  ServedInv'
<1>1. /\ pc[p] = "serve" /\ next[p] <= found[p]
      /\ UNCHANGED <<machine, pc, found, listening>>
      /\ reported'[p] = reported[p] \cup {directory[next[p]]}
      /\ next'[p] = next[p] + 1 /\ next[p] \in Nat /\ found[p] \in Nat
      /\ \A q \in Process \ {p} : reported'[q] = reported[q] /\ next'[q] = next[q]
      /\ next' \in [Process -> Nat]
      /\ DOMAIN reported' = Process
  BY DEF CannotListen, PluginAhead, ServedInv
<1>2. FoundOK(p)'
  BY <1>1 DEF ServedInv, FoundOK, machine
<1>3. NextOK(p)'
  BY <1>1 DEF ServedInv, NextOK
<1>4. \A i \in 1..next[p] : directory[i] \in File
  BY <1>1 DEF ServedInv, DirectoryOK, FoundOK, NextOK
<1>5. \A f \in File : PortClash(f)' <=> PortClash(f)
  BY <1>1 DEF PortClash, BeforeBadFile, machine
<1>6. PortClash(directory[next[p]])
  <2>1. CASE PortOf[directory[next[p]]] \in foreign
    BY <2>1 DEF PortClash
  <2>2. CASE PortOf[directory[next[p]]] \notin foreign
    <3>1. PICK q \in Process : \E g \in listening[q] :
            PortOf[g] = PortOf[directory[next[p]]]
      BY <2>2 DEF CannotListen, PortsInUse
    <3>2. q = p
      BY <1>1, <3>1 DEF PublisherInv, PastConstructor
    <3> PICK g \in listening[p] : PortOf[g] = PortOf[directory[next[p]]]
      BY <3>1, <3>2
    <3>3. PICK i \in 1..(next[p] - 1) : g = directory[i]
      BY <1>1, <3>2 DEF ServedInv, TriedOK
    <3>4. /\ i \in 1..Len(directory) /\ next[p] \in 1..Len(directory)
          /\ i # next[p] /\ i <= found[p] /\ i \in Nat
      BY SMTT(20), <1>1, <3>3 DEF ServedInv, FoundOK, NextOK
    <3>5. g # directory[next[p]]
      BY <3>3, <3>4 DEF ServedInv, DirectoryOK
    <3>6. g \in File /\ DOMAIN directory = 1..Len(directory)
      BY <3>3, <3>4 DEF ServedInv, DirectoryOK
    <3>7. \A j \in 1..i : directory[j] \in loadable
      BY <3>4, <1>1 DEF ServedInv, FoundOK
    <3>8. BeforeBadFile(g)
      BY <3>3, <3>4, <3>6, <3>7 DEF BeforeBadFile
    <3> QED
      BY <3>5, <3>6, <3>8 DEF PortClash
  <2> QED
    BY <2>1, <2>2
<1>7. TriedOK(p)'
  <2>1. \A f \in listening'[p] : \E i \in 1..(next'[p] - 1) : f = directory[i]
    BY <1>1 DEF ServedInv, TriedOK, NextOK
  <2>2. ASSUME NEW i \in 1..(next'[p] - 1)
        PROVE  \/ directory[i] \in listening'[p]
               \/ directory[i] \in reported'[p] /\ PortClash(directory[i])'
    <3>1. i \in 1..next[p]
      BY <1>1
    <3>2. CASE i = next[p]
      BY <1>1, <1>4, <1>5, <1>6, <3>1, <3>2 DEF machine
    <3>3. CASE i # next[p]
      <4>1. i \in 1..(next[p] - 1)
        BY <1>1, <3>3
      <4> QED
        BY <1>1, <1>4, <1>5, <3>1, <4>1 DEF ServedInv, TriedOK, machine
    <3> QED
      BY <3>2, <3>3
  <2> QED
    BY <1>1, <2>1, <2>2 DEF TriedOK, machine
<1> QED
  BY <1>1, <1>2, <1>3, <1>7, OthersAsTheyWere DEF ServedInv

(* The search goes past a file that can be loaded.                         *)
LEMMA LoadPluginServed ==
  ASSUME PublisherInv, ServedInv, NEW p \in Process, LoadPlugin(p)
  PROVE  ServedInv'
<1>1. /\ pc[p] = "search" /\ found[p] < Len(directory)
      /\ directory[found[p] + 1] \in loadable
      /\ UNCHANGED <<machine, pc, next, listening, reported>>
      /\ found'[p] = found[p] + 1 /\ found[p] \in Nat
      /\ \A q \in Process \ {p} : found'[q] = found[q]
      /\ found' \in [Process -> Nat]
  BY DEF LoadPlugin, ServedInv
<1>2. FoundOK(p)'
  BY <1>1 DEF ServedInv, FoundOK, machine, DirectoryOK
<1>3. NextOK(p)'
  BY <1>1 DEF ServedInv, NextOK
<1>4. TriedOK(p)'
  BY <1>1 DEF ServedInv, TriedOK, machine
<1> QED
  BY <1>1, <1>2, <1>3, <1>4, OthersAsTheyWere DEF ServedInv

(* ServedInv is inductive relative to PublisherInv.                        *)
LEMMA NextServed ==
  ASSUME PublisherInv, ServedInv, [StartNext]_startVars
  PROVE  ServedInv'
<1>1. CASE UNCHANGED <<machine, pc, found, next, listening, reported>>
  BY <1>1 DEF ServedInv, DirectoryOK, FoundOK, NextOK, TriedOK, PortClash,
              BeforeBadFile, machine
<1>2. ASSUME NEW p \in Process, BindPublisher(p)
      PROVE  ServedInv'
  <2>1. CASE Publishing = {}
    BY <1>2, <2>1, MovesOn DEF BindPublisher, Goto, PublisherInv
  <2>2. CASE Publishing # {}
    <3>1. /\ pc' = [pc EXCEPT ![p] = "ended"]
          /\ listening' = [listening EXCEPT ![p] = {}]
          /\ UNCHANGED <<machine, found, next, reported>>
      BY <1>2, <2>2 DEF BindPublisher, EndProcess, Goto
    <3> QED
      BY <3>1, MovesOn DEF PublisherInv
  <2> QED
    BY <2>1, <2>2
<1>3. ASSUME NEW p \in Process, LoadPlugin(p)
      PROVE  ServedInv'
  BY <1>3, LoadPluginServed
<1>4. ASSUME NEW p \in Process, EndSearch(p)
      PROVE  ServedInv'
  <2>1. /\ pc[p] = "search"
        /\ found[p] < Len(directory) => directory[found[p] + 1] \notin loadable
        /\ pc' = [pc EXCEPT ![p] = "job"]
        /\ UNCHANGED <<machine, found, next, listening, reported>>
    BY <1>4 DEF EndSearch, Goto
  <2> QED
    BY <2>1, MovesOn DEF PublisherInv
<1>5. ASSUME NEW p \in Process, StartJob(p)
      PROVE  ServedInv'
  <2>1. /\ pc[p] = "job" /\ next[p] = 1
        /\ pc' = [pc EXCEPT ![p] = "serve"]
        /\ UNCHANGED <<machine, found, next, listening, reported>>
    BY <1>5 DEF StartJob, Goto, ServedInv, NextOK
  <2> QED
    BY <2>1, MovesOn DEF PublisherInv
<1>6. ASSUME NEW p \in Process, Listen(p) \/ CannotListen(p)
      PROVE  ServedInv'
  BY <1>6, ListenServed, CannotListenServed
<1>7. ASSUME NEW p \in Process, Run(p)
      PROVE  ServedInv'
  <2>1. CASE listening[p] = {}
    <3>1. /\ pc' = [pc EXCEPT ![p] = "ended"]
          /\ listening' = [listening EXCEPT ![p] = {}]
          /\ UNCHANGED <<machine, found, next, reported>>
      BY <1>7, <2>1 DEF Run, EndProcess, Goto
    <3> QED
      BY <3>1, MovesOn DEF PublisherInv
  <2>2. CASE listening[p] # {}
    <3>1. /\ pc[p] = "serve" /\ next[p] > found[p]
          /\ pc' = [pc EXCEPT ![p] = "run"]
          /\ UNCHANGED <<machine, found, next, listening, reported>>
      BY <1>7, <2>2 DEF Run, Goto
    <3> QED
      BY <3>1, MovesOn DEF PublisherInv
  <2> QED
    BY <2>1, <2>2
<1>8. ASSUME NEW p \in Process, Stop(p)
      PROVE  ServedInv'
  <2>1. /\ pc' = [pc EXCEPT ![p] = "ended"]
        /\ listening' = [listening EXCEPT ![p] = {}]
        /\ UNCHANGED <<machine, found, next, reported>>
    BY <1>8 DEF Stop, EndProcess, Goto
  <2> QED
    BY <2>1, MovesOn DEF PublisherInv
<1>9. CASE \E p \in Process : JobSubscribes(p)
  BY <1>1, <1>9 DEF JobSubscribes
<1>10. CASE UNCHANGED startVars
  BY <1>1, <1>10 DEF startVars, machine
<1> QED
  BY <1>2, <1>3, <1>4, <1>5, <1>6, <1>7, <1>8, <1>9, <1>10 DEF StartNext, MainStep

(* At the start nothing has been tried.                                    *)
LEMMA InitServed == StartInit => ServedInv
<1> SUFFICES ASSUME StartInit
             PROVE  ServedInv
  OBVIOUS
<1>1. Cardinality(File) \in Nat
  BY StartupAssumption, FS_CardinalityType
<1>2. PICK n \in 0..Cardinality(File) : directory \in [1..n -> File]
  BY DEF StartInit
<1>3. n \in Nat
  BY <1>1
<1>4. directory \in Seq(File) /\ Len(directory) = n /\ DOMAIN directory = 1..n
  BY <1>2, <1>3
<1>5. DirectoryOK
  BY <1>4 DEF DirectoryOK, StartInit
<1>6. \A p \in Process : found[p] = 0 /\ next[p] = 1 /\ pc[p] = "off" /\ listening[p] = {}
  BY DEF StartInit
<1>7. \A p \in Process : FoundOK(p) /\ NextOK(p) /\ TriedOK(p)
  BY <1>3, <1>4, <1>6 DEF FoundOK, NextOK, TriedOK
<1> QED
  BY <1>5, <1>7 DEF ServedInv, StartInit

(* A process that runs has tried every plugin it found, and it found every *)
(* one before the first bad file.                                          *)
THEOREM PluginsServedCorrect == StartSpec => []PluginsServed
<1>1. ServedInv => PluginsServed
  <2> SUFFICES ASSUME ServedInv, NEW p \in Process, pc[p] = "run",
                      NEW f \in File, BeforeBadFile(f)
               PROVE  f \in listening[p] \/ (f \in reported[p] /\ PortClash(f))
    BY DEF PluginsServed
  <2>1. DOMAIN directory = 1..Len(directory) /\ Len(directory) \in Nat
    BY DEF ServedInv, DirectoryOK
  <2>2. PICK i \in 1..Len(directory) :
          directory[i] = f /\ \A j \in 1..i : directory[j] \in loadable
    BY <2>1 DEF BeforeBadFile
  <2>3. found[p] \in Nat /\ found[p] <= Len(directory) /\ next[p] = found[p] + 1
    BY <2>1 DEF ServedInv, FoundOK, NextOK
  <2>4. i <= found[p]
    <3> SUFFICES ASSUME i > found[p]
                 PROVE  FALSE
      BY <2>2, <2>3
    <3>1. found[p] + 1 \in 1..i /\ found[p] < Len(directory)
      BY <2>1, <2>2, <2>3
    <3> QED
      BY <2>2, <3>1 DEF ServedInv, FoundOK
  <2>5. i \in 1..(next[p] - 1)
    BY <2>2, <2>3, <2>4
  <2> QED
    BY <2>2, <2>5 DEF ServedInv, TriedOK
<1>2. PublisherInv /\ ServedInv /\ [StartNext]_startVars => ServedInv'
  BY NextServed
<1>3. StartSpec => []ServedInv
  BY <1>2, InitServed, PublisherInvariant, PTL DEF StartSpec
<1> QED
  BY <1>1, <1>3, PTL
=============================================================================
