---------------------------- MODULE NodeProofs ------------------------------
(***************************************************************************)
(* Proofs about Node, for any number of threads, callers, settings and     *)
(* reconfigurations:                                                       *)
(*                                                                         *)
(*   NodeTypeCorrect   the type invariant;                                 *)
(*   QuietCallCorrect  a call no reconfiguration overlaps addresses the    *)
(*                     node as configured, on any number of threads;       *)
(*   CurrentUrlCorrect on one thread every call does;                      *)
(*   WholeUrlCorrect   hence no URL is made of two settings there.         *)
(***************************************************************************)
EXTENDS Node, TLAPS

-----------------------------------------------------------------------------
(* Views.                                                                  *)

\* w knows of everything v knows of.
Below(v, w) == \A f \in Fields : v[f] <= w[f]

\* A view is made of generations, which are natural numbers.
LEMMA ViewNat ==
  ASSUME NEW v \in View, NEW f \in Fields
  PROVE  v[f] \in Generations /\ v[f] \in Nat
BY NodeAssumption DEF View, Generations

\* Joining two views yields a view, the least one above both.
LEMMA JoinView ==
  ASSUME NEW v \in View, NEW w \in View
  PROVE  /\ Join(v, w) \in View
         /\ Below(v, Join(v, w))
         /\ Below(w, Join(v, w))
         /\ \A u \in View : Below(v, u) /\ Below(w, u) => Below(Join(v, w), u)
<1>1. \A f \in Fields : v[f] \in Nat /\ w[f] \in Nat
  BY ViewNat
<1>2. Join(v, w) \in View
  BY DEF Join, View
<1>3. QED
  BY <1>1, <1>2 DEF Join, Below

\* Two views that are below each other are equal.
LEMMA BelowEqual ==
  ASSUME NEW v \in View, NEW w \in View, Below(v, w), Below(w, v)
  PROVE  v = w
<1>1. \A f \in Fields : v[f] = w[f]
  BY ViewNat DEF Below
<1>2. QED
  BY <1>1 DEF View

\* Below is transitive.
LEMMA BelowTransitive ==
  ASSUME NEW u \in View, NEW v \in View, NEW w \in View, Below(u, v), Below(v, w)
  PROVE  Below(u, w)
<1>1. \A f \in Fields : u[f] \in Nat /\ v[f] \in Nat /\ w[f] \in Nat
  BY ViewNat
<1>2. QED
  BY <1>1 DEF Below

\* What a read may return is a generation.
LEMMA VisibleGeneration ==
  ASSUME NodeTypeOK, NEW t \in Threads, NEW f \in Fields, NEW g \in Visible(t, f)
  PROVE  g \in Generations /\ seen[t][f] <= g /\ g <= latest[f]
<1>1. seen[t] \in View /\ latest \in View
  BY DEF NodeTypeOK
<1>2. seen[t][f] \in Generations /\ latest[f] \in Generations
  BY <1>1, ViewNat
<1>3. QED
  BY <1>2, NodeAssumption DEF Visible, Generations

-----------------------------------------------------------------------------
(* Type correctness.                                                       *)

LEMMA TypeInit == NodeInit => NodeTypeOK
<1>1. Fresh \in View /\ 0 \in Generations
  BY NodeAssumption DEF Fresh, View, Generations
<1>2. QED
  BY <1>1 DEF NodeInit, NodeTypeOK

LEMMA TypeRead ==
  ASSUME NodeTypeOK, NEW c \in Callers, NEW f \in Fields,
         NEW next \in {"hostName", "port", "get"}, Read(c, f, next)
  PROVE  NodeTypeOK'
<1>1. thread[c] \in Threads
  BY DEF Read, Running
<1>2. PICK g \in Visible(thread[c], f) :
         /\ got' = [got EXCEPT ![c][f] = g]
         /\ seen' = [seen EXCEPT ![thread[c]][f] = g]
  BY DEF Read
<1>3. g \in Generations
  BY <1>1, <1>2, VisibleGeneration
<1>4. got' \in [Callers -> View] /\ seen' \in [Threads -> View]
  BY <1>1, <1>2, <1>3 DEF NodeTypeOK, View
<1>5. pc' \in [Callers -> {"idle", "ssl", "hostName", "port", "get"}]
  BY DEF Read, NodeTypeOK
<1>6. QED
  BY <1>4, <1>5 DEF Read, NodeTypeOK

LEMMA TypeStep == NodeTypeOK /\ [NodeNext]_nodeVars => NodeTypeOK'
<1> SUFFICES ASSUME NodeTypeOK, [NodeNext]_nodeVars PROVE NodeTypeOK'
  OBVIOUS
<1>1. CASE \E c \in Everyone, t \in Threads : Resume(c, t)
  <2>1. PICK c \in Everyone, t \in Threads : Resume(c, t)
    BY <1>1
  <2>2. Join(seen[t], carried[c]) \in View
    BY JoinView DEF NodeTypeOK
  <2>3. QED
    BY <2>1, <2>2 DEF Resume, NodeTypeOK
<1>2. CASE \E c \in Everyone : Park(c)
  BY <1>2 DEF Park, Running, NodeTypeOK
<1>3. CASE Reconfigure
  <2>1. target + 1 \in Generations
    BY <1>3, NodeAssumption DEF Reconfigure, NodeTypeOK, Generations
  <2>2. QED
    BY <1>3, <2>1 DEF Reconfigure, NodeTypeOK
<1>4. CASE \E f \in Fields : Assign(f)
  BY <1>4 DEF Assign, Running, NodeTypeOK, View
<1>5. CASE \E c \in Callers : Call(c)
  BY <1>5 DEF Call, NodeTypeOK
<1>6. CASE \E c \in Callers : ReadSsl(c) \/ ReadHostName(c) \/ ReadPort(c)
  BY <1>6, TypeRead DEF ReadSsl, ReadHostName, ReadPort, Fields
<1>7. CASE \E c \in Callers : Return(c)
  <2>1. Fresh \in View
    BY NodeAssumption DEF Fresh, View, Generations
  <2>2. QED
    BY <1>7, <2>1 DEF Return, NodeTypeOK
<1>8. CASE UNCHANGED nodeVars
  BY <1>8 DEF nodeVars, NodeTypeOK
<1>9. QED
  BY <1>1, <1>2, <1>3, <1>4, <1>5, <1>6, <1>7, <1>8 DEF NodeNext

\* The variables of Node keep their types, in particular no generation
\* exceeds the number of reconfigurations.
THEOREM NodeTypeCorrect == NodeSpec => []NodeTypeOK
BY TypeInit, TypeStep, PTL DEF NodeSpec

-----------------------------------------------------------------------------
(* Knowledge: what threads and coroutines have seen was really assigned,   *)
(* and what is not pending is of the target generation.                    *)

Known ==
  /\ \A t \in Threads : Below(seen[t], latest)
  /\ \A c \in Everyone : Below(carried[c], latest)
  /\ \A f \in Fields : latest[f] <= target
  /\ \A f \in Fields : f \notin pending => latest[f] = target

LEMMA KnownInit == NodeInit => Known
BY NodeAssumption DEF NodeInit, Known, Below, Fresh, Everyone

\* A step that assigns no property and shows a thread nothing new.
LEMMA KnownSame ==
  ASSUME Known, UNCHANGED <<latest, target, pending, seen, carried>>
  PROVE  Known'
BY DEF Known, Below

LEMMA KnownRead ==
  ASSUME NodeTypeOK, Known, NEW c \in Callers, NEW f \in Fields, NEW next,
         Read(c, f, next)
  PROVE  Known'
<1>1. thread[c] \in Threads
  BY DEF Read, Running
<1>2. PICK g \in Visible(thread[c], f) : seen' = [seen EXCEPT ![thread[c]][f] = g]
  BY DEF Read
<1>3. g <= latest[f]
  BY <1>1, <1>2, VisibleGeneration
<1>4. \A t \in Threads : Below(seen'[t], latest)
  BY <1>1, <1>2, <1>3 DEF Known, Below, NodeTypeOK, View
<1>5. QED
  BY <1>4 DEF Read, Known, Below

LEMMA KnownStep == NodeTypeOK /\ Known /\ [NodeNext]_nodeVars => Known'
<1> SUFFICES ASSUME NodeTypeOK, Known, [NodeNext]_nodeVars PROVE Known'
  OBVIOUS
<1>1. CASE \E c \in Everyone, t \in Threads : Resume(c, t)
  <2>1. PICK c \in Everyone, t \in Threads : Resume(c, t)
    BY <1>1
  <2>2. Below(Join(seen[t], carried[c]), latest)
    BY JoinView DEF NodeTypeOK, Known
  <2>3. \A u \in Threads : Below(seen'[u], latest)
    BY <2>1, <2>2 DEF Resume, Known, NodeTypeOK
  <2>4. QED
    BY <2>1, <2>3 DEF Resume, Known, Below
<1>2. CASE \E c \in Everyone : Park(c)
  <2>1. PICK c \in Everyone : Park(c)
    BY <1>2
  <2>2. \A d \in Everyone : Below(carried'[d], latest)
    BY <2>1 DEF Park, Running, Known, NodeTypeOK
  <2>3. QED
    BY <2>1, <2>2 DEF Park, Known, Below
<1>3. CASE Reconfigure
  <2>1. target \in Nat /\ \A f \in Fields : latest[f] \in Nat
    BY ViewNat, NodeAssumption DEF NodeTypeOK, Generations
  <2>2. \A f \in Fields : latest'[f] <= target'
    BY <1>3, <2>1 DEF Reconfigure, Known
  <2>3. QED
    BY <1>3, <2>2 DEF Reconfigure, Known, Below
<1>4. CASE \E f \in Fields : Assign(f)
  <2>1. PICK f \in Fields : Assign(f)
    BY <1>4
  <2>2. latest' = [latest EXCEPT ![f] = target]
    BY <2>1 DEF Assign
  <2>3. target \in Nat /\ \A g \in Fields : latest[g] \in Nat
    BY ViewNat, NodeAssumption DEF NodeTypeOK, Generations
  <2>4. Below(latest, latest')
    BY <2>2, <2>3 DEF Known, Below, NodeTypeOK, View
  <2>5. \A v \in View : Below(v, latest) => Below(v, latest')
    <3>1. latest \in View /\ latest' \in View
      BY <2>2 DEF NodeTypeOK, View
    <3>2. QED
      BY <2>4, <3>1, BelowTransitive
  <2>6. \A c \in Everyone : Below(carried'[c], latest')
    BY <2>1, <2>5 DEF Assign, Known, NodeTypeOK
  <2>7. \A t \in Threads : Below(seen'[t], latest')
    <3>1. TAKE t \in Threads
    <3>2. Below(seen[t], latest')
      BY <2>5 DEF Known, NodeTypeOK
    <3>3. CASE t = thread[Owner]
      BY <2>1, <2>2, <2>3, <3>2, <3>3 DEF Assign, Running, Below, NodeTypeOK, View
    <3>4. CASE t # thread[Owner]
      BY <2>1, <3>2, <3>4 DEF Assign, Running, NodeTypeOK
    <3>5. QED
      BY <3>3, <3>4
  <2>8. /\ \A g \in Fields : latest'[g] <= target'
        /\ \A g \in Fields : g \notin pending' => latest'[g] = target'
    BY <2>1, <2>2, <2>3 DEF Assign, Known, NodeTypeOK, View
  <2>9. QED
    BY <2>6, <2>7, <2>8 DEF Known
<1>5. CASE \E c \in Callers : Call(c) \/ Return(c)
  BY <1>5, KnownSame DEF Call, Return
<1>6. CASE \E c \in Callers : ReadSsl(c) \/ ReadHostName(c) \/ ReadPort(c)
  BY <1>6, KnownRead DEF ReadSsl, ReadHostName, ReadPort, Fields
<1>7. CASE UNCHANGED nodeVars
  BY <1>7, KnownSame DEF nodeVars
<1>8. QED
  BY <1>1, <1>2, <1>3, <1>4, <1>5, <1>6, <1>7 DEF NodeNext

-----------------------------------------------------------------------------
(* A call that no reconfiguration overlaps, on any number of threads.      *)

\* How far caller c has come with reading the target generation.
ReadSoFar(c) ==
  /\ pc[c] \in {"hostName", "port", "get"} => got[c]["ssl"] = target
  /\ pc[c] \in {"port", "get"} => got[c]["hostName"] = target
  /\ pc[c] = "get" => got[c]["port"] = target

\* A calm caller reads on a thread that knows everything.
Quiet ==
  \A c \in Callers :
    calm[c] /\ pc[c] # "idle" =>
      /\ pending = {}
      /\ pc[c] # "get" => Running(c) /\ seen[thread[c]] = latest
      /\ ReadSoFar(c)

\* A thread that knows everything reads what was assigned last, and learns
\* nothing from it.
LEMMA ReadLatest ==
  ASSUME NodeTypeOK, NEW c \in Callers, NEW f \in Fields, NEW next,
         Read(c, f, next), seen[thread[c]] = latest
  PROVE  got' = [got EXCEPT ![c][f] = latest[f]] /\ seen' = seen
<1>1. thread[c] \in Threads
  BY DEF Read, Running
<1>2. PICK g \in Visible(thread[c], f) :
         /\ got' = [got EXCEPT ![c][f] = g]
         /\ seen' = [seen EXCEPT ![thread[c]][f] = g]
  BY DEF Read
<1>3. g \in Nat /\ latest[f] \in Nat /\ latest[f] <= g /\ g <= latest[f]
  BY <1>1, <1>2, VisibleGeneration, ViewNat, NodeAssumption DEF NodeTypeOK, Generations
<1>4. g = latest[f]
  BY <1>3
<1>5. seen' = seen
  BY <1>1, <1>2, <1>4 DEF NodeTypeOK, View
<1>6. QED
  BY <1>2, <1>4, <1>5

LEMMA QuietInit == NodeInit => Quiet
BY DEF NodeInit, Quiet

LEMMA QuietRead ==
  ASSUME NodeTypeOK, Known, Quiet,
         NEW d \in Callers, ReadSsl(d) \/ ReadHostName(d) \/ ReadPort(d)
  PROVE  Quiet'
<1> SUFFICES ASSUME NEW c \in Callers, calm'[c], pc'[c] # "idle"
             PROVE  /\ pending' = {}
                    /\ pc'[c] # "get" => Running(c)' /\ seen'[thread'[c]] = latest'
                    /\ ReadSoFar(c)'
  BY DEF Quiet
<1> USE DEF ReadSsl, ReadHostName, ReadPort, Fields
<1>1. /\ calm' = calm /\ pending' = pending /\ thread' = thread
      /\ latest' = latest /\ target' = target
  BY DEF Read
<1>2. pc[c] # "idle"
  BY DEF Read, NodeTypeOK
<1>3. pending = {} /\ latest["ssl"] = target /\ latest["hostName"] = target /\ latest["port"] = target
  BY <1>1, <1>2 DEF Quiet, Known
<1>4. CASE c = d
  <2>1. seen[thread[c]] = latest /\ Running(c)
    BY <1>1, <1>2, <1>4 DEF Quiet, Read
  <2>2. seen' = seen
    BY <1>4, <2>1, ReadLatest
  <2>3. CASE ReadSsl(c)
    <3>1. got' = [got EXCEPT ![c]["ssl"] = target] /\ pc' = [pc EXCEPT ![c] = "hostName"]
      BY <1>3, <2>1, <2>3, ReadLatest DEF Read
    <3>2. QED
      BY <1>1, <1>3, <2>1, <2>2, <3>1 DEF ReadSoFar, Running, NodeTypeOK, View
  <2>4. CASE ReadHostName(c)
    <3>1. got' = [got EXCEPT ![c]["hostName"] = target] /\ pc' = [pc EXCEPT ![c] = "port"]
      BY <1>3, <2>1, <2>4, ReadLatest DEF Read
    <3>2. got[c]["ssl"] = target
      BY <1>1, <1>2, <2>4 DEF Quiet, ReadSoFar, Read
    <3>3. QED
      BY <1>1, <1>3, <2>1, <2>2, <3>1, <3>2 DEF ReadSoFar, Running, NodeTypeOK, View
  <2>5. CASE ReadPort(c)
    <3>1. got' = [got EXCEPT ![c]["port"] = target] /\ pc' = [pc EXCEPT ![c] = "get"]
      BY <1>3, <2>1, <2>5, ReadLatest DEF Read
    <3>2. got[c]["ssl"] = target /\ got[c]["hostName"] = target
      BY <1>1, <1>2, <2>5 DEF Quiet, ReadSoFar, Read
    <3>3. QED
      BY <1>1, <1>3, <2>1, <2>2, <3>1, <3>2 DEF ReadSoFar, Running, NodeTypeOK, View
  <2>6. QED
    BY <1>4, <2>3, <2>4, <2>5
<1>5. CASE c # d
  <2>1. pc'[c] = pc[c] /\ got'[c] = got[c]
    BY <1>5 DEF Read, NodeTypeOK
  <2>2. ReadSoFar(c)'
    BY <1>1, <1>2, <2>1 DEF Quiet, ReadSoFar
  <2>3. pc[c] # "get" => Running(c) /\ seen[thread[c]] = latest
    BY <1>1, <1>2 DEF Quiet
  <2>4. CASE thread[c] = thread[d] /\ pc[c] # "get"
    <3>1. seen' = seen
      BY <2>3, <2>4, ReadLatest
    <3>2. QED
      BY <1>1, <1>3, <2>1, <2>2, <2>3, <3>1 DEF Running
  <2>5. CASE thread[c] # thread[d]
    <3>1. Running(c) => seen'[thread[c]] = seen[thread[c]]
      BY <2>5 DEF Read, Running, NodeTypeOK
    <3>2. QED
      BY <1>1, <1>3, <2>1, <2>2, <2>3, <3>1 DEF Running
  <2>6. CASE pc[c] = "get"
    BY <1>1, <1>3, <2>1, <2>2, <2>6
  <2>7. QED
    BY <2>4, <2>5, <2>6
<1>6. QED
  BY <1>4, <1>5

LEMMA QuietStep == NodeTypeOK /\ Known /\ Quiet /\ [NodeNext]_nodeVars => Quiet'
<1> SUFFICES ASSUME NodeTypeOK, Known, Quiet, [NodeNext]_nodeVars PROVE Quiet'
  OBVIOUS
<1>1. CASE \E c \in Everyone, t \in Threads : Resume(c, t)
  <2>1. PICK d \in Everyone, t \in Threads : Resume(d, t)
    BY <1>1
  <2>2. \A c \in Callers : Running(c) => thread'[c] = thread[c] /\ thread[c] # t
    BY <2>1, CoroutinesAssumption DEF Resume, Running, NodeTypeOK, Everyone
  <2>3. \A c \in Callers : Running(c) => Running(c)' /\ seen'[thread'[c]] = seen[thread[c]]
    BY <2>1, <2>2 DEF Resume, Running, NodeTypeOK
  <2>4. QED
    BY <2>1, <2>3 DEF Resume, Quiet, ReadSoFar
<1>2. CASE \E c \in Everyone : Park(c)
  <2>1. PICK d \in Everyone : Park(d)
    BY <1>2
  <2>2. \A c \in Callers : pc[c] # "idle" /\ pc[c] # "get" => thread'[c] = thread[c]
    BY <2>1, CoroutinesAssumption DEF Park, MaySuspend, NodeTypeOK, Everyone
  <2>3. QED
    BY <2>1, <2>2 DEF Park, Quiet, ReadSoFar, Running
<1>3. CASE Reconfigure
  BY <1>3 DEF Reconfigure, Quiet
<1>4. CASE \E f \in Fields : Assign(f)
  BY <1>4 DEF Assign, Quiet
<1>5. CASE \E c \in Callers : Call(c)
  <2>1. PICK d \in Callers : Call(d)
    BY <1>5
  <2>2. SUFFICES ASSUME NEW c \in Callers, calm'[c], pc'[c] # "idle"
                 PROVE  /\ pending' = {}
                        /\ pc'[c] # "get" => Running(c)' /\ seen'[thread'[c]] = latest'
                        /\ ReadSoFar(c)'
    BY DEF Quiet
  <2>3. CASE c = d
    BY <2>1, <2>2, <2>3 DEF Call, ReadSoFar, Running, NodeTypeOK
  <2>4. CASE c # d
    <3>1. pc'[c] = pc[c] /\ calm'[c] = calm[c]
      BY <2>1, <2>4 DEF Call, NodeTypeOK
    <3>2. QED
      BY <2>1, <2>2, <3>1 DEF Call, Quiet, ReadSoFar, Running
  <2>5. QED
    BY <2>3, <2>4
<1>6. CASE \E c \in Callers : ReadSsl(c) \/ ReadHostName(c) \/ ReadPort(c)
  BY <1>6, QuietRead
<1>7. CASE \E c \in Callers : Return(c)
  <2>1. PICK d \in Callers : Return(d)
    BY <1>7
  <2>2. \A c \in Callers : c # d => pc'[c] = pc[c] /\ got'[c] = got[c]
    BY <2>1 DEF Return, NodeTypeOK
  <2>3. pc'[d] = "idle"
    BY <2>1 DEF Return, NodeTypeOK
  <2>4. QED
    BY <2>1, <2>2, <2>3 DEF Return, Quiet, ReadSoFar, Running
<1>8. CASE UNCHANGED nodeVars
  BY <1>8 DEF nodeVars, Quiet, ReadSoFar, Running
<1>9. QED
  BY <1>1, <1>2, <1>3, <1>4, <1>5, <1>6, <1>7, <1>8 DEF NodeNext

\* Three values of one generation make that generation's URL.
LEMMA WholeView ==
  ASSUME NEW v, NEW g, v["ssl"] = g, v["hostName"] = g, v["port"] = g
  PROVE  UrlOf(v) = ConfiguredUrl(g)
BY DEF UrlOf, ConfiguredUrl

\* On any number of threads, a call that begins when its thread knows of every
\* assignment and during which no reconfiguration starts addresses the node
\* as it is configured.
THEOREM QuietCallCorrect == NodeSpec => []QuietCall
<1>1. NodeInit => NodeTypeOK /\ Known /\ Quiet
  BY TypeInit, KnownInit, QuietInit
<1>2. NodeTypeOK /\ Known /\ Quiet /\ [NodeNext]_nodeVars => (NodeTypeOK /\ Known /\ Quiet)'
  BY TypeStep, KnownStep, QuietStep
<1>3. Quiet => QuietCall
  <2> SUFFICES ASSUME Quiet, NEW c \in Callers, pc[c] = "get", calm[c]
               PROVE  UrlOf(got[c]) = ConfiguredUrl(target)
    BY DEF QuietCall
  <2>1. ReadSoFar(c)
    BY DEF Quiet
  <2>2. QED
    BY <2>1, WholeView DEF ReadSoFar
<1>4. QED
  BY <1>1, <1>2, <1>3, PTL DEF NodeSpec

-----------------------------------------------------------------------------
(* All coroutines on one thread.                                           *)

\* A thread executes one coroutine at a time; who is between two accesses of
\* the node has not given up its thread; the thread knows every assignment.
Confined ==
  /\ \A c, d \in Everyone : Running(c) /\ thread[c] = thread[d] => c = d
  /\ pending # {} => Running(Owner)
  /\ \A c \in Callers : pc[c] \in {"ssl", "hostName", "port"} => Running(c)
  /\ \A t \in Threads : seen[t] = latest
  /\ \A c \in Callers : pc[c] # "get" => ReadSoFar(c)

\* While a caller runs the owner does not, hence nothing is pending.
LEMMA OneRuns ==
  ASSUME OneThread, NodeTypeOK, Known, Confined, NEW c \in Callers, Running(c)
  PROVE  /\ ~Running(Owner)
         /\ pending = {}
         /\ \A f \in Fields : latest[f] = target
<1>1. ~Running(Owner)
  <2> SUFFICES ASSUME Running(Owner) PROVE FALSE
    OBVIOUS
  <2>1. thread[c] = thread[Owner]
    BY DEF OneThread, Running
  <2>2. QED
    BY <2>1, CoroutinesAssumption DEF Confined, Everyone
<1>2. pending = {}
  BY <1>1 DEF Confined
<1>3. QED
  BY <1>1, <1>2 DEF Known

\* While the owner runs, no caller is between two reads.
LEMMA OwnerAlone ==
  ASSUME OneThread, NodeTypeOK, Known, Confined, Running(Owner), NEW c \in Callers
  PROVE  pc[c] \in {"idle", "get"}
BY OneRuns DEF Confined, NodeTypeOK

LEMMA ConfinedInit == NodeInit => Confined
BY CoroutinesAssumption DEF NodeInit, Confined, Running, ReadSoFar, Everyone

LEMMA ConfinedRead ==
  ASSUME OneThread, NodeTypeOK, Known, Confined,
         NEW d \in Callers, ReadSsl(d) \/ ReadHostName(d) \/ ReadPort(d)
  PROVE  Confined' /\ ReadSoFar(d)' /\ UNCHANGED target
<1> USE DEF ReadSsl, ReadHostName, ReadPort, Fields
<1>1. Running(d) /\ thread[d] \in Threads
  BY DEF Read, Running
<1>2. /\ UNCHANGED <<latest, target, pending, thread, carried>>
      /\ \A c \in Callers : c # d => pc'[c] = pc[c] /\ got'[c] = got[c]
  BY DEF Read, NodeTypeOK
<1>3. latest["ssl"] = target /\ latest["hostName"] = target /\ latest["port"] = target
  BY <1>1, OneRuns
<1>4. seen[thread[d]] = latest
  BY <1>1 DEF Confined
<1>5. seen' = seen
  BY <1>4, ReadLatest
<1>6. ReadSoFar(d)'
  <2>1. CASE ReadSsl(d)
    <3>1. got' = [got EXCEPT ![d]["ssl"] = target] /\ pc' = [pc EXCEPT ![d] = "hostName"]
      BY <1>3, <1>4, <2>1, ReadLatest DEF Read
    <3>2. QED
      BY <1>2, <3>1 DEF ReadSoFar, NodeTypeOK, View
  <2>2. CASE ReadHostName(d)
    <3>1. got' = [got EXCEPT ![d]["hostName"] = target] /\ pc' = [pc EXCEPT ![d] = "port"]
      BY <1>3, <1>4, <2>2, ReadLatest DEF Read
    <3>2. got[d]["ssl"] = target
      BY <2>2 DEF Confined, ReadSoFar, Read
    <3>3. QED
      BY <1>2, <3>1, <3>2 DEF ReadSoFar, NodeTypeOK, View
  <2>3. CASE ReadPort(d)
    <3>1. got' = [got EXCEPT ![d]["port"] = target] /\ pc' = [pc EXCEPT ![d] = "get"]
      BY <1>3, <1>4, <2>3, ReadLatest DEF Read
    <3>2. got[d]["ssl"] = target /\ got[d]["hostName"] = target
      BY <2>3 DEF Confined, ReadSoFar, Read
    <3>3. QED
      BY <1>2, <3>1, <3>2 DEF ReadSoFar, NodeTypeOK, View
  <2>4. QED
    BY <2>1, <2>2, <2>3
<1>7. \A c \in Callers : pc'[c] # "get" => ReadSoFar(c)'
  BY <1>2, <1>6 DEF Confined, ReadSoFar
<1>8. \A c \in Callers : pc'[c] \in {"ssl", "hostName", "port"} => Running(c)'
  BY <1>1, <1>2 DEF Confined, Running
<1>9. QED
  BY <1>2, <1>5, <1>6, <1>7, <1>8 DEF Confined, Running

LEMMA ConfinedStep ==
  OneThread /\ NodeTypeOK /\ Known /\ Confined /\ [NodeNext]_nodeVars => Confined'
<1> SUFFICES ASSUME OneThread, NodeTypeOK, Known, Confined, [NodeNext]_nodeVars
             PROVE  Confined'
  OBVIOUS
<1>1. CASE \E c \in Everyone, t \in Threads : Resume(c, t)
  <2>1. PICK d \in Everyone, t \in Threads : Resume(d, t)
    BY <1>1
  <2>2. Join(seen[t], carried[d]) = latest
    <3>1. seen[t] \in View /\ carried[d] \in View /\ latest \in View
      BY DEF NodeTypeOK
    <3>2. Below(seen[t], latest) /\ Below(carried[d], latest) /\ seen[t] = latest
      BY DEF Known, Confined
    <3>3. QED
      BY <3>1, <3>2, JoinView, BelowEqual
  <2>3. \A u \in Threads : seen'[u] = latest'
    BY <2>1, <2>2 DEF Resume, Confined, NodeTypeOK
  <2>4. \A c \in Everyone : Running(c) => thread'[c] = thread[c] /\ Running(c)'
    BY <2>1, CoroutinesAssumption DEF Resume, Running, NodeTypeOK
  <2>5. \A c, e \in Everyone : Running(c)' /\ thread'[c] = thread'[e] => c = e
    BY <2>1 DEF Resume, Running, Confined, NodeTypeOK
  <2>6. Owner \in Everyone /\ Callers \subseteq Everyone
    BY DEF Everyone
  <2>7. pending' # {} => Running(Owner)'
    BY <2>1, <2>4, <2>6 DEF Resume, Confined
  <2>8. \A c \in Callers : pc'[c] \in {"ssl", "hostName", "port"} => Running(c)'
    BY <2>1, <2>4, <2>6 DEF Resume, Confined
  <2>9. \A c \in Callers : pc'[c] # "get" => ReadSoFar(c)'
    BY <2>1 DEF Resume, Confined, ReadSoFar
  <2>10. QED
    BY <2>3, <2>5, <2>7, <2>8, <2>9 DEF Confined
<1>2. CASE \E c \in Everyone : Park(c)
  <2>1. PICK d \in Everyone : Park(d)
    BY <1>2
  <2>2. \A c \in Everyone : c # d => thread'[c] = thread[c]
    BY <2>1 DEF Park, NodeTypeOK
  <2>3. ~Running(d)'
    BY <2>1, CoroutinesAssumption DEF Park, Running, NodeTypeOK
  <2>4. \A c, e \in Everyone : Running(c)' /\ thread'[c] = thread'[e] => c = e
    BY <2>1, <2>2, <2>3 DEF Running, Confined
  <2>5. pending' # {} => Running(Owner)'
    BY <2>1, <2>2 DEF Park, MaySuspend, Running, Confined, Everyone
  <2>6. \A c \in Callers : pc'[c] \in {"ssl", "hostName", "port"} => Running(c)'
    BY <2>1, <2>2, CoroutinesAssumption DEF Park, MaySuspend, Running, Confined, Everyone
  <2>7. \A c \in Callers : pc'[c] # "get" => ReadSoFar(c)'
    BY <2>1 DEF Park, Confined, ReadSoFar
  <2>8. QED
    BY <2>1, <2>4, <2>5, <2>6, <2>7 DEF Park, Confined
<1>3. CASE Reconfigure
  <2>1. \A c \in Callers : pc[c] \in {"idle", "get"}
    BY <1>3, OwnerAlone DEF Reconfigure
  <2>2. \A c \in Callers : pc'[c] # "get" => ReadSoFar(c)'
    BY <1>3, <2>1 DEF Reconfigure, ReadSoFar
  <2>3. QED
    BY <1>3, <2>2 DEF Reconfigure, Confined, Running
<1>4. CASE \E f \in Fields : Assign(f)
  <2>1. PICK f \in Fields : Assign(f)
    BY <1>4
  <2>2. \A t \in Threads : t = thread[Owner] /\ seen[t] = latest
    BY <2>1 DEF Assign, Running, OneThread, Confined
  <2>3. \A t \in Threads : seen'[t] = latest'
    BY <2>1, <2>2 DEF Assign, NodeTypeOK, View
  <2>4. \A c \in Callers : pc'[c] # "get" => ReadSoFar(c)'
    BY <2>1 DEF Assign, Confined, ReadSoFar
  <2>5. QED
    BY <2>1, <2>3, <2>4 DEF Assign, Confined, Running
<1>5. CASE \E c \in Callers : Call(c)
  <2>1. PICK d \in Callers : Call(d)
    BY <1>5
  <2>2. \A c \in Callers : pc'[c] \in {"ssl", "hostName", "port"} => Running(c)'
    BY <2>1 DEF Call, Confined, Running, NodeTypeOK
  <2>3. \A c \in Callers : pc'[c] # "get" => ReadSoFar(c)'
    BY <2>1 DEF Call, Confined, ReadSoFar, NodeTypeOK
  <2>4. QED
    BY <2>1, <2>2, <2>3 DEF Call, Confined, Running
<1>6. CASE \E c \in Callers : ReadSsl(c) \/ ReadHostName(c) \/ ReadPort(c)
  BY <1>6, ConfinedRead
<1>7. CASE \E c \in Callers : Return(c)
  <2>1. PICK d \in Callers : Return(d)
    BY <1>7
  <2>2. \A c \in Callers : pc'[c] \in {"ssl", "hostName", "port"} => Running(c)'
    BY <2>1 DEF Return, Confined, Running, NodeTypeOK
  <2>3. \A c \in Callers : pc'[c] # "get" => ReadSoFar(c)'
    BY <2>1 DEF Return, Confined, ReadSoFar, NodeTypeOK
  <2>4. QED
    BY <2>1, <2>2, <2>3 DEF Return, Confined, Running
<1>8. CASE UNCHANGED nodeVars
  BY <1>8 DEF nodeVars, Confined, ReadSoFar, Running
<1>9. QED
  BY <1>1, <1>2, <1>3, <1>4, <1>5, <1>6, <1>7, <1>8 DEF NodeNext

\* Only the read of the port brings a caller from there to its request.
LEMMA CurrentStep ==
  ASSUME OneThread, NodeTypeOK, Known, Confined, [NodeNext]_nodeVars,
         NEW c \in Callers, pc[c] = "port", pc'[c] = "get"
  PROVE  UrlOf(got'[c]) = ConfiguredUrl(target)
<1>1. ReadPort(c)
  <2>1. pc'[c] # pc[c]
    OBVIOUS
  <2>2. CASE \E d \in Callers : ReadSsl(d) \/ ReadHostName(d) \/ ReadPort(d)
    BY <2>1, <2>2 DEF ReadSsl, ReadHostName, ReadPort, Read, NodeTypeOK
  <2>3. CASE \E d \in Callers : Call(d) \/ Return(d)
    BY <2>3 DEF Call, Return, NodeTypeOK
  <2>4. QED
    BY <2>1, <2>2, <2>3 DEF NodeNext, nodeVars, Resume, Park, Reconfigure, Assign
<1>2. ReadSoFar(c)' /\ target' = target
  BY <1>1, ConfinedRead
<1>3. QED
  BY <1>2, WholeView DEF ReadSoFar

\* On one thread the head of a client method is atomic: every call composes the
\* URL of the setting in force at that moment.
THEOREM CurrentUrlCorrect ==
  ASSUME OneThread
  PROVE  NodeSpec => CurrentUrl
<1>1. NodeInit => NodeTypeOK /\ Known /\ Confined
  BY TypeInit, KnownInit, ConfinedInit
<1>2. NodeTypeOK /\ Known /\ Confined /\ [NodeNext]_nodeVars
        => (NodeTypeOK /\ Known /\ Confined)'
  BY TypeStep, KnownStep, ConfinedStep
<1>3. NodeTypeOK /\ Known /\ Confined /\ [NodeNext]_nodeVars
        => [\A c \in Callers :
              pc[c] = "port" /\ pc'[c] = "get" => UrlOf(got'[c]) = ConfiguredUrl(target)]_nodeVars
  BY CurrentStep
<1>4. QED
  BY <1>1, <1>2, <1>3, PTL DEF NodeSpec, CurrentUrl

\* On one thread no request goes to a mixture of two settings.
THEOREM WholeUrlCorrect ==
  ASSUME OneThread
  PROVE  NodeSpec => []WholeUrl
<1> DEFINE Inv == NodeTypeOK /\ Known /\ Confined
<1>1. NodeInit => Inv /\ WholeUrl
  <2>1. NodeInit => WholeUrl
    BY DEF NodeInit, WholeUrl
  <2> QED BY <2>1, TypeInit, KnownInit, ConfinedInit
<1>2. Inv /\ [NodeNext]_nodeVars => Inv'
  BY TypeStep, KnownStep, ConfinedStep
<1>3. Inv /\ Inv' /\ WholeUrl /\ [NodeNext]_nodeVars => WholeUrl'
  <2> SUFFICES ASSUME Inv, Inv', WholeUrl, [NodeNext]_nodeVars,
                      NEW c \in Callers, pc'[c] = "get"
               PROVE  \E g \in 0 .. target' : UrlOf(got'[c]) = ConfiguredUrl(g)
    BY DEF WholeUrl, UrlOf, ConfiguredUrl
  <2>1. target \in Nat /\ target' \in Nat
    BY NodeAssumption DEF NodeTypeOK, Generations
  <2>2. target <= target'
    <3>1. CASE Reconfigure
      BY <2>1, <3>1 DEF Reconfigure
    <3>2. CASE UNCHANGED target
      BY <2>1, <3>2
    <3> QED BY <3>1, <3>2
          DEF NodeNext, nodeVars, Resume, Park, Assign, Call,
              ReadSsl, ReadHostName, ReadPort, Read, Return
  <2>3. CASE pc[c] = "get"
    <3>1. PICK g \in 0 .. target : UrlOf(got[c]) = ConfiguredUrl(g)
      BY <2>3 DEF WholeUrl
    <3>2. got'[c] = got[c]
      <4>1. CASE \E d \in Callers : ReadSsl(d) \/ ReadHostName(d) \/ ReadPort(d)
        BY <2>3, <4>1 DEF ReadSsl, ReadHostName, ReadPort, Read, NodeTypeOK
      <4>2. CASE \E d \in Callers : Return(d)
        BY <2>3, <4>2 DEF Return, NodeTypeOK
      <4> QED BY <4>1, <4>2
            DEF NodeNext, nodeVars, Resume, Park, Reconfigure, Assign, Call
    <3>3. g \in 0 .. target'
      BY <2>1, <2>2
    <3> QED BY <3>1, <3>2, <3>3
  <2>4. CASE pc[c] = "port"
    <3>1. UrlOf(got'[c]) = ConfiguredUrl(target)
      BY <2>4, CurrentStep
    <3>2. target \in 0 .. target'
      BY <2>1, <2>2
    <3> QED BY <3>1, <3>2
  <2>5. pc[c] \in {"get", "port"}
    <3>1. CASE \E d \in Callers : Call(d) \/ ReadSsl(d) \/ ReadHostName(d) \/ ReadPort(d) \/ Return(d)
      BY <3>1 DEF Call, ReadSsl, ReadHostName, ReadPort, Read, Return, NodeTypeOK
    <3> QED BY <3>1 DEF NodeNext, nodeVars, Resume, Park, Reconfigure, Assign
  <2> QED BY <2>3, <2>4, <2>5
<1>4. QED
  BY <1>1, <1>2, <1>3, PTL DEF NodeSpec

=============================================================================
