-------------------------------- MODULE Node --------------------------------
(***************************************************************************)
(* The shared, mutable Node of kryptokrona-core and the way every client   *)
(* method of kryptokrona-http reads it.                                    *)
(*                                                                         *)
(* Node has three plain `var' properties.  A client method reads ssl, then *)
(* hostName, then port, and from the three values composes the URL of its  *)
(* request; nothing between the reads suspends and nothing locks.  The     *)
(* application reconfigures the node by assigning the properties one by    *)
(* one while clients that share the object may be inside such a method.    *)
(*                                                                         *)
(* A property is represented by the generation of the setting its value    *)
(* belongs to: generation 0 is the constructor's, generation n is written  *)
(* by the n-th reconfiguration.  Settings gives the values themselves.     *)
(*                                                                         *)
(* Coroutines run on the threads of a dispatcher and keep their thread     *)
(* until they suspend.  The properties are neither volatile nor guarded,   *)
(* so a read on a thread that is not ordered after the last write returns  *)
(* any value from the newest one the thread is known to have seen up to    *)
(* the last one written (per-variable coherence; variables independent).   *)
(***************************************************************************)
EXTENDS Naturals, Coroutines

CONSTANTS
  Hosts, Ports,   \* values of hostName and of port
  Settings,       \* Settings[g]: the properties as generation g sets them
  MaxGeneration   \* bound: how often the node is reconfigured

Fields      == {"ssl", "hostName", "port"}
Generations == 0 .. MaxGeneration
View        == [Fields -> Generations]
Setting     == [ssl : BOOLEAN, hostName : Hosts, port : Ports]

ASSUME NodeAssumption ==
  /\ MaxGeneration \in Nat
  /\ Settings \in [Generations -> Setting]

VARIABLES
  latest,   \* latest[f]: generation last assigned to property f
  target,   \* generation the owner's current or last reconfiguration writes
  pending,  \* properties that reconfiguration has still to assign
  seen,     \* seen[t]: per property, the newest generation thread t knows
  carried,  \* carried[c]: what coroutine c had seen when it last suspended
  thread,   \* thread[c]: the thread that executes coroutine c, or Parked
  pc,       \* pc[c]: the property caller c reads next; "get" once all are read
  got,      \* got[c]: generations of the values read by c's present call
  calm      \* history: no reconfiguration under way since c's call began

nodeVars == <<latest, target, pending, seen, carried, thread, pc, got, calm>>

Fresh == [f \in Fields |-> 0]

NodeTypeOK ==
  /\ latest  \in View
  /\ target  \in Generations
  /\ pending \subseteq Fields
  /\ seen    \in [Threads -> View]
  /\ carried \in [Everyone -> View]
  /\ thread  \in [Everyone -> Threads \cup {Parked}]
  /\ pc      \in [Callers -> {"idle", "ssl", "hostName", "port", "get"}]
  /\ got     \in [Callers -> View]
  /\ calm    \in [Callers -> BOOLEAN]

NodeInit ==
  /\ latest  = Fresh
  /\ target  = 0
  /\ pending = {}
  /\ seen    = [t \in Threads |-> Fresh]
  /\ carried = [c \in Everyone |-> Fresh]
  /\ thread  = [c \in Everyone |-> Parked]
  /\ pc      = [c \in Callers |-> "idle"]
  /\ got     = [c \in Callers |-> Fresh]
  /\ calm    = [c \in Callers |-> FALSE]

-----------------------------------------------------------------------------
(* The dispatcher.                                                         *)

Running(c) == thread[c] \in Threads

Join(v, w) == [f \in Fields |-> IF v[f] < w[f] THEN w[f] ELSE v[f]]

\* A suspended coroutine is dispatched to a free thread; what it had seen
\* before it suspended happens before what it does next.
Resume(c, t) ==
  /\ thread[c] = Parked
  /\ \A d \in Everyone : thread[d] # t
  /\ thread' = [thread EXCEPT ![c] = t]
  /\ seen' = [seen EXCEPT ![t] = Join(@, carried[c])]
  /\ UNCHANGED <<latest, target, pending, carried, pc, got, calm>>

\* Mutation of MaySuspend: something between the accesses suspends.
MaySuspendAnywhere(c) == c \in Everyone

\* Where a coroutine may give up its thread: a caller outside a client method
\* or inside get(); the owner outside its run of assignments.
MaySuspend(c) ==
  IF c = Owner THEN pending = {} ELSE pc[c] \in {"idle", "get"}

Park(c) ==
  /\ Running(c)
  /\ MaySuspend(c)
  /\ thread' = [thread EXCEPT ![c] = Parked]
  /\ carried' = [carried EXCEPT ![c] = seen[thread[c]]]
  /\ UNCHANGED <<latest, target, pending, seen, pc, got, calm>>

-----------------------------------------------------------------------------
(* The application's side: assign all properties, in any order.            *)

Reconfigure ==
  /\ Running(Owner)
  /\ pending = {}
  /\ target < MaxGeneration
  /\ target' = target + 1
  /\ pending' = Fields
  /\ calm' = [c \in Callers |-> FALSE]
  /\ UNCHANGED <<latest, seen, carried, thread, pc, got>>

Assign(f) ==
  /\ Running(Owner)
  /\ f \in pending
  /\ pending' = pending \ {f}
  /\ latest' = [latest EXCEPT ![f] = target]
  /\ seen' = [seen EXCEPT ![thread[Owner]][f] = target]
  /\ UNCHANGED <<target, carried, thread, pc, got, calm>>

-----------------------------------------------------------------------------
(* The clients' side: the head of every client method.                     *)

Call(c) ==
  /\ Running(c)
  /\ pc[c] = "idle"
  /\ pc' = [pc EXCEPT ![c] = "ssl"]
  /\ calm' = [calm EXCEPT ![c] = pending = {} /\ seen[thread[c]] = latest]
  /\ UNCHANGED <<latest, target, pending, seen, carried, thread, got>>

\* Generations a read of property f on thread t may return.
Visible(t, f) == seen[t][f] .. latest[f]

\* Mutation of Read: the property as it was when the client was constructed.
ReadAtConstruction(c, f, next) ==
  /\ Running(c)
  /\ pc[c] = f
  /\ pc' = [pc EXCEPT ![c] = next]
  /\ UNCHANGED <<latest, target, pending, seen, carried, thread, got, calm>>

Read(c, f, next) ==
  /\ Running(c)
  /\ pc[c] = f
  /\ \E g \in Visible(thread[c], f) :
       /\ got' = [got EXCEPT ![c][f] = g]
       /\ seen' = [seen EXCEPT ![thread[c]][f] = g]
  /\ pc' = [pc EXCEPT ![c] = next]
  /\ UNCHANGED <<latest, target, pending, carried, thread, calm>>

ReadSsl(c)      == Read(c, "ssl", "hostName")
ReadHostName(c) == Read(c, "hostName", "port")
ReadPort(c)     == Read(c, "port", "get")

\* The request is over, one way or another, and the method returns.
Return(c) ==
  /\ Running(c)
  /\ pc[c] = "get"
  /\ pc' = [pc EXCEPT ![c] = "idle"]
  /\ got' = [got EXCEPT ![c] = Fresh]
  /\ UNCHANGED <<latest, target, pending, seen, carried, thread, calm>>

NodeNext ==
  \/ \E c \in Everyone, t \in Threads : Resume(c, t)
  \/ \E c \in Everyone : Park(c)
  \/ Reconfigure
  \/ \E f \in Fields : Assign(f)
  \/ \E c \in Callers : \/ Call(c)
                        \/ ReadSsl(c)
                        \/ ReadHostName(c)
                        \/ ReadPort(c)
                        \/ Return(c)

NodeSpec == NodeInit /\ [][NodeNext]_nodeVars

-----------------------------------------------------------------------------
(* What the URL promises.                                                  *)

Url == [scheme : {"https", "http"}, hostName : Hosts, port : Ports]

\* Mutation of UrlOf: `http' pasted into both branches.
UrlWithoutTls(view) ==
  [scheme   |-> "http",
   hostName |-> Settings[view["hostName"]].hostName,
   port     |-> Settings[view["port"]].port]

\* The URL a call composes from the values it has read.
UrlOf(view) ==
  [scheme   |-> IF Settings[view["ssl"]].ssl THEN "https" ELSE "http",
   hostName |-> Settings[view["hostName"]].hostName,
   port     |-> Settings[view["port"]].port]

\* The URL of the node the application meant with generation g.
ConfiguredUrl(g) ==
  [scheme   |-> IF Settings[g].ssl THEN "https" ELSE "http",
   hostName |-> Settings[g].hostName,
   port     |-> Settings[g].port]

\* A request goes to a node that was configured at some time: its URL never
\* mixes properties of two settings.  Every client method composes its URL
\* from three separate reads of the shared Node.
WholeUrl ==
  \A c \in Callers :
    pc[c] = "get" => \E g \in 0 .. target : UrlOf(got[c]) = ConfiguredUrl(g)

\* A call that begins when its thread has seen every assignment, and during
\* which no reconfiguration starts, addresses the node now configured,
\* whatever the number of threads: reconfiguring is safe between calls.
QuietCall ==
  \A c \in Callers :
    pc[c] = "get" /\ calm[c] => UrlOf(got[c]) = ConfiguredUrl(target)

\* When all coroutines share one thread the head of a client method is
\* atomic: the URL it composes is that of the setting in force at that moment,
\* whole and never an earlier one.
CurrentUrl ==
  [][\A c \in Callers :
       pc[c] = "port" /\ pc'[c] = "get" => UrlOf(got'[c]) = ConfiguredUrl(target)]_nodeVars

=============================================================================
