------------------------------ MODULE Clients -------------------------------
(***************************************************************************)
(* The client classes of kryptokrona-http, composed with the Node they     *)
(* read and the HTTP client they share.                                    *)
(*                                                                         *)
(* Every client method has the same shape: inside a try block it reads the *)
(* node, calls get() with the URL, and decodes the body; `catch (e:        *)
(* Exception)' logs, and the method returns null (isNodeRunning: false).   *)
(* A cancellation is an Exception, hence it is caught and answered with    *)
(* null as well; a throwable that is no Exception leaves the method.       *)
(*                                                                         *)
(* Around the methods: callers that make calls, suspend between them and   *)
(* end; an owner that reconfigures the node; the daemons at the configured *)
(* addresses, which stop and start again; a network that may fail.  Faults *)
(* selects what the environment of a run may do.                           *)
(***************************************************************************)
EXTENDS Node, Http, Operations

CONSTANTS
  Ops,        \* the operations called, some of DOMAIN Api
  Pollers,    \* callers that repeat a call without an answer, not suspending
  Faults,     \* which faults the environment has
  NoUrl       \* the source of an outcome that is nobody's answer

ASSUME ClientsAssumption ==
  /\ Ops \subseteq DOMAIN Api
  /\ Pollers \subseteq Callers
  /\ NoUrl \notin Url

AllFaults == {"cancel", "down", "flake", "reply", "slow", "crash", "url"}

VARIABLES
  op,        \* op[c]: the operation of c's present or last call
  outcome,   \* outcome[c]: what that call returned, and from which node
  up,        \* up[u]: the daemon at configured URL u is running
  since,     \* history: generation configured when c's call began
  spoiled    \* history: the faults that befell c's present or last call

callVars == <<op, outcome, up, since, spoiled>>
vars == <<nodeVars, httpVars, callVars>>

ConfiguredUrls == {ConfiguredUrl(g) : g \in Generations}

Values(o) ==
  {"none", "threw"} \cup (IF AsksStatus(o) THEN {"true", "false"} ELSE {"answer", "null"})

Outcomes(o) == [value : Values(o), from : Url \cup {NoUrl}]

Nothing == [value |-> "none", from |-> NoUrl]

TypeOK ==
  /\ NodeTypeOK
  /\ HttpTypeOK
  /\ op \in [Callers -> Ops]
  /\ outcome \in [Callers -> UNION {Outcomes(o) : o \in Ops}]
  /\ \A c \in Callers : outcome[c] \in Outcomes(op[c])
  /\ up \in [ConfiguredUrls -> BOOLEAN]
  /\ since \in [Callers -> Generations]
  /\ spoiled \in [Callers -> SUBSET AllFaults]

Init ==
  /\ NodeInit
  /\ HttpInit
  /\ op \in [Callers -> Ops]
  /\ outcome = [c \in Callers |-> Nothing]
  /\ up = [u \in ConfiguredUrls |-> TRUE]
  /\ since = [c \in Callers |-> 0]
  /\ spoiled = [c \in Callers |-> {}]

\* The generation the node is configured with: a reconfiguration counts from
\* its last assignment.
Published == IF pending = {} THEN target ELSE target - 1

Serving(u) == u \in ConfiguredUrls /\ up[u]

Spoil(c, fault) == spoiled' = [spoiled EXCEPT ![c] = @ \cup {fault}]

-----------------------------------------------------------------------------
(* One call.                                                               *)

\* A caller makes one call per stretch of execution, unless it is a poller
\* that has had no answer.
MayCall(c) ==
  \/ outcome[c].value = "none"
  \/ c \in Pollers /\ outcome[c].value \in {"null", "false"}

StartCall(c, o) ==
  /\ job[c] # "completed"
  /\ MayCall(c)
  /\ Call(c)
  /\ op' = [op EXCEPT ![c] = o]
  /\ outcome' = [outcome EXCEPT ![c] = Nothing]
  /\ since' = [since EXCEPT ![c] = Published]
  /\ spoiled' = [spoiled EXCEPT ![c] =
                   {f \in {"cancel"} : job[c] = "cancelling"}
                     \cup {f \in {"down"} : \E u \in ConfiguredUrls : ~up[u]}]
  /\ UNCHANGED <<httpVars, up>>

BuildUrl(c) ==
  /\ ReadSsl(c) \/ ReadHostName(c) \/ ReadPort(c)
  /\ UNCHANGED <<httpVars, callVars>>

\* get() suspends until the exchange is over ...
SendRequest(c) ==
  /\ pc[c] = "get"
  /\ job[c] = "active"
  /\ Submit(c)
  /\ Park(c)
  /\ UNCHANGED callVars

\* ... but throws without suspending when the job is already cancelled, ...
RefuseCancelled(c) ==
  /\ pc[c] = "get"
  /\ Running(c)
  /\ job[c] = "cancelling"
  /\ Submit(c)
  /\ UNCHANGED <<nodeVars, callVars>>

\* ... or when the URL does not parse.
RefuseUrl(c) ==
  /\ "url" \in Faults
  /\ pc[c] = "get"
  /\ Running(c)
  /\ Reject(c)
  /\ Spoil(c, "url")
  /\ UNCHANGED <<nodeVars, op, outcome, up, since>>

ResumeCall(c, t) ==
  /\ pc[c] = "get"
  /\ Wake(c)
  /\ Resume(c, t)
  /\ UNCHANGED callVars

\* Mutation of Result: every method decodes, or returns null.
ResultDecoded(c) ==
  IF exchange[c] = "answered" /\ reply[c].decodes
  THEN [value |-> "answer", from |-> UrlOf(got[c])]
  ELSE [value |-> "null", from |-> NoUrl]

\* What the method returns: the decoded body, or the status for isNodeRunning;
\* for every exception, decoding errors included, null or false.
Result(c) ==
  LET answered == exchange[c] = "answered"
      here     == UrlOf(got[c])
  IN  IF AsksStatus(op[c])
      THEN IF answered /\ reply[c].success
           THEN [value |-> "true", from |-> here]
           ELSE [value |-> "false", from |-> NoUrl]
      ELSE IF answered /\ reply[c].decodes
           THEN [value |-> "answer", from |-> here]
           ELSE [value |-> "null", from |-> NoUrl]

\* Mutation of FinishCall: a request that failed is made again.
FinishOrRetry(c) ==
  /\ \/ /\ exchange[c] = "answered"
        /\ outcome' = [outcome EXCEPT ![c] = Result(c)]
        /\ Return(c)
     \/ /\ exchange[c] = "failed"
        /\ Running(c)
        /\ UNCHANGED <<nodeVars, outcome>>
  /\ Close(c)
  /\ UNCHANGED <<op, up, since, spoiled>>

FinishCall(c) ==
  /\ exchange[c] \in {"answered", "failed"}
  /\ outcome' = [outcome EXCEPT ![c] = Result(c)]
  /\ Return(c)
  /\ Close(c)
  /\ UNCHANGED <<op, up, since, spoiled>>

\* catch (e: Exception) does not catch an Error.
Escape(c) ==
  /\ exchange[c] = "crashed"
  /\ outcome' = [outcome EXCEPT ![c] = [value |-> "threw", from |-> NoUrl]]
  /\ Return(c)
  /\ Close(c)
  /\ UNCHANGED <<op, up, since, spoiled>>

-----------------------------------------------------------------------------
(* The callers around their calls.                                         *)

\* A cancellable suspension of the caller's own, such as delay().
Delay(c) ==
  /\ job[c] = "active"
  /\ pc[c] = "idle"
  /\ outcome[c].value # "threw"
  /\ Park(c)
  /\ outcome' = [outcome EXCEPT ![c] = Nothing]
  /\ spoiled' = [spoiled EXCEPT ![c] = {}]
  /\ UNCHANGED <<httpVars, op, up, since>>

WakeUp(c, t) ==
  /\ job[c] = "active"
  /\ pc[c] = "idle"
  /\ Resume(c, t)
  /\ UNCHANGED <<httpVars, callVars>>

\* A caller cancelled in its own suspension ends there.
DieSuspended(c) ==
  /\ job[c] = "cancelling"
  /\ pc[c] = "idle"
  /\ ~Running(c)
  /\ Complete(c)
  /\ UNCHANGED <<nodeVars, callVars>>

\* A caller ends: it has what it wants, an Error passes through it, or its
\* next suspension notices that it was cancelled.
Terminate(c) ==
  /\ pc[c] = "idle"
  /\ Park(c)
  /\ Complete(c)
  /\ UNCHANGED callVars

-----------------------------------------------------------------------------
(* The rest of the world.                                                  *)

OwnerStep ==
  /\ \/ \E t \in Threads : Resume(Owner, t)
     \/ Park(Owner)
     \/ Reconfigure
     \/ \E f \in Fields : Assign(f)
  /\ UNCHANGED <<httpVars, callVars>>

CancelCaller(c) ==
  /\ "cancel" \in Faults
  /\ Cancel(c)
  /\ IF pc[c] = "idle" THEN UNCHANGED spoiled ELSE Spoil(c, "cancel")
  /\ UNCHANGED <<nodeVars, op, outcome, up, since>>

DaemonStops(u) ==
  /\ "down" \in Faults
  /\ up[u]
  /\ up' = [up EXCEPT ![u] = FALSE]
  /\ spoiled' = [c \in Callers |->
                   IF pc[c] = "idle" THEN spoiled[c] ELSE spoiled[c] \cup {"down"}]
  /\ UNCHANGED <<nodeVars, httpVars, op, outcome, since>>

DaemonStarts(u) ==
  /\ ~up[u]
  /\ up' = [up EXCEPT ![u] = TRUE]
  /\ UNCHANGED <<nodeVars, httpVars, op, outcome, since, spoiled>>

GoodReply == [success |-> TRUE, decodes |-> TRUE]

ReplyArrives(c, r) ==
  /\ Deliver(c, r)
  /\ Serving(UrlOf(got[c]))
  /\ \/ r = GoodReply /\ UNCHANGED spoiled
     \/ r # GoodReply /\ "reply" \in Faults /\ Spoil(c, "reply")
  /\ UNCHANGED <<nodeVars, op, outcome, up, since>>

\* No daemon listens at the address the request went to.
ConnectionRefused(c) ==
  /\ Fail(c)
  /\ ~Serving(UrlOf(got[c]))
  /\ UNCHANGED <<nodeVars, callVars>>

NetworkFails(c) ==
  /\ "flake" \in Faults
  /\ Fail(c)
  /\ Spoil(c, "flake")
  /\ UNCHANGED <<nodeVars, op, outcome, up, since>>

ClientCrashes(c) ==
  /\ "crash" \in Faults
  /\ Crash(c)
  /\ Spoil(c, "crash")
  /\ UNCHANGED <<nodeVars, op, outcome, up, since>>

RequestExpires(c) ==
  /\ Expire(c)
  /\ Spoil(c, "slow")
  /\ UNCHANGED <<nodeVars, op, outcome, up, since>>

TimePasses == Tick /\ UNCHANGED <<nodeVars, callVars>>

-----------------------------------------------------------------------------

CallStep(c) ==
  \/ \E o \in Ops : StartCall(c, o)
  \/ BuildUrl(c)
  \/ SendRequest(c)
  \/ RefuseCancelled(c)
  \/ RefuseUrl(c)
  \/ \E t \in Threads : ResumeCall(c, t)
  \/ FinishCall(c)
  \/ Escape(c)

CallerStep(c) ==
  \/ Delay(c)
  \/ \E t \in Threads : WakeUp(c, t)
  \/ DieSuspended(c)
  \/ Terminate(c)

WorldStep(c) ==
  \/ CancelCaller(c)
  \/ \E r \in Replies : ReplyArrives(c, r)
  \/ ConnectionRefused(c)
  \/ NetworkFails(c)
  \/ ClientCrashes(c)
  \/ RequestExpires(c)

Next ==
  \/ OwnerStep
  \/ TimePasses
  \/ \E u \in ConfiguredUrls : DaemonStops(u) \/ DaemonStarts(u)
  \/ \E c \in Callers : CallStep(c) \/ CallerStep(c) \/ WorldStep(c)

Spec == Init /\ [][Next]_vars

-----------------------------------------------------------------------------
(* Properties.                                                             *)

\* No answer without a reason.  When every coroutine shares one thread, or when
\* no reconfiguration overlaps the call, a call returns null or false or throws
\* only if something befell it: it was cancelled, a daemon was down, the network
\* failed, the reply was not a 2xx status with a decodable body, it took too
\* long, the URL was refused, or the client ran out of resources.  In
\* particular reconfiguring between running nodes loses no call.
NullIsExplained ==
  \A c \in Callers :
    (OneThread \/ calm[c]) /\ outcome[c].value \in {"null", "false", "threw"}
      => spoiled[c] # {}

\* isNodeRunning ("Check if node is running") says false only of a node that
\* could not be reached or did not answer with success.  A caller's own
\* cancellation says nothing about the node.
FalseIsAboutTheNode ==
  \A c \in Callers :
    outcome[c].value = "false" => spoiled[c] \ {"cancel"} # {}

\* With all coroutines on one thread the clients keep the promise of Queries:
\* a reconfiguration is in force from its last assignment, a call asks when the
\* method is entered and is told when it returns.
Promise ==
  INSTANCE Queries WITH
    generation <- Published,
    asking     <- [c \in Callers |-> pc[c] # "idle"],
    StatusOps  <- {o \in Ops : AsksStatus(o)},
    Address    <- [g \in Generations |-> ConfiguredUrl(g)]

KeepsPromise == Promise!Spec

-----------------------------------------------------------------------------
(* Fairness: the dispatcher runs what can run, first come first served; a   *)
(* coroutine on a thread goes on; time passes; the engine's timer strikes;  *)
(* a caller does not keep its thread between calls.  Nothing is assumed of  *)
(* daemons, network, owner's wish to reconfigure or callers' wish to call.  *)

Fairness ==
  /\ WF_vars(TimePasses)
  /\ WF_vars(OwnerStep /\ ~Reconfigure /\ Running(Owner))
  /\ \A c \in Callers :
       /\ WF_vars(BuildUrl(c))
       /\ WF_vars(SendRequest(c) \/ RefuseCancelled(c))
       /\ SF_vars(\E t \in Threads : ResumeCall(c, t))
       /\ WF_vars(FinishCall(c) \/ Escape(c))
       /\ WF_vars(Delay(c) \/ Terminate(c))
       /\ WF_vars(DieSuspended(c))
       /\ WF_vars(RequestExpires(c))

FairSpec == Spec /\ Fairness

\* Every call returns, although no daemon need ever reply.
EveryCallReturns ==
  \A c \in Callers : pc[c] # "idle" ~> pc[c] = "idle"

\* A cancelled caller ends, although the call it is in swallows the
\* cancellation and returns as if nothing had happened.
CancelledCallerEnds ==
  \A c \in Callers : job[c] = "cancelling" ~> job[c] = "completed"

=============================================================================
