-------------------------------- MODULE Http --------------------------------
(***************************************************************************)
(* The shared HTTP client of kryptokrona-http.                             *)
(*                                                                         *)
(* get() and post() suspend the calling coroutine on one private, never    *)
(* closed Ktor client.  Its block installs content negotiation and nothing *)
(* else: no HttpTimeout, no retry, no status validation.  So a request     *)
(* ends when a reply of any status arrives, when the engine raises an      *)
(* exception, when the engine's own request timeout strikes, or when the   *)
(* coroutine's job is cancelled, which surfaces as an exception too.       *)
(*                                                                         *)
(* A coroutine has at most one exchange at a time.  Time is counted in     *)
(* ticks, and a reply is reduced to what the SDK can tell apart: whether   *)
(* the status is 2xx, and whether the body decodes to the declared class.  *)
(***************************************************************************)
EXTENDS Naturals, Coroutines

CONSTANTS
  EngineTimeout,    \* ticks after which the engine gives up; 0 for never
  RequestTimeout,   \* Config.REQUEST_TIMEOUT in ticks
  AgeBound          \* bound: ages are told apart up to this one

ASSUME HttpAssumption ==
  /\ EngineTimeout \in Nat
  /\ RequestTimeout \in Nat
  /\ AgeBound \in Nat
  /\ EngineTimeout <= AgeBound

VARIABLES
  exchange,   \* exchange[c]: how far the request of coroutine c has come
  reply,      \* reply[c]: the reply to it, once exchange[c] is "answered"
  age,        \* age[c]: ticks since it was sent
  job         \* job[c]: the state of c's coroutine job

httpVars == <<exchange, reply, age, job>>

Replies == [success : BOOLEAN, decodes : BOOLEAN]
Blank   == [success |-> FALSE, decodes |-> FALSE]

HttpTypeOK ==
  /\ exchange \in [Callers -> {"none", "inflight", "answered", "failed", "crashed"}]
  /\ reply \in [Callers -> Replies]
  /\ age \in [Callers -> 0 .. AgeBound]
  /\ job \in [Callers -> {"active", "cancelling", "completed"}]

HttpInit ==
  /\ exchange = [c \in Callers |-> "none"]
  /\ reply = [c \in Callers |-> Blank]
  /\ age = [c \in Callers |-> 0]
  /\ job = [c \in Callers |-> "active"]

InFlight(c) == exchange[c] = "inflight"

\* get() or post().  The request of a job already cancelled never leaves: the
\* call fails at once, without suspending.
Submit(c) ==
  /\ exchange[c] = "none"
  /\ job[c] # "completed"
  /\ exchange' = [exchange EXCEPT
                    ![c] = IF job[c] = "active" THEN "inflight" ELSE "failed"]
  /\ UNCHANGED <<reply, age, job>>

\* The request cannot be built: a malformed URL, a body without serializer.
Reject(c) ==
  /\ exchange[c] = "none"
  /\ job[c] # "completed"
  /\ exchange' = [exchange EXCEPT ![c] = "failed"]
  /\ UNCHANGED <<reply, age, job>>

Deliver(c, r) ==
  /\ InFlight(c)
  /\ exchange' = [exchange EXCEPT ![c] = "answered"]
  /\ reply' = [reply EXCEPT ![c] = r]
  /\ UNCHANGED <<age, job>>

\* Connection refused, reset, closed early: an exception of the engine.
Fail(c) ==
  /\ InFlight(c)
  /\ exchange' = [exchange EXCEPT ![c] = "failed"]
  /\ UNCHANGED <<reply, age, job>>

\* A throwable that is no Exception, such as running out of memory while the
\* client saves the body.
Crash(c) ==
  /\ InFlight(c)
  /\ exchange' = [exchange EXCEPT ![c] = "crashed"]
  /\ UNCHANGED <<reply, age, job>>

Expire(c) ==
  /\ InFlight(c)
  /\ EngineTimeout # 0
  /\ age[c] = EngineTimeout
  /\ exchange' = [exchange EXCEPT ![c] = "failed"]
  /\ UNCHANGED <<reply, age, job>>

\* Time does not pass the moment at which the engine's timeout strikes.
Tick ==
  /\ \E c \in Callers : InFlight(c)
  /\ \A c \in Callers :
       InFlight(c) /\ EngineTimeout # 0 => age[c] < EngineTimeout
  /\ age' = [c \in Callers |->
               IF InFlight(c) /\ age[c] < AgeBound THEN age[c] + 1 ELSE age[c]]
  /\ UNCHANGED <<exchange, reply, job>>

\* From outside: cancel(), a failing sibling, withTimeout.
Cancel(c) ==
  /\ job[c] = "active"
  /\ job' = [job EXCEPT ![c] = "cancelling"]
  /\ UNCHANGED <<exchange, reply, age>>

\* The suspended coroutine is dispatched again: with the outcome, or, if its
\* job was cancelled in the meantime, with a CancellationException in place of
\* a reply that may even have arrived.
Wake(c) ==
  /\ \/ exchange[c] \in {"answered", "failed", "crashed"}
     \/ InFlight(c) /\ job[c] = "cancelling"
  /\ exchange' = [exchange EXCEPT
                    ![c] = IF job[c] = "cancelling" /\ @ # "crashed" THEN "failed" ELSE @]
  /\ UNCHANGED <<reply, age, job>>

\* The coroutine has taken the outcome.
Close(c) ==
  /\ exchange[c] \in {"answered", "failed", "crashed"}
  /\ exchange' = [exchange EXCEPT ![c] = "none"]
  /\ reply' = [reply EXCEPT ![c] = Blank]
  /\ age' = [age EXCEPT ![c] = 0]
  /\ UNCHANGED job

\* The coroutine ends.
Complete(c) ==
  /\ exchange[c] = "none"
  /\ job[c] # "completed"
  /\ job' = [job EXCEPT ![c] = "completed"]
  /\ UNCHANGED <<exchange, reply, age>>

HttpNext ==
  \/ Tick
  \/ \E c \in Callers :
       \/ Submit(c)
       \/ Reject(c)
       \/ \E r \in Replies : Deliver(c, r)
       \/ Fail(c)
       \/ Crash(c)
       \/ Expire(c)
       \/ Cancel(c)
       \/ Wake(c)
       \/ Close(c)
       \/ Complete(c)

HttpSpec == HttpInit /\ [][HttpNext]_httpVars

-----------------------------------------------------------------------------
\* No request is outstanding for longer than Config.REQUEST_TIMEOUT, the
\* documented timeout for operations of the daemon.  The shared client installs
\* no timeout, so that how long get() waits is the engine's default.
RequestTimeoutHonoured ==
  \A c \in Callers : InFlight(c) => age[c] <= RequestTimeout

=============================================================================
