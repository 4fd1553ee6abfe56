----------------------------- MODULE Coroutines -----------------------------
(***************************************************************************)
(* Who takes part: the coroutines that call the suspending client methods, *)
(* the application coroutine that owns the Node they share, and the worker *)
(* threads of the dispatcher that runs them all.  The SDK creates neither  *)
(* coroutines nor threads; its `suspend' methods run in the caller's.      *)
(***************************************************************************)

CONSTANTS
  Threads,        \* the worker threads of the coroutine dispatcher
  Callers,        \* coroutines that call client methods
  Owner,          \* the application coroutine that reconfigures the node
  Parked          \* "on no thread": the place of a suspended coroutine

Everyone == Callers \cup {Owner}

ASSUME CoroutinesAssumption ==
  /\ Owner \notin Callers
  /\ Parked \notin Threads

\* A dispatcher that confines every coroutine to the same thread, such as the
\* event loop of runBlocking or of runTest.
OneThread == \A t, u \in Threads : t = u

=============================================================================
