------------------------------- MODULE MCHttp -------------------------------
(* Finite instances of Http.                                               *)
EXTENDS Http, Config

\* Milliseconds of a tick.
TickLength == 5000

\* Config.REQUEST_TIMEOUT, and the default request timeout of the CIO engine.
MCRequestTimeout == REQUEST_TIMEOUT \div TickLength
MCEngineTimeout == (15 * 1000) \div TickLength

=============================================================================
