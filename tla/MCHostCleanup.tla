---------------------------- MODULE MCHostCleanup ----------------------------
(* run(), suspend() and stop() all cleaning up one host; stop() does not wait  *)
(* for the host task, and only run() is ever cancelled.                        *)
EXTENDS HostCleanup

MCCallers     == {"run", "suspend", "stop"}
MCEarly       == {"stop"}
MCCancellable == {"run"}
=============================================================================
