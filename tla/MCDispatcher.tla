---------------------------- MODULE MCDispatcher ----------------------------
(* Small instances of Dispatcher.                                           *)
EXTENDS Dispatcher

CONSTANTS m1, m2, f1, syslog, hook
=============================================================================
