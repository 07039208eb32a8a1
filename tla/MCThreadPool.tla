---------------------------- MODULE MCThreadPool ----------------------------
(* Two threads, the owner that stops the pool and one client that waits.   *)
EXTENDS ThreadPool

CONSTANTS owner, user
MCClients == {owner, user}
MCWaiters == {user}
=============================================================================
