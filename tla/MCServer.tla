------------------------------ MODULE MCServer ------------------------------
(***************************************************************************)
(* Model-checking instance of Server.                                      *)
(***************************************************************************)
EXTENDS Server, TLC

CONSTANTS h1, h2, h3

Asked(a, b, c) == h1 :> a @@ h2 :> b @@ h3 :> c

Setting(kind, stalls, limit, ttl) ==
  [kind |-> kind, stalls |-> stalls, limit |-> limit, ttl |-> ttl]

\* Sessions that last, over HTTP and over WebSocket; sessions that expire; run
\* records that are evicted and polled; a limited client; and clients that stall
\* beside others that do not.
MCSettings ==
  {Setting(Asked("session", "openai", "socket"), {}, 0, 0),
   Setting(Asked("session", "openai", "socket"), {h3}, 0, 0),
   Setting(Asked("session", "run", "run"), {h2}, 0, 0),
   Setting(Asked("session", "session", "health"), {}, 0, 1),
   Setting(Asked("run", "run", "run"), {}, 0, 0),
   Setting(Asked("run", "session", "poll"), {h2}, 0, 0),
   Setting(Asked("run", "workspace", "bad"), {h2, h3}, 1, 0)}
=============================================================================
