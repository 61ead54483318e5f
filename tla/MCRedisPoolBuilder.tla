------------------------- MODULE MCRedisPoolBuilder -------------------------
EXTENDS RedisPoolBuilder

\* Two nodes, none and one of them given by the client.
MCNodeLists == {<<"redis1">>, <<"redis1", "redis2">>}

\* CONNECT_TO: nothing between the separators, one node twice, blank parts.
MCPartLists == {<<"">>, <<"redis2", "", "redis2">>, <<" ", "redis1">>}

\* Beside the default: no delay, short ones with a jitter, down to the 0 and the
\* 1 ms that have none, and a cap above the limit of ten seconds.
MCBackoffs ==
  {NoBackoff, Constant(0, TRUE), Constant(1, TRUE), Constant(95, TRUE),
   IncrementalCapped(20000, FALSE)}
=============================================================================
