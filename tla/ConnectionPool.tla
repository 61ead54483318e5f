--------------------------- MODULE ConnectionPool ---------------------------
(***************************************************************************)
(* What a pool of connections promises, without queues, messages or a      *)
(* consumer: a fixed number of slots, each owned by exactly one party.     *)
(* PoolInternal is shown to implement it.                                  *)
(***************************************************************************)

CONSTANTS Conns,      \* the slots; their number is desired_pool_size
          Requests,   \* the checkouts of the clients
          Pool,       \* owner of a connection nobody uses
          Factory,    \* owner of a slot whose connection is being created
          Void        \* owner of a slot that is gone for good

VARIABLES owner,      \* who owns the slot
          open        \* TRUE until the pool stops taking connections back

vars == <<owner, open>>

Owners == Requests \cup {Pool, Factory, Void}

TypeOK ==
  /\ owner \in [Conns -> Owners]
  /\ open \in BOOLEAN

\* A slot starts without a connection; without a runtime it never gets one.
Init ==
  \/ /\ owner = [c \in Conns |-> Factory]
     /\ open = TRUE
  \/ /\ owner = [c \in Conns |-> Void]
     /\ open = FALSE

Owns(r) == \E c \in Conns : owner[c] = r

\* The connection of an empty slot was created and now belongs to the pool.
Open(c) ==
  /\ open
  /\ owner[c] = Factory
  /\ owner' = [owner EXCEPT ![c] = Pool]
  /\ UNCHANGED open

\* A checkout gets a connection. No checkout ever gets two of them.
Grant(c, r) ==
  /\ open
  /\ owner[c] = Pool
  /\ ~Owns(r)
  /\ owner' = [owner EXCEPT ![c] = r]
  /\ UNCHANGED open

\* A checkout gives its connection back.
Release(c) ==
  /\ open
  /\ owner[c] \in Requests
  /\ owner' = [owner EXCEPT ![c] = Pool]
  /\ UNCHANGED open

\* A checkout broke its connection: the slot is to be filled again.
Break(c) ==
  /\ owner[c] \in Requests
  /\ owner' = [owner EXCEPT ![c] = Factory]
  /\ UNCHANGED open

\* The pool stops taking connections; those on their way to it are lost.
Close(S) ==
  /\ open
  /\ \A c \in S : owner[c] = Pool
  /\ owner' = [c \in Conns |-> IF c \in S THEN Void ELSE owner[c]]
  /\ open' = FALSE

\* After that nothing is granted any more and every slot ends up in the void.
Discard(S) ==
  /\ ~open
  /\ \A c \in S : owner[c] # Void
  /\ owner' = [c \in Conns |-> IF c \in S THEN Void ELSE owner[c]]
  /\ UNCHANGED open

Next ==
  \/ \E c \in Conns : Open(c) \/ Release(c) \/ Break(c)
  \/ \E c \in Conns, r \in Requests : Grant(c, r)
  \/ \E S \in SUBSET Conns : Close(S) \/ Discard(S)

Spec == Init /\ [][Next]_vars
=============================================================================
