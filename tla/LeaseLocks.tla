----------------------------- MODULE LeaseLocks -----------------------------
(***************************************************************************)
(* What the file locks promise to the sessions that use them, without the  *)
(* rows, the queries and the runs that FileLocks describes.                *)
(*                                                                         *)
(* A file is leased to one session at a time and for a term that only runs *)
(* down.  A session may or may not know of its lease, and no other session *)
(* ever believes that it has one; it stops believing no later than the     *)
(* lease ends.  While somebody believes in it, a lease ends with its term  *)
(* and in no other way.  Nothing is promised any more of a file that a     *)
(* race has voided.                                                        *)
(***************************************************************************)
EXTENDS Integers

CONSTANTS Files, Sessions, NoSession,
          TTL           \* the longest term of a lease, in ticks

VARIABLES holder,       \* the session a file is leased to
          term,         \* what is left of the lease; -1 if there is none
          believers,    \* the sessions that take the file to be theirs
          void          \* files of which nothing is promised

vars == <<holder, term, believers, void>>

Init == /\ holder    = [f \in Files |-> NoSession]
        /\ term      = [f \in Files |-> -1]
        /\ believers = [f \in Files |-> {}]
        /\ void      = {}

Keeps(f) == holder'[f] = holder[f] /\ term'[f] = term[f]

\* The answer that tells the session of its new lease may be lost.
Grant(f, s) == /\ holder[f] = NoSession
               /\ holder'[f] = s
               /\ term'[f] \in 0..TTL
               /\ believers'[f] \in {{}, {s}}

Learn(f) == /\ holder[f] # NoSession
            /\ believers'[f] = {holder[f]}
            /\ Keeps(f)

\* The holder has finished, has failed or has crashed; the lease goes on.
Forget(f) == believers'[f] = {} /\ Keeps(f)

GiveBack(f) == /\ believers[f] = {} /\ believers'[f] = {}
               /\ holder'[f] = NoSession
               /\ term'[f] = -1

Rest(f) == Keeps(f) /\ believers'[f] = believers[f]

Expire(f) == /\ term[f] = 0 /\ term'[f] = -1
             /\ holder'[f] = NoSession
             /\ believers'[f] = {}

RunDown(f) == /\ term[f] > 0 /\ term'[f] = term[f] - 1
              /\ holder'[f] = holder[f]
              /\ believers'[f] = believers[f]

\* Time passes for all the files at once.
Tick == /\ void' = void
        /\ \A f \in Files \ void : Expire(f) \/ RunDown(f) \/ (term[f] < 0 /\ Rest(f))

\* One step may concern several files: a session that fails gives all its
\* leases back together, and one that ends forgets them together.
Move == /\ void \subseteq void'
        /\ \A f \in Files \ void' : \/ \E s \in Sessions : Grant(f, s)
                                    \/ Learn(f) \/ Forget(f) \/ GiveBack(f) \/ Rest(f)

Next == Tick \/ Move

Spec == Init /\ [][Next]_vars
=============================================================================
