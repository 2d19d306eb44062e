---------------------------- MODULE RelayDispatch ----------------------------
(***************************************************************************)
(* What the relay promises to the caller of POST /dispatch, without any of *)
(* the connections, buffers and goroutines that RelayHub describes.        *)
(*                                                                         *)
(* A request is run on the user's machine at most once, and it gets one    *)
(* answer.  "ok" is only ever said of a request that was run, and          *)
(* "offline" only of one that was not and never will be; after "timeout"   *)
(* and "disconnect" the caller knows nothing, and the request may still be *)
(* run later.                                                              *)
(***************************************************************************)
CONSTANTS Reqs          \* dispatch requests, by request_id

VARIABLES ran,          \* requests whose task a sidecar has started
          outcome       \* what the caller was told, "none" before the answer

vars == <<ran, outcome>>

Outcomes == {"ok", "offline", "timeout", "disconnect"}

Init == /\ ran = {}
        /\ outcome = [r \in Reqs |-> "none"]

Run(r) == /\ r \notin ran
          /\ outcome[r] # "offline"
          /\ ran' = ran \cup {r}
          /\ UNCHANGED outcome

Answer(r, o) == /\ outcome[r] = "none"
                /\ o = "ok"      => r \in ran
                /\ o = "offline" => r \notin ran
                /\ outcome' = [outcome EXCEPT ![r] = o]
                /\ UNCHANGED ran

Next == \E r \in Reqs : Run(r) \/ \E o \in Outcomes : Answer(r, o)

Spec == Init /\ [][Next]_vars
=============================================================================
