---------------------------- MODULE Idempotency ----------------------------
(***************************************************************************)
(* The guard of @Idempotent routes, idempotency.interceptor.ts: a row per  *)
(* Idempotency-Key (of a user and a scope), locked while a handler runs,   *)
(* completed with its response, deleted when it fails.  Finding the row,   *)
(* deleting an expired one, creating it, and what follows the handler are  *)
(* database calls of their own; the client has its answer before the last. *)
(* What a handler does between is the guarded module's.                    *)
(***************************************************************************)
EXTENDS Naturals

CONSTANTS
  Requests,       \* requests in flight
  Keys,           \* keys the clients send, again and again
  Payloads,       \* bodies they send with them
  Nothing,        \* no key, no body
  Crashes         \* bound: processes that die

ASSUME IdempotencyAssumption ==
  /\ Nothing \notin Keys
  /\ Nothing \notin Payloads
  /\ Crashes \in Nat

VARIABLES
  rows,           \* idempotency_keys
  call,           \* how far each guarded request has come
  returned,       \* keys whose handler has returned with success, within the 24 hours of their row
  lapsed,         \* keys whose row has outlived its 24 hours
  crashes

guardVars == <<rows, call, returned, lapsed, crashes>>

Row == [state : {"none", "locked", "completed"}, expired : BOOLEAN]
NoRow == [state |-> "none", expired |-> FALSE]

Call == [at : {"idle", "delete", "create", "handler", "complete", "release"},
         key : Keys \cup {Nothing}, payload : Payloads \cup {Nothing}]
NoCall == [at |-> "idle", key |-> Nothing, payload |-> Nothing]

GuardInit ==
  /\ rows = [k \in Keys |-> NoRow]
  /\ call = [p \in Requests |-> NoCall]
  /\ returned = {}
  /\ lapsed = {}
  /\ crashes = 0

In(p, at) == call[p].at = at
KeyOf(p) == call[p].key
GoTo(p, at) == call' = [call EXCEPT ![p].at = at]
Leave(p) == call' = [call EXCEPT ![p] = NoCall]

\* acquire: a row that is locked, of another body, or completed (replayed) ends the request here.
Acquire(p, k, payload) ==
  /\ In(p, "idle")
  /\ rows[k].state = "none" \/ rows[k].expired
  /\ call' = [call EXCEPT ![p] = [key |-> k, payload |-> payload,
                                  at |-> IF rows[k].state = "none" THEN "create" ELSE "delete"]]
  /\ UNCHANGED <<rows, returned, lapsed, crashes>>

\* By the key alone, whatever the row has become; a row that is gone makes the delete fail.
DeleteExpired(p) ==
  /\ In(p, "delete")
  /\ rows' = [rows EXCEPT ![KeyOf(p)] = NoRow]
  /\ IF rows[KeyOf(p)].state = "none" THEN Leave(p) ELSE GoTo(p, "create")
  /\ UNCHANGED <<returned, lapsed, crashes>>

\* Fault: the row is written whether it is there or not.
CreateAnyway(p) ==
  /\ In(p, "create")
  /\ rows' = [rows EXCEPT ![KeyOf(p)] = [state |-> "locked", expired |-> FALSE]]
  /\ GoTo(p, "handler")
  /\ UNCHANGED <<returned, lapsed, crashes>>

\* The key is unique: the one who comes second is told that the first is being processed.
CreateKey(p) ==
  /\ In(p, "create")
  /\ IF rows[KeyOf(p)].state = "none"
       THEN /\ rows' = [rows EXCEPT ![KeyOf(p)] = [state |-> "locked", expired |-> FALSE]]
            /\ GoTo(p, "handler")
       ELSE Leave(p) /\ UNCHANGED rows
  /\ UNCHANGED <<returned, lapsed, crashes>>

\* The handler returns ...
Succeed(p) ==
  /\ In(p, "handler")
  /\ GoTo(p, "complete")
  /\ returned' = returned \cup ({KeyOf(p)} \ lapsed)
  /\ UNCHANGED <<rows, lapsed, crashes>>

\* ... or throws.
Fail(p) ==
  /\ In(p, "handler")
  /\ GoTo(p, "release")
  /\ UNCHANGED <<rows, returned, lapsed, crashes>>

Complete(p) ==
  /\ In(p, "complete")
  /\ rows' = IF rows[KeyOf(p)].state = "none" THEN rows ELSE [rows EXCEPT ![KeyOf(p)].state = "completed"]
  /\ Leave(p)
  /\ UNCHANGED <<returned, lapsed, crashes>>

\* Fault: an error leaves the row to its 24 hours.
ReleaseNothing(p) ==
  /\ In(p, "release")
  /\ Leave(p)
  /\ UNCHANGED <<rows, returned, lapsed, crashes>>

Release(p) ==
  /\ In(p, "release")
  /\ rows' = IF rows[KeyOf(p)].state = "locked" THEN [rows EXCEPT ![KeyOf(p)] = NoRow] ELSE rows
  /\ Leave(p)
  /\ UNCHANGED <<returned, lapsed, crashes>>

\* 24 hours pass, longer than any handler takes.
Expire(k) ==
  /\ rows[k].state # "none" /\ ~rows[k].expired
  /\ \A p \in Requests : KeyOf(p) = k => call[p].at \in {"delete", "create"}
  /\ rows' = [rows EXCEPT ![k].expired = TRUE]
  /\ lapsed' = lapsed \cup {k}
  /\ returned' = returned \ {k}
  /\ UNCHANGED <<call, crashes>>

Crash(p) ==
  /\ ~In(p, "idle") /\ crashes < Crashes
  /\ crashes' = crashes + 1
  /\ Leave(p)
  /\ UNCHANGED <<rows, returned, lapsed>>

GuardStep(p) == DeleteExpired(p) \/ CreateKey(p) \/ Complete(p) \/ Release(p)

GuardNext ==
  \/ \E p \in Requests :
       \/ \E k \in Keys, payload \in Payloads : Acquire(p, k, payload)
       \/ GuardStep(p) \/ Succeed(p) \/ Fail(p) \/ Crash(p)
  \/ \E k \in Keys : Expire(k)

GuardSpec == GuardInit /\ [][GuardNext]_guardVars

-----------------------------------------------------------------------------
(* Properties *)

GuardTypeOK ==
  /\ rows \in [Keys -> Row]
  /\ call \in [Requests -> Call]
  /\ returned \subseteq Keys
  /\ lapsed \subseteq Keys
  /\ crashes \in 0..Crashes

\* "While the first request is in flight a second one gets 409", and a completed one is
\* replayed (idempotency.interceptor.ts:28): of the requests that carry a key within its 24
\* hours one at most is in its handler, and none once a handler has returned, whatever
\* retries, failures and deaths of processes come between.
OncePerKey ==
  \A p \in Requests : In(p, "handler") /\ KeyOf(p) \notin lapsed =>
    /\ KeyOf(p) \notin returned
    /\ \A q \in Requests : In(q, "handler") /\ KeyOf(q) = KeyOf(p) => q = p

\* Without a crash no key stays locked: its request ends in a response or in an error, and
\* a client may retry.
KeyIsFreed ==
  \A k \in Keys : rows[k].state = "locked" ~> rows[k].state # "locked" \/ crashes > 0
=============================================================================
