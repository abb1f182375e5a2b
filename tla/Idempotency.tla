---------------------------- MODULE Idempotency ----------------------------
(***************************************************************************)
(* Duplicate suppression for the mutating routes of the local API          *)
(* (IdempotencyRegistry and IdempotencyMiddleware, idempotency.py).        *)
(*                                                                         *)
(* A request reserves its key in an encrypted registry file, runs its      *)
(* handler with no lock held, and then records the response or releases    *)
(* the reservation.  Every access to the file happens under one lock, so   *)
(* it is one step.  A reservation names no request: whoever comes with the *)
(* key and the hash of the reserved body settles it.                       *)
(*                                                                         *)
(* A key here is the whole binding (method, route, tenant, role, session,  *)
(* matter and key); a request is one HTTP call and is used once.  The      *)
(* audit chain is left out: nothing reads it.                              *)
(***************************************************************************)
EXTENDS Integers, FiniteSets

CONSTANTS
    Requests,   \* the HTTP calls, retries included
    Keys,       \* bindings
    Hashes,     \* hashes of request bodies
    NoRequest,
    PendingTTL, \* how long a reservation holds (5 minutes)
    CompleteTTL,\* how long a response can be replayed (20 minutes)
    MaxEntries, \* how many entries pruning keeps (160)
    MaxTime     \* bound: the clock

ASSUME IdempotencyConstants ==
    /\ NoRequest \notin Requests
    /\ PendingTTL \in Nat \ {0} /\ CompleteTTL \in Nat \ {0}
    /\ MaxEntries \in Nat \ {0}
    /\ MaxTime \in Nat

VARIABLES entries, \* the registry: an entry for every key, or Free
          calls,   \* the requests
          now      \* the wall clock

registryVars == <<entries, calls, now>>

Free == [status |-> "free"]

Entry == [status : {"pending", "completed"}, hash : Hashes,
          by : Requests,                 \* who reserved it, or whose response it holds
          updated : 0..MaxTime, expires : Nat]

InFlight == {"handler", "complete", "release"}

\* "blocked": another request has the key; "displaced": complete did not find
\* the reservation; "unwritten": the registry could not be written after the
\* handler ran; "escaped": an error left the middleware behind the reservation;
\* "lost": the process died.
Answers == {"blocked", "unavailable", "replayed", "recorded", "not_cached",
            "displaced", "unwritten", "escaped", "lost"}

Unsent == [at |-> "unsent"]

Call == [at : InFlight \cup Answers, key : Keys, hash : Hashes,
         began : 0..MaxTime,
         touched : -1..MaxTime,          \* when it last wrote an entry
         from : Requests \cup {NoRequest}] \* whose response it was answered with

RegistryInit ==
    /\ entries = [k \in Keys |-> Free]
    /\ calls = [r \in Requests |-> Unsent]
    /\ now = 0

-----------------------------------------------------------------------------
(* Pruning: what has expired goes, and of the rest the MaxEntries that were *)
(* updated last stay.                                                       *)

Fresh == {k \in Keys : entries[k] # Free /\ entries[k].expires > now}

Keeps(T) ==
    /\ T \subseteq Fresh
    /\ IF Cardinality(Fresh) <= MaxEntries THEN T = Fresh
       ELSE /\ Cardinality(T) = MaxEntries
            /\ \A k \in T, l \in Fresh \ T : entries[k].updated >= entries[l].updated

Pruned(T) == [k \in Keys |-> IF k \in T THEN entries[k] ELSE Free]

-----------------------------------------------------------------------------
(* begin: one request arrives.  A refusal raises before the file is saved. *)

Arrives(r, k, h, at, touched, from) ==
    /\ calls[r] = Unsent
    /\ calls' = [calls EXCEPT ![r] = [at |-> at, key |-> k, hash |-> h, began |-> now,
                                      touched |-> touched, from |-> from]]
    /\ UNCHANGED now

\* The key was used for another body, or the same request is in progress.
Block(r, k, h) ==
    /\ \E T \in SUBSET Keys : Keeps(T) /\ k \in T
    /\ entries[k].hash # h \/ entries[k].status = "pending"
    /\ Arrives(r, k, h, "blocked", -1, NoRequest)
    /\ UNCHANGED entries

\* Deviation: the body of a replayed request is not compared.
ReplayAnyBody(r, k, h) ==
    \E T \in SUBSET Keys :
        /\ Keeps(T) /\ k \in T
        /\ entries[k].status = "completed"
        /\ entries' = Pruned(T)
        /\ Arrives(r, k, h, "replayed", -1, entries[k].by)

Replay(r, k, h) ==
    \E T \in SUBSET Keys :
        /\ Keeps(T) /\ k \in T
        /\ entries[k].status = "completed" /\ entries[k].hash = h
        /\ entries' = Pruned(T)
        /\ Arrives(r, k, h, "replayed", -1, entries[k].by)

\* Deviation: a reservation is not in the way of another.
ReserveOverPending(r, k, h) ==
    \E T \in SUBSET Keys :
        /\ Keeps(T) /\ (k \in T => entries[k].status = "pending")
        /\ entries' = [Pruned(T) EXCEPT
                          ![k] = [status |-> "pending", hash |-> h, by |-> r,
                                  updated |-> now, expires |-> now + PendingTTL]]
        /\ Arrives(r, k, h, "handler", now, NoRequest)

Reserve(r, k, h) ==
    \E T \in SUBSET Keys :
        /\ Keeps(T) /\ k \notin T
        /\ entries' = [Pruned(T) EXCEPT
                          ![k] = [status |-> "pending", hash |-> h, by |-> r,
                                  updated |-> now, expires |-> now + PendingTTL]]
        /\ Arrives(r, k, h, "handler", now, NoRequest)

\* The file cannot be read or written: the handler does not run.
Unavailable(r, k, h) ==
    Arrives(r, k, h, "unavailable", -1, NoRequest) /\ UNCHANGED entries

-----------------------------------------------------------------------------
(* The handler, and what the middleware does with its response. *)

Moves(r, from, to) ==
    calls[r].at = from /\ calls' = [calls EXCEPT ![r].at = to] /\ UNCHANGED now

\* A JSON response below 500 that is small enough is recorded; any other
\* response and an exception of the handler release the reservation.
Handle(r) ==
    /\ Moves(r, "handler", "complete") \/ Moves(r, "handler", "release")
    /\ UNCHANGED entries

\* Two ways out do not come to the registry again: the request is cancelled, which
\* is not an Exception, or the body of a JSON response fails while it is read.
Escape(r) == Moves(r, "handler", "escaped") /\ UNCHANGED entries

Completed(r) == [status |-> "completed", hash |-> calls[r].hash, by |-> r,
                 updated |-> now, expires |-> now + CompleteTTL]

\* Deviation: whatever the entry of the key is, it is overwritten.
CompletableAny(r, T) == calls[r].key \in T

\* complete finds a reservation of its key and body, its own or a later one.
Completable(r, T) ==
    /\ calls[r].key \in T
    /\ entries[calls[r].key].status = "pending"
    /\ entries[calls[r].key].hash = calls[r].hash

Complete(r) ==
    /\ calls[r].at = "complete"
    /\ \E T \in SUBSET Keys :
        /\ Keeps(T)
        /\ \/ /\ Completable(r, T)
              /\ entries' = [Pruned(T) EXCEPT ![calls[r].key] = Completed(r)]
              /\ calls' = [calls EXCEPT ![r].at = "recorded", ![r].touched = now,
                                        ![r].from = r]
           \/ /\ ~Completable(r, T)
              /\ calls' = [calls EXCEPT ![r].at = "displaced", ![r].from = r]
              /\ UNCHANGED entries
    /\ UNCHANGED now

\* Deviation: a response that is not recorded keeps the reservation.
ReleaseNothing(r) == Moves(r, "release", "not_cached") /\ UNCHANGED entries

\* release does not prune.
Release(r) ==
    /\ Moves(r, "release", "not_cached")
    /\ LET k == calls[r].key
       IN  IF /\ entries[k] # Free
              /\ entries[k].status = "pending" /\ entries[k].hash = calls[r].hash
           THEN entries' = [entries EXCEPT ![k] = Free]
           ELSE UNCHANGED entries

\* The file cannot be read or written any more; the reservation stays.
Unwritten(r) ==
    /\ Moves(r, "complete", "unwritten") \/ Moves(r, "release", "unwritten")
    /\ UNCHANGED entries

\* The status route prunes and saves.
Status ==
    /\ \E T \in SUBSET Keys : Keeps(T) /\ entries' = Pruned(T)
    /\ UNCHANGED <<calls, now>>

\* The process dies with the requests it was serving; the file stays.
Crash ==
    /\ calls' = [r \in Requests |-> IF calls[r].at \in InFlight
                                    THEN [calls[r] EXCEPT !.at = "lost"] ELSE calls[r]]
    /\ UNCHANGED <<entries, now>>

Tick == now < MaxTime /\ now' = now + 1 /\ UNCHANGED <<entries, calls>>

Begin(r, k, h) ==
    Block(r, k, h) \/ Replay(r, k, h) \/ Reserve(r, k, h) \/ Unavailable(r, k, h)

RegistryNext ==
    \/ \E r \in Requests, k \in Keys, h \in Hashes : Begin(r, k, h)
    \/ \E r \in Requests : Handle(r) \/ Escape(r) \/ Complete(r) \/ Release(r) \/ Unwritten(r)
    \/ Status
    \/ Crash
    \/ Tick

RegistrySpec == RegistryInit /\ [][RegistryNext]_registryVars

-----------------------------------------------------------------------------
(* Properties. *)

Sent(r) == calls[r] # Unsent
Running(r) == calls[r].at \in InFlight

\* The registry and the requests are ones the program can hold.
RegistryTypeOK ==
    /\ entries \in [Keys -> Entry \cup {Free}]
    /\ calls \in [Requests -> Call \cup {Unsent}]
    /\ now \in 0..MaxTime

\* "Only an identical retry may replay a completed action": a replayed response
\* is the response of another request with the same binding and the same body,
\* which ran its handler and recorded it less than CompleteTTL before.
ReplaysAreIdentical ==
    \A r \in Requests :
        Sent(r) /\ calls[r].at = "replayed" =>
            LET s == calls[r].from
            IN  /\ s # r /\ s \in Requests
                /\ Sent(s) /\ calls[s].at = "recorded"
                /\ calls[s].key = calls[r].key /\ calls[s].hash = calls[r].hash
                /\ calls[r].began < calls[s].touched + CompleteTTL

\* Two requests with one binding run their handlers side by side only when a
\* reservation of that binding was outlived by its request, or pushed out by
\* MaxEntries other bindings.  One outlived reservation is enough to let several
\* in: its request later settles the reservation of another.
OverlapIsEarned ==
    \A r, s \in Requests :
        /\ r # s /\ Sent(r) /\ Sent(s) /\ Running(r) /\ Running(s)
        /\ calls[r].key = calls[s].key /\ calls[r].began <= calls[s].began
        => \E c \in Requests :
               /\ Sent(c) /\ c # s /\ calls[c].key = calls[s].key
               /\ \/ calls[c].began + PendingTTL <= calls[s].began
                  \/ Cardinality({calls[d].key : d \in
                         {d \in Requests : /\ Sent(d) /\ calls[d].key # calls[s].key
                                           /\ calls[d].touched >= calls[c].began}})
                     >= MaxEntries

\* A reservation belongs to a request that is being served, was cancelled or
\* failed in the reading of its body, died with its process, could not write the
\* registry, or was displaced (the pruning that displaced it is not saved, so its
\* reservation stays in the file and locks retries out again when there is
\* space).  Who got an answer of the handler that was recorded or released left
\* none behind, and whoever left one locks retries out no longer than PendingTTL
\* from its own beginning: nothing renews a reservation.
NoStrandedReservation ==
    \A k \in Keys :
        entries[k] # Free /\ entries[k].status = "pending" =>
            LET r == entries[k].by
            IN  Sent(r) /\ calls[r].key = k
                /\ calls[r].at \in InFlight \cup {"lost", "unwritten", "displaced", "escaped"}
                /\ entries[k].expires = calls[r].began + PendingTTL

\* A recorded response is replayed until it expires: a slower request of the
\* same binding does not replace it, only pruning for space removes it.
RecordedIsStable ==
    [][\A k \in Fresh : entries[k].status = "completed" =>
           entries'[k] = entries[k] \/ Cardinality(Fresh) > MaxEntries]_registryVars
=============================================================================
