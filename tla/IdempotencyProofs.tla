-------------------------- MODULE IdempotencyProofs --------------------------
(***************************************************************************)
(* Theorems about the idempotency registry, for any number of requests,    *)
(* bindings and bodies and any expiry and size limits.                     *)
(***************************************************************************)
EXTENDS Idempotency, FiniteSetTheorems, TLAPS

\* The bindings that have been used.
UsedKeys == {k \in Keys : \E r \in Requests : Sent(r) /\ calls[r].key = k}

\* What an entry says of the request that wrote it last.
Accounted(k) ==
    LET r == entries[k].by
    IN  /\ r \in Requests /\ Sent(r) /\ calls[r].key = k /\ calls[r].hash = entries[k].hash
        /\ calls[r].touched = entries[k].updated
        /\ \/ /\ entries[k].status = "pending"
              /\ calls[r].at \in InFlight \cup {"lost", "unwritten", "displaced", "escaped"}
              /\ entries[k].updated = calls[r].began
              /\ entries[k].expires = calls[r].began + PendingTTL
           \/ /\ entries[k].status = "completed"
              /\ calls[r].at = "recorded"
              /\ entries[k].expires = calls[r].touched + CompleteTTL

EntriesInv == \A k \in Keys : entries[k] # Free => Accounted(k)

CallsInv ==
    /\ \A r \in Requests : Sent(r) => calls[r].began <= now /\ calls[r].touched <= now
    /\ IsFiniteSet(UsedKeys)

RegistryInv == RegistryTypeOK /\ EntriesInv /\ CallsInv /\ ReplaysAreIdentical

-----------------------------------------------------------------------------
(* What a step does to the requests. *)

Ends == {"recorded", "not_cached", "displaced", "unwritten", "escaped", "lost"}

\* A request that was sent stays what it is; one that was answered does not
\* change any more; only recording touches an entry again.
Remains(r) ==
    Sent(r) =>
        /\ Sent(r)' /\ calls'[r].key = calls[r].key /\ calls'[r].hash = calls[r].hash
        /\ calls'[r].began = calls[r].began /\ calls[r].touched <= calls'[r].touched
        /\ ~Running(r) => calls'[r] = calls[r]
        /\ Running(r) => calls'[r].at \in InFlight \cup Ends
        /\ \/ calls'[r].touched = calls[r].touched
           \/ Running(r) /\ calls'[r].at = "recorded" /\ calls'[r].touched = now

LEMMA CallsRemain ==
    ASSUME RegistryTypeOK, CallsInv, [RegistryNext]_registryVars
    PROVE  \A r \in Requests : Remains(r)
<1> USE IdempotencyConstants DEF RegistryTypeOK, Remains, Sent, Running
<1>0. \A r \in Requests : calls[r] # Unsent => calls[r] \in Call
  OBVIOUS
<1>a. ASSUME NEW r \in Requests, calls'[r] = calls[r] PROVE Remains(r)
  BY <1>0, <1>a DEF Call, InFlight
<1>1. ASSUME NEW x \in Requests, NEW k \in Keys, NEW h \in Hashes, NEW at, NEW touched, NEW from,
             Arrives(x, k, h, at, touched, from)
      PROVE  \A r \in Requests : Remains(r)
  <2>1. calls[x] = Unsent /\ \A r \in Requests : r # x => calls'[r] = calls[r]
    BY <1>1 DEF Arrives
  <2> QED
    BY <1>a, <2>1
<1>2. ASSUME NEW x \in Requests, NEW from \in InFlight,
             NEW to \in InFlight \cup (Ends \ {"recorded"}), Moves(x, from, to)
      PROVE  \A r \in Requests : Remains(r)
  <2>1. calls[x] \in Call /\ calls[x].at = from
    BY <1>2 DEF Moves, Unsent, InFlight
  <2>2. \A r \in Requests : r # x => calls'[r] = calls[r]
    BY <1>2 DEF Moves
  <2>3. /\ calls'[x] # Unsent /\ calls'[x].key = calls[x].key /\ calls'[x].hash = calls[x].hash
        /\ calls'[x].began = calls[x].began /\ calls'[x].touched = calls[x].touched
        /\ calls'[x].at = to
    BY <1>2, <2>1 DEF Moves, Call, Unsent, InFlight, Ends
  <2>4. calls[x].touched <= calls'[x].touched /\ calls[x].at \in InFlight
    BY <2>1, <2>3 DEF Call
  <2>5. Remains(x)
    BY <2>1, <2>3, <2>4
  <2> QED
    BY <1>a, <2>2, <2>5
<1>3. ASSUME UNCHANGED calls PROVE \A r \in Requests : Remains(r)
  BY <1>a, <1>3
<1>4. ASSUME NEW x \in Requests, NEW k \in Keys, NEW h \in Hashes, Begin(x, k, h)
      PROVE  \A r \in Requests : Remains(r)
  BY <1>1, <1>4 DEF Begin, Block, Replay, Reserve, Unavailable
<1>5. ASSUME NEW x \in Requests, Handle(x) \/ Escape(x) \/ Release(x) \/ Unwritten(x)
      PROVE  \A r \in Requests : Remains(r)
  BY <1>2, <1>5 DEF Handle, Escape, Release, Unwritten, InFlight, Ends
<1>6. ASSUME NEW x \in Requests, Complete(x) PROVE \A r \in Requests : Remains(r)
  <2>1. calls[x] \in Call /\ calls[x].at = "complete"
    BY <1>6 DEF Complete, Unsent
  <2>2. \A r \in Requests : r # x => calls'[r] = calls[r]
    BY <1>6 DEF Complete
  <2>3. /\ calls'[x] # Unsent /\ calls'[x].key = calls[x].key /\ calls'[x].hash = calls[x].hash
        /\ calls'[x].began = calls[x].began
        /\ \/ calls'[x].at = "recorded" /\ calls'[x].touched = now
           \/ calls'[x].at = "displaced" /\ calls'[x].touched = calls[x].touched
    BY <1>6, <2>1 DEF Complete, Call, Unsent
  <2>4. calls[x].touched \in Int /\ calls[x].touched <= now /\ calls[x].at \in InFlight
    BY <2>1 DEF Call, CallsInv, InFlight, Unsent
  <2>5. calls[x].touched <= calls'[x].touched
    BY <2>3, <2>4
  <2>6. Remains(x)
    BY <2>1, <2>3, <2>4, <2>5 DEF InFlight, Ends
  <2> QED
    BY <1>a, <2>2, <2>6
<1>7. CASE Status \/ Tick \/ UNCHANGED registryVars
  BY <1>3, <1>7 DEF Status, Tick, registryVars
<1>8. CASE Crash
  <2> SUFFICES ASSUME NEW r \in Requests, calls[r].at \in InFlight PROVE Remains(r)
    BY <1>a, <1>8 DEF Crash
  <2>1. calls[r] \in Call /\ calls'[r] = [calls[r] EXCEPT !.at = "lost"]
    BY <1>8 DEF Crash, Unsent, InFlight
  <2> QED
    BY <2>1 DEF Call, Unsent, InFlight, Ends
<1> QED
  BY <1>4, <1>5, <1>6, <1>7, <1>8 DEF RegistryNext

\* A request that is being served after a step was before, or has just reserved.
LEMMA Arrivals ==
    ASSUME RegistryTypeOK, CallsInv, [RegistryNext]_registryVars, NEW r \in Requests,
           calls[r] = Unsent, calls'[r] # Unsent
    PROVE  \E k \in Keys, h \in Hashes : Begin(r, k, h)
<1> USE DEF Unsent
<1>1. ASSUME NEW x \in Requests, Handle(x) \/ Escape(x) \/ Complete(x) \/ Release(x) \/ Unwritten(x) PROVE FALSE
  BY <1>1 DEF Handle, Escape, Complete, Release, Unwritten, Moves, RegistryTypeOK
<1>2. CASE Crash
  BY <1>2 DEF Crash, InFlight
<1>3. CASE Status \/ Tick \/ UNCHANGED registryVars
  BY <1>3 DEF Status, Tick, registryVars
<1>4. ASSUME NEW x \in Requests, NEW k \in Keys, NEW h \in Hashes, Begin(x, k, h)
      PROVE  \E l \in Keys, g \in Hashes : Begin(r, l, g)
  <2>1. x # r => calls'[r] = calls[r]
    BY <1>4 DEF RegistryTypeOK, Begin, Block, Replay, Reserve, Unavailable, Arrives
  <2> QED
    BY <1>4, <2>1
<1> QED
  BY <1>1, <1>2, <1>3, <1>4 DEF RegistryNext

-----------------------------------------------------------------------------
(* Types. *)

LEMMA PrunedType ==
    ASSUME RegistryTypeOK, NEW T PROVE Pruned(T) \in [Keys -> Entry \cup {Free}]
BY DEF Pruned, RegistryTypeOK

LEMMA CallSettles ==
    ASSUME NEW c \in Call, NEW at \in Answers, NEW t \in -1..MaxTime, NEW r \in Requests
    PROVE  /\ [c EXCEPT !.at = at, !.touched = t, !.from = r] \in Call
           /\ [c EXCEPT !.at = at, !.from = r] \in Call
BY DEF Call

LEMMA TypesKept ==
    RegistryInv /\ [RegistryNext]_registryVars => RegistryTypeOK'
<1> SUFFICES ASSUME RegistryTypeOK, EntriesInv, [RegistryNext]_registryVars PROVE RegistryTypeOK'
  BY DEF RegistryInv
<1> USE IdempotencyConstants, PrunedType DEF RegistryTypeOK
<1>0. \A r \in Requests : calls[r] # Unsent => calls[r] \in Call
  OBVIOUS
<1>a. /\ -1 \in -1..MaxTime /\ now \in -1..MaxTime
      /\ {"handler", "blocked", "unavailable", "replayed"} \subseteq InFlight \cup Answers
  BY DEF InFlight, Answers
<1>1. ASSUME NEW x \in Requests, NEW k \in Keys, NEW h \in Hashes,
             NEW at \in InFlight \cup Answers, NEW touched \in -1..MaxTime,
             NEW from \in Requests \cup {NoRequest}, Arrives(x, k, h, at, touched, from)
      PROVE  calls' \in [Requests -> Call \cup {Unsent}] /\ now' \in 0..MaxTime
  BY <1>1 DEF Arrives, Call
<1>2. ASSUME NEW x \in Requests, NEW from \in InFlight, NEW to \in InFlight \cup Answers,
             Moves(x, from, to)
      PROVE  calls' \in [Requests -> Call \cup {Unsent}] /\ now' \in 0..MaxTime
  <2>1. calls[x] \in Call
    BY <1>0, <1>2 DEF Moves, Unsent, InFlight
  <2>2. [calls[x] EXCEPT !.at = to] \in Call
    BY <2>1 DEF Call
  <2> QED
    BY <1>2, <2>2 DEF Moves
<1>3. ASSUME NEW r \in Requests, NEW k \in Keys, NEW h \in Hashes, Begin(r, k, h)
      PROVE  RegistryTypeOK'
  <2>1. CASE Block(r, k, h)
    <3>1. Arrives(r, k, h, "blocked", -1, NoRequest) /\ entries' = entries
      BY <2>1 DEF Block
    <3> QED
      BY <1>1, <1>a, <3>1
  <2>2. CASE Unavailable(r, k, h)
    <3>1. Arrives(r, k, h, "unavailable", -1, NoRequest) /\ entries' = entries
      BY <2>2 DEF Unavailable
    <3> QED
      BY <1>1, <1>a, <3>1
  <2>3. CASE Replay(r, k, h)
    <3>1. PICK T \in SUBSET Keys :
            /\ Keeps(T) /\ k \in T
            /\ entries' = Pruned(T)
            /\ Arrives(r, k, h, "replayed", -1, entries[k].by)
      BY <2>3 DEF Replay
    <3>2. entries[k].by \in Requests
      BY <3>1 DEF Keeps, Fresh, Entry
    <3>3. calls' \in [Requests -> Call \cup {Unsent}] /\ now' \in 0..MaxTime
      BY <1>1, <1>a, <3>1, <3>2
    <3> QED
      BY <3>1, <3>3
  <2>4. CASE Reserve(r, k, h)
    <3>1. PICK T \in SUBSET Keys :
            /\ entries' = [Pruned(T) EXCEPT
                              ![k] = [status |-> "pending", hash |-> h, by |-> r,
                                      updated |-> now, expires |-> now + PendingTTL]]
            /\ Arrives(r, k, h, "handler", now, NoRequest)
      BY <2>4 DEF Reserve
    <3>2. entries' \in [Keys -> Entry \cup {Free}]
      BY <3>1 DEF Entry
    <3>3. calls' \in [Requests -> Call \cup {Unsent}] /\ now' \in 0..MaxTime
      BY <1>1, <1>a, <3>1
    <3> QED
      BY <3>2, <3>3
  <2> QED
    BY <1>3, <2>1, <2>2, <2>3, <2>4 DEF Begin
<1>4. ASSUME NEW r \in Requests, Handle(r) \/ Escape(r) \/ Unwritten(r) PROVE RegistryTypeOK'
  BY <1>2, <1>4 DEF Handle, Escape, Unwritten, InFlight, Answers
<1>5. ASSUME NEW r \in Requests, Release(r) PROVE RegistryTypeOK'
  BY <1>2, <1>5 DEF Release, InFlight, Answers
<1>6. ASSUME NEW r \in Requests, Complete(r) PROVE RegistryTypeOK'
  <2>1. calls[r] \in Call
    BY <1>0, <1>6 DEF Complete, Unsent
  <2>2. /\ [calls[r] EXCEPT !.at = "recorded", !.touched = now, !.from = r] \in Call
        /\ [calls[r] EXCEPT !.at = "displaced", !.from = r] \in Call
    BY <1>a, <2>1, CallSettles DEF Answers
  <2>3. Completed(r) \in Entry
    BY <2>1 DEF Completed, Entry, Call
  <2>4. calls' \in [Requests -> Call \cup {Unsent}] /\ now' = now
    <3>1. \/ calls' = [calls EXCEPT ![r] = [calls[r] EXCEPT !.at = "recorded", !.touched = now,
                                                          !.from = r]]
          \/ calls' = [calls EXCEPT ![r] = [calls[r] EXCEPT !.at = "displaced", !.from = r]]
      BY <1>6 DEF Complete
    <3> QED
      BY <1>6, <2>2, <3>1 DEF Complete
  <2>5. entries' \in [Keys -> Entry \cup {Free}]
    <3>1. PICK T \in SUBSET Keys :
            \/ entries' = [Pruned(T) EXCEPT ![calls[r].key] = Completed(r)]
            \/ entries' = entries
      BY <1>6 DEF Complete
    <3> QED
      BY <2>3, <3>1
  <2> QED
    BY <2>4, <2>5
<1>7. CASE Status
  BY <1>7 DEF Status
<1>8. CASE Crash
  <2>1. \A r \in Requests : calls'[r] \in Call \cup {Unsent}
    BY <1>8 DEF Crash, Call, Unsent, InFlight, Answers
  <2> QED
    BY <1>8, <2>1 DEF Crash
<1>9. CASE Tick \/ UNCHANGED registryVars
  BY <1>9 DEF Tick, registryVars
<1> QED
  BY <1>3, <1>4, <1>5, <1>6, <1>7, <1>8, <1>9 DEF RegistryNext

-----------------------------------------------------------------------------
(* The entries. *)

\* An entry that is not touched stays accounted for, unless its request was
\* answered in this step as one that settles its reservation.
LEMMA UntouchedEntry ==
    ASSUME RegistryTypeOK, EntriesInv, \A r \in Requests : Remains(r), NEW k \in Keys,
           entries[k] # Free, entries'[k] = entries[k],
           Running(entries[k].by) => calls'[entries[k].by].at \notin {"recorded", "not_cached"}
    PROVE  Accounted(k)'
<1>1. PICK r \in Requests : r = entries[k].by /\ r = entries'[k].by /\ Sent(r) /\ Remains(r)
  BY DEF EntriesInv, Accounted
<1>2. CASE ~Running(r)
  BY <1>1, <1>2 DEF EntriesInv, Accounted, Remains
<1>3. CASE Running(r)
  <2>1. calls'[r].at \in InFlight \cup {"displaced", "unwritten", "escaped", "lost"}
    BY <1>1, <1>3 DEF Remains, Ends
  <2>2. calls'[r].touched = calls[r].touched
    BY <1>1, <2>1 DEF Remains, InFlight
  <2>3. entries[k].status = "pending"
    BY <1>1, <1>3 DEF EntriesInv, Accounted, Running, InFlight
  <2> QED
    BY <1>1, <2>1, <2>2, <2>3 DEF EntriesInv, Accounted, Remains
<1> QED
  BY <1>2, <1>3

LEMMA EntriesKept ==
    RegistryInv /\ [RegistryNext]_registryVars => EntriesInv'
<1> SUFFICES ASSUME RegistryTypeOK, EntriesInv, CallsInv, [RegistryNext]_registryVars,
                    NEW k \in Keys, entries'[k] # Free
             PROVE  Accounted(k)'
  BY DEF RegistryInv, EntriesInv
<1>0. \A r \in Requests : Remains(r)
  BY CallsRemain
<1>a. entries[k] # Free =>
        /\ entries[k].by \in Requests /\ Sent(entries[k].by)
        /\ Running(entries[k].by) => entries[k].status = "pending"
  BY DEF EntriesInv, Accounted, Running, InFlight
<1>b. ASSUME entries'[k] = entries[k],
             Running(entries[k].by) => calls'[entries[k].by].at \notin {"recorded", "not_cached"}
      PROVE  Accounted(k)'
  BY <1>0, <1>b, UntouchedEntry
<1>1. ASSUME NEW x \in Requests, NEW l \in Keys, NEW h \in Hashes, Begin(x, l, h)
      PROVE  Accounted(k)'
  <2>1. /\ calls[x] = Unsent /\ \A r \in Requests : r # x => calls'[r] = calls[r]
    BY <1>1 DEF RegistryTypeOK, Begin, Block, Replay, Reserve, Unavailable, Arrives
  <2>2. ASSUME entries'[k] = entries[k] PROVE Accounted(k)'
    BY <1>a, <1>b, <2>1, <2>2 DEF Sent, Running, InFlight
  <2>3. CASE Block(x, l, h) \/ Unavailable(x, l, h) \/ Replay(x, l, h)
    BY <2>2, <2>3 DEF Block, Unavailable, Replay, Pruned
  <2>4. CASE Reserve(x, l, h)
    <3>1. k # l => entries'[k] = entries[k]
      BY <2>4 DEF Reserve, Pruned
    <3>2. CASE k = l
      <4>1. entries'[k] = [status |-> "pending", hash |-> h, by |-> x, updated |-> now,
                           expires |-> now + PendingTTL]
        BY <2>4, <3>2 DEF Reserve, Pruned
      <4>2. calls'[x] = [at |-> "handler", key |-> k, hash |-> h, began |-> now,
                         touched |-> now, from |-> NoRequest]
        BY <2>4, <3>2 DEF Reserve, Arrives, RegistryTypeOK
      <4> QED
        BY <4>1, <4>2 DEF Accounted, Sent, Unsent, InFlight
    <3> QED
      BY <2>2, <3>1, <3>2
  <2> QED
    BY <1>1, <2>3, <2>4 DEF Begin
<1>2. ASSUME NEW x \in Requests, Handle(x) \/ Escape(x) \/ Unwritten(x) PROVE Accounted(k)'
  <2>1. /\ \A r \in Requests : r # x => calls'[r] = calls[r]
        /\ calls'[x].at \in {"complete", "release", "unwritten", "escaped"} /\ entries' = entries
    BY <1>2 DEF RegistryTypeOK, Handle, Escape, Unwritten, Moves, Call, Unsent
  <2> QED
    BY <1>a, <1>b, <2>1 DEF Running, InFlight
<1>3. ASSUME NEW x \in Requests, Release(x) PROVE Accounted(k)'
  <2>1. /\ \A r \in Requests : r # x => calls'[r] = calls[r]
        /\ entries'[k] = entries[k] /\ calls[x].at = "release" /\ Running(x)
    BY <1>3 DEF RegistryTypeOK, Release, Moves, Running, InFlight
  <2>2. entries[k].by # x
    BY <1>3, <1>a, <2>1 DEF Release, EntriesInv, Accounted, RegistryTypeOK
  <2> QED
    BY <1>a, <1>b, <2>1, <2>2 DEF Running, InFlight
<1>4. ASSUME NEW x \in Requests, Complete(x) PROVE Accounted(k)'
  <2>0. PICK T \in SUBSET Keys :
          \/ /\ Completable(x, T)
             /\ entries' = [Pruned(T) EXCEPT ![calls[x].key] = Completed(x)]
             /\ calls' = [calls EXCEPT ![x].at = "recorded", ![x].touched = now, ![x].from = x]
          \/ /\ calls' = [calls EXCEPT ![x].at = "displaced", ![x].from = x]
             /\ UNCHANGED entries
    BY <1>4 DEF Complete
  <2>1. calls[x] \in Call /\ calls[x].at = "complete" /\ Running(x)
    BY <1>4 DEF RegistryTypeOK, Complete, Unsent, Running, InFlight
  <2>2. \A r \in Requests : r # x => calls'[r] = calls[r]
    BY <2>0 DEF RegistryTypeOK
  <2>3. CASE UNCHANGED entries /\ calls' = [calls EXCEPT ![x].at = "displaced", ![x].from = x]
    <3>1. calls'[x].at = "displaced"
      BY <2>1, <2>3 DEF RegistryTypeOK, Call
    <3> QED
      BY <1>a, <1>b, <2>2, <2>3, <3>1 DEF Running, InFlight
  <2>4. CASE /\ entries' = [Pruned(T) EXCEPT ![calls[x].key] = Completed(x)]
             /\ calls' = [calls EXCEPT ![x].at = "recorded", ![x].touched = now, ![x].from = x]
    <3>1. CASE k = calls[x].key
      <4>1. entries'[k] = Completed(x)
        BY <2>4, <3>1 DEF Pruned
      <4>2. /\ calls'[x].at = "recorded" /\ calls'[x].key = k /\ calls'[x].hash = calls[x].hash
            /\ calls'[x].touched = now /\ calls'[x] # Unsent
        BY <2>1, <2>4, <3>1 DEF RegistryTypeOK, Call, Unsent
      <4> QED
        BY <4>1, <4>2 DEF Accounted, Completed, Sent
    <3>2. CASE k # calls[x].key
      <4>1. entries'[k] = entries[k] /\ entries[k].by # x
        BY <1>a, <2>4, <3>2 DEF Pruned, EntriesInv, Accounted
      <4> QED
        BY <1>a, <1>b, <2>2, <4>1 DEF Running, InFlight
    <3> QED
      BY <3>1, <3>2
  <2> QED
    BY <2>0, <2>3, <2>4
<1>5. CASE Status
  BY <1>b, <1>a, <1>5 DEF Status, Pruned, Running, InFlight
<1>6. CASE Crash
  BY <1>b, <1>a, <1>6 DEF Crash, Running, InFlight, RegistryTypeOK
<1>7. CASE Tick \/ UNCHANGED registryVars
  BY <1>b, <1>a, <1>7 DEF Tick, registryVars, Running, InFlight
<1> QED
  BY <1>1, <1>2, <1>3, <1>4, <1>5, <1>6, <1>7 DEF RegistryNext

-----------------------------------------------------------------------------
(* The requests. *)

\* No request and no crash moves the clock.
LEMMA OnlyTicks == [RegistryNext]_registryVars /\ ~Tick => now' = now
<1> SUFFICES ASSUME RegistryNext, ~Tick PROVE now' = now
  BY DEF registryVars
<1>1. ASSUME NEW r \in Requests, NEW k \in Keys, NEW h \in Hashes, Begin(r, k, h)
      PROVE  now' = now
  BY <1>1 DEF Begin, Block, Replay, Reserve, Unavailable, Arrives
<1>2. ASSUME NEW r \in Requests, Handle(r) \/ Escape(r) \/ Complete(r) \/ Release(r) \/ Unwritten(r)
      PROVE  now' = now
  BY <1>2 DEF Handle, Escape, Complete, Release, Unwritten, Moves
<1>3. CASE Status \/ Crash
  BY <1>3 DEF Status, Crash
<1> QED
  BY <1>1, <1>2, <1>3 DEF RegistryNext

LEMMA CallsKept ==
    RegistryInv /\ [RegistryNext]_registryVars => CallsInv'
<1> SUFFICES ASSUME RegistryTypeOK, RegistryTypeOK', CallsInv, [RegistryNext]_registryVars
             PROVE  CallsInv'
  BY TypesKept DEF RegistryInv
<1>0. \A r \in Requests : Remains(r)
  BY CallsRemain
<1>1. now' >= now
  <2>1. CASE Tick
    BY <2>1, IdempotencyConstants DEF Tick, RegistryTypeOK
  <2>2. CASE ~Tick
    BY <2>2, OnlyTicks, IdempotencyConstants DEF RegistryTypeOK
  <2> QED
    BY <2>1, <2>2
<1>2. ASSUME NEW r \in Requests, Sent(r)' PROVE calls'[r].began <= now' /\ calls'[r].touched <= now'
  <2>1. CASE calls[r] = Unsent
    <3>1. PICK k \in Keys, h \in Hashes : Begin(r, k, h)
      BY <1>2, <2>1, Arrivals DEF Sent
    <3>2. calls'[r].began = now /\ calls'[r].touched \in {-1, now} /\ now' = now
      BY <3>1 DEF RegistryTypeOK, Begin, Block, Replay, Reserve, Unavailable, Arrives
    <3> QED
      BY <3>2, IdempotencyConstants DEF RegistryTypeOK
  <2>2. CASE calls[r] # Unsent
    <3>1. calls[r] \in Call /\ calls'[r].began = calls[r].began /\ calls[r].began <= now
      BY <1>0, <2>2 DEF RegistryTypeOK, Remains, Sent, CallsInv
    <3>2. calls'[r].touched \in {calls[r].touched, now}
      BY <1>0, <2>2 DEF Remains, Sent
    <3>3. calls[r].touched <= now /\ calls[r].touched \in Int /\ calls[r].began \in Nat
      BY <2>2, <3>1, IdempotencyConstants DEF CallsInv, Sent, Call
    <3> QED
      BY <1>1, <3>1, <3>2, <3>3, IdempotencyConstants DEF RegistryTypeOK
  <2> QED
    BY <2>1, <2>2
<1>3. IsFiniteSet(UsedKeys')
  <2>1. CASE \E r \in Requests, k \in Keys, h \in Hashes : Begin(r, k, h)
    <3>1. PICK x \in Requests, k \in Keys, h \in Hashes : Begin(x, k, h)
      BY <2>1
    <3>2. /\ calls[x] = Unsent /\ calls'[x].key = k
          /\ \A r \in Requests : r # x => calls'[r] = calls[r]
      BY <3>1 DEF RegistryTypeOK, Begin, Block, Replay, Reserve, Unavailable, Arrives
    <3>3. UsedKeys' \subseteq UsedKeys \cup {k}
      BY <3>2 DEF UsedKeys, Sent
    <3> QED
      BY <3>3, FS_AddElement, FS_Subset DEF CallsInv
  <2>2. CASE ~\E r \in Requests, k \in Keys, h \in Hashes : Begin(r, k, h)
    <3>1. \A r \in Requests : Sent(r)' => Sent(r)
      BY <2>2, Arrivals DEF Sent
    <3>2. UsedKeys' \subseteq UsedKeys
      BY <1>0, <3>1 DEF UsedKeys, Remains
    <3> QED
      BY <3>2, FS_Subset DEF CallsInv
  <2> QED
    BY <2>1, <2>2
<1> QED
  BY <1>2, <1>3 DEF CallsInv

LEMMA ReplaysKept ==
    RegistryInv /\ [RegistryNext]_registryVars => ReplaysAreIdentical'
<1> SUFFICES ASSUME RegistryInv, [RegistryNext]_registryVars, NEW r \in Requests, Sent(r)',
                    calls'[r].at = "replayed"
             PROVE  \E s \in Requests :
                       /\ s = calls'[r].from /\ s # r /\ Sent(s)' /\ calls'[s].at = "recorded"
                       /\ calls'[s].key = calls'[r].key /\ calls'[s].hash = calls'[r].hash
                       /\ calls'[r].began < calls'[s].touched + CompleteTTL
  BY DEF ReplaysAreIdentical
<1>0. \A x \in Requests : Remains(x)
  BY CallsRemain DEF RegistryInv
<1>1. \A s \in Requests : Sent(s) /\ calls[s].at = "recorded" => Sent(s)' /\ calls'[s] = calls[s]
  BY <1>0 DEF Remains, Running, InFlight
<1>2. CASE calls[r] # Unsent
  <2>1. calls'[r] = calls[r]
    BY <1>0, <1>2 DEF Remains, Sent, InFlight, Ends
  <2> QED
    BY <1>1, <1>2, <2>1 DEF RegistryInv, ReplaysAreIdentical, Sent
<1>3. CASE calls[r] = Unsent
  <2>1. PICK k \in Keys, h \in Hashes : Begin(r, k, h)
    BY <1>3, Arrivals DEF RegistryInv, Sent
  <2>2. Replay(r, k, h)
    BY <2>1 DEF RegistryInv, RegistryTypeOK, Begin, Block, Reserve, Unavailable, Arrives
  <2>3. /\ entries[k].status = "completed" /\ entries[k].hash = h /\ k \in Fresh
        /\ calls' = [calls EXCEPT ![r] = [at |-> "replayed", key |-> k, hash |-> h, began |-> now,
                                          touched |-> -1, from |-> entries[k].by]]
    BY <2>2 DEF Replay, Keeps, Arrives
  <2>4. PICK s \in Requests : s = entries[k].by /\ Sent(s) /\ calls[s].key = k /\ calls[s].hash = h
                              /\ calls[s].at = "recorded"
                              /\ now < calls[s].touched + CompleteTTL
    <3>1. Accounted(k) /\ entries[k].expires > now /\ entries[k].expires \in Nat
      BY <2>3 DEF RegistryInv, RegistryTypeOK, EntriesInv, Fresh, Entry
    <3>2. now \in Nat
      BY IdempotencyConstants DEF RegistryInv, RegistryTypeOK
    <3> QED
      BY <2>3, <3>1, <3>2 DEF Accounted
  <2>5. s # r
    BY <1>3, <2>4 DEF Sent
  <2> QED
    BY <1>1, <2>3, <2>4, <2>5 DEF RegistryInv, RegistryTypeOK
<1> QED
  BY <1>2, <1>3

-----------------------------------------------------------------------------
(* The theorems about one request. *)

LEMMA RegistryInvariant == RegistrySpec => []RegistryInv
<1>1. RegistryInit => RegistryInv
  <2> SUFFICES ASSUME RegistryInit PROVE RegistryInv
    OBVIOUS
  <2>1. UsedKeys = {} /\ \A r \in Requests : ~Sent(r)
    BY DEF RegistryInit, UsedKeys, Sent
  <2> QED
    BY <2>1, FS_EmptySet, IdempotencyConstants
       DEF RegistryInit, RegistryInv, RegistryTypeOK, EntriesInv, CallsInv, ReplaysAreIdentical
<1>2. RegistryInv /\ [RegistryNext]_registryVars => RegistryInv'
  BY TypesKept, EntriesKept, CallsKept, ReplaysKept DEF RegistryInv
<1> QED
  BY <1>1, <1>2, PTL DEF RegistrySpec

\* Entries and requests are ones the registry file and the middleware can hold.
THEOREM RegistryTypes == RegistrySpec => []RegistryTypeOK
<1>1. RegistryInv => RegistryTypeOK
  BY DEF RegistryInv
<1> QED
  BY <1>1, RegistryInvariant, PTL

\* Only an identical retry replays a completed action, and what it is answered
\* with is the recorded response of the request it repeats.
THEOREM ReplaysIdentical == RegistrySpec => []ReplaysAreIdentical
<1>1. RegistryInv => ReplaysAreIdentical
  BY DEF RegistryInv
<1> QED
  BY <1>1, RegistryInvariant, PTL

\* Whoever left a reservation behind is being served, died with the process,
\* could not write the registry or was displaced.
THEOREM NothingStranded == RegistrySpec => []NoStrandedReservation
<1>1. RegistryInv => NoStrandedReservation
  BY DEF RegistryInv, EntriesInv, Accounted, NoStrandedReservation
<1> QED
  BY <1>1, RegistryInvariant, PTL

LEMMA PruningSpares ==
    ASSUME RegistryInv, NEW T, Keeps(T), NEW k \in Fresh, k \notin T
    PROVE  Cardinality(Fresh) > MaxEntries
<1>1. Fresh \subseteq UsedKeys
  BY DEF RegistryInv, EntriesInv, Accounted, Fresh, UsedKeys
<1>2. Cardinality(Fresh) \in Nat
  BY <1>1, FS_Subset, FS_CardinalityType DEF RegistryInv, CallsInv
<1> QED
  BY <1>2, IdempotencyConstants DEF Keeps

\* A recorded response is replayed until it expires or has to make room: no
\* slower request of its binding, release or crash takes it away.
THEOREM RecordedStays == RegistrySpec => RecordedIsStable
<1> DEFINE Stable == \A k \in Fresh : entries[k].status = "completed" =>
                         entries'[k] = entries[k] \/ Cardinality(Fresh) > MaxEntries
<1>1. RegistryInv /\ [RegistryNext]_registryVars => [Stable]_registryVars
  <2> SUFFICES ASSUME RegistryInv, RegistryNext, NEW k \in Fresh, entries[k].status = "completed"
               PROVE  entries'[k] = entries[k] \/ Cardinality(Fresh) > MaxEntries
    OBVIOUS
  <2>0. k \in Keys
    BY DEF Fresh
  <2>1. ASSUME NEW T, Keeps(T), entries'[k] = Pruned(T)[k]
        PROVE  entries'[k] = entries[k] \/ Cardinality(Fresh) > MaxEntries
    BY <2>0, <2>1, PruningSpares DEF Pruned
  <2>2. ASSUME NEW x \in Requests, NEW l \in Keys, NEW h \in Hashes, Begin(x, l, h)
        PROVE  entries'[k] = entries[k] \/ Cardinality(Fresh) > MaxEntries
    <3>1. CASE Block(x, l, h) \/ Unavailable(x, l, h)
      BY <3>1 DEF Block, Unavailable
    <3>2. CASE Replay(x, l, h)
      BY <2>1, <3>2 DEF Replay
    <3>3. CASE Reserve(x, l, h)
      <4>1. PICK T \in SUBSET Keys :
              /\ Keeps(T) /\ l \notin T
              /\ k # l => entries'[k] = Pruned(T)[k]
        BY <3>3 DEF Reserve
      <4> QED
        BY <2>1, <4>1, PruningSpares
    <3> QED
      BY <2>2, <3>1, <3>2, <3>3 DEF Begin
  <2>3. ASSUME NEW x \in Requests, Complete(x)
        PROVE  entries'[k] = entries[k] \/ Cardinality(Fresh) > MaxEntries
    <3>1. PICK T \in SUBSET Keys :
            /\ Keeps(T)
            /\ \/ k # calls[x].key /\ entries'[k] = Pruned(T)[k]
               \/ entries'[k] = entries[k]
      BY <2>0, <2>3 DEF Complete, Completable, Pruned
    <3> QED
      BY <2>1, <3>1
  <2>4. ASSUME NEW x \in Requests, Handle(x) \/ Escape(x) \/ Release(x) \/ Unwritten(x)
        PROVE  entries'[k] = entries[k]
    BY <2>0, <2>4 DEF Handle, Escape, Release, Unwritten, RegistryInv, RegistryTypeOK
  <2>5. CASE Status
    BY <2>1, <2>5 DEF Status
  <2>6. CASE Crash \/ Tick
    BY <2>6 DEF Crash, Tick
  <2> QED
    BY <2>2, <2>3, <2>4, <2>5, <2>6 DEF RegistryNext
<1> QED
  BY <1>1, RegistryInvariant, PTL DEF RegistrySpec, RecordedIsStable

-----------------------------------------------------------------------------
(* Overlapping handlers. *)

\* The bindings other than k that a request touched since t.
Pushers(k, t) ==
    {calls[d].key : d \in {d \in Requests : Sent(d) /\ calls[d].key # k /\ calls[d].touched >= t}}

\* By the time t the reservation c made of k was outlived or pushed out.
Excuses(c, k, t) ==
    /\ Sent(c) /\ calls[c].key = k
    /\ \/ calls[c].began + PendingTTL <= t
       \/ Cardinality(Pushers(k, calls[c].began)) >= MaxEntries

Holds(r) ==
    /\ entries[calls[r].key] # Free
    /\ entries[calls[r].key].status = "pending" /\ entries[calls[r].key].by = r

\* A request that is being served has its reservation, or there is an excuse.
OverlapInv ==
    /\ OverlapIsEarned
    /\ \A r \in Requests :
           Sent(r) /\ Running(r) =>
               Holds(r) \/ \E c \in Requests : Excuses(c, calls[r].key, now)

LEMMA OverlapForm ==
    OverlapIsEarned <=>
        \A r, s \in Requests :
            /\ r # s /\ Sent(r) /\ Sent(s) /\ Running(r) /\ Running(s)
            /\ calls[r].key = calls[s].key /\ calls[r].began <= calls[s].began
            => \E c \in Requests : c # s /\ Excuses(c, calls[s].key, calls[s].began)
BY DEF OverlapIsEarned, Excuses, Pushers

LEMMA PushersFinite ==
    ASSUME RegistryInv, NEW k, NEW t
    PROVE  IsFiniteSet(Pushers(k, t)) /\ Cardinality(Pushers(k, t)) \in Nat
<1>1. Pushers(k, t) \subseteq UsedKeys
  BY DEF Pushers, UsedKeys, RegistryInv, RegistryTypeOK, Sent, Call
<1> QED
  BY <1>1, FS_Subset, FS_CardinalityType DEF RegistryInv, CallsInv

\* Who has been pushed out stays so.
LEMMA PushersGrow ==
    ASSUME RegistryInv, RegistryInv', [RegistryNext]_registryVars, NEW k, NEW t \in Int,
           Cardinality(Pushers(k, t)) >= MaxEntries
    PROVE  Cardinality(Pushers(k, t)') >= MaxEntries
<1>1. \A d \in Requests : Sent(d) =>
         /\ Sent(d)' /\ calls'[d].key = calls[d].key
         /\ calls[d].touched >= t => calls'[d].touched >= t
  <2> SUFFICES ASSUME NEW d \in Requests, Sent(d), calls[d].touched >= t
               PROVE  calls'[d].touched >= t
    BY CallsRemain DEF RegistryInv, Remains
  <2>1. Sent(d)' /\ calls[d].touched <= calls'[d].touched
    BY CallsRemain DEF RegistryInv, Remains
  <2>2. calls[d].touched \in Int /\ calls'[d].touched \in Int
    BY <2>1, IdempotencyConstants DEF RegistryInv, RegistryTypeOK, Sent, Call
  <2> QED
    BY <2>1, <2>2
<1>2. Pushers(k, t) \subseteq Pushers(k, t)'
  BY <1>1 DEF Pushers
<1>3. IsFiniteSet(Pushers(k, t)') /\ Cardinality(Pushers(k, t)') \in Nat
  <2>1. Pushers(k, t)' \subseteq UsedKeys'
    BY DEF Pushers, UsedKeys, RegistryInv, RegistryTypeOK, Sent, Call
  <2> QED
    BY <2>1, FS_Subset, FS_CardinalityType DEF RegistryInv, CallsInv
<1> QED
  BY <1>2, <1>3, PushersFinite, FS_Subset, IdempotencyConstants

LEMMA ExcusesStay ==
    ASSUME RegistryInv, RegistryInv', [RegistryNext]_registryVars, NEW k, NEW t \in Nat,
           NEW u \in Nat, t <= u, NEW c \in Requests, Excuses(c, k, t)
    PROVE  Excuses(c, k, u)'
<1>1. Sent(c)' /\ calls'[c].key = k /\ calls'[c].began = calls[c].began
  BY CallsRemain DEF RegistryInv, Remains, Excuses
<1>2. PICK b \in Nat : b = calls[c].began
  BY IdempotencyConstants DEF RegistryInv, RegistryTypeOK, Excuses, Sent, Call
<1>3. CASE b + PendingTTL <= t
  BY <1>1, <1>2, <1>3, IdempotencyConstants DEF Excuses
<1>4. CASE Cardinality(Pushers(k, b)) >= MaxEntries
  <2>1. Cardinality(Pushers(k, b)') >= MaxEntries
    BY <1>4, PushersGrow
  <2>2. Pushers(k, b)' = Pushers(k, calls[c].began)'
    BY <1>1, <1>2 DEF Pushers
  <2> QED
    BY <1>1, <2>1, <2>2 DEF Excuses
<1> QED
  BY <1>2, <1>3, <1>4 DEF Excuses

LEMMA ExcusesLater ==
    ASSUME RegistryInv, NEW k, NEW t \in Nat, NEW u \in Nat, t <= u, NEW c \in Requests,
           Excuses(c, k, t)
    PROVE  Excuses(c, k, u)
<1>1. calls[c].began \in Nat
  BY IdempotencyConstants DEF RegistryInv, RegistryTypeOK, Excuses, Sent, Call
<1> QED
  BY <1>1, IdempotencyConstants DEF Excuses

\* A reservation that pruning takes away has expired or is pushed out.
LEMMA PruningExcuses ==
    ASSUME RegistryInv, NEW T, Keeps(T), NEW r \in Requests, Sent(r), Holds(r),
           calls[r].key \notin T
    PROVE  Excuses(r, calls[r].key, now)
<1>1. PICK k \in Keys : k = calls[r].key
  BY DEF RegistryInv, RegistryTypeOK, Sent, Call
<1>2. /\ entries[k] # Free /\ entries[k].updated = calls[r].began
      /\ entries[k].expires = calls[r].began + PendingTTL /\ entries[k].expires \in Nat
  BY <1>1 DEF Holds, RegistryInv, RegistryTypeOK, EntriesInv, Accounted, Entry
<1>3. CASE entries[k].expires <= now
  BY <1>1, <1>2, <1>3 DEF Excuses
<1>4. CASE ~(entries[k].expires <= now)
  <2>1. k \in Fresh \ T
    BY <1>1, <1>2, <1>4, IdempotencyConstants DEF Fresh, RegistryInv, RegistryTypeOK
  <2>2. /\ T \subseteq Fresh /\ Cardinality(T) = MaxEntries
        /\ \A l \in T : entries[l].updated >= calls[r].began
    BY <1>2, <2>1 DEF Keeps
  <2>3. ASSUME NEW l \in T PROVE l \in Pushers(k, calls[r].began)
    <3>1. l \in Keys /\ entries[l] # Free /\ l # k
      BY <2>1, <2>2 DEF Fresh
    <3>2. PICK d \in Requests : /\ d = entries[l].by /\ Sent(d) /\ calls[d].key = l
                                /\ calls[d].touched = entries[l].updated
      BY <3>1 DEF RegistryInv, EntriesInv, Accounted
    <3> QED
      BY <2>2, <3>1, <3>2 DEF Pushers
  <2>4. Cardinality(T) <= Cardinality(Pushers(k, calls[r].began))
    BY <2>3, PushersFinite, FS_Subset
  <2> QED
    BY <1>1, <2>2, <2>4, PushersFinite, IdempotencyConstants DEF Excuses
<1> QED
  BY <1>3, <1>4

\* A request that goes on being served keeps its reservation, or there is an
\* excuse: pruning has one, and another request that settles it overlaps.
LEMMA Loosened ==
    ASSUME RegistryInv, OverlapInv, [RegistryNext]_registryVars, NEW r \in Requests,
           Sent(r), Running(r), Running(r)'
    PROVE  Holds(r)' \/ \E c \in Requests : Excuses(c, calls[r].key, now)
<1> USE DEF RegistryInv
<1>0. Remains(r)
  BY CallsRemain
<1>1. CASE ~Holds(r)
  BY <1>1 DEF OverlapInv
<1>2. CASE Holds(r)
  <2> DEFINE k == calls[r].key
  <2>0. k \in Keys /\ Excuses(r, k, now) => \E c \in Requests : Excuses(c, k, now)
    BY DEF RegistryTypeOK, Sent, Call
  <2>1. ASSUME entries'[k] = entries[k] PROVE Holds(r)'
    BY <1>0, <1>2, <2>1 DEF Holds, Remains
  <2>2. ASSUME NEW T, Keeps(T), k \notin T \/ entries'[k] = entries[k]
        PROVE  Holds(r)' \/ \E c \in Requests : Excuses(c, k, now)
    <3>1. CASE k \notin T
      BY <1>2, <2>2, <3>1, PruningExcuses
    <3> QED
      BY <2>1, <2>2, <3>1
  <2>3. k \in Keys
    BY DEF RegistryTypeOK, Sent, Call
  <2>4. ASSUME NEW x \in Requests, x # r, Sent(x), Running(x), calls[x].key = k
        PROVE  \E c \in Requests : Excuses(c, k, now)
    <3>1. /\ calls[r].began \in Nat /\ calls[x].began \in Nat /\ now \in Nat
          /\ calls[r].began <= now /\ calls[x].began <= now
      BY <2>4, IdempotencyConstants DEF RegistryTypeOK, CallsInv, Sent, Call
    <3>2. PICK s \in {r, x} : \E c \in Requests : Excuses(c, k, calls[s].began)
      <4>1. calls[r].began <= calls[x].began \/ calls[x].began <= calls[r].began
        BY <3>1
      <4> QED
        BY <2>4, <4>1, OverlapForm DEF OverlapInv
    <3> QED
      BY <3>1, <3>2, ExcusesLater
  <2>5. ASSUME NEW x \in Requests, NEW l \in Keys, NEW h \in Hashes, Begin(x, l, h)
        PROVE  Holds(r)' \/ \E c \in Requests : Excuses(c, k, now)
    <3>1. CASE Block(x, l, h) \/ Unavailable(x, l, h)
      BY <2>1, <3>1 DEF Block, Unavailable
    <3>2. CASE Replay(x, l, h)
      <4>1. PICK T \in SUBSET Keys : Keeps(T) /\ entries' = Pruned(T)
        BY <3>2 DEF Replay
      <4> QED
        BY <2>2, <2>3, <4>1 DEF Pruned
    <3>3. CASE Reserve(x, l, h)
      <4>1. PICK T \in SUBSET Keys : Keeps(T) /\ (k \notin T \/ entries'[k] = entries[k])
        BY <2>3, <3>3 DEF Reserve, Pruned
      <4> QED
        BY <2>2, <4>1
    <3> QED
      BY <2>5, <3>1, <3>2, <3>3 DEF Begin
  <2>6. ASSUME NEW x \in Requests, Complete(x)
        PROVE  Holds(r)' \/ \E c \in Requests : Excuses(c, k, now)
    <3>1. Sent(x) /\ Running(x)
      BY <2>6 DEF Complete, Sent, Unsent, Running, InFlight
    <3>2. CASE calls[x].key = k /\ x # r
      BY <2>4, <3>1, <3>2
    <3>3. CASE x = r
      <4>1. calls'[r].at \in {"recorded", "displaced"}
        BY <2>6, <3>3 DEF Complete, RegistryTypeOK, Unsent, Call
      <4> QED
        BY <4>1 DEF Running, InFlight
    <3>4. CASE calls[x].key # k
      <4>1. PICK T \in SUBSET Keys : Keeps(T) /\ (k \notin T \/ entries'[k] = entries[k])
        BY <2>3, <2>6, <3>4 DEF Complete, Pruned
      <4> QED
        BY <2>2, <4>1
    <3> QED
      BY <3>2, <3>3, <3>4
  <2>7. ASSUME NEW x \in Requests, Release(x)
        PROVE  Holds(r)' \/ \E c \in Requests : Excuses(c, k, now)
    <3>1. Sent(x) /\ Running(x)
      BY <2>7 DEF Release, Moves, Sent, Unsent, Running, InFlight
    <3>2. CASE calls[x].key = k /\ x # r
      BY <2>4, <3>1, <3>2
    <3>3. CASE x = r
      <4>1. calls'[r].at = "not_cached"
        BY <2>7, <3>3 DEF Release, Moves, RegistryTypeOK, Unsent, Call
      <4> QED
        BY <4>1 DEF Running, InFlight
    <3>4. CASE calls[x].key # k
      BY <2>1, <2>3, <2>7, <3>4 DEF Release, RegistryTypeOK
    <3> QED
      BY <3>2, <3>3, <3>4
  <2>8. CASE Status
    <3>1. PICK T \in SUBSET Keys : Keeps(T) /\ entries' = Pruned(T)
      BY <2>8 DEF Status
    <3> QED
      BY <2>2, <2>3, <3>1 DEF Pruned
  <2>9. ASSUME NEW x \in Requests, Handle(x) \/ Escape(x) \/ Unwritten(x) PROVE Holds(r)'
    BY <2>1, <2>9 DEF Handle, Escape, Unwritten
  <2>10. CASE Crash \/ Tick \/ UNCHANGED registryVars
    BY <2>1, <2>10 DEF Crash, Tick, registryVars
  <2> QED
    BY <2>5, <2>6, <2>7, <2>8, <2>9, <2>10 DEF RegistryNext
<1> QED
  BY <1>1, <1>2

\* Who has just been let in found no reservation of the binding that pruning kept.
LEMMA LetIn ==
    ASSUME RegistryInv, [RegistryNext]_registryVars, NEW r \in Requests, calls[r] = Unsent,
           Sent(r)', Running(r)'
    PROVE  /\ calls'[r].key \in Keys /\ calls'[r].began = now /\ now' = now /\ Holds(r)'
           /\ \A x \in Requests : x # r => calls'[x] = calls[x]
           /\ \E T \in SUBSET Keys : Keeps(T) /\ calls'[r].key \notin T
<1> USE DEF RegistryInv, RegistryTypeOK
<1>1. PICK k \in Keys, h \in Hashes : Begin(r, k, h)
  BY Arrivals DEF Sent
<1>2. Reserve(r, k, h)
  BY <1>1 DEF Begin, Block, Replay, Unavailable, Arrives, Running, InFlight
<1>3. PICK T \in SUBSET Keys :
        /\ Keeps(T) /\ k \notin T
        /\ entries' = [Pruned(T) EXCEPT ![k] = [status |-> "pending", hash |-> h, by |-> r,
                                               updated |-> now, expires |-> now + PendingTTL]]
        /\ Arrives(r, k, h, "handler", now, NoRequest)
  BY <1>2 DEF Reserve
<1>4. calls'[r].key = k /\ calls'[r].began = now /\ now' = now
      /\ \A x \in Requests : x # r => calls'[x] = calls[x]
  BY <1>3 DEF Arrives
<1>5. entries'[k] = [status |-> "pending", hash |-> h, by |-> r, updated |-> now,
                     expires |-> now + PendingTTL]
  BY <1>3 DEF Pruned
<1>6. Holds(r)'
  BY <1>4, <1>5 DEF Holds, Free
<1> QED
  BY <1>3, <1>4, <1>6

LEMMA EarnedKept ==
    RegistryInv /\ RegistryInv' /\ OverlapInv /\ [RegistryNext]_registryVars => OverlapIsEarned'
<1> SUFFICES ASSUME RegistryInv, RegistryInv', OverlapInv, [RegistryNext]_registryVars,
                    NEW r \in Requests, NEW s \in Requests, r # s, Sent(r)', Sent(s)',
                    Running(r)', Running(s)', calls'[r].key = calls'[s].key,
                    calls'[r].began <= calls'[s].began
             PROVE  \E c \in Requests : c # s /\ Excuses(c, calls[s].key, calls[s].began)'
  BY DEF OverlapIsEarned, Excuses, Pushers
<1>0. PICK k \in Keys, t \in Nat, n \in Nat : k = calls'[s].key /\ t = calls'[s].began /\ n = now
  BY IdempotencyConstants DEF RegistryInv, RegistryTypeOK, Sent, Call
<1>a. \A c \in Requests : Excuses(c, k, t)' <=> Excuses(c, calls[s].key, calls[s].began)'
  BY <1>0 DEF Excuses, Pushers
<1>b. ASSUME NEW c \in Requests, c # s, Excuses(c, k, t)
      PROVE  \E d \in Requests : d # s /\ Excuses(d, calls[s].key, calls[s].began)'
  BY <1>a, <1>b, ExcusesStay
<1>1. CASE Sent(r) /\ Sent(s)
  <2>1. /\ Running(r) /\ Running(s) /\ calls[r].key = k /\ calls[s].key = k
        /\ calls[s].began = t /\ calls[r].began <= t
    BY <1>0, <1>1, CallsRemain DEF RegistryInv, Remains, Running
  <2>2. PICK c \in Requests : c # s /\ Excuses(c, k, t)
    BY <1>1, <2>1, OverlapForm DEF OverlapInv
  <2> QED
    BY <1>b, <2>2
<1>2. CASE ~Sent(s)
  <2>1. /\ t = n /\ calls[r] = calls'[r]
        /\ \E T \in SUBSET Keys : Keeps(T) /\ k \notin T
    BY <1>0, <1>2, LetIn DEF Sent
  <2>2. Sent(r) /\ Running(r) /\ calls[r].key = k
    BY <1>0, <2>1 DEF Sent, Running
  <2>3. PICK c \in Requests : Excuses(c, k, n)
    BY <1>0, <2>1, <2>2, PruningExcuses DEF OverlapInv
  <2>4. c # s
    BY <1>2, <2>3 DEF Excuses
  <2> QED
    BY <1>b, <2>1, <2>3, <2>4
<1>3. CASE ~Sent(r) /\ Sent(s)
  <2>1. /\ calls'[r].began = n /\ calls[s] = calls'[s]
        /\ \E T \in SUBSET Keys : Keeps(T) /\ k \notin T
    BY <1>0, <1>3, LetIn DEF Sent
  <2>2. Sent(s) /\ Running(s) /\ calls[s].key = k /\ calls[s].began = t
    BY <1>0, <2>1 DEF Sent, Running
  <2>3. t = n
    <3>1. t <= n
      BY <1>0, <2>2 DEF RegistryInv, CallsInv
    <3> QED
      BY <1>0, <2>1, <3>1
  <2>4. PICK c \in Requests : Excuses(c, k, n)
    BY <1>0, <2>1, <2>2, PruningExcuses DEF OverlapInv
  <2>5. CASE c # s
    BY <1>b, <2>3, <2>4, <2>5
  <2>6. CASE c = s
    <3>1. Cardinality(Pushers(k, n)) >= MaxEntries
      BY <2>2, <2>3, <2>4, <2>6, IdempotencyConstants DEF Excuses
    <3>2. Cardinality(Pushers(k, n)') >= MaxEntries
      BY <3>1, PushersGrow
    <3>3. Pushers(k, n)' = Pushers(k, calls[r].began)'
      BY <2>1 DEF Pushers
    <3>4. Excuses(r, k, t)'
      BY <1>0, <3>2, <3>3 DEF Excuses
    <3> QED
      BY <1>a, <3>4
  <2> QED
    BY <2>5, <2>6
<1> QED
  BY <1>1, <1>2, <1>3

LEMMA OverlapKept ==
    RegistryInv /\ RegistryInv' /\ OverlapInv /\ [RegistryNext]_registryVars => OverlapInv'
<1> SUFFICES ASSUME RegistryInv, RegistryInv', OverlapInv, [RegistryNext]_registryVars,
                    NEW r \in Requests, Sent(r)', Running(r)', ~Holds(r)'
             PROVE  \E c \in Requests : Excuses(c, calls[r].key, now)'
  BY EarnedKept DEF OverlapInv, Excuses, Pushers
<1>1. Sent(r) /\ Remains(r) /\ Running(r)
  <2>1. Sent(r)
    BY LetIn DEF Sent
  <2> QED
    BY <2>1, CallsRemain DEF RegistryInv, Remains, Running
<1>2. PICK k \in Keys, n \in Nat, m \in Nat : k = calls[r].key /\ n = now /\ m = now'
  BY <1>1, IdempotencyConstants DEF RegistryInv, RegistryTypeOK, Sent, Call
<1>3. n <= m
  <2>1. CASE Tick
    BY <1>2, <2>1 DEF Tick
  <2>2. CASE ~Tick
    BY <1>2, <2>2, OnlyTicks
  <2> QED
    BY <2>1, <2>2
<1>4. PICK c \in Requests : Excuses(c, k, n)
  BY <1>1, <1>2, Loosened
<1>5. Excuses(c, k, m)'
  BY <1>3, <1>4, ExcusesStay
<1> QED
  BY <1>1, <1>2, <1>5 DEF Excuses, Pushers, Remains

\* However requests, retries, pruning, crashes and failures interleave: two
\* handlers of one binding run side by side only when a reservation of the
\* binding was outlived by its request or pushed out by MaxEntries others.
THEOREM OverlapEarned == RegistrySpec => []OverlapIsEarned
<1>1. RegistryInit => OverlapInv
  BY DEF RegistryInit, OverlapInv, OverlapIsEarned, Sent
<1>2. RegistryInv /\ RegistryInv' /\ OverlapInv /\ [RegistryNext]_registryVars => OverlapInv'
  BY OverlapKept
<1>3. OverlapInv => OverlapIsEarned
  BY DEF OverlapInv
<1> QED
  BY <1>1, <1>2, <1>3, RegistryInvariant, PTL DEF RegistrySpec
=============================================================================
