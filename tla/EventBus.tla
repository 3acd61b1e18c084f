------------------------------ MODULE EventBus ------------------------------
(***************************************************************************)
(* The event bus (services/events_bus.py), POST /events/ingest, the ring   *)
(* of recent events that the administration shell shows, and the audit     *)
(* trail that feeds it.                                                    *)
(*                                                                         *)
(* A handler reports its work after the storage call that did it, and the  *)
(* process may die in between.  publish_best_effort only creates a task;   *)
(* no plugin's emit suspends, so the loop runs each task in one step, in   *)
(* the order in which they were created.  The lock of the idempotency      *)
(* store is never held across an await, so an ingest, from the duplicate   *)
(* check to the publication, is one step too.                              *)
(*                                                                         *)
(* All of it but the audit table is in memory.                             *)
(***************************************************************************)
EXTENDS Clock, Sequences, FiniteSets, Maps

CONSTANTS
    Workers,      \* requests whose work is reported
    EventKeys,    \* idempotency keys
    Types,        \* event types
    FilterMode,   \* Config.events_filter_mode
    FilterTypes,  \* Config.events_types
    TTL,          \* IdempotencyStore: _ttl
    MaxEntries,   \* IdempotencyStore: _max_entries
    MaxLogged,    \* InMemoryEventLogger: max_events
    Capacity,     \* RecentEventsStore: capacity
    BusTime,      \* bound: the clock stops here
    MaxEvents,    \* bound: events that come into being
    MaxCrashes    \* bound: times the process dies

ASSUME BusAssumption ==
    /\ FilterMode \in {"allow_all", "include", "exclude"}
    /\ {TTL, MaxEntries, MaxLogged, Capacity, BusTime, MaxEvents, MaxCrashes} \subseteq Nat

VARIABLES
    made,       \* events made so far; the last one's number is its id
    work,       \* what each request still has to report
    audit,      \* the audit_log table: ids of the entries written
    entries,    \* IdempotencyStore._entries: key -> time of the insert
    ready,      \* the fan-out tasks the loop has yet to run, oldest first
    logged,     \* InMemoryEventLogger._events, oldest first
    recent,     \* RecentEventsStore._events, newest first
    published,  \* observation: what this process put on the bus, in order
    shown,      \* observation: what this process pushed to the ring, in order
    accepted,   \* observation: the ingests this process accepted, in order
    lost,       \* observation: events the process took with it when it died
    crashes     \* observation: times it died

busVars == <<now, made, work, audit, entries, ready, logged, recent,
          published, shown, accepted, lost, crashes>>

Event == [id : Nat, type : Types, source : {"handler", "admin", "ingest"}]

(* What a request still has to do after its own storage call.               *)
Work == [pc : {"emit", "audit", "push"}, event : Event]

NoWork == [pc |-> "idle"]

BusTypeOK ==
    /\ {now, made, crashes} \subseteq Nat
    /\ work \in [Workers -> Work \cup {NoWork}]
    /\ audit \subseteq 1..made
    /\ DOMAIN entries \subseteq EventKeys
    /\ \A k \in DOMAIN entries : entries[k] \in 0..now
    /\ Cardinality(DOMAIN entries) <= MaxEntries
    /\ {ready, logged, recent, published, shown} \subseteq Seq(Event)
    /\ Len(logged) <= MaxLogged /\ Len(recent) <= Capacity
    /\ accepted \in Seq([key : EventKeys, at : Nat])
    /\ lost \subseteq 1..made

BusInit ==
    /\ now = 0 /\ made = 0 /\ crashes = 0
    /\ work = [w \in Workers |-> NoWork]
    /\ audit = {} /\ lost = {}
    /\ entries = <<>>
    /\ ready = <<>> /\ logged = <<>> /\ recent = <<>>
    /\ published = <<>> /\ shown = <<>> /\ accepted = <<>>
-----------------------------------------------------------------------------
(* The last n elements of a sequence.                                       *)
Last(s, n) == IF Len(s) <= n THEN s ELSE SubSeq(s, Len(s) - n + 1, Len(s))

First(s, n) == IF Len(s) <= n THEN s ELSE SubSeq(s, 1, n)

(* The last n elements, newest first.                                       *)
Newest(s, n) == [i \in 1 .. Len(Last(s, n)) |-> s[Len(s) - i + 1]]

(* RecentEventsStore.push: newest first, the oldest falls off.              *)
Push(ring, e) == First(<<e>> \o ring, Capacity)

(* EventFilter.should_emit.                                                 *)
ShouldEmit(type) ==
    CASE FilterMode = "include" -> type \in FilterTypes
      [] FilterMode = "exclude" -> type \notin FilterTypes
      [] OTHER                  -> TRUE

(* EventBus.publish_best_effort.                                            *)
Publish(e) ==
    IF ShouldEmit(e.type)
    THEN ready' = Append(ready, e) /\ published' = Append(published, e)
    ELSE UNCHANGED <<ready, published>>

Show(e) ==
    /\ recent' = Push(recent, e)
    /\ shown' = Append(shown, e)
-----------------------------------------------------------------------------
(* A request's storage call has changed something: the request will report  *)
(* it, on the bus or (an administrator's) in the audit trail.               *)
Commit(w, source, type) ==
    LET e == [id |-> made + 1, type |-> type, source |-> source] IN
    /\ work[w] = NoWork
    /\ made < MaxEvents
    /\ made' = made + 1
    /\ work' = [work EXCEPT ![w] =
                  [pc |-> IF source = "admin" THEN "audit" ELSE "emit", event |-> e]]
    /\ UNCHANGED <<now, audit, entries, ready, logged, recent,
                   published, shown, accepted, lost, crashes>>

(* emit_event.  Without a bus it returns at once, as when the filter drops  *)
(* the event.                                                               *)
Emit(w) ==
    /\ work[w].pc = "emit"
    /\ Publish(work[w].event)
    /\ work' = [work EXCEPT ![w] = NoWork]
    /\ UNCHANGED <<now, made, audit, entries, logged, recent, shown, accepted, lost, crashes>>

(* Mutant of WriteAudit: the exception is raised to the handler.            *)
WriteAuditRaises(w, ok) ==
    /\ work[w].pc = "audit"
    /\ audit' = IF ok THEN audit \cup {work[w].event.id} ELSE audit
    /\ work' = [work EXCEPT ![w] = IF ok THEN [@ EXCEPT !.pc = "push"] ELSE NoWork]
    /\ UNCHANGED <<now, made, entries, ready, logged, recent,
                   published, shown, accepted, lost, crashes>>

(* The first half of record_audit: write_audit_log may fail, and that is    *)
(* only logged.                                                             *)
WriteAudit(w, ok) ==
    /\ work[w].pc = "audit"
    /\ audit' = IF ok THEN audit \cup {work[w].event.id} ELSE audit
    /\ work' = [work EXCEPT ![w] = [pc |-> "push", event |-> @.event]]
    /\ UNCHANGED <<now, made, entries, ready, logged, recent,
                   published, shown, accepted, lost, crashes>>

(* The second half: the entry goes to the ring whatever became of the row.  *)
PushAudit(w) ==
    /\ work[w].pc = "push"
    /\ Show(work[w].event)
    /\ work' = [work EXCEPT ![w] = NoWork]
    /\ UNCHANGED <<now, made, audit, entries, ready, logged, published, accepted, lost, crashes>>
-----------------------------------------------------------------------------
(* IdempotencyStore._prune.                                                 *)
Pruned == Without(entries, {k \in DOMAIN entries : now - entries[k] >= TTL})

(* Mutant of Kept: the store is emptied one entry early.                    *)
KeptUntilNearlyFull == IF Cardinality(DOMAIN Pruned) + 1 >= MaxEntries THEN <<>> ELSE Pruned

(* The store as is_duplicate_and_record looks it up: a full one is emptied. *)
Kept == IF Cardinality(DOMAIN Pruned) >= MaxEntries THEN <<>> ELSE Pruned

(* POST /events/ingest finds the key: status "duplicate".                   *)
IngestDuplicate(k) ==
    /\ k \in DOMAIN Kept
    /\ entries' = Kept
    /\ UNCHANGED <<now, made, work, audit, ready, logged, recent,
                   published, shown, accepted, lost, crashes>>

(* POST /events/ingest with a new key: the event is pushed to the ring, and *)
(* then published, which will push it once more.                            *)
Ingest(k, type) ==
    LET e == [id |-> made + 1, type |-> type, source |-> "ingest"] IN
    /\ k \notin DOMAIN Kept
    /\ made < MaxEvents
    /\ made' = made + 1
    /\ entries' = With(Kept, k, now)
    /\ accepted' = Append(accepted, [key |-> k, at |-> now])
    /\ Show(e)
    /\ Publish(e)
    /\ UNCHANGED <<now, work, audit, logged, lost, crashes>>
-----------------------------------------------------------------------------
(* Mutant of FanOut: a plugin that raises ends the fan-out.                 *)
FanOutStops(consoleOk) ==
    /\ ready # <<>>
    /\ ready' = Tail(ready)
    /\ logged' = Last(Append(logged, Head(ready)), MaxLogged)
    /\ IF consoleOk THEN Show(Head(ready)) ELSE UNCHANGED <<recent, shown>>
    /\ UNCHANGED <<now, made, work, audit, entries, published, accepted, lost, crashes>>

(* _fan_out of the oldest task, over the plugins build_event_bus sets up    *)
(* for the backend "both": the in-memory logger, the console logger, whose  *)
(* emit may raise, and the recent events.                                   *)
FanOut(consoleOk) ==
    /\ ready # <<>>
    /\ ready' = Tail(ready)
    /\ logged' = Last(Append(logged, Head(ready)), MaxLogged)
    /\ Show(Head(ready))
    /\ UNCHANGED <<now, made, work, audit, entries, published, accepted, lost, crashes>>

(* The process stops, without draining the bus, and starts again.           *)
BusCrash ==
    /\ crashes < MaxCrashes
    /\ crashes' = crashes + 1
    /\ lost' = lost \cup {work[w].event.id : w \in {v \in Workers : work[v] # NoWork}}
                    \cup {ready[i].id : i \in DOMAIN ready}
    /\ work' = [w \in Workers |-> NoWork]
    /\ entries' = <<>>
    /\ ready' = <<>> /\ logged' = <<>> /\ recent' = <<>>
    /\ published' = <<>> /\ shown' = <<>> /\ accepted' = <<>>
    /\ UNCHANGED <<now, made, audit>>

BusTick ==
    /\ Passes(BusTime)
    /\ UNCHANGED <<made, work, audit, entries, ready, logged, recent,
                   published, shown, accepted, lost, crashes>>

Report(w) == Emit(w) \/ (\E ok \in BOOLEAN : WriteAudit(w, ok)) \/ PushAudit(w)

Deliver == \E ok \in BOOLEAN : FanOut(ok)

BusNext ==
    \/ \E w \in Workers :
          \/ \E source \in {"handler", "admin"}, type \in Types : Commit(w, source, type)
          \/ Report(w)
    \/ \E k \in EventKeys : IngestDuplicate(k) \/ \E type \in Types : Ingest(k, type)
    \/ Deliver
    \/ BusCrash
    \/ BusTick

BusSpec == BusInit /\ [][BusNext]_busVars

(* The loop resumes a request whose storage call has answered, and runs     *)
(* every task it has been given.                                            *)
FairBusSpec == BusSpec /\ WF_busVars(Deliver) /\ \A w \in Workers : WF_busVars(Report(w))
-----------------------------------------------------------------------------
Occurrences(s, e) == Cardinality({i \in DOMAIN s : s[i] = e})

(* The tasks that have run.                                                 *)
FannedOut == SubSeq(published, 1, Len(published) - Len(ready))

(* No plugin's failure costs another plugin its event, no task is run twice *)
(* or out of order: the in-memory logger holds the latest of what was       *)
(* published, in order; an event the bus has carried is in the ring once,   *)
(* and once more if it was ingested; and the ring is the newest of all that *)
(* was pushed to it, by ingests, audits and the bus, newest first.          *)
DeliveredOnce ==
    /\ published = FannedOut \o ready
    /\ logged = Last(FannedOut, MaxLogged)
    /\ recent = Newest(shown, Capacity)
    /\ \A i \in DOMAIN published :
          Occurrences(shown, published[i]) =
              Occurrences(FannedOut, published[i])
                + (IF published[i].source = "ingest" THEN 1 ELSE 0)

(* An ingest whose key was accepted less than ttl ago by the same process   *)
(* is refused as a duplicate, unless the store filled up: then there were   *)
(* max_entries acceptances, the first one among them, in the ttl before it  *)
(* and since.                                                               *)
DuplicatesCaught ==
    \A i, j \in DOMAIN accepted :
        (i < j /\ accepted[i].key = accepted[j].key /\ accepted[j].at < accepted[i].at + TTL)
        => Cardinality({n \in 1 .. (j - 1) : accepted[n].at > accepted[i].at - TTL})
              >= MaxEntries

(* A request has yet to report event n, which the filter does not drop.     *)
ToReport(n) ==
    \E w \in Workers :
        /\ work[w] # NoWork
        /\ work[w].event.id = n
        /\ work[w].event.source = "admin" \/ ShouldEmit(work[w].event.type)

(* Whatever a request has changed is reported where an administrator sees   *)
(* it, though the audit row could not be written or a plugin raised, unless *)
(* the process dies first or the filter drops the type.                     *)
ReportedEventually ==
    \A n \in 1 .. MaxEvents :
        ToReport(n) ~> (n \in lost \/ \E i \in DOMAIN shown : shown[i].id = n)
=============================================================================
