---------------------------- MODULE RedisStreamsBus ----------------------------
(***************************************************************************)
(* RedisStreamsEventBus: one stream per event type, one consumer group     *)
(* shared by all instances, every instance reading under the same consumer *)
(* name over ONE connection.                                               *)
(*                                                                         *)
(* A timer starts a sweep (consumePendingMessages) every 100 ms, without   *)
(* waiting for the previous one.  A sweep visits the subscribed types in   *)
(* the order they were first subscribed and issues a blocking read         *)
(* (XREADGROUP ... BLOCK 0 ... '>') for each.  Redis serves the commands   *)
(* of a connection in order, so while a read blocks, every later command   *)
(* of that connection waits: reads of other sweeps, XACK, and the XGROUP   *)
(* CREATE of a later subscribe.                                            *)
(***************************************************************************)
EXTENDS Naturals, Sequences, FiniteSets

CONSTANTS
  Types,      \* event types
  Messages,   \* events the API publishes
  TypeOf,     \* the type of an event
  NoMessage,  \* a value that is no event
  Handlers,   \* handler names
  Instances,  \* API instances
  Sweeps,     \* slots for concurrent sweeps
  HostOf,     \* the instance a sweep slot belongs to
  Count,      \* COUNT of a read
  MaxLen,     \* eventBus.maxLen, the length a stream is trimmed to
  MaxFaults,  \* bound: crashes, shutdowns and failing dead-letter writes
  MaxUnsubscribes \* bound: calls of unsubscribe

ASSUME BusAssumption ==
  /\ IsFiniteSet(Messages)
  /\ TypeOf \in [Messages -> Types]
  /\ NoMessage \notin Messages
  /\ HostOf \in [Sweeps -> Instances]
  /\ Count \in Nat \ {0}
  /\ MaxLen \in Nat
  /\ MaxFaults \in Nat
  /\ MaxUnsubscribes \in Nat

VARIABLES
  seqno,     \* per event: its position in its stream, 0 when not added
  trimmed,   \* per type: positions up to this one have been trimmed away
  group,     \* per type: the group's last-delivered position
  grouped,   \* the types whose consumer group exists
  pel,       \* the group's pending entries: delivered and not acknowledged
  acked,     \* acknowledged events
  dlq,       \* <<event, handler>> pairs on the dead-letter stream
  calls,     \* history: how often a handler was run for an event
  succeeded, \* history: <<event, handler>> pairs whose handler resolved
  handlers,  \* per instance: the array of handlers of each type
  order,     \* per instance: the types in the order of the handlers map
  conn,      \* per instance: commands sent on the consumer connection
  sweep,     \* per slot: the state of a running sweep
  up,        \* per instance: "running", "stopping", "closing" or "down"
  faults,    \* faults so far
  unsubs     \* calls of unsubscribe so far

redis == <<seqno, trimmed, group, grouped, pel, acked, dlq>>
history == <<calls, succeeded>>
vars == <<redis, history, handlers, order, conn, sweep, up, faults, unsubs>>

(***************************************************************************)
(* Types.                                                                  *)
(***************************************************************************)
Command == [op : {"read"}, sweep : Sweeps, type : Types]
           \cup [op : {"ack"}, sweep : Sweeps, msg : Messages]
           \cup [op : {"group"}, type : Types]
           \cup [op : {"quit"}]

SweepState == [pc   : {"idle", "visit", "reading", "next", "dispatch", "acking"},
               at   : Nat,                        \* types visited so far
               live : BOOLEAN,                    \* its array is still the map's
               hs   : Seq(Handlers),              \* its array once it is not
               msgs : SUBSET Messages,            \* events read, not yet taken up
               cur  : Messages \cup {NoMessage},  \* event being dispatched
               ran  : Nat,                        \* handlers run for cur so far
               ok   : BOOLEAN]                    \* allSucceeded

IdleSweep == [pc |-> "idle", at |-> 0, live |-> TRUE, hs |-> <<>>, msgs |-> {},
              cur |-> NoMessage, ran |-> 0, ok |-> TRUE]

\* Type invariant: what Redis holds, what the sweeps and connections hold, and
\* the <<event, handler>> pairs sendToDeadLetterStream records.
TypeOK ==
  /\ seqno \in [Messages -> Nat]
  /\ trimmed \in [Types -> Nat]
  /\ group \in [Types -> Nat]
  /\ grouped \subseteq Types
  /\ pel \subseteq Messages
  /\ acked \subseteq Messages
  /\ dlq \subseteq Messages \X Handlers
  /\ calls \in [Messages -> [Handlers -> Nat]]
  /\ succeeded \subseteq Messages \X Handlers
  /\ handlers \in [Instances -> [Types -> Seq(Handlers)]]
  /\ order \in [Instances -> Seq(Types)]
  /\ conn \in [Instances -> Seq(Command)]
  /\ sweep \in [Sweeps -> SweepState]
  /\ up \in [Instances -> {"running", "stopping", "closing", "down"}]
  /\ faults \in Nat
  /\ unsubs \in Nat

Init ==
  /\ seqno = [m \in Messages |-> 0]
  /\ trimmed = [t \in Types |-> 0]
  /\ group = [t \in Types |-> 0]
  /\ grouped = {}
  /\ pel = {} /\ acked = {} /\ dlq = {}
  /\ calls = [m \in Messages |-> [h \in Handlers |-> 0]]
  /\ succeeded = {}
  /\ handlers = [i \in Instances |-> [t \in Types |-> <<>>]]
  /\ order = [i \in Instances |-> <<>>]
  /\ conn = [i \in Instances |-> <<>>]
  /\ sweep = [s \in Sweeps |-> IdleSweep]
  /\ up = [i \in Instances |-> "running"]
  /\ faults = 0
  /\ unsubs = 0

\* The last position of a stream.
Length(t) == Cardinality({m \in Messages : TypeOf[m] = t /\ seqno[m] > 0})

\* What a read for '>' can still return.
Undelivered(t) ==
  {m \in Messages : TypeOf[m] = t /\ seqno[m] > group[t] /\ seqno[m] > trimmed[t]}

\* A sweep is at work on type t, and the array of handlers it walks.
Walking(s, t) ==
  /\ sweep[s].pc \in {"reading", "next", "dispatch", "acking"}
  /\ order[HostOf[s]][sweep[s].at] = t

Array(s) ==
  IF sweep[s].live THEN handlers[HostOf[s]][order[HostOf[s]][sweep[s].at]]
                   ELSE sweep[s].hs

(***************************************************************************)
(* publish, subscribe, unsubscribe.                                        *)
(***************************************************************************)
\* XADD ... MAXLEN ~: approximate, so any prefix beyond MaxLen may go.
Publish(m) ==
  LET t == TypeOf[m]
      n == Length(t) + 1
  IN  /\ seqno[m] = 0
      /\ \E i \in Instances : up[i] = "running"
      /\ seqno' = [seqno EXCEPT ![m] = n]
      /\ \E k \in trimmed[t] .. n :
           /\ k = trimmed[t] \/ k + MaxLen <= n
           /\ trimmed' = [trimmed EXCEPT ![t] = k]
      /\ UNCHANGED <<group, grouped, pel, acked, dlq, history, handlers, order, conn,
                     sweep, up, faults, unsubs>>

\* The modules subscribe a handler to a type once.  The array is pushed onto in
\* place: a sweep that is walking it sees the new handler.
Subscribe(i, t, h) ==
  /\ up[i] = "running"
  /\ \A k \in DOMAIN handlers[i][t] : handlers[i][t][k] # h
  /\ handlers' = [handlers EXCEPT ![i][t] = Append(@, h)]
  /\ order' = [order EXCEPT ![i] =
                 IF \E k \in DOMAIN @ : @[k] = t THEN @ ELSE Append(@, t)]
  /\ conn' = [conn EXCEPT ![i] = Append(@, [op |-> "group", type |-> t])]
  /\ UNCHANGED <<redis, history, sweep, up, faults, unsubs>>

\* A new array replaces the old one in the map, without the one position that
\* holds the handler; a sweep keeps the old one.
Unsubscribe(i, t, h) ==
  /\ up[i] = "running"
  /\ unsubs < MaxUnsubscribes
  /\ unsubs' = unsubs + 1
  /\ \E k \in DOMAIN handlers[i][t] :
       /\ handlers[i][t][k] = h
       /\ handlers' = [handlers EXCEPT ![i][t] =
                         SubSeq(@, 1, k - 1) \o SubSeq(@, k + 1, Len(@))]
  /\ sweep' = [s \in Sweeps |->
                 IF HostOf[s] = i /\ sweep[s].live /\ Walking(s, t)
                 THEN [sweep[s] EXCEPT !.live = FALSE, !.hs = handlers[i][t]]
                 ELSE sweep[s]]
  /\ UNCHANGED <<redis, history, order, conn, up, faults>>

(***************************************************************************)
(* consumePendingMessages.                                                 *)
(***************************************************************************)
\* With no subscriptions a sweep does nothing: a stuttering step.
Tick(s) ==
  /\ sweep[s].pc = "idle"
  /\ up[HostOf[s]] = "running"
  /\ \E t \in Types : handlers[HostOf[s]][t] # <<>>
  /\ sweep' = [sweep EXCEPT ![s].pc = "visit"]
  /\ UNCHANGED <<redis, history, handlers, order, conn, up, faults, unsubs>>

\* The loop moves to the next type of the handlers map that has handlers and
\* sends a read for it, or ends.
Visit(s) ==
  LET i == HostOf[s]
      More == {n \in DOMAIN order[i] : n > sweep[s].at /\ handlers[i][order[i][n]] # <<>>}
  IN  /\ sweep[s].pc = "visit"
      /\ \/ /\ More = {}
            /\ sweep' = [sweep EXCEPT ![s] = IdleSweep]
            /\ UNCHANGED conn
         \/ \E n \in More :
              /\ \A k \in More : n <= k
              /\ sweep' = [sweep EXCEPT ![s] = [IdleSweep EXCEPT !.pc = "reading", !.at = n]]
              /\ conn' = [conn EXCEPT ![i] =
                   Append(@, [op |-> "read", sweep |-> s, type |-> order[i][n]])]
      /\ UNCHANGED <<redis, history, handlers, order, up, faults, unsubs>>

\* The next event of what was read, oldest first.
NextMessage(s) ==
  /\ sweep[s].pc = "next"
  /\ \/ /\ sweep[s].msgs = {}
        /\ sweep' = [sweep EXCEPT ![s].pc = "visit"]
     \/ \E m \in sweep[s].msgs :
          /\ \A o \in sweep[s].msgs : seqno[m] <= seqno[o]
          /\ sweep' = [sweep EXCEPT ![s].pc = "dispatch", ![s].msgs = @ \ {m},
                                    ![s].cur = m, ![s].ran = 0, ![s].ok = TRUE]
  /\ UNCHANGED <<redis, history, handlers, order, conn, up, faults, unsubs>>

\* The next handler of the array is run on the event.
Handle(s, h) ==
  /\ sweep[s].pc = "dispatch"
  /\ sweep[s].ran < Len(Array(s))
  /\ h = Array(s)[sweep[s].ran + 1]
  /\ calls' = [calls EXCEPT ![sweep[s].cur][h] = @ + 1]

HandlerSucceeds(s, h) ==
  /\ Handle(s, h)
  /\ succeeded' = succeeded \cup {<<sweep[s].cur, h>>}
  /\ sweep' = [sweep EXCEPT ![s].ran = @ + 1]
  /\ UNCHANGED <<redis, handlers, order, conn, up, faults, unsubs>>

\* Mutant: the arguments of sendToDeadLetterStream are swapped.
HandlerFailsSwapped(s, h) ==
  /\ Handle(s, h)
  /\ up[HostOf[s]] = "running"
  /\ dlq' = dlq \cup {<<h, sweep[s].cur>>}
  /\ sweep' = [sweep EXCEPT ![s].ran = @ + 1, ![s].ok = FALSE]
  /\ UNCHANGED <<seqno, trimmed, group, grouped, pel, acked, succeeded, handlers,
                 order, conn, up, faults, unsubs>>

\* The handler throws and its failure goes to the dead-letter stream.
HandlerFails(s, h) ==
  /\ Handle(s, h)
  /\ up[HostOf[s]] = "running"
  /\ dlq' = dlq \cup {<<sweep[s].cur, h>>}
  /\ sweep' = [sweep EXCEPT ![s].ran = @ + 1, ![s].ok = FALSE]
  /\ UNCHANGED <<seqno, trimmed, group, grouped, pel, acked, succeeded, handlers,
                 order, conn, up, faults, unsubs>>

\* The dead-letter write throws too (Redis fails, or the publisher connection
\* is closed): the catch of the sweep drops the rest of what it read.
DeadLetterFails(s, h) ==
  /\ Handle(s, h)
  /\ \/ up[HostOf[s]] \in {"stopping", "closing"} /\ UNCHANGED faults
     \/ /\ up[HostOf[s]] = "running"
        /\ faults < MaxFaults
        /\ faults' = faults + 1
  /\ sweep' = [sweep EXCEPT ![s] = [IdleSweep EXCEPT !.pc = "visit",
                                                     !.at = sweep[s].at]]
  /\ UNCHANGED <<redis, succeeded, handlers, order, conn, up, unsubs>>

\* Mutant: the acknowledgement does not look at allSucceeded.
DispatchedAlways(s) ==
  /\ sweep[s].pc = "dispatch"
  /\ sweep[s].ran = Len(Array(s))
  /\ sweep' = [sweep EXCEPT ![s].pc = "acking"]
  /\ conn' = [conn EXCEPT ![HostOf[s]] =
       Append(@, [op |-> "ack", sweep |-> s, msg |-> sweep[s].cur])]
  /\ UNCHANGED <<redis, history, handlers, order, up, faults, unsubs>>

\* All handlers have run: acknowledge only if none failed.
Dispatched(s) ==
  /\ sweep[s].pc = "dispatch"
  /\ sweep[s].ran = Len(Array(s))
  /\ \/ /\ sweep[s].ok
        /\ sweep' = [sweep EXCEPT ![s].pc = "acking"]
        /\ conn' = [conn EXCEPT ![HostOf[s]] =
             Append(@, [op |-> "ack", sweep |-> s, msg |-> sweep[s].cur])]
     \/ /\ ~sweep[s].ok
        /\ sweep' = [sweep EXCEPT ![s].pc = "next", ![s].cur = NoMessage]
        /\ UNCHANGED conn
  /\ UNCHANGED <<redis, history, handlers, order, up, faults, unsubs>>

(***************************************************************************)
(* Redis serves the oldest command of a consumer connection.               *)
(***************************************************************************)
Serve(i, op) ==
  /\ conn[i] # <<>>
  /\ Head(conn[i]).op = op
  /\ conn' = [conn EXCEPT ![i] = Tail(@)]

\* Mutants: an existing group is moved to the start, or to the end, of the stream.
ServeGroupRewinds(i) ==
  /\ Serve(i, "group")
  /\ group' = [group EXCEPT ![Head(conn[i]).type] = 0]
  /\ grouped' = grouped \cup {Head(conn[i]).type}
  /\ UNCHANGED <<seqno, trimmed, pel, acked, dlq, history, handlers, order, sweep,
                 up, faults, unsubs>>

ServeGroupSkips(i) ==
  /\ Serve(i, "group")
  /\ group' = [group EXCEPT ![Head(conn[i]).type] = Length(Head(conn[i]).type)]
  /\ grouped' = grouped \cup {Head(conn[i]).type}
  /\ UNCHANGED <<seqno, trimmed, pel, acked, dlq, history, handlers, order, sweep,
                 up, faults, unsubs>>

\* CREATE with '$' starts after the present end of the stream; it fails, and
\* the failure is ignored, when the group exists.
ServeGroup(i) ==
  /\ Serve(i, "group")
  /\ LET t == Head(conn[i]).type
     IN  /\ group' = [group EXCEPT ![t] = IF t \in grouped THEN @ ELSE Length(t)]
         /\ grouped' = grouped \cup {t}
  /\ UNCHANGED <<seqno, trimmed, pel, acked, dlq, history, handlers, order, sweep,
                 up, faults, unsubs>>

\* A read blocks until there is something to return.  The group exists: its
\* CREATE went out on the same connection before any read of the type.
ServeRead(i) ==
  /\ Serve(i, "read")
  /\ LET t == Head(conn[i]).type
         s == Head(conn[i]).sweep
     IN  /\ t \in grouped
         /\ \E D \in SUBSET Undelivered(t) :
              /\ D # {}
              /\ Cardinality(D) <= Count
              /\ D = Undelivered(t) \/ Cardinality(D) = Count
              /\ \A m \in D, o \in Undelivered(t) \ D : seqno[m] < seqno[o]
              /\ \E m \in D :
                   /\ \A o \in D : seqno[o] <= seqno[m]
                   /\ group' = [group EXCEPT ![t] = seqno[m]]
              /\ pel' = pel \cup D
              /\ sweep' = [sweep EXCEPT ![s].pc = "next", ![s].msgs = D]
  /\ UNCHANGED <<seqno, trimmed, grouped, acked, dlq, history, handlers, order, up,
                 faults, unsubs>>

ServeAck(i) ==
  /\ Serve(i, "ack")
  /\ LET m == Head(conn[i]).msg
         s == Head(conn[i]).sweep
     IN  /\ pel' = pel \ {m}
         /\ acked' = acked \cup {m}
         /\ sweep' = [sweep EXCEPT ![s].pc = "next", ![s].cur = NoMessage]
  /\ UNCHANGED <<seqno, trimmed, group, grouped, dlq, history, handlers, order, up,
                 faults, unsubs>>

(***************************************************************************)
(* Life of an instance.  Everything it holds is lost when it goes down;    *)
(* the modules subscribe again when it comes back.                         *)
(***************************************************************************)
Reset(i) ==
  /\ handlers' = [handlers EXCEPT ![i] = [t \in Types |-> <<>>]]
  /\ order' = [order EXCEPT ![i] = <<>>]
  /\ conn' = [conn EXCEPT ![i] = <<>>]
  /\ sweep' = [s \in Sweeps |-> IF HostOf[s] = i THEN IdleSweep ELSE sweep[s]]
  /\ up' = [up EXCEPT ![i] = "down"]
  /\ UNCHANGED <<redis, history, unsubs>>

\* onModuleDestroy stops the timer and closes the publisher first.
OnModuleDestroy(i) ==
  /\ up[i] = "running"
  /\ faults < MaxFaults
  /\ faults' = faults + 1
  /\ up' = [up EXCEPT ![i] = "stopping"]
  /\ UNCHANGED <<redis, history, handlers, order, conn, sweep, unsubs>>

\* The publisher is closed: QUIT is sent on the consumer connection, behind
\* whatever the sweeps have sent.
QuitConsumer(i) ==
  /\ up[i] = "stopping"
  /\ up' = [up EXCEPT ![i] = "closing"]
  /\ conn' = [conn EXCEPT ![i] = Append(@, [op |-> "quit"])]
  /\ UNCHANGED <<redis, history, handlers, order, sweep, faults, unsubs>>

\* QUIT is answered: onModuleDestroy resolves and the process ends.
ServeQuit(i) ==
  /\ conn[i] # <<>>
  /\ Head(conn[i]).op = "quit"
  /\ Reset(i)
  /\ UNCHANGED faults

Crash(i) ==
  /\ up[i] # "down"
  /\ faults < MaxFaults
  /\ faults' = faults + 1
  /\ Reset(i)

Restart(i) ==
  /\ up[i] = "down"
  /\ up' = [up EXCEPT ![i] = "running"]
  /\ UNCHANGED <<redis, history, handlers, order, conn, sweep, faults, unsubs>>

-------------------------------------------------------------------------------
Sweeping(s) ==
  \/ Visit(s)
  \/ NextMessage(s)
  \/ Dispatched(s)
  \/ \E h \in Handlers : HandlerSucceeds(s, h) \/ HandlerFails(s, h) \/ DeadLetterFails(s, h)

Serving(i) ==
  ServeGroup(i) \/ ServeRead(i) \/ ServeAck(i) \/ ServeQuit(i)

Subscribing(i) == \E t \in Types, h \in Handlers : Subscribe(i, t, h)

Next ==
  \/ \E m \in Messages : Publish(m)
  \/ \E s \in Sweeps : Tick(s) \/ Sweeping(s)
  \/ \E i \in Instances :
       \/ Serving(i)
       \/ Subscribing(i)
       \/ \E t \in Types, h \in Handlers : Unsubscribe(i, t, h)
       \/ OnModuleDestroy(i)
       \/ QuitConsumer(i)
       \/ Crash(i)
       \/ Restart(i)

Spec == Init /\ [][Next]_vars

(***************************************************************************)
(* Fairness.  The timer ticks, a handler settles, Redis answers what it    *)
(* can answer, a dead instance is replaced, and the modules of a running   *)
(* instance subscribe their handlers.  Nothing is assumed of publishers,   *)
(* of the outcome of a handler, or of unsubscribe.                         *)
(***************************************************************************)
FairSpec ==
  /\ Spec
  /\ \A s \in Sweeps : WF_vars(Tick(s)) /\ WF_vars(Sweeping(s))
  /\ \A i \in Instances :
       /\ WF_vars(Serving(i))
       /\ WF_vars(Subscribing(i))
       /\ WF_vars(QuitConsumer(i))
       /\ WF_vars(Restart(i))

-------------------------------------------------------------------------------
(***************************************************************************)
(* Properties that hold.                                                   *)
(***************************************************************************)

\* No handler is run twice for an event, by any instance or sweep, although
\* sweeps overlap and every instance reads under the same consumer name: a
\* read for '>' never returns what another read of the group has returned.
HandledAtMostOnce ==
  \A m \in Messages, h \in Handlers : calls[m][h] <= 1

\* An acknowledged event is no longer pending, was handled by somebody, and no
\* handler that was run for it failed, nor is it on the dead-letter stream:
\* dispatchToHandlers acknowledges only when all handlers succeeded.
AckedWasHandled ==
  \A m \in acked :
    /\ m \notin pel
    /\ \E h \in Handlers : <<m, h>> \in succeeded
    /\ \A h \in Handlers : /\ <<m, h>> \notin dlq
                          /\ calls[m][h] > 0 => <<m, h>> \in succeeded

(***************************************************************************)
(* Promises of the documentation.                                          *)
(***************************************************************************)

\* "at-least-once delivery": an event a consumer group has yet to deliver is
\* eventually handled, or trimmed from its stream (MAXLEN).
AtLeastOnce ==
  \A m \in Messages :
    (TypeOf[m] \in grouped /\ m \in Undelivered(TypeOf[m]))
      ~> \/ \E h \in Handlers : calls[m][h] > 0
         \/ seqno[m] <= trimmed[TypeOf[m]]
===============================================================================
