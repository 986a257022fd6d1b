------------------------------- MODULE BusProofs -------------------------------
(***************************************************************************)
(* Proofs about the Redis streams bus, for every set of types, events,     *)
(* handlers, instances and sweeps, and every bound.                        *)
(***************************************************************************)
EXTENDS RedisStreamsBus, FiniteSetTheorems, SequenceTheorems, TLAPS

(***************************************************************************)
(* The inductive invariant.  An event that a read has returned lies at or  *)
(* before the group's position, which never moves back, so no other read   *)
(* returns it; until its handlers have run it is held by one sweep; and    *)
(* only handlers early in the array that sweep walks have run for it.      *)
(***************************************************************************)
Delivered(m) == seqno[m] > 0 /\ seqno[m] <= group[TypeOf[m]]

Dispatching(s, m) == sweep[s].pc = "dispatch" /\ sweep[s].cur = m

Holds(s, m) == m \in sweep[s].msgs \/ Dispatching(s, m)

AtWork(s) == sweep[s].pc \in {"reading", "next", "dispatch", "acking"}

Distinct(q) == \A j, k \in DOMAIN q : q[j] = q[k] => j = k

\* A group that does not exist has no position.
GroupSound == \A t \in Types : t \notin grouped => group[t] = 0

HeldSound ==
  /\ \A s \in Sweeps, m \in Messages : Holds(s, m) => Delivered(m)
  /\ \A r, s \in Sweeps, m \in Messages : Holds(r, m) /\ Holds(s, m) => r = s
  /\ \A s \in Sweeps : Dispatching(s, sweep[s].cur) => sweep[s].cur \notin sweep[s].msgs

\* What has been run was delivered, and is no longer waiting in a sweep.
CallsSound ==
  /\ \A m \in Messages, h \in Handlers :
       calls[m][h] > 0 => Delivered(m) /\ \A s \in Sweeps : m \notin sweep[s].msgs
  /\ \A m \in Messages, h \in Handlers : <<m, h>> \in dlq => calls[m][h] > 0

\* The arrays of handlers, in the map and in the sweeps that walk them.
ArraySound(s) == Array(s) \in Seq(Handlers) /\ Array(s) # <<>> /\ Distinct(Array(s))

ArraysSound ==
  /\ \A i \in Instances, t \in Types : Distinct(handlers[i][t])
  /\ \A s \in Sweeps :
       AtWork(s) => sweep[s].at \in DOMAIN order[HostOf[s]] /\ ArraySound(s)

\* No handler that was run for the event failed.
Clean(m) ==
  \A h \in Handlers : calls[m][h] > 0 => <<m, h>> \in succeeded /\ <<m, h>> \notin dlq

Succeeded(m) == \E h \in Handlers : <<m, h>> \in succeeded

DispatchSound(s, m) ==
  /\ m \in Messages
  /\ sweep[s].ran <= Len(Array(s))
  /\ \A h \in Handlers : calls[m][h] > 0 => \E k \in 1..sweep[s].ran : Array(s)[k] = h
  /\ sweep[s].ok => Clean(m) /\ (sweep[s].ran > 0 => Succeeded(m))

\* An event that is acknowledged, or about to be: nobody will run it again.
Finished(m) ==
  /\ Delivered(m)
  /\ \A s \in Sweeps : ~Holds(s, m)
  /\ Clean(m)
  /\ Succeeded(m)

\* A sweep waits for one command at a time.
WaitsFor(s, c) ==
  /\ c.op = "read" => sweep[s].pc = "reading"
  /\ c.op = "ack" => sweep[s].pc = "acking" /\ Finished(c.msg)

CommandsSound(i) ==
  /\ \A k \in DOMAIN conn[i] : conn[i][k].op \in {"read", "ack"} =>
       /\ HostOf[conn[i][k].sweep] = i
       /\ WaitsFor(conn[i][k].sweep, conn[i][k])
  /\ \A j, k \in DOMAIN conn[i] :
       /\ conn[i][j].op \in {"read", "ack"} /\ conn[i][k].op \in {"read", "ack"}
       /\ conn[i][j].sweep = conn[i][k].sweep
       => j = k

ConnectionsSound == \A i \in Instances : CommandsSound(i)

DispatchesSound ==
  \A s \in Sweeps : sweep[s].pc = "dispatch" => DispatchSound(s, sweep[s].cur)

AckedSound == \A m \in acked : Finished(m) /\ m \notin pel

IInv ==
  /\ TypeOK
  /\ GroupSound
  /\ HeldSound
  /\ CallsSound
  /\ ArraysSound
  /\ DispatchesSound
  /\ ConnectionsSound
  /\ HandledAtMostOnce
  /\ AckedSound

(***************************************************************************)
(* What most steps leave alone, and the parts of the invariant that follow *)
(* from it.                                                                *)
(***************************************************************************)
Forward == \A m \in Messages : Delivered(m) => Delivered(m)'

NoNewHolder == \A s \in Sweeps, m \in Messages : Holds(s, m)' => Holds(s, m)

SameHistory == calls' = calls /\ succeeded' = succeeded /\ dlq' = dlq

\* A sweep that waits for an answer goes on waiting.
Patient(s) == sweep[s].pc \in {"reading", "acking"} => sweep'[s].pc = sweep[s].pc

FinishedForward == \A m \in Messages : Finished(m) => Finished(m)'

\* The group's position never moves back, so what was delivered stays so.
LEMMA PositionsForward ==
  ASSUME TypeOK, TypeOK',
         \A t \in Types : group[t] <= group'[t],
         \A m \in Messages : seqno[m] > 0 => seqno'[m] = seqno[m]
  PROVE  Forward
  BY BusAssumption DEF Forward, Delivered, TypeOK

\* An event that is finished stays finished.
LEMMA FinishedStays ==
  ASSUME Forward, NoNewHolder, SameHistory
  PROVE  FinishedForward
  BY DEF Forward, NoNewHolder, SameHistory, FinishedForward, Finished, Clean, Succeeded

\* Events that change hands only by being dropped or taken up.
LEMMA HeldKeeps ==
  ASSUME HeldSound, Forward, NoNewHolder,
         \A s \in Sweeps : sweep'[s].pc = "dispatch" => sweep'[s].cur \notin sweep'[s].msgs
  PROVE  HeldSound'
  BY DEF HeldSound, Forward, NoNewHolder, Dispatching

\* Steps that run no handler.
LEMMA CallsKeep ==
  ASSUME CallsSound, HandledAtMostOnce, Forward, SameHistory,
         \A s \in Sweeps : sweep'[s].msgs \subseteq sweep[s].msgs
  PROVE  CallsSound' /\ HandledAtMostOnce'
  BY DEF CallsSound, HandledAtMostOnce, Forward, SameHistory

\* Steps that leave the arrays alone.
LEMMA ArraysKeep ==
  ASSUME ArraysSound, handlers' = handlers, order' = order,
         \A s \in Sweeps : AtWork(s)' =>
           /\ AtWork(s) /\ sweep'[s].at = sweep[s].at
           /\ sweep'[s].live = sweep[s].live /\ sweep'[s].hs = sweep[s].hs
  PROVE  /\ ArraysSound'
         /\ \A s \in Sweeps : AtWork(s)' => Array(s)' = Array(s)
<1>1. ASSUME NEW s \in Sweeps, AtWork(s)'
      PROVE  Array(s)' = Array(s)
  BY <1>1 DEF Array
<1>2. ASSUME NEW s \in Sweeps, AtWork(s)'
      PROVE  (sweep[s].at \in DOMAIN order[HostOf[s]] /\ ArraySound(s))'
  BY <1>1, <1>2 DEF ArraysSound, ArraySound
<1> QED
  BY <1>1, <1>2 DEF ArraysSound

\* A sweep that is running handlers and is left alone.
LEMMA DispatchKeeps ==
  ASSUME NEW s \in Sweeps, sweep'[s] = sweep[s], SameHistory, Array(s)' = Array(s),
         DispatchSound(s, sweep[s].cur)
  PROVE  DispatchSound(s, sweep[s].cur)'
  BY DEF DispatchSound, SameHistory, Clean, Succeeded

\* What a command that a sweep waits for carries.
LEMMA CommandTyped ==
  ASSUME NEW c \in Command
  PROVE  /\ c.op \in {"read", "ack"} => c.sweep \in Sweeps
         /\ c.op = "read" => c.type \in Types
         /\ c.op = "group" => c.type \in Types
         /\ c.op = "ack" => c.msg \in Messages
  BY DEF Command

\* Whether a command waits in a connection as it should.
Waits(i, c) ==
  c.op \in {"read", "ack"} => HostOf[c.sweep] = i /\ WaitsFor(c.sweep, c)

\* A command keeps its place as long as its sweep waits.
LEMMA WaitsKeeps ==
  ASSUME FinishedForward, NEW i \in Instances, NEW c \in Command, Waits(i, c),
         c.op \in {"read", "ack"} => Patient(c.sweep)
  PROVE  Waits(i, c)'
<1>1. CASE c.op = "read"
  BY <1>1 DEF Waits, WaitsFor, Patient
<1>2. CASE c.op = "ack"
  <2>1. c.msg \in Messages
    BY <1>2, CommandTyped
  <2> QED BY <1>2, <2>1 DEF Waits, WaitsFor, Patient, FinishedForward
<1> QED
  BY <1>1, <1>2 DEF Waits

\* A connection nothing is sent on and nothing is answered on.
LEMMA CommandsKeep ==
  ASSUME TypeOK, FinishedForward, NEW i \in Instances, CommandsSound(i),
         conn'[i] = conn[i],
         \A s \in Sweeps : HostOf[s] = i => Patient(s)
  PROVE  CommandsSound(i)'
<1>1. \A k \in DOMAIN conn[i] : conn[i][k] \in Command /\ Waits(i, conn[i][k])
  BY DEF TypeOK, CommandsSound, Waits
<1>2. \A k \in DOMAIN conn[i] : Waits(i, conn[i][k])'
  BY <1>1, WaitsKeeps, CommandTyped DEF Waits
<1> QED
  BY <1>2 DEF CommandsSound, Waits

\* The oldest command is answered.
LEMMA CommandsShift ==
  ASSUME TypeOK, FinishedForward, NEW i \in Instances, CommandsSound(i),
         conn[i] # <<>>, conn'[i] = Tail(conn[i]),
         \A s \in Sweeps :
           HostOf[s] = i /\ (Head(conn[i]).op \in {"read", "ack"} => s # Head(conn[i]).sweep)
           => Patient(s)
  PROVE  CommandsSound(i)'
<1>0. PICK q : q = conn[i]
  OBVIOUS
<1>1. q \in Seq(Command) /\ q # <<>>
  BY <1>0 DEF TypeOK
<1>2. /\ Len(q) \in Nat \ {0} /\ DOMAIN q = 1..Len(q) /\ Head(q) = q[1]
      /\ Len(Tail(q)) = Len(q) - 1 /\ DOMAIN Tail(q) = 1..(Len(q) - 1)
      /\ \A k \in 1..(Len(q) - 1) : Tail(q)[k] = q[k + 1]
      /\ \A k \in 1..Len(q) : q[k] \in Command
  BY <1>1
<1>3. \A k \in DOMAIN q : Waits(i, q[k])
  BY <1>0 DEF CommandsSound, Waits
<1>4. \A j, k \in DOMAIN q :
        /\ q[j].op \in {"read", "ack"} /\ q[k].op \in {"read", "ack"}
        /\ q[j].sweep = q[k].sweep
        => j = k
  BY <1>0 DEF CommandsSound
<1>5. \A k \in 1..(Len(q) - 1) : k \in DOMAIN q /\ k + 1 \in DOMAIN q /\ k + 1 # 1
  BY <1>2
<1>6. ASSUME NEW k \in 1..(Len(q) - 1)
      PROVE  Waits(i, Tail(q)[k])'
  <2>1. q[k + 1] \in Command /\ Waits(i, q[k + 1])
    BY <1>2, <1>3, <1>5
  <2>2. q[k + 1].op \in {"read", "ack"} => Patient(q[k + 1].sweep)
    <3> SUFFICES ASSUME q[k + 1].op \in {"read", "ack"}
                 PROVE  Patient(q[k + 1].sweep)
      OBVIOUS
    <3>1. q[k + 1].sweep \in Sweeps /\ HostOf[q[k + 1].sweep] = i
      BY <2>1, CommandTyped DEF Waits
    <3>2. Head(q).op \in {"read", "ack"} => q[k + 1].sweep # Head(q).sweep
      BY <1>2, <1>4, <1>5
    <3> QED BY <1>0, <3>1, <3>2
  <2>3. Waits(i, q[k + 1])'
    BY <2>1, <2>2, WaitsKeeps
  <2> QED BY <1>2, <2>3
<1>7. \A j, k \in DOMAIN Tail(q) :
        /\ Tail(q)[j].op \in {"read", "ack"} /\ Tail(q)[k].op \in {"read", "ack"}
        /\ Tail(q)[j].sweep = Tail(q)[k].sweep
        => j = k
  <2> SUFFICES ASSUME NEW j \in 1..(Len(q) - 1), NEW k \in 1..(Len(q) - 1),
                      q[j + 1].op \in {"read", "ack"}, q[k + 1].op \in {"read", "ack"},
                      q[j + 1].sweep = q[k + 1].sweep
               PROVE  j = k
    BY <1>2
  <2>1. j + 1 = k + 1
    BY <1>4, <1>5
  <2> QED BY <1>2, <2>1
<1>8. conn'[i] = Tail(q)
  BY <1>0
<1> QED
  BY <1>2, <1>6, <1>7, <1>8 DEF CommandsSound, Waits

\* A command is sent: a sweep that sends one was not waiting.
LEMMA CommandsAppend ==
  ASSUME TypeOK, FinishedForward, NEW i \in Instances, CommandsSound(i),
         NEW c \in Command, conn'[i] = Append(conn[i], c), Waits(i, c)',
         c.op \in {"read", "ack"} => sweep[c.sweep].pc \notin {"reading", "acking"},
         \A s \in Sweeps : HostOf[s] = i => Patient(s)
  PROVE  CommandsSound(i)'
<1>0. PICK q : q = conn[i]
  OBVIOUS
<1>1. q \in Seq(Command)
  BY <1>0 DEF TypeOK
<1>2. /\ Len(q) \in Nat /\ DOMAIN q = 1..Len(q)
      /\ DOMAIN Append(q, c) = 1..(Len(q) + 1)
      /\ \A k \in 1..Len(q) : Append(q, c)[k] = q[k] /\ q[k] \in Command
      /\ Append(q, c)[Len(q) + 1] = c
  BY <1>1
<1>3. \A k \in DOMAIN q : Waits(i, q[k])
  BY <1>0 DEF CommandsSound, Waits
<1>4. \A j, k \in DOMAIN q :
        /\ q[j].op \in {"read", "ack"} /\ q[k].op \in {"read", "ack"}
        /\ q[j].sweep = q[k].sweep
        => j = k
  BY <1>0 DEF CommandsSound
<1>5. conn'[i] = Append(q, c)
  BY <1>0
<1>6. \A k \in DOMAIN q : Waits(i, q[k])'
  BY <1>2, <1>3, WaitsKeeps, CommandTyped DEF Waits
<1>7. \A k \in DOMAIN q :
        q[k].op \in {"read", "ack"} /\ c.op \in {"read", "ack"} => q[k].sweep # c.sweep
  BY <1>3 DEF Waits, WaitsFor
<1>8. \A k \in 1..(Len(q) + 1) : k \in 1..Len(q) \/ k = Len(q) + 1
  BY <1>2
<1>9. \A k \in DOMAIN Append(q, c) : Waits(i, Append(q, c)[k])'
  BY <1>2, <1>6, <1>8
<1>10. \A j, k \in DOMAIN Append(q, c) :
        /\ Append(q, c)[j].op \in {"read", "ack"} /\ Append(q, c)[k].op \in {"read", "ack"}
        /\ Append(q, c)[j].sweep = Append(q, c)[k].sweep
        => j = k
  BY <1>2, <1>4, <1>7, <1>8
<1> QED
  BY <1>5, <1>9, <1>10 DEF CommandsSound, Waits

\* Acknowledged events are as finished as before.
LEMMA AckedKeep ==
  ASSUME TypeOK, AckedSound, FinishedForward, acked' = acked, pel' = pel
  PROVE  AckedSound'
  BY DEF TypeOK, AckedSound, FinishedForward

\* Sending a command leaves commands in the connections.
LEMMA SendTyped ==
  ASSUME conn \in [Instances -> Seq(Command)], NEW i \in Instances, NEW c \in Command
  PROVE  /\ [conn EXCEPT ![i] = Append(conn[i], c)] \in [Instances -> Seq(Command)]
         /\ [conn EXCEPT ![i] = Append(conn[i], c)][i] = Append(conn[i], c)
         /\ \A j \in Instances \ {i} : [conn EXCEPT ![i] = Append(conn[i], c)][j] = conn[j]
<1>1. Append(conn[i], c) \in Seq(Command)
  OBVIOUS
<1> QED
  BY <1>1

(***************************************************************************)
(* Steps that touch no sweep and run no handler.                           *)
(***************************************************************************)
Aside ==
  /\ UNCHANGED <<calls, succeeded, dlq, handlers, order, sweep, pel, acked>>
  /\ \A i \in Instances :
       \/ conn'[i] = conn[i]
       \/ conn[i] # <<>> /\ Head(conn[i]).op \notin {"read", "ack"}
          /\ conn'[i] = Tail(conn[i])
       \/ \E c \in Command :
            c.op \notin {"read", "ack"} /\ conn'[i] = Append(conn[i], c)

\* Such a step keeps the invariant if no group moves back.
LEMMA AsideKeeps ==
  ASSUME IInv, TypeOK', GroupSound', Forward, Aside
  PROVE  IInv'
<1> USE DEF IInv
<1>1. NoNewHolder /\ SameHistory
  BY DEF Aside, NoNewHolder, SameHistory, Holds, Dispatching
<1>2. FinishedForward
  BY <1>1, FinishedStays
<1>3. HeldSound'
  BY <1>1, HeldKeeps DEF Aside, HeldSound, Dispatching
<1>4. CallsSound' /\ HandledAtMostOnce'
  BY <1>1, CallsKeep DEF Aside
<1>5. ArraysSound' /\ \A s \in Sweeps : AtWork(s)' => Array(s)' = Array(s)
  BY ArraysKeep DEF Aside, AtWork
<1>6. DispatchesSound'
  BY <1>1, <1>5, DispatchKeeps DEF Aside, DispatchesSound, AtWork
<1>7. ConnectionsSound'
  <2> SUFFICES ASSUME NEW i \in Instances PROVE CommandsSound(i)'
    BY DEF ConnectionsSound
  <2>1. CommandsSound(i) /\ \A s \in Sweeps : Patient(s)
    BY DEF ConnectionsSound, Aside, Patient
  <2>2. CASE conn'[i] = conn[i]
    BY <1>2, <2>1, <2>2, CommandsKeep
  <2>3. CASE conn[i] # <<>> /\ conn'[i] = Tail(conn[i])
    BY <1>2, <2>1, <2>3, CommandsShift
  <2>4. ASSUME NEW c \in Command, c.op \notin {"read", "ack"}, conn'[i] = Append(conn[i], c)
        PROVE  CommandsSound(i)'
    <3>1. Waits(i, c)'
      BY <2>4 DEF Waits
    <3> QED BY <1>2, <2>1, <2>4, <3>1, CommandsAppend
  <2> QED BY <2>2, <2>3, <2>4 DEF Aside
<1>8. AckedSound'
  BY <1>2, AckedKeep DEF Aside
<1> QED
  BY <1>3, <1>4, <1>5, <1>6, <1>7, <1>8

\* The last position of a stream is a number.
LEMMA LengthIsNat ==
  ASSUME NEW t \in Types
  PROVE  Length(t) \in Nat
<1>1. {m \in Messages : TypeOf[m] = t /\ seqno[m] > 0} \in SUBSET Messages
  OBVIOUS
<1> QED
  BY <1>1, BusAssumption, FS_Subset, FS_CardinalityType DEF Length

\* XADD gives an event that had none a position.
LEMMA PublishKeeps ==
  ASSUME IInv, NEW m \in Messages, Publish(m)
  PROVE  IInv'
<1> USE DEF IInv
<1>1. TypeOf[m] \in Types /\ Length(TypeOf[m]) \in Nat
  BY BusAssumption, LengthIsNat
<1>2. PICK k \in trimmed[TypeOf[m]] .. (Length(TypeOf[m]) + 1) :
        trimmed' = [trimmed EXCEPT ![TypeOf[m]] = k]
  BY DEF Publish
<1>3. /\ seqno' = [seqno EXCEPT ![m] = Length(TypeOf[m]) + 1]
      /\ seqno[m] = 0
      /\ UNCHANGED <<group, grouped, pel, acked, dlq, calls, succeeded, handlers, order,
                     conn, sweep, up, faults, unsubs>>
  BY DEF Publish, history
<1>4. k \in Nat
  BY <1>1, <1>2 DEF TypeOK
<1>5. seqno' \in [Messages -> Nat] /\ trimmed' \in [Types -> Nat]
  BY <1>1, <1>2, <1>3, <1>4 DEF TypeOK
<1>6. TypeOK'
  BY <1>3, <1>5 DEF TypeOK
<1>7. Forward
  <2>1. \A n \in Messages : seqno[n] > 0 => seqno'[n] = seqno[n]
    BY <1>3 DEF TypeOK
  <2>2. \A t \in Types : group[t] <= group'[t]
    BY <1>3 DEF TypeOK
  <2> QED BY <1>6, <2>1, <2>2, PositionsForward
<1>8. GroupSound' /\ Aside
  BY <1>3 DEF GroupSound, Aside
<1> QED
  BY <1>6, <1>7, <1>8, AsideKeeps

\* XGROUP CREATE never moves a group that exists.
LEMMA ServeGroupKeeps ==
  ASSUME IInv, NEW i \in Instances, ServeGroup(i)
  PROVE  IInv'
<1> USE DEF IInv
<1>1. PICK c : c = Head(conn[i])
  OBVIOUS
<1>2. /\ conn[i] # <<>> /\ c.op = "group"
      /\ conn' = [conn EXCEPT ![i] = Tail(conn[i])]
      /\ group' = [group EXCEPT ![c.type] =
                     IF c.type \in grouped THEN group[c.type] ELSE Length(c.type)]
      /\ grouped' = grouped \cup {c.type}
      /\ UNCHANGED <<seqno, trimmed, pel, acked, dlq, calls, succeeded, handlers, order,
                     sweep, up, faults, unsubs>>
  BY <1>1 DEF ServeGroup, Serve, history
<1>3. c \in Command /\ Tail(conn[i]) \in Seq(Command)
  BY <1>1, <1>2 DEF TypeOK
<1>4. c.type \in Types /\ Length(c.type) \in Nat
  BY <1>2, <1>3, CommandTyped, LengthIsNat
<1>5. group' \in [Types -> Nat] /\ conn' \in [Instances -> Seq(Command)]
  BY <1>2, <1>3, <1>4 DEF TypeOK
<1>6. TypeOK'
  BY <1>2, <1>4, <1>5 DEF TypeOK
<1>7. \A t \in Types : group[t] <= group'[t]
  BY <1>2, <1>4 DEF TypeOK, GroupSound
<1>8. Forward
  BY <1>2, <1>6, <1>7, PositionsForward
<1>9. GroupSound'
  BY <1>2, <1>4 DEF GroupSound, TypeOK
<1>10. Aside
  <2>1. \A j \in Instances : conn'[j] = conn[j] \/ (j = i /\ conn'[j] = Tail(conn[j]))
    BY <1>2 DEF TypeOK
  <2> QED BY <1>1, <1>2, <2>1 DEF Aside
<1> QED
  BY <1>6, <1>8, <1>9, <1>10, AsideKeeps

\* Shutdown begins, QUIT is sent, an instance comes back.
LEMMA LifeKeeps ==
  ASSUME IInv, NEW i \in Instances, OnModuleDestroy(i) \/ QuitConsumer(i) \/ Restart(i)
  PROVE  IInv'
<1> USE DEF IInv
<1>1. /\ UNCHANGED <<seqno, trimmed, group, grouped, pel, acked, dlq, calls, succeeded,
                     handlers, order, sweep, unsubs>>
      /\ faults' \in {faults, faults + 1}
      /\ up' \in {[up EXCEPT ![i] = "stopping"], [up EXCEPT ![i] = "closing"],
                  [up EXCEPT ![i] = "running"]}
      /\ conn' \in {conn, [conn EXCEPT ![i] = Append(conn[i], [op |-> "quit"])]}
  BY DEF OnModuleDestroy, QuitConsumer, Restart, redis, history
<1>2. [op |-> "quit"] \in Command
  BY DEF Command
<1>3. /\ conn' \in [Instances -> Seq(Command)]
      /\ \A j \in Instances :
           conn'[j] = conn[j] \/ conn'[j] = Append(conn[j], [op |-> "quit"])
  <2>1. conn \in [Instances -> Seq(Command)]
    BY DEF TypeOK
  <2>2. PICK c \in Command : c = [op |-> "quit"]
    BY <1>2
  <2>3. conn' = conn \/ conn' = [conn EXCEPT ![i] = Append(conn[i], c)]
    BY <1>1, <2>2
  <2>4. CASE conn' = conn
    BY <2>1, <2>4
  <2>5. CASE conn' = [conn EXCEPT ![i] = Append(conn[i], c)]
    <3>1. conn' \in [Instances -> Seq(Command)] /\ conn'[i] = Append(conn[i], c)
      BY <2>1, <2>5, SendTyped
    <3>2. \A j \in Instances \ {i} : conn'[j] = conn[j]
      BY <2>1, <2>5, SendTyped
    <3> QED BY <2>2, <3>1, <3>2
  <2> QED BY <2>3, <2>4, <2>5
<1>4. TypeOK'
  <2>1. up' \in [Instances -> {"running", "stopping", "closing", "down"}]
    BY <1>1 DEF TypeOK
  <2>2. faults' \in Nat
    BY <1>1 DEF TypeOK
  <2> QED BY <1>1, <1>3, <2>1, <2>2 DEF TypeOK
<1>5. Forward /\ GroupSound'
  BY <1>1 DEF Forward, Delivered, GroupSound
<1>6. Aside
  <2>1. [op |-> "quit"].op \notin {"read", "ack"}
    OBVIOUS
  <2> QED BY <1>1, <1>2, <1>3, <2>1 DEF Aside
<1> QED
  BY <1>4, <1>5, <1>6, AsideKeeps

(***************************************************************************)
(* Steps of one sweep that run no handler.                                 *)
(***************************************************************************)
Moves(s) ==
  /\ UNCHANGED <<seqno, group, grouped, calls, succeeded, dlq, handlers, order>>
  /\ \A q \in Sweeps \ {s} : sweep'[q] = sweep[q]
  /\ sweep'[s].msgs \subseteq sweep[s].msgs
  /\ sweep'[s].pc = "dispatch" =>
       /\ Holds(s, sweep'[s].cur)
       /\ sweep'[s].cur \notin sweep'[s].msgs
       /\ DispatchSound(s, sweep[s].cur)'
  /\ AtWork(s)' => sweep'[s].at \in DOMAIN order[HostOf[s]] /\ ArraySound(s)'

\* A sweep that moves takes no event from another, and finishes none.
LEMMA MoveForward ==
  ASSUME NEW s \in Sweeps, Moves(s)
  PROVE  Forward /\ NoNewHolder /\ SameHistory /\ FinishedForward
<1>1. Forward
  BY DEF Moves, Forward, Delivered
<1>2. NoNewHolder
  <2> SUFFICES ASSUME NEW q \in Sweeps, NEW m \in Messages, Holds(q, m)'
               PROVE  Holds(q, m)
    BY DEF NoNewHolder
  <2>1. CASE q # s
    BY <2>1 DEF Moves, Holds, Dispatching
  <2>2. CASE q = s
    BY <2>2 DEF Moves, Holds, Dispatching
  <2> QED BY <2>1, <2>2
<1>3. SameHistory
  BY DEF Moves, SameHistory
<1> QED
  BY <1>1, <1>2, <1>3, FinishedStays

\* So it keeps the invariant, given its commands and the acknowledged events.
LEMMA MoveKeeps ==
  ASSUME IInv, TypeOK', NEW s \in Sweeps, Moves(s), ConnectionsSound', AckedSound'
  PROVE  IInv'
<1> USE DEF IInv
<1>1. Forward /\ NoNewHolder /\ SameHistory
  BY MoveForward
<1>2. GroupSound'
  BY DEF Moves, GroupSound
<1>3. HeldSound'
  <2>1. \A q \in Sweeps : sweep'[q].pc = "dispatch" => sweep'[q].cur \notin sweep'[q].msgs
    BY DEF Moves, HeldSound, Dispatching
  <2> QED BY <1>1, <2>1, HeldKeeps
<1>4. CallsSound' /\ HandledAtMostOnce'
  <2>1. \A q \in Sweeps : sweep'[q].msgs \subseteq sweep[q].msgs
    BY DEF Moves
  <2> QED BY <1>1, <2>1, CallsKeep
<1>5. \A q \in Sweeps \ {s} : /\ Array(q)' = Array(q)
                              /\ AtWork(q)' <=> AtWork(q)
  BY DEF Moves, Array, AtWork
<1>6. ArraysSound'
  <2>1. \A i \in Instances, t \in Types : Distinct(handlers[i][t])'
    BY DEF Moves, ArraysSound
  <2>2. ASSUME NEW q \in Sweeps, AtWork(q)'
        PROVE  (sweep[q].at \in DOMAIN order[HostOf[q]] /\ ArraySound(q))'
    <3>1. CASE q = s
      BY <2>2, <3>1 DEF Moves
    <3>2. CASE q # s
      BY <1>5, <2>2, <3>2 DEF Moves, ArraysSound, ArraySound
    <3> QED BY <3>1, <3>2
  <2> QED BY <2>1, <2>2 DEF ArraysSound
<1>7. DispatchesSound'
  <2> SUFFICES ASSUME NEW q \in Sweeps, sweep'[q].pc = "dispatch"
               PROVE  DispatchSound(q, sweep[q].cur)'
    BY DEF DispatchesSound
  <2>1. CASE q = s
    BY <2>1 DEF Moves
  <2>2. CASE q # s
    BY <1>1, <1>5, <2>2, DispatchKeeps DEF Moves, DispatchesSound
  <2> QED BY <2>1, <2>2
<1> QED
  BY <1>2, <1>3, <1>4, <1>6, <1>7

\* A moving sweep that was not waiting leaves the other commands alone.
LEMMA MoveConnections ==
  ASSUME IInv, NEW s \in Sweeps, Moves(s), sweep[s].pc \notin {"reading", "acking"},
         conn' = conn
  PROVE  ConnectionsSound'
<1>1. \A q \in Sweeps : Patient(q)
  BY DEF Moves, Patient
<1> QED
  BY <1>1, MoveForward, CommandsKeep DEF IInv, ConnectionsSound

\* A tick of the timer.
LEMMA TickKeeps ==
  ASSUME IInv, NEW s \in Sweeps, Tick(s)
  PROVE  IInv'
<1>1. /\ sweep' \in [Sweeps -> SweepState]
      /\ sweep[s].pc = "idle" /\ sweep'[s].pc = "visit" /\ sweep'[s].msgs = sweep[s].msgs
      /\ \A q \in Sweeps \ {s} : sweep'[q] = sweep[q]
  <2>1. sweep \in [Sweeps -> SweepState] /\ sweep[s].pc = "idle"
    BY DEF IInv, TypeOK, Tick
  <2>2. sweep' = [sweep EXCEPT ![s].pc = "visit"]
    BY DEF Tick
  <2> QED BY <2>1, <2>2 DEF SweepState
<1>2. UNCHANGED <<seqno, trimmed, group, grouped, pel, acked, dlq, calls, succeeded,
                  handlers, order, conn, up, faults, unsubs>>
  BY DEF Tick, redis, history
<1>3. TypeOK'
  BY <1>1, <1>2 DEF IInv, TypeOK
<1>4. Moves(s)
  BY <1>1, <1>2 DEF Moves, AtWork
<1>5. ConnectionsSound' /\ AckedSound'
  BY <1>1, <1>2, <1>4, MoveConnections, MoveForward, AckedKeep DEF IInv
<1> QED
  BY <1>3, <1>4, <1>5, MoveKeeps

\* The next event is taken up: no handler has been run for it.
LEMMA NextMessageKeeps ==
  ASSUME IInv, NEW s \in Sweeps, NextMessage(s)
  PROVE  IInv'
<1> USE DEF IInv
<1>1. UNCHANGED <<seqno, trimmed, group, grouped, pel, acked, dlq, calls, succeeded,
                  handlers, order, conn, up, faults, unsubs>>
  BY DEF NextMessage, redis, history
<1>2. sweep[s].pc = "next" /\ sweep \in [Sweeps -> SweepState]
  BY DEF NextMessage, TypeOK
<1>3. CASE sweep' = [sweep EXCEPT ![s].pc = "visit"]
  <2>1. /\ sweep' \in [Sweeps -> SweepState]
        /\ sweep'[s].pc = "visit" /\ sweep'[s].msgs = sweep[s].msgs
        /\ \A q \in Sweeps \ {s} : sweep'[q] = sweep[q]
    BY <1>2, <1>3 DEF SweepState
  <2>2. TypeOK'
    BY <1>1, <2>1 DEF TypeOK
  <2>3. Moves(s)
    BY <1>1, <2>1 DEF Moves, AtWork
  <2>4. ConnectionsSound' /\ AckedSound'
    BY <1>1, <1>2, <2>3, MoveConnections, MoveForward, AckedKeep
  <2> QED BY <2>2, <2>3, <2>4, MoveKeeps
<1>4. ASSUME NEW m \in sweep[s].msgs,
             sweep' = [sweep EXCEPT ![s].pc = "dispatch", ![s].msgs = @ \ {m},
                                    ![s].cur = m, ![s].ran = 0, ![s].ok = TRUE]
      PROVE  IInv'
  <2>1. m \in Messages
    BY <1>2, <1>4 DEF SweepState
  <2>2. sweep' \in [Sweeps -> SweepState]
    BY <1>2, <1>4, <2>1 DEF SweepState
  <2>3. /\ sweep'[s].pc = "dispatch" /\ sweep'[s].msgs = sweep[s].msgs \ {m}
        /\ sweep'[s].cur = m /\ sweep'[s].ran = 0 /\ sweep'[s].ok = TRUE
        /\ sweep'[s].at = sweep[s].at /\ sweep'[s].live = sweep[s].live
        /\ sweep'[s].hs = sweep[s].hs
        /\ \A q \in Sweeps \ {s} : sweep'[q] = sweep[q]
    BY <1>2, <1>4 DEF SweepState
  <2>4. TypeOK'
    BY <1>1, <2>2 DEF TypeOK
  <2>5. Array(s)' = Array(s)
    BY <1>1, <2>3 DEF Array
  <2>6. sweep[s].at \in DOMAIN order[HostOf[s]] /\ ArraySound(s)
    BY <1>2 DEF ArraysSound, AtWork
  <2>7. ArraySound(s)'
    BY <2>5, <2>6 DEF ArraySound
  <2>8. DispatchSound(s, sweep[s].cur)'
    <3>1. \A h \in Handlers : ~(calls[m][h] > 0)
      BY <1>4, <2>1 DEF CallsSound
    <3>2. Len(Array(s)) \in Nat
      BY <2>6 DEF ArraySound
    <3>3. Clean(m)'
      BY <1>1, <3>1 DEF Clean
    <3> QED BY <1>1, <2>1, <2>3, <2>5, <3>1, <3>2, <3>3 DEF DispatchSound
  <2>9. Moves(s)
    BY <1>1, <1>4, <2>3, <2>6, <2>7, <2>8 DEF Moves, Holds
  <2>10. ConnectionsSound' /\ AckedSound'
    BY <1>1, <1>2, <2>9, MoveConnections, MoveForward, AckedKeep
  <2> QED BY <2>4, <2>9, <2>10, MoveKeeps
<1> QED
  BY <1>3, <1>4 DEF NextMessage

\* A sweep that has ended, and one that begins with a type.
LEMMA IdleTyped ==
  /\ IdleSweep \in SweepState
  /\ IdleSweep.pc = "idle" /\ IdleSweep.live /\ IdleSweep.msgs = {}
<1>1. <<>> \in Seq(Handlers)
  OBVIOUS
<1> QED
  BY <1>1 DEF IdleSweep, SweepState

\* A sweep goes to the next type and sends a read, or ends.
LEMMA VisitKeeps ==
  ASSUME IInv, NEW s \in Sweeps, Visit(s)
  PROVE  IInv'
<1> USE DEF IInv
<1>1. UNCHANGED <<seqno, trimmed, group, grouped, pel, acked, dlq, calls, succeeded,
                  handlers, order, up, faults, unsubs>>
  BY DEF Visit, redis, history
<1>2. /\ sweep[s].pc = "visit" /\ sweep \in [Sweeps -> SweepState]
      /\ HostOf[s] \in Instances
  BY BusAssumption DEF Visit, TypeOK
<1>3. CASE sweep' = [sweep EXCEPT ![s] = IdleSweep] /\ conn' = conn
  <2>1. /\ sweep' \in [Sweeps -> SweepState] /\ sweep'[s] = IdleSweep
        /\ \A q \in Sweeps \ {s} : sweep'[q] = sweep[q]
    BY <1>2, <1>3, IdleTyped
  <2>2. TypeOK'
    BY <1>1, <1>3, <2>1 DEF TypeOK
  <2>3. Moves(s)
    BY <1>1, <2>1, IdleTyped DEF Moves, AtWork
  <2>4. ConnectionsSound' /\ AckedSound'
    BY <1>1, <1>2, <1>3, <2>3, MoveConnections, MoveForward, AckedKeep
  <2> QED BY <2>2, <2>3, <2>4, MoveKeeps
<1>4. ASSUME NEW n \in DOMAIN order[HostOf[s]],
             handlers[HostOf[s]][order[HostOf[s]][n]] # <<>>,
             sweep' = [sweep EXCEPT ![s] = [IdleSweep EXCEPT !.pc = "reading", !.at = n]],
             conn' = [conn EXCEPT ![HostOf[s]] =
               Append(conn[HostOf[s]],
                      [op |-> "read", sweep |-> s, type |-> order[HostOf[s]][n]])]
      PROVE  IInv'
  <2>1. n \in Nat /\ order[HostOf[s]][n] \in Types
    BY <1>2, <1>4 DEF TypeOK
  <2>2. PICK b \in SweepState : b = [IdleSweep EXCEPT !.pc = "reading", !.at = n]
    <3>1. [IdleSweep EXCEPT !.pc = "reading", !.at = n] \in SweepState
      BY <2>1, IdleTyped DEF SweepState
    <3> QED BY <3>1
  <2>3. /\ sweep' \in [Sweeps -> SweepState]
        /\ sweep'[s].pc = "reading" /\ sweep'[s].at = n /\ sweep'[s].live
        /\ sweep'[s].msgs = {}
        /\ \A q \in Sweeps \ {s} : sweep'[q] = sweep[q]
    <3>1. b.pc = "reading" /\ b.at = n /\ b.live /\ b.msgs = {}
      BY <2>2, IdleTyped DEF SweepState
    <3> QED BY <1>2, <1>4, <2>2, <3>1
  <2>4. PICK c \in Command :
          c = [op |-> "read", sweep |-> s, type |-> order[HostOf[s]][n]]
    BY <2>1 DEF Command
  <2>5. /\ conn' \in [Instances -> Seq(Command)]
        /\ conn'[HostOf[s]] = Append(conn[HostOf[s]], c)
        /\ \A j \in Instances \ {HostOf[s]} : conn'[j] = conn[j]
    BY <1>2, <1>4, <2>4, SendTyped DEF TypeOK
  <2>6. TypeOK'
    BY <1>1, <2>3, <2>5 DEF TypeOK
  <2>7. Array(s)' = handlers[HostOf[s]][order[HostOf[s]][n]]
    BY <1>1, <2>3 DEF Array
  <2>8. ArraySound(s)'
    <3>1. handlers[HostOf[s]][order[HostOf[s]][n]] \in Seq(Handlers)
      BY <1>2, <2>1 DEF TypeOK
    <3>2. Distinct(handlers[HostOf[s]][order[HostOf[s]][n]])
      BY <1>2, <2>1 DEF ArraysSound
    <3> QED BY <1>4, <2>7, <3>1, <3>2 DEF ArraySound, Distinct
  <2>9. Moves(s)
    BY <1>1, <1>4, <2>3, <2>8 DEF Moves
  <2>10. FinishedForward /\ \A q \in Sweeps : Patient(q)
    BY <1>2, <2>3, <2>9, MoveForward DEF Patient
  <2>11. ConnectionsSound'
    <3>1. Waits(HostOf[s], c)'
      BY <2>3, <2>4 DEF Waits, WaitsFor
    <3>2. CommandsSound(HostOf[s])'
      <4>1. c.sweep = s
        BY <2>4
      <4> QED BY <1>2, <2>5, <2>10, <3>1, <4>1, CommandsAppend DEF ConnectionsSound
    <3>3. \A j \in Instances \ {HostOf[s]} : CommandsSound(j)'
      BY <2>5, <2>10, CommandsKeep DEF ConnectionsSound
    <3> QED BY <3>2, <3>3 DEF ConnectionsSound
  <2>12. AckedSound'
    BY <1>1, <2>10, AckedKeep
  <2> QED BY <2>6, <2>9, <2>11, <2>12, MoveKeeps
<1> QED
  BY <1>3, <1>4 DEF Visit

\* All handlers have run: an acknowledgement is sent only for an event that is
\* finished, for its array was not empty and none of its handlers failed.
LEMMA DispatchedKeeps ==
  ASSUME IInv, NEW s \in Sweeps, Dispatched(s)
  PROVE  IInv'
<1> USE DEF IInv
<1>1. UNCHANGED <<seqno, trimmed, group, grouped, pel, acked, dlq, calls, succeeded,
                  handlers, order, up, faults, unsubs>>
  BY DEF Dispatched, redis, history
<1>2. /\ sweep[s].pc = "dispatch" /\ sweep \in [Sweeps -> SweepState]
      /\ sweep[s].ran = Len(Array(s)) /\ HostOf[s] \in Instances
  BY BusAssumption DEF Dispatched, TypeOK
<1>3. /\ sweep[s].at \in DOMAIN order[HostOf[s]] /\ ArraySound(s)
      /\ DispatchSound(s, sweep[s].cur)
  BY <1>2 DEF ArraysSound, AtWork, DispatchesSound
<1>4. sweep[s].cur \in Messages
  BY <1>3 DEF DispatchSound
<1>5. ASSUME sweep' \in [Sweeps -> SweepState],
             sweep'[s].pc \in {"acking", "next"}, sweep'[s].msgs = sweep[s].msgs,
             sweep'[s].at = sweep[s].at, sweep'[s].live = sweep[s].live,
             sweep'[s].hs = sweep[s].hs,
             \A q \in Sweeps \ {s} : sweep'[q] = sweep[q]
      PROVE  Moves(s) /\ FinishedForward /\ \A q \in Sweeps : Patient(q)
  <2>1. Array(s)' = Array(s)
    BY <1>1, <1>5 DEF Array
  <2>2. ArraySound(s)'
    BY <1>3, <2>1 DEF ArraySound
  <2>3. Moves(s)
    BY <1>1, <1>3, <1>5, <2>2 DEF Moves
  <2> QED BY <1>2, <1>5, <2>3, MoveForward DEF Patient
<1>6. CASE /\ sweep[s].ok
           /\ sweep' = [sweep EXCEPT ![s].pc = "acking"]
           /\ conn' = [conn EXCEPT ![HostOf[s]] =
                Append(conn[HostOf[s]], [op |-> "ack", sweep |-> s, msg |-> sweep[s].cur])]
  <2>1. /\ sweep' \in [Sweeps -> SweepState]
        /\ sweep'[s].pc = "acking" /\ sweep'[s].msgs = sweep[s].msgs
        /\ sweep'[s].at = sweep[s].at /\ sweep'[s].live = sweep[s].live
        /\ sweep'[s].hs = sweep[s].hs
        /\ \A q \in Sweeps \ {s} : sweep'[q] = sweep[q]
    BY <1>2, <1>6 DEF SweepState
  <2>2. Moves(s) /\ FinishedForward /\ \A q \in Sweeps : Patient(q)
    BY <1>5, <2>1
  <2>3. PICK m \in Messages : m = sweep[s].cur
    BY <1>4
  <2>4. PICK c \in Command : c = [op |-> "ack", sweep |-> s, msg |-> m]
    BY DEF Command
  <2>5. /\ conn' \in [Instances -> Seq(Command)]
        /\ conn'[HostOf[s]] = Append(conn[HostOf[s]], c)
        /\ \A j \in Instances \ {HostOf[s]} : conn'[j] = conn[j]
    BY <1>2, <1>6, <2>3, <2>4, SendTyped DEF TypeOK
  <2>6. TypeOK'
    BY <1>1, <2>1, <2>5 DEF TypeOK
  <2>7. Finished(m)'
    <3>1. Holds(s, m) /\ m \notin sweep[s].msgs
      BY <1>2, <2>3 DEF Holds, Dispatching, HeldSound
    <3>2. Delivered(m)'
      BY <1>1, <3>1 DEF HeldSound, Delivered
    <3>3. \A q \in Sweeps : ~Holds(q, m)'
      <4>1. ~Holds(s, m)'
        BY <2>1, <3>1 DEF Holds, Dispatching
      <4>2. \A q \in Sweeps \ {s} : ~Holds(q, m)
        BY <3>1 DEF HeldSound
      <4> QED BY <2>1, <4>1, <4>2 DEF Holds, Dispatching
    <3>4. sweep[s].ran > 0
      BY <1>2, <1>3 DEF ArraySound
    <3>5. Clean(m) /\ Succeeded(m)
      BY <1>3, <1>6, <2>3, <3>4 DEF DispatchSound
    <3>6. Clean(m)' /\ Succeeded(m)'
      BY <1>1, <3>5 DEF Clean, Succeeded
    <3> QED BY <3>2, <3>3, <3>6 DEF Finished
  <2>8. ConnectionsSound'
    <3>1. Waits(HostOf[s], c)'
      BY <2>1, <2>4, <2>7 DEF Waits, WaitsFor
    <3>2. CommandsSound(HostOf[s])'
      <4>1. c.sweep = s
        BY <2>4
      <4> QED BY <1>2, <2>2, <2>5, <3>1, <4>1, CommandsAppend DEF ConnectionsSound
    <3>3. \A j \in Instances \ {HostOf[s]} : CommandsSound(j)'
      BY <2>2, <2>5, CommandsKeep DEF ConnectionsSound
    <3> QED BY <3>2, <3>3 DEF ConnectionsSound
  <2>9. AckedSound'
    BY <1>1, <2>2, AckedKeep
  <2> QED BY <2>2, <2>6, <2>8, <2>9, MoveKeeps
<1>7. CASE sweep' = [sweep EXCEPT ![s].pc = "next", ![s].cur = NoMessage] /\ conn' = conn
  <2>1. /\ sweep' \in [Sweeps -> SweepState]
        /\ sweep'[s].pc = "next" /\ sweep'[s].msgs = sweep[s].msgs
        /\ sweep'[s].at = sweep[s].at /\ sweep'[s].live = sweep[s].live
        /\ sweep'[s].hs = sweep[s].hs
        /\ \A q \in Sweeps \ {s} : sweep'[q] = sweep[q]
    BY <1>2, <1>7 DEF SweepState
  <2>2. Moves(s) /\ FinishedForward
    BY <1>5, <2>1
  <2>3. TypeOK'
    BY <1>1, <1>7, <2>1 DEF TypeOK
  <2>4. ConnectionsSound' /\ AckedSound'
    BY <1>1, <1>2, <1>7, <2>2, MoveConnections, AckedKeep
  <2> QED BY <2>2, <2>3, <2>4, MoveKeeps
<1> QED
  BY <1>6, <1>7 DEF Dispatched

\* XACK removes from the pending entries an event that nobody will run again.
LEMMA ServeAckKeeps ==
  ASSUME IInv, NEW i \in Instances, ServeAck(i)
  PROVE  IInv'
<1> USE DEF IInv
<1>0. PICK c : c = Head(conn[i])
  OBVIOUS
<1>1. /\ conn[i] # <<>> /\ c.op = "ack"
      /\ conn' = [conn EXCEPT ![i] = Tail(conn[i])]
      /\ pel' = pel \ {c.msg} /\ acked' = acked \cup {c.msg}
      /\ sweep' = [sweep EXCEPT ![c.sweep].pc = "next", ![c.sweep].cur = NoMessage]
      /\ UNCHANGED <<seqno, trimmed, group, grouped, dlq, calls, succeeded, handlers, order,
                     up, faults, unsubs>>
  BY <1>0 DEF ServeAck, Serve, history
<1>2. conn[i] \in Seq(Command) /\ 1 \in DOMAIN conn[i] /\ c = conn[i][1] /\ c \in Command
  BY <1>0, <1>1 DEF TypeOK
<1>3. c.msg \in Messages /\ c.sweep \in Sweeps
  BY <1>1, <1>2, CommandTyped
<1>4. HostOf[c.sweep] = i /\ sweep[c.sweep].pc = "acking" /\ Finished(c.msg)
  BY <1>1, <1>2 DEF ConnectionsSound, CommandsSound, WaitsFor
<1>5. PICK s \in Sweeps : s = c.sweep
  BY <1>3
<1>6. /\ sweep' \in [Sweeps -> SweepState]
      /\ sweep'[s].pc = "next" /\ sweep'[s].msgs = sweep[s].msgs
      /\ sweep'[s].at = sweep[s].at /\ sweep'[s].live = sweep[s].live
      /\ sweep'[s].hs = sweep[s].hs
      /\ \A q \in Sweeps \ {s} : sweep'[q] = sweep[q]
  <2>1. sweep \in [Sweeps -> SweepState]
    BY DEF TypeOK
  <2>2. sweep' = [sweep EXCEPT ![s].pc = "next", ![s].cur = NoMessage]
    BY <1>1, <1>5
  <2> QED BY <2>1, <2>2 DEF SweepState
<1>7. Moves(s)
  <2>1. sweep[s].at \in DOMAIN order[HostOf[s]] /\ ArraySound(s)
    BY <1>4, <1>5 DEF ArraysSound, AtWork
  <2>2. handlers' = handlers /\ order' = order
    BY <1>1
  <2>3. Array(s)' = Array(s)
    BY <1>6, <2>2 DEF Array
  <2>4. ArraySound(s)'
    BY <2>1, <2>3 DEF ArraySound
  <2> QED BY <1>1, <1>6, <2>1, <2>4 DEF Moves
<1>8. FinishedForward
  BY <1>7, MoveForward
<1>9. /\ conn' \in [Instances -> Seq(Command)] /\ conn'[i] = Tail(conn[i])
      /\ \A j \in Instances \ {i} : conn'[j] = conn[j]
  BY <1>1, <1>2 DEF TypeOK
<1>10. TypeOK'
  BY <1>1, <1>3, <1>6, <1>9 DEF TypeOK
<1>11. ConnectionsSound'
  <2>1. \A q \in Sweeps \ {s} : Patient(q)
    BY <1>6 DEF Patient
  <2>2. CommandsSound(i)'
    BY <1>0, <1>1, <1>5, <1>8, <1>9, <2>1, CommandsShift DEF ConnectionsSound
  <2>3. \A j \in Instances \ {i} : CommandsSound(j)'
    BY <1>4, <1>5, <1>8, <1>9, <2>1, CommandsKeep DEF ConnectionsSound
  <2> QED BY <2>2, <2>3 DEF ConnectionsSound
<1>12. AckedSound'
  BY <1>1, <1>3, <1>4, <1>8 DEF AckedSound, FinishedForward, TypeOK
<1> QED
  BY <1>7, <1>10, <1>11, <1>12, MoveKeeps

(***************************************************************************)
(* A read returns events that nobody has been given.                       *)
(***************************************************************************)

\* The events of a read go to the sweep that waits for it, and to no other.
LEMMA ServeReadKeeps ==
  ASSUME IInv, NEW i \in Instances, ServeRead(i)
  PROVE  IInv'
<1> USE DEF IInv
<1>0. PICK c : c = Head(conn[i])
  OBVIOUS
<1>1. /\ conn[i] # <<>> /\ c.op = "read" /\ c.type \in grouped
      /\ conn' = [conn EXCEPT ![i] = Tail(conn[i])]
      /\ UNCHANGED <<seqno, trimmed, grouped, acked, dlq, calls, succeeded, handlers, order,
                     up, faults, unsubs>>
  BY <1>0 DEF ServeRead, Serve, history
<1>2. conn[i] \in Seq(Command) /\ 1 \in DOMAIN conn[i] /\ c = conn[i][1] /\ c \in Command
  BY <1>0, <1>1 DEF TypeOK
<1>3. c.type \in Types /\ c.sweep \in Sweeps
  BY <1>1, <1>2, CommandTyped
<1>4. HostOf[c.sweep] = i /\ sweep[c.sweep].pc = "reading"
  BY <1>1, <1>2 DEF ConnectionsSound, CommandsSound, WaitsFor
<1>5. PICK s \in Sweeps, t \in Types : s = c.sweep /\ t = c.type
  BY <1>3
<1>6. PICK D \in SUBSET Undelivered(t) :
        /\ \E m \in D : /\ \A o \in D : seqno[o] <= seqno[m]
                        /\ group' = [group EXCEPT ![t] = seqno[m]]
        /\ pel' = pel \cup D
        /\ sweep' = [sweep EXCEPT ![s].pc = "next", ![s].msgs = D]
  BY <1>0, <1>5 DEF ServeRead
<1>7. PICK m0 \in D : /\ \A o \in D : seqno[o] <= seqno[m0]
                      /\ group' = [group EXCEPT ![t] = seqno[m0]]
  BY <1>6
<1>8. \A m \in D : m \in Messages /\ TypeOf[m] = t /\ seqno[m] > group[t]
  BY <1>6 DEF Undelivered
<1>9. /\ sweep' \in [Sweeps -> SweepState]
      /\ sweep'[s].pc = "next" /\ sweep'[s].msgs = D
      /\ sweep'[s].at = sweep[s].at /\ sweep'[s].live = sweep[s].live
      /\ sweep'[s].hs = sweep[s].hs
      /\ \A q \in Sweeps \ {s} : sweep'[q] = sweep[q]
  <2>1. sweep \in [Sweeps -> SweepState] /\ D \in SUBSET Messages
    BY <1>8 DEF TypeOK
  <2>2. sweep' = [sweep EXCEPT ![s].pc = "next", ![s].msgs = D]
    BY <1>6
  <2> QED BY <2>1, <2>2 DEF SweepState
<1>10. /\ conn' \in [Instances -> Seq(Command)] /\ conn'[i] = Tail(conn[i])
       /\ \A j \in Instances \ {i} : conn'[j] = conn[j]
  BY <1>1, <1>2 DEF TypeOK
<1>11. group' \in [Types -> Nat] /\ \A u \in Types : group[u] <= group'[u]
  BY <1>7, <1>8 DEF TypeOK
<1>12. TypeOK'
  <2>1. pel' \subseteq Messages
    BY <1>6, <1>8 DEF TypeOK
  <2> QED BY <1>1, <1>9, <1>10, <1>11, <2>1 DEF TypeOK
<1>13. Forward
  BY <1>1, <1>11, <1>12, PositionsForward
<1>14. \A m \in D : ~Delivered(m) /\ Delivered(m)'
  BY <1>1, <1>7, <1>8, <1>11 DEF Delivered, TypeOK
<1>15. \A q \in Sweeps, m \in Messages : Holds(q, m)' => Holds(q, m) \/ (q = s /\ m \in D)
  BY <1>9 DEF Holds, Dispatching
<1>16. \A m \in D : \A q \in Sweeps : ~Holds(q, m)
  BY <1>8, <1>14 DEF HeldSound
<1>17. FinishedForward
  BY <1>1, <1>13, <1>14, <1>15 DEF FinishedForward, Forward, Finished, Clean, Succeeded
<1>18. GroupSound'
  BY <1>1, <1>5, <1>7 DEF GroupSound, TypeOK
<1>19. HeldSound'
  <2>1. \A q \in Sweeps, m \in Messages : Holds(q, m)' => Delivered(m)'
    BY <1>13, <1>14, <1>15 DEF HeldSound, Forward
  <2>2. \A r, q \in Sweeps, m \in Messages : Holds(r, m)' /\ Holds(q, m)' => r = q
    BY <1>15, <1>16 DEF HeldSound
  <2>3. \A q \in Sweeps : Dispatching(q, sweep[q].cur)' => sweep'[q].cur \notin sweep'[q].msgs
    BY <1>9 DEF HeldSound, Dispatching
  <2> QED BY <2>1, <2>2, <2>3 DEF HeldSound
<1>20. CallsSound' /\ HandledAtMostOnce'
  BY <1>1, <1>9, <1>13, <1>14 DEF CallsSound, HandledAtMostOnce, Forward
<1>21. ArraysSound' /\ \A q \in Sweeps : AtWork(q)' => Array(q)' = Array(q)
  <2>1. \A q \in Sweeps : AtWork(q)' =>
          /\ AtWork(q) /\ sweep'[q].at = sweep[q].at
          /\ sweep'[q].live = sweep[q].live /\ sweep'[q].hs = sweep[q].hs
    BY <1>4, <1>5, <1>9 DEF AtWork
  <2> QED BY <1>1, <2>1, ArraysKeep
<1>22. DispatchesSound'
  <2>1. SameHistory
    BY <1>1 DEF SameHistory
  <2> SUFFICES ASSUME NEW q \in Sweeps, sweep'[q].pc = "dispatch"
               PROVE  DispatchSound(q, sweep[q].cur)'
    BY DEF DispatchesSound
  <2>2. sweep'[q] = sweep[q] /\ Array(q)' = Array(q)
    BY <1>9, <1>21 DEF AtWork
  <2> QED BY <2>1, <2>2, DispatchKeeps DEF DispatchesSound
<1>23. ConnectionsSound'
  <2>1. \A q \in Sweeps \ {s} : Patient(q)
    BY <1>9 DEF Patient
  <2>2. CommandsSound(i)'
    BY <1>0, <1>1, <1>5, <1>10, <1>17, <2>1, CommandsShift DEF ConnectionsSound
  <2>3. \A j \in Instances \ {i} : CommandsSound(j)'
    BY <1>4, <1>5, <1>10, <1>17, <2>1, CommandsKeep DEF ConnectionsSound
  <2> QED BY <2>2, <2>3 DEF ConnectionsSound
<1>24. AckedSound'
  BY <1>1, <1>6, <1>14, <1>17 DEF AckedSound, FinishedForward, Finished, TypeOK
<1> QED
  BY <1>12, <1>18, <1>19, <1>20, <1>21, <1>22, <1>23, <1>24

(***************************************************************************)
(* A handler is run.                                                       *)
(***************************************************************************)

\* What the outcomes of a handler have in common.
Runs(s, m, h) ==
  /\ UNCHANGED <<seqno, group, grouped, pel, acked, handlers, order, conn>>
  /\ succeeded' \in {succeeded, succeeded \cup {<<m, h>>}}
  /\ dlq' \in {dlq, dlq \cup {<<m, h>>}}
  /\ \A q \in Sweeps \ {s} : sweep'[q] = sweep[q]
  /\ sweep'[s].pc \in {"dispatch", "visit"}
  /\ sweep'[s].msgs \subseteq sweep[s].msgs
  /\ sweep'[s].pc = "dispatch" =>
       /\ sweep'[s].cur = m /\ sweep'[s].ran = sweep[s].ran + 1
       /\ sweep'[s].at = sweep[s].at /\ sweep'[s].live = sweep[s].live
       /\ sweep'[s].hs = sweep[s].hs
       /\ sweep'[s].ok => sweep[s].ok /\ <<m, h>> \in succeeded' /\ dlq' = dlq

\* The handler that is run next has not been run for the event.
LEMMA HandleFirst ==
  ASSUME IInv, NEW s \in Sweeps, NEW h \in Handlers, Handle(s, h)
  PROVE  /\ sweep[s].pc = "dispatch" /\ sweep[s].cur \in Messages
         /\ sweep[s].ran + 1 \in 1..Len(Array(s)) /\ Array(s)[sweep[s].ran + 1] = h
         /\ calls[sweep[s].cur][h] = 0
         /\ calls' \in [Messages -> [Handlers -> Nat]]
         /\ calls'[sweep[s].cur][h] = 1
         /\ \A n \in Messages, g \in Handlers :
              n # sweep[s].cur \/ g # h => calls'[n][g] = calls[n][g]
<1> USE DEF IInv
<1>1. /\ sweep[s].pc = "dispatch" /\ sweep[s].ran < Len(Array(s))
      /\ h = Array(s)[sweep[s].ran + 1]
      /\ calls' = [calls EXCEPT ![sweep[s].cur][h] = @ + 1]
  BY DEF Handle
<1>2. DispatchSound(s, sweep[s].cur) /\ ArraySound(s)
  BY <1>1 DEF DispatchesSound, ArraysSound, AtWork
<1>3. /\ sweep[s].cur \in Messages /\ sweep[s].ran \in Nat
      /\ Array(s) \in Seq(Handlers) /\ Len(Array(s)) \in Nat
  <2>1. sweep[s] \in SweepState
    BY DEF TypeOK
  <2>2. sweep[s].ran \in Nat
    BY <2>1 DEF SweepState
  <2> QED BY <1>2, <2>2 DEF DispatchSound, ArraySound
<1>4. /\ sweep[s].ran + 1 \in 1..Len(Array(s)) /\ DOMAIN Array(s) = 1..Len(Array(s))
      /\ \A k \in 1..sweep[s].ran : k \in 1..Len(Array(s)) /\ k # sweep[s].ran + 1
  BY <1>1, <1>3
<1>5. ~(calls[sweep[s].cur][h] > 0)
  <2> SUFFICES ASSUME calls[sweep[s].cur][h] > 0 PROVE FALSE
    OBVIOUS
  <2>1. PICK k \in 1..sweep[s].ran : Array(s)[k] = h
    BY <1>2 DEF DispatchSound
  <2> QED BY <1>1, <1>2, <1>4, <2>1 DEF ArraySound, Distinct
<1>6. calls \in [Messages -> [Handlers -> Nat]]
  BY DEF TypeOK
<1>7. calls[sweep[s].cur][h] = 0
  BY <1>3, <1>5, <1>6
<1> QED
  BY <1>1, <1>3, <1>4, <1>6, <1>7

\* Whatever the outcome, running a handler keeps the invariant.
LEMMA RunKeeps ==
  ASSUME IInv, TypeOK', NEW s \in Sweeps, NEW h \in Handlers, Handle(s, h),
         NEW m \in Messages, m = sweep[s].cur, Runs(s, m, h)
  PROVE  IInv'
<1> USE DEF IInv
<1>1. /\ sweep[s].pc = "dispatch"
      /\ sweep[s].ran + 1 \in 1..Len(Array(s)) /\ Array(s)[sweep[s].ran + 1] = h
      /\ calls[m][h] = 0 /\ calls'[m][h] = 1
      /\ \A n \in Messages, g \in Handlers : n # m \/ g # h => calls'[n][g] = calls[n][g]
  BY HandleFirst
<1>2. Holds(s, m) /\ m \notin sweep[s].msgs /\ \A q \in Sweeps \ {s} : ~Holds(q, m)
  BY <1>1 DEF Holds, Dispatching, HeldSound
<1>3. \A n \in Messages : Delivered(n)' <=> Delivered(n)
  BY DEF Runs, Delivered
<1>4. Forward
  BY <1>3 DEF Forward
<1>5. NoNewHolder
  <2> SUFFICES ASSUME NEW q \in Sweeps, NEW n \in Messages, Holds(q, n)'
               PROVE  Holds(q, n)
    BY DEF NoNewHolder
  <2>1. CASE q # s
    BY <2>1 DEF Runs, Holds, Dispatching
  <2>2. CASE q = s
    BY <1>2, <2>2 DEF Runs, Holds, Dispatching
  <2> QED BY <2>1, <2>2
<1>6. \A n \in Messages \ {m}, g \in Handlers :
        /\ calls'[n][g] = calls[n][g]
        /\ <<n, g>> \in succeeded' <=> <<n, g>> \in succeeded
        /\ <<n, g>> \in dlq' <=> <<n, g>> \in dlq
  BY <1>1 DEF Runs
<1>7. \A n \in Messages \ {m} :
        /\ Clean(n)' <=> Clean(n)
        /\ Succeeded(n)' <=> Succeeded(n)
  BY <1>6 DEF Clean, Succeeded
<1>8. FinishedForward
  <2> SUFFICES ASSUME NEW n \in Messages, Finished(n)
               PROVE  Finished(n)'
    BY DEF FinishedForward
  <2>1. n # m
    BY <1>2 DEF Finished
  <2> QED BY <1>3, <1>5, <1>7, <2>1 DEF Finished, NoNewHolder
<1>9. GroupSound'
  BY DEF Runs, GroupSound
<1>10. HeldSound'
  <2>1. \A q \in Sweeps : sweep'[q].pc = "dispatch" => sweep'[q].cur \notin sweep'[q].msgs
    BY <1>2 DEF Runs, HeldSound, Dispatching
  <2> QED BY <1>4, <1>5, <2>1, HeldKeeps
<1>11. \A q \in Sweeps : sweep'[q].msgs \subseteq sweep[q].msgs
  BY DEF Runs
<1>12. CallsSound'
  <2>1. ASSUME NEW n \in Messages, NEW g \in Handlers, calls'[n][g] > 0
        PROVE  Delivered(n)' /\ \A q \in Sweeps : n \notin sweep'[q].msgs
    <3>1. CASE n = m
      <4>1. Delivered(m)
        BY <1>2 DEF HeldSound
      <4>2. \A q \in Sweeps : m \notin sweep[q].msgs
        BY <1>2 DEF Holds
      <4> QED BY <1>3, <1>11, <3>1, <4>1, <4>2
    <3>2. CASE n # m
      BY <1>3, <1>6, <1>11, <2>1, <3>2 DEF CallsSound
    <3> QED BY <3>1, <3>2
  <2>2. ASSUME NEW n \in Messages, NEW g \in Handlers, <<n, g>> \in dlq'
        PROVE  calls'[n][g] > 0
    <3>1. CASE n = m /\ g = h
      BY <1>1, <3>1
    <3>2. CASE ~(n = m /\ g = h)
      <4>1. <<n, g>> \in dlq
        BY <2>2, <3>2 DEF Runs
      <4> QED BY <1>1, <3>2, <4>1 DEF CallsSound
    <3> QED BY <3>1, <3>2
  <2> QED BY <2>1, <2>2 DEF CallsSound
<1>13. HandledAtMostOnce'
  BY <1>1 DEF HandledAtMostOnce
<1>14. ArraysSound' /\ \A q \in Sweeps : AtWork(q)' => Array(q)' = Array(q)
  <2>1. \A q \in Sweeps : AtWork(q)' =>
          /\ AtWork(q) /\ sweep'[q].at = sweep[q].at
          /\ sweep'[q].live = sweep[q].live /\ sweep'[q].hs = sweep[q].hs
    BY <1>1 DEF Runs, AtWork
  <2>2. handlers' = handlers /\ order' = order
    BY DEF Runs
  <2> QED BY <2>1, <2>2, ArraysKeep
<1>15. DispatchesSound'
  <2> SUFFICES ASSUME NEW q \in Sweeps, sweep'[q].pc = "dispatch"
               PROVE  DispatchSound(q, sweep[q].cur)'
    BY DEF DispatchesSound
  <2>1. Array(q)' = Array(q)
    BY <1>14 DEF AtWork
  <2>2. CASE q # s
    <3>1. sweep'[q] = sweep[q] /\ DispatchSound(q, sweep[q].cur)
      BY <2>2 DEF Runs, DispatchesSound
    <3>2. sweep[q].cur \in Messages \ {m}
      BY <1>2, <2>2, <3>1 DEF DispatchSound, Holds, Dispatching
    <3>3. PICK n \in Messages \ {m} : n = sweep[q].cur
      BY <3>2
    <3>4. /\ DispatchSound(q, n) /\ (Clean(n)' <=> Clean(n))
          /\ (Succeeded(n)' <=> Succeeded(n))
          /\ \A g \in Handlers : calls'[n][g] = calls[n][g]
      BY <1>6, <1>7, <3>1, <3>3
    <3>5. DispatchSound(q, n)'
      BY <2>1, <3>1, <3>4 DEF DispatchSound
    <3>6. sweep'[q].cur = n
      BY <3>1, <3>3
    <3> QED BY <3>5, <3>6 DEF DispatchSound, Clean, Succeeded
  <2>3. CASE q = s
    <3>1. /\ sweep'[s].cur = m /\ sweep'[s].ran = sweep[s].ran + 1
          /\ sweep'[s].ok => sweep[s].ok /\ <<m, h>> \in succeeded' /\ dlq' = dlq
      BY <2>3 DEF Runs
    <3>2. DispatchSound(s, m) /\ sweep[s].ran \in Nat
      <4>1. sweep[s] \in SweepState
        BY DEF TypeOK
      <4>2. sweep[s].ran \in Nat
        BY <4>1 DEF SweepState
      <4> QED BY <1>1, <4>2 DEF DispatchesSound
    <3>3. sweep'[s].ran <= Len(Array(s)')
      BY <1>1, <2>1, <2>3, <3>1, <3>2
    <3>4. ASSUME NEW g \in Handlers, calls'[m][g] > 0
          PROVE  \E k \in 1..sweep'[s].ran : Array(s)'[k] = g
      <4>1. CASE g = h
        <5>1. sweep[s].ran + 1 \in 1..sweep'[s].ran
          BY <3>1, <3>2
        <5> QED BY <1>1, <2>1, <2>3, <4>1, <5>1
      <4>2. CASE g # h
        <5>1. PICK k \in 1..sweep[s].ran : Array(s)[k] = g
          BY <1>1, <3>2, <3>4, <4>2 DEF DispatchSound
        <5>2. k \in 1..sweep'[s].ran
          BY <3>1, <3>2, <5>1
        <5> QED BY <2>1, <2>3, <5>1, <5>2
      <4> QED BY <4>1, <4>2
    <3>5. ASSUME sweep'[s].ok
          PROVE  Clean(m)' /\ Succeeded(m)'
      <4>1. Clean(m) /\ <<m, h>> \in succeeded' /\ dlq' = dlq
        BY <3>1, <3>2, <3>5 DEF DispatchSound
      <4>2. Succeeded(m)'
        BY <4>1 DEF Succeeded
      <4>3. ASSUME NEW g \in Handlers, calls'[m][g] > 0
            PROVE  <<m, g>> \in succeeded' /\ <<m, g>> \notin dlq'
        <5>1. CASE g = h
          <6>1. <<m, h>> \notin dlq
            BY <1>1 DEF CallsSound
          <6> QED BY <4>1, <5>1, <6>1
        <5>2. CASE g # h
          <6>1. <<m, g>> \in succeeded /\ <<m, g>> \notin dlq
            BY <1>1, <4>1, <4>3, <5>2 DEF Clean
          <6>2. succeeded \subseteq succeeded'
            BY DEF Runs
          <6> QED BY <4>1, <6>1, <6>2
        <5> QED BY <5>1, <5>2
      <4> QED BY <4>2, <4>3 DEF Clean
    <3> QED BY <2>3, <3>1, <3>3, <3>4, <3>5 DEF DispatchSound
  <2> QED BY <2>2, <2>3
<1>16. ConnectionsSound'
  <2>1. \A q \in Sweeps : Patient(q)
    BY <1>1 DEF Runs, Patient
  <2>2. conn' = conn
    BY DEF Runs
  <2> QED BY <1>8, <2>1, <2>2, CommandsKeep DEF ConnectionsSound
<1>17. AckedSound'
  <2>1. acked' = acked /\ pel' = pel
    BY DEF Runs
  <2> QED BY <1>8, <2>1, AckedKeep
<1> QED
  BY <1>9, <1>10, <1>12, <1>13, <1>14, <1>15, <1>16, <1>17

\* A handler resolves, or throws and goes to the dead-letter stream, or throws
\* and the dead-letter write throws too.
LEMMA HandlerKeeps ==
  ASSUME IInv, NEW s \in Sweeps, NEW h \in Handlers,
         HandlerSucceeds(s, h) \/ HandlerFails(s, h) \/ DeadLetterFails(s, h)
  PROVE  IInv'
<1>1. Handle(s, h)
  BY DEF HandlerSucceeds, HandlerFails, DeadLetterFails
<1>2. PICK m \in Messages : m = sweep[s].cur
  BY <1>1, HandleFirst
<1>3. /\ sweep[s].pc = "dispatch" /\ calls' \in [Messages -> [Handlers -> Nat]]
      /\ sweep \in [Sweeps -> SweepState] /\ <<m, h>> \in Messages \X Handlers
  BY <1>1, HandleFirst DEF IInv, TypeOK
<1>4. PICK n \in Nat : n = sweep[s].ran + 1
  <2>1. sweep[s].ran \in Nat
    BY <1>3 DEF SweepState
  <2> QED BY <2>1
<1>5. CASE HandlerSucceeds(s, h)
  <2>1. /\ succeeded' = succeeded \cup {<<m, h>>}
        /\ sweep' = [sweep EXCEPT ![s].ran = @ + 1]
        /\ UNCHANGED <<seqno, trimmed, group, grouped, pel, acked, dlq, handlers, order, conn,
                       up, faults, unsubs>>
    BY <1>2, <1>5 DEF HandlerSucceeds, redis
  <2>2. sweep' = [sweep EXCEPT ![s].ran = n] /\ sweep \in [Sweeps -> SweepState]
    BY <1>3, <1>4, <2>1
  <2>3. /\ sweep' \in [Sweeps -> SweepState]
        /\ sweep'[s].pc = sweep[s].pc /\ sweep'[s].msgs = sweep[s].msgs
        /\ sweep'[s].cur = sweep[s].cur /\ sweep'[s].ran = n
        /\ sweep'[s].at = sweep[s].at /\ sweep'[s].live = sweep[s].live
        /\ sweep'[s].hs = sweep[s].hs /\ sweep'[s].ok = sweep[s].ok
        /\ \A q \in Sweeps \ {s} : sweep'[q] = sweep[q]
    BY <2>2 DEF SweepState
  <2>4. TypeOK'
    BY <1>3, <2>1, <2>3 DEF IInv, TypeOK
  <2>5. Runs(s, m, h)
    BY <1>2, <1>3, <1>4, <2>1, <2>3 DEF Runs
  <2> QED BY <1>1, <1>2, <2>4, <2>5, RunKeeps
<1>6. CASE HandlerFails(s, h)
  <2>1. /\ dlq' = dlq \cup {<<m, h>>}
        /\ sweep' = [sweep EXCEPT ![s].ran = @ + 1, ![s].ok = FALSE]
        /\ UNCHANGED <<seqno, trimmed, group, grouped, pel, acked, succeeded, handlers, order,
                       conn, up, faults, unsubs>>
    BY <1>2, <1>6 DEF HandlerFails
  <2>2. /\ sweep' = [sweep EXCEPT ![s].ran = n, ![s].ok = FALSE]
        /\ sweep \in [Sweeps -> SweepState]
    BY <1>3, <1>4, <2>1
  <2>3. /\ sweep' \in [Sweeps -> SweepState]
        /\ sweep'[s].pc = sweep[s].pc /\ sweep'[s].msgs = sweep[s].msgs
        /\ sweep'[s].cur = sweep[s].cur /\ sweep'[s].ran = n
        /\ sweep'[s].at = sweep[s].at /\ sweep'[s].live = sweep[s].live
        /\ sweep'[s].hs = sweep[s].hs /\ sweep'[s].ok = FALSE
        /\ \A q \in Sweeps \ {s} : sweep'[q] = sweep[q]
    BY <2>2 DEF SweepState
  <2>4. TypeOK'
    BY <1>3, <2>1, <2>3 DEF IInv, TypeOK
  <2>5. Runs(s, m, h)
    BY <1>2, <1>3, <1>4, <2>1, <2>3 DEF Runs
  <2> QED BY <1>1, <1>2, <2>4, <2>5, RunKeeps
<1>7. CASE DeadLetterFails(s, h)
  <2>1. /\ sweep' = [sweep EXCEPT ![s] = [IdleSweep EXCEPT !.pc = "visit", !.at = sweep[s].at]]
        /\ faults' \in {faults, faults + 1}
        /\ UNCHANGED <<seqno, trimmed, group, grouped, pel, acked, dlq, succeeded, handlers,
                       order, conn, up, unsubs>>
    BY <1>7 DEF DeadLetterFails, redis
  <2>2. PICK b \in SweepState : b = [IdleSweep EXCEPT !.pc = "visit", !.at = sweep[s].at]
    <3>1. sweep[s].at \in Nat
      BY <1>3 DEF SweepState
    <3>2. [IdleSweep EXCEPT !.pc = "visit", !.at = sweep[s].at] \in SweepState
      BY <3>1, IdleTyped DEF SweepState
    <3> QED BY <3>2
  <2>3. b.pc = "visit" /\ b.msgs = {}
    BY <2>2, IdleTyped DEF SweepState
  <2>4. /\ sweep' \in [Sweeps -> SweepState]
        /\ sweep'[s].pc = "visit" /\ sweep'[s].msgs = {}
        /\ \A q \in Sweeps \ {s} : sweep'[q] = sweep[q]
    BY <1>3, <2>1, <2>2, <2>3
  <2>5. TypeOK'
    BY <1>3, <2>1, <2>4 DEF IInv, TypeOK
  <2>6. Runs(s, m, h)
    BY <2>1, <2>4 DEF Runs
  <2> QED BY <1>1, <1>2, <2>5, <2>6, RunKeeps
<1> QED
  BY <1>5, <1>6, <1>7

(***************************************************************************)
(* The arrays of handlers change under the sweeps that walk them.          *)
(***************************************************************************)

\* An array that is pushed onto.
LEMMA PushDistinct ==
  ASSUME NEW q \in Seq(Handlers), Distinct(q), NEW h \in Handlers,
         \A k \in DOMAIN q : q[k] # h
  PROVE  /\ Append(q, h) \in Seq(Handlers) /\ Append(q, h) # <<>>
         /\ Distinct(Append(q, h))
         /\ Len(Append(q, h)) = Len(q) + 1
         /\ \A k \in 1..Len(q) : Append(q, h)[k] = q[k]
<1>1. /\ Len(q) \in Nat /\ DOMAIN q = 1..Len(q)
      /\ Append(q, h) \in Seq(Handlers)
      /\ Len(Append(q, h)) = Len(q) + 1
      /\ DOMAIN Append(q, h) = 1..(Len(q) + 1)
      /\ \A k \in 1..Len(q) : Append(q, h)[k] = q[k]
      /\ Append(q, h)[Len(q) + 1] = h
  OBVIOUS
<1>2. \A k \in 1..(Len(q) + 1) : k \in 1..Len(q) \/ k = Len(q) + 1
  BY <1>1
<1>3. Distinct(Append(q, h))
  BY <1>1, <1>2 DEF Distinct
<1>4. Append(q, h) # <<>>
  BY <1>1
<1> QED
  BY <1>1, <1>3, <1>4

\* An array without one of its positions.
LEMMA FilterDistinct ==
  ASSUME NEW q \in Seq(Handlers), Distinct(q), NEW k \in DOMAIN q
  PROVE  /\ SubSeq(q, 1, k - 1) \o SubSeq(q, k + 1, Len(q)) \in Seq(Handlers)
         /\ Distinct(SubSeq(q, 1, k - 1) \o SubSeq(q, k + 1, Len(q)))
<1>1. Len(q) \in Nat /\ DOMAIN q = 1..Len(q) /\ k \in 1..Len(q)
      /\ \A j \in 1..Len(q) : q[j] \in Handlers
  OBVIOUS
<1> DEFINE a == SubSeq(q, 1, k - 1)
           b == SubSeq(q, k + 1, Len(q))
<1>2. /\ a \in Seq(Handlers) /\ Len(a) = k - 1
      /\ \A j \in 1..(k - 1) : a[j] = q[j]
  <2>1. k - 1 \in Int /\ \A j \in 1..(k - 1) : q[j] \in Handlers
    BY <1>1
  <2>2. /\ a \in Seq(Handlers) /\ Len(a) = IF 1 <= k - 1 THEN (k - 1) - 1 + 1 ELSE 0
        /\ \A j \in 1..((k - 1) - 1 + 1) : a[j] = q[1 + j - 1]
    BY <2>1, SubSeqProperties
  <2> HIDE DEF a
  <2> QED BY <1>1, <2>2
<1>3. /\ b \in Seq(Handlers) /\ Len(b) = Len(q) - k
      /\ \A j \in 1..(Len(q) - k) : b[j] = q[k + j]
  <2>1. k + 1 \in Int /\ Len(q) \in Int /\ \A j \in (k + 1)..Len(q) : q[j] \in Handlers
    BY <1>1
  <2>2. /\ b \in Seq(Handlers)
        /\ Len(b) = IF k + 1 <= Len(q) THEN Len(q) - (k + 1) + 1 ELSE 0
        /\ \A j \in 1..(Len(q) - (k + 1) + 1) : b[j] = q[(k + 1) + j - 1]
    BY <2>1, SubSeqProperties
  <2> HIDE DEF b
  <2>3. Len(b) = Len(q) - k /\ Len(q) - (k + 1) + 1 = Len(q) - k
    BY <1>1, <2>2
  <2>4. \A j \in 1..(Len(q) - k) : (k + 1) + j - 1 = k + j
    BY <1>1
  <2> QED BY <2>2, <2>3, <2>4
<1> HIDE DEF a, b
<1>4. /\ a \o b \in Seq(Handlers) /\ Len(a \o b) = Len(q) - 1
      /\ \A j \in 1..(Len(q) - 1) : (a \o b)[j] = IF j < k THEN q[j] ELSE q[j + 1]
  <2>1. /\ a \o b \in Seq(Handlers) /\ Len(a \o b) = Len(a) + Len(b)
        /\ \A j \in 1..(Len(a) + Len(b)) :
             (a \o b)[j] = IF j <= Len(a) THEN a[j] ELSE b[j - Len(a)]
    BY <1>2, <1>3, ConcatProperties
  <2>2. Len(a \o b) = Len(q) - 1
    BY <1>1, <1>2, <1>3, <2>1
  <2>3. ASSUME NEW j \in 1..(Len(q) - 1)
        PROVE  (a \o b)[j] = IF j < k THEN q[j] ELSE q[j + 1]
    <3>1. CASE j < k
      BY <1>1, <1>2, <1>3, <2>1, <3>1
    <3>2. CASE ~(j < k)
      <4>1. (a \o b)[j] = b[j - (k - 1)]
        BY <1>1, <1>2, <1>3, <2>1, <3>2
      <4>2. j - (k - 1) \in 1..(Len(q) - k) /\ k + (j - (k - 1)) = j + 1
        BY <1>1, <3>2
      <4>3. b[j - (k - 1)] = q[k + (j - (k - 1))]
        BY <1>3, <4>2
      <4> QED BY <3>2, <4>1, <4>2, <4>3
    <3> QED BY <3>1, <3>2
  <2> QED BY <2>1, <2>2, <2>3
<1>5. Distinct(a \o b)
  <2>1. PICK c \in Seq(Handlers) :
          /\ c = a \o b /\ Len(c) = Len(q) - 1
          /\ \A j \in 1..(Len(q) - 1) : c[j] = IF j < k THEN q[j] ELSE q[j + 1]
    BY <1>4
  <2>2. DOMAIN c = 1..(Len(q) - 1)
    <3>1. DOMAIN c = 1..Len(c)
      OBVIOUS
    <3> QED BY <2>1, <3>1
  <2>3. \A j \in DOMAIN c : \E l \in DOMAIN q :
          /\ c[j] = q[l]
          /\ l = IF j < k THEN j ELSE j + 1
    <3> SUFFICES ASSUME NEW j \in 1..(Len(q) - 1)
                 PROVE  \E l \in DOMAIN q : /\ c[j] = q[l]
                                            /\ l = IF j < k THEN j ELSE j + 1
      BY <2>2
    <3>1. j \in DOMAIN q /\ j + 1 \in DOMAIN q
      BY <1>1
    <3>2. c[j] = IF j < k THEN q[j] ELSE q[j + 1]
      BY <2>1
    <3> QED BY <3>1, <3>2
  <2>4. Distinct(c)
    BY <1>1, <2>2, <2>3 DEF Distinct
  <2> QED BY <2>1, <2>4
<1> QED
  BY <1>4, <1>5 DEF a, b

\* A handler is pushed onto an array that sweeps may be walking: they run it for
\* the event they are at, after the ones before it.
LEMMA SubscribeKeeps ==
  ASSUME IInv, NEW i \in Instances, NEW t \in Types, NEW h \in Handlers, Subscribe(i, t, h)
  PROVE  IInv'
<1> USE DEF IInv
<1>1. /\ \A k \in DOMAIN handlers[i][t] : handlers[i][t][k] # h
      /\ handlers' = [handlers EXCEPT ![i][t] = Append(handlers[i][t], h)]
      /\ order' = [order EXCEPT ![i] =
                     IF \E k \in DOMAIN order[i] : order[i][k] = t
                     THEN order[i] ELSE Append(order[i], t)]
      /\ conn' = [conn EXCEPT ![i] = Append(conn[i], [op |-> "group", type |-> t])]
      /\ UNCHANGED <<seqno, trimmed, group, grouped, pel, acked, dlq, calls, succeeded,
                     sweep, up, faults, unsubs>>
  BY DEF Subscribe, redis, history
<1>2. PICK a \in Seq(Handlers) : a = handlers[i][t]
  BY DEF TypeOK
<1>3. PICK b \in Seq(Handlers) : b = Append(a, h)
  <2>1. Append(a, h) \in Seq(Handlers)
    OBVIOUS
  <2> QED BY <2>1
<1>4. /\ b # <<>> /\ Distinct(b) /\ Len(b) = Len(a) + 1 /\ Len(a) \in Nat
      /\ \A k \in 1..Len(a) : b[k] = a[k]
  <2>1. Distinct(a) /\ \A k \in DOMAIN a : a[k] # h
    BY <1>1, <1>2 DEF ArraysSound
  <2> QED BY <1>3, <2>1, PushDistinct
<1>5. /\ handlers' \in [Instances -> [Types -> Seq(Handlers)]]
      /\ handlers'[i][t] = b
      /\ \A j \in Instances, u \in Types :
           j # i \/ u # t => handlers'[j][u] = handlers[j][u]
  BY <1>1, <1>2, <1>3 DEF TypeOK
<1>6. /\ order' \in [Instances -> Seq(Types)]
      /\ \A j \in Instances : \A k \in DOMAIN order[j] :
           k \in DOMAIN order'[j] /\ order'[j][k] = order[j][k]
  <2>1. order \in [Instances -> Seq(Types)]
    BY DEF TypeOK
  <2>2. PICK o \in Seq(Types) : o = Append(order[i], t)
    <3>1. order[i] \in Seq(Types)
      BY <2>1
    <3>2. Append(order[i], t) \in Seq(Types)
      BY <3>1
    <3> QED BY <3>2
  <2>3. \A k \in DOMAIN order[i] : k \in DOMAIN o /\ o[k] = order[i][k]
    BY <2>1, <2>2
  <2>4. order' = order \/ order' = [order EXCEPT ![i] = o]
    BY <1>1, <2>1, <2>2
  <2> QED BY <2>1, <2>3, <2>4
<1>7. PICK c \in Command : c = [op |-> "group", type |-> t]
  BY DEF Command
<1>8. /\ conn' \in [Instances -> Seq(Command)]
      /\ conn'[i] = Append(conn[i], c)
      /\ \A j \in Instances \ {i} : conn'[j] = conn[j]
  BY <1>1, <1>7, SendTyped DEF TypeOK
<1>9. TypeOK'
  BY <1>1, <1>5, <1>6, <1>8 DEF TypeOK
<1>10. Forward /\ NoNewHolder /\ SameHistory /\ GroupSound' /\ \A s \in Sweeps : Patient(s)
  BY <1>1 DEF Forward, Delivered, NoNewHolder, Holds, Dispatching, SameHistory, GroupSound,
              Patient
<1>11. FinishedForward
  BY <1>10, FinishedStays
<1>12. HeldSound'
  <2>1. \A s \in Sweeps : sweep'[s].pc = "dispatch" => sweep'[s].cur \notin sweep'[s].msgs
    BY <1>1 DEF HeldSound, Dispatching
  <2> QED BY <1>10, <2>1, HeldKeeps
<1>13. CallsSound' /\ HandledAtMostOnce'
  BY <1>1, <1>10, CallsKeep
<1>14. ASSUME NEW s \in Sweeps, AtWork(s)
       PROVE  /\ sweep'[s].at \in DOMAIN order'[HostOf[s]] /\ ArraySound(s)'
              /\ Len(Array(s)) <= Len(Array(s)')
              /\ \A k \in 1..Len(Array(s)) : Array(s)'[k] = Array(s)[k]
  <2>1. /\ sweep[s].at \in DOMAIN order[HostOf[s]] /\ ArraySound(s)
        /\ HostOf[s] \in Instances /\ Len(Array(s)) \in Nat
    BY <1>14, BusAssumption DEF ArraysSound, ArraySound
  <2>2. /\ sweep'[s].at \in DOMAIN order'[HostOf[s]] /\ sweep' = sweep
        /\ order'[HostOf[s]][sweep[s].at] = order[HostOf[s]][sweep[s].at]
        /\ order[HostOf[s]][sweep[s].at] \in Types
    <3>1. sweep' = sweep
      BY <1>1
    <3>2. order[HostOf[s]] \in Seq(Types)
      BY <2>1 DEF TypeOK
    <3>3. order[HostOf[s]][sweep[s].at] \in Types
      BY <2>1, <3>2
    <3> QED BY <1>6, <2>1, <3>1, <3>3
  <2>3. CASE sweep[s].live /\ HostOf[s] = i /\ order[HostOf[s]][sweep[s].at] = t
    <3>1. Array(s) = a /\ Array(s)' = b
      BY <1>2, <1>5, <2>2, <2>3 DEF Array
    <3>2. ArraySound(s)'
      BY <1>3, <1>4, <3>1 DEF ArraySound, Distinct
    <3> QED BY <1>4, <2>2, <3>1, <3>2
  <2>4. CASE ~(sweep[s].live /\ HostOf[s] = i /\ order[HostOf[s]][sweep[s].at] = t)
    <3>1. Array(s)' = Array(s)
      BY <1>5, <2>1, <2>2, <2>4 DEF Array
    <3>2. ArraySound(s)'
      BY <2>1, <3>1 DEF ArraySound
    <3> QED BY <2>1, <2>2, <3>1, <3>2
  <2> QED BY <2>3, <2>4
<1>15. ArraysSound'
  <2>1. \A j \in Instances, u \in Types : Distinct(handlers'[j][u])
    <3> SUFFICES ASSUME NEW j \in Instances, NEW u \in Types
                 PROVE  Distinct(handlers'[j][u])
      OBVIOUS
    <3>1. CASE j = i /\ u = t
      BY <1>4, <1>5, <3>1
    <3>2. CASE ~(j = i /\ u = t)
      BY <1>5, <3>2 DEF ArraysSound
    <3> QED BY <3>1, <3>2
  <2>2. \A s \in Sweeps : AtWork(s)' => AtWork(s)
    BY <1>1 DEF AtWork
  <2> QED BY <1>14, <2>1, <2>2 DEF ArraysSound, Distinct
<1>16. DispatchesSound'
  <2> SUFFICES ASSUME NEW s \in Sweeps, sweep'[s].pc = "dispatch"
               PROVE  DispatchSound(s, sweep[s].cur)'
    BY DEF DispatchesSound
  <2>1. /\ sweep' = sweep /\ calls' = calls /\ succeeded' = succeeded /\ dlq' = dlq
        /\ AtWork(s) /\ DispatchSound(s, sweep[s].cur)
    BY <1>1 DEF AtWork, DispatchesSound
  <2>2. sweep[s].ran \in Nat /\ Len(Array(s)) \in Nat /\ Len(Array(s)') \in Nat
    <3>1. sweep[s] \in SweepState
      BY DEF TypeOK
    <3>2. sweep[s].ran \in Nat
      BY <3>1 DEF SweepState
    <3>3. ArraySound(s) /\ ArraySound(s)'
      BY <1>14, <2>1 DEF ArraysSound
    <3> QED BY <3>2, <3>3 DEF ArraySound
  <2>3. sweep[s].ran <= Len(Array(s)')
    BY <1>14, <2>1, <2>2 DEF DispatchSound
  <2>4. \A k \in 1..sweep[s].ran : Array(s)'[k] = Array(s)[k]
    BY <1>14, <2>1, <2>2 DEF DispatchSound
  <2> QED BY <2>1, <2>3, <2>4 DEF DispatchSound, Clean, Succeeded
<1>17. ConnectionsSound'
  <2>1. c.op \notin {"read", "ack"} /\ Waits(i, c)'
    BY <1>7 DEF Waits
  <2>2. CommandsSound(i)'
    BY <1>8, <1>10, <1>11, <2>1, CommandsAppend DEF ConnectionsSound
  <2>3. \A j \in Instances \ {i} : CommandsSound(j)'
    BY <1>8, <1>10, <1>11, CommandsKeep DEF ConnectionsSound
  <2> QED BY <2>2, <2>3 DEF ConnectionsSound
<1>18. AckedSound'
  BY <1>1, <1>11, AckedKeep
<1> QED
  BY <1>9, <1>10, <1>12, <1>13, <1>15, <1>16, <1>17, <1>18

\* A new array without the handler takes the place of the old one in the map; a
\* sweep that walks the old one keeps it.
LEMMA UnsubscribeKeeps ==
  ASSUME IInv, NEW i \in Instances, NEW t \in Types, NEW h \in Handlers, Unsubscribe(i, t, h)
  PROVE  IInv'
<1> USE DEF IInv
<1>1. PICK a \in Seq(Handlers) : a = handlers[i][t]
  BY DEF TypeOK
<1>2. PICK k \in DOMAIN a :
        handlers' = [handlers EXCEPT ![i][t] =
                       SubSeq(a, 1, k - 1) \o SubSeq(a, k + 1, Len(a))]
  BY <1>1 DEF Unsubscribe
<1>3. PICK b \in Seq(Handlers) :
        Distinct(b) /\ handlers' = [handlers EXCEPT ![i][t] = b]
  <2>1. Distinct(a)
    BY <1>1 DEF ArraysSound
  <2> QED BY <1>2, <2>1, FilterDistinct
<1>4. /\ unsubs' = unsubs + 1
      /\ UNCHANGED <<seqno, trimmed, group, grouped, pel, acked, dlq, calls, succeeded,
                     order, conn, up, faults>>
  BY DEF Unsubscribe, redis, history
<1>5. /\ handlers' \in [Instances -> [Types -> Seq(Handlers)]]
      /\ handlers'[i][t] = b
      /\ \A j \in Instances, u \in Types :
           j # i \/ u # t => handlers'[j][u] = handlers[j][u]
  BY <1>3 DEF TypeOK
<1>6. /\ sweep \in [Sweeps -> SweepState]
      /\ sweep' = [s \in Sweeps |->
                     IF HostOf[s] = i /\ sweep[s].live /\ Walking(s, t)
                     THEN [sweep[s] EXCEPT !.live = FALSE, !.hs = a]
                     ELSE sweep[s]]
  BY <1>1 DEF TypeOK, Unsubscribe
<1>7. /\ sweep' \in [Sweeps -> SweepState]
      /\ \A s \in Sweeps :
           /\ sweep'[s].pc = sweep[s].pc /\ sweep'[s].at = sweep[s].at
           /\ sweep'[s].msgs = sweep[s].msgs /\ sweep'[s].cur = sweep[s].cur
           /\ sweep'[s].ran = sweep[s].ran /\ sweep'[s].ok = sweep[s].ok
  <2>1. ASSUME NEW s \in Sweeps
        PROVE  /\ sweep'[s] \in SweepState
               /\ sweep'[s].pc = sweep[s].pc /\ sweep'[s].at = sweep[s].at
               /\ sweep'[s].msgs = sweep[s].msgs /\ sweep'[s].cur = sweep[s].cur
               /\ sweep'[s].ran = sweep[s].ran /\ sweep'[s].ok = sweep[s].ok
    <3>1. /\ sweep[s] \in SweepState
          /\ sweep'[s] = sweep[s] \/ sweep'[s] = [sweep[s] EXCEPT !.live = FALSE, !.hs = a]
      BY <1>6
    <3> QED BY <3>1 DEF SweepState
  <2>2. sweep' \in [Sweeps -> SweepState]
    BY <1>6, <2>1
  <2> QED BY <2>1, <2>2
<1>8. ASSUME NEW s \in Sweeps, AtWork(s)
      PROVE  Array(s)' = Array(s)
  <2>1. HostOf[s] \in Instances /\ order[HostOf[s]][sweep[s].at] \in Types
    <3>1. HostOf[s] \in Instances /\ sweep[s].at \in DOMAIN order[HostOf[s]]
      BY <1>8, BusAssumption DEF ArraysSound
    <3>2. order[HostOf[s]] \in Seq(Types)
      BY <3>1 DEF TypeOK
    <3> QED BY <3>1, <3>2
  <2>2. CASE HostOf[s] = i /\ sweep[s].live /\ order[HostOf[s]][sweep[s].at] = t
    <3>1. Walking(s, t)
      BY <1>8, <2>2 DEF Walking, AtWork
    <3>2. sweep[s] \in SweepState /\ sweep'[s] = [sweep[s] EXCEPT !.live = FALSE, !.hs = a]
      BY <1>6, <2>2, <3>1
    <3>3. ~sweep'[s].live /\ sweep'[s].hs = a
      BY <3>2 DEF SweepState
    <3> QED BY <1>1, <2>2, <3>3 DEF Array
  <2>3. CASE ~(HostOf[s] = i /\ sweep[s].live /\ order[HostOf[s]][sweep[s].at] = t)
    <3>1. sweep'[s] = sweep[s]
      BY <1>6, <2>3 DEF Walking
    <3>2. order' = order
      BY <1>4
    <3>3. sweep[s].live => handlers'[HostOf[s]][order[HostOf[s]][sweep[s].at]]
                           = handlers[HostOf[s]][order[HostOf[s]][sweep[s].at]]
      BY <1>5, <2>1, <2>3
    <3> QED BY <3>1, <3>2, <3>3 DEF Array
  <2> QED BY <2>2, <2>3
<1>9. TypeOK'
  <2>1. unsubs' \in Nat
    BY <1>4 DEF TypeOK
  <2>2. sweep' \in [Sweeps -> SweepState]
    BY <1>7
  <2> QED BY <1>4, <1>5, <2>1, <2>2 DEF TypeOK
<1>10. Forward /\ NoNewHolder /\ SameHistory /\ GroupSound' /\ \A s \in Sweeps : Patient(s)
  BY <1>4, <1>7 DEF Forward, Delivered, NoNewHolder, Holds, Dispatching, SameHistory,
                    GroupSound, Patient
<1>11. FinishedForward
  BY <1>10, FinishedStays
<1>12. HeldSound'
  <2>1. \A s \in Sweeps : sweep'[s].pc = "dispatch" => sweep'[s].cur \notin sweep'[s].msgs
    BY <1>7 DEF HeldSound, Dispatching
  <2> QED BY <1>10, <2>1, HeldKeeps
<1>13. CallsSound' /\ HandledAtMostOnce'
  BY <1>7, <1>10, CallsKeep
<1>14. ArraysSound'
  <2>1. \A j \in Instances, u \in Types : Distinct(handlers'[j][u])
    <3> SUFFICES ASSUME NEW j \in Instances, NEW u \in Types
                 PROVE  Distinct(handlers'[j][u])
      OBVIOUS
    <3>1. CASE j = i /\ u = t
      BY <1>3, <1>5, <3>1
    <3>2. CASE ~(j = i /\ u = t)
      BY <1>5, <3>2 DEF ArraysSound
    <3> QED BY <3>1, <3>2
  <2>2. ASSUME NEW s \in Sweeps, AtWork(s)'
        PROVE  (sweep[s].at \in DOMAIN order[HostOf[s]] /\ ArraySound(s))'
    <3>1. AtWork(s) /\ order' = order
      BY <1>4, <1>7, <2>2 DEF AtWork
    <3>2. sweep[s].at \in DOMAIN order[HostOf[s]] /\ ArraySound(s)
      BY <3>1 DEF ArraysSound
    <3>3. ArraySound(s)'
      BY <1>8, <3>1, <3>2 DEF ArraySound
    <3> QED BY <1>7, <3>1, <3>2, <3>3
  <2> QED BY <2>1, <2>2 DEF ArraysSound, Distinct
<1>15. DispatchesSound'
  <2> SUFFICES ASSUME NEW s \in Sweeps, sweep'[s].pc = "dispatch"
               PROVE  DispatchSound(s, sweep[s].cur)'
    BY DEF DispatchesSound
  <2>1. /\ AtWork(s) /\ DispatchSound(s, sweep[s].cur)
        /\ calls' = calls /\ succeeded' = succeeded /\ dlq' = dlq
    BY <1>4, <1>7 DEF AtWork, DispatchesSound
  <2>2. Array(s)' = Array(s)
    BY <1>8, <2>1
  <2> QED BY <1>7, <2>1, <2>2 DEF DispatchSound, Clean, Succeeded
<1>16. ConnectionsSound'
  <2>1. conn' = conn
    BY <1>4
  <2> QED BY <1>10, <1>11, <2>1, CommandsKeep DEF ConnectionsSound
<1>17. AckedSound'
  BY <1>4, <1>11, AckedKeep
<1> QED
  BY <1>9, <1>10, <1>12, <1>13, <1>14, <1>15, <1>16, <1>17

\* An instance goes down: what its sweeps held is held by nobody, and stays
\* delivered; the other instances go on.
LEMMA ResetKeeps ==
  ASSUME IInv, NEW i \in Instances, ServeQuit(i) \/ Crash(i)
  PROVE  IInv'
<1> USE DEF IInv
<1>1. /\ handlers' = [handlers EXCEPT ![i] = [t \in Types |-> <<>>]]
      /\ order' = [order EXCEPT ![i] = <<>>]
      /\ conn' = [conn EXCEPT ![i] = <<>>]
      /\ sweep' = [s \in Sweeps |-> IF HostOf[s] = i THEN IdleSweep ELSE sweep[s]]
      /\ up' = [up EXCEPT ![i] = "down"]
      /\ faults' \in {faults, faults + 1}
      /\ UNCHANGED <<seqno, trimmed, group, grouped, pel, acked, dlq, calls, succeeded, unsubs>>
  BY DEF ServeQuit, Crash, Reset, redis, history
<1>2. PICK e : e = <<>> /\ e \in Seq(Handlers) /\ e \in Seq(Types) /\ e \in Seq(Command)
               /\ Distinct(e) /\ DOMAIN e = {}
  <2>1. <<>> \in Seq(Handlers) /\ <<>> \in Seq(Types) /\ <<>> \in Seq(Command)
    OBVIOUS
  <2>2. DOMAIN <<>> = {}
    OBVIOUS
  <2>3. Distinct(<<>>)
    BY <2>2 DEF Distinct
  <2> QED BY <2>1, <2>2, <2>3
<1>3. /\ handlers' \in [Instances -> [Types -> Seq(Handlers)]]
      /\ \A t \in Types : handlers'[i][t] = e
      /\ \A j \in Instances \ {i} : handlers'[j] = handlers[j]
  BY <1>1, <1>2 DEF TypeOK
<1>4. /\ order' \in [Instances -> Seq(Types)]
      /\ \A j \in Instances \ {i} : order'[j] = order[j]
  BY <1>1, <1>2 DEF TypeOK
<1>5. /\ conn' \in [Instances -> Seq(Command)]
      /\ conn'[i] = e
      /\ \A j \in Instances \ {i} : conn'[j] = conn[j]
  BY <1>1, <1>2 DEF TypeOK
<1>6. /\ sweep' \in [Sweeps -> SweepState]
      /\ \A s \in Sweeps : HostOf[s] # i => sweep'[s] = sweep[s]
      /\ \A s \in Sweeps : HostOf[s] = i => sweep'[s] = IdleSweep
  BY <1>1, IdleTyped DEF TypeOK
<1>7. ASSUME NEW s \in Sweeps, HostOf[s] = i
      PROVE  sweep'[s].pc = "idle" /\ sweep'[s].msgs = {}
  BY <1>6, <1>7 DEF IdleSweep
<1>8. TypeOK'
  BY <1>1, <1>3, <1>4, <1>5, <1>6 DEF TypeOK
<1>9. Forward /\ SameHistory /\ GroupSound'
  BY <1>1 DEF Forward, Delivered, SameHistory, GroupSound
<1>10. NoNewHolder
  <2> SUFFICES ASSUME NEW s \in Sweeps, NEW m \in Messages, Holds(s, m)'
               PROVE  Holds(s, m)
    BY DEF NoNewHolder
  <2>1. HostOf[s] # i
    BY <1>7 DEF Holds, Dispatching
  <2> QED BY <1>6, <2>1 DEF Holds, Dispatching
<1>11. FinishedForward
  BY <1>9, <1>10, FinishedStays
<1>12. HeldSound'
  <2>1. \A s \in Sweeps : sweep'[s].pc = "dispatch" => sweep'[s].cur \notin sweep'[s].msgs
    BY <1>6, <1>7 DEF HeldSound, Dispatching
  <2> QED BY <1>9, <1>10, <2>1, HeldKeeps
<1>13. CallsSound' /\ HandledAtMostOnce'
  <2>1. \A s \in Sweeps : sweep'[s].msgs \subseteq sweep[s].msgs
    BY <1>6, <1>7
  <2> QED BY <1>9, <2>1, CallsKeep
<1>14. ASSUME NEW s \in Sweeps, AtWork(s)'
       PROVE  /\ AtWork(s) /\ sweep'[s] = sweep[s] /\ order'[HostOf[s]] = order[HostOf[s]]
              /\ Array(s)' = Array(s)
  <2>1. HostOf[s] \in Instances \ {i}
    BY <1>7, <1>14, BusAssumption DEF AtWork
  <2>2. /\ sweep'[s] = sweep[s] /\ order'[HostOf[s]] = order[HostOf[s]]
        /\ handlers'[HostOf[s]] = handlers[HostOf[s]]
    BY <1>3, <1>4, <1>6, <2>1
  <2> QED BY <1>14, <2>2 DEF AtWork, Array
<1>15. ArraysSound'
  <2>1. \A j \in Instances, u \in Types : Distinct(handlers'[j][u])
    <3> SUFFICES ASSUME NEW j \in Instances, NEW u \in Types
                 PROVE  Distinct(handlers'[j][u])
      OBVIOUS
    <3>1. CASE j = i
      BY <1>2, <1>3, <3>1
    <3>2. CASE j # i
      BY <1>3, <3>2 DEF ArraysSound
    <3> QED BY <3>1, <3>2
  <2>2. ASSUME NEW s \in Sweeps, AtWork(s)'
        PROVE  (sweep[s].at \in DOMAIN order[HostOf[s]] /\ ArraySound(s))'
    <3>1. /\ AtWork(s) /\ sweep'[s] = sweep[s] /\ order'[HostOf[s]] = order[HostOf[s]]
          /\ Array(s)' = Array(s)
      BY <1>14, <2>2
    <3> QED BY <3>1 DEF ArraysSound, ArraySound
  <2> QED BY <2>1, <2>2 DEF ArraysSound, Distinct
<1>16. DispatchesSound'
  <2> SUFFICES ASSUME NEW s \in Sweeps, sweep'[s].pc = "dispatch"
               PROVE  DispatchSound(s, sweep[s].cur)'
    BY DEF DispatchesSound
  <2>1. sweep'[s] = sweep[s] /\ Array(s)' = Array(s)
    BY <1>14 DEF AtWork
  <2> QED BY <1>9, <2>1, DispatchKeeps DEF DispatchesSound
<1>17. ConnectionsSound'
  <2>1. CommandsSound(i)'
    BY <1>2, <1>5 DEF CommandsSound
  <2>2. ASSUME NEW j \in Instances \ {i}
        PROVE  CommandsSound(j)'
    <3>1. \A s \in Sweeps : HostOf[s] = j => Patient(s)
      BY <1>6 DEF Patient
    <3> QED BY <1>5, <1>11, <3>1, CommandsKeep DEF ConnectionsSound
  <2> QED BY <2>1, <2>2 DEF ConnectionsSound
<1>18. AckedSound'
  BY <1>1, <1>11, AckedKeep
<1> QED
  BY <1>8, <1>9, <1>12, <1>13, <1>15, <1>16, <1>17, <1>18

(***************************************************************************)
(* Every step keeps the invariant.                                         *)
(***************************************************************************)
LEMMA StepKeeps ==
  ASSUME IInv, [Next]_vars
  PROVE  IInv'
<1>1. ASSUME NEW m \in Messages, Publish(m) PROVE IInv'
  BY <1>1, PublishKeeps
<1>2. ASSUME NEW s \in Sweeps, Tick(s) PROVE IInv'
  BY <1>2, TickKeeps
<1>3. ASSUME NEW s \in Sweeps, Sweeping(s) PROVE IInv'
  <2>1. CASE Visit(s) BY <2>1, VisitKeeps
  <2>2. CASE NextMessage(s) BY <2>2, NextMessageKeeps
  <2>3. CASE Dispatched(s) BY <2>3, DispatchedKeeps
  <2>4. ASSUME NEW h \in Handlers,
               HandlerSucceeds(s, h) \/ HandlerFails(s, h) \/ DeadLetterFails(s, h)
        PROVE  IInv'
    BY <2>4, HandlerKeeps
  <2> QED BY <1>3, <2>1, <2>2, <2>3, <2>4 DEF Sweeping
<1>4. ASSUME NEW i \in Instances, Serving(i) PROVE IInv'
  <2>1. CASE ServeGroup(i) BY <2>1, ServeGroupKeeps
  <2>2. CASE ServeRead(i) BY <2>2, ServeReadKeeps
  <2>3. CASE ServeAck(i) BY <2>3, ServeAckKeeps
  <2>4. CASE ServeQuit(i) BY <2>4, ResetKeeps
  <2> QED BY <1>4, <2>1, <2>2, <2>3, <2>4 DEF Serving
<1>5. ASSUME NEW i \in Instances, Subscribing(i) PROVE IInv'
  BY <1>5, SubscribeKeeps DEF Subscribing
<1>6. ASSUME NEW i \in Instances, NEW t \in Types, NEW h \in Handlers, Unsubscribe(i, t, h)
      PROVE  IInv'
  BY <1>6, UnsubscribeKeeps
<1>7. ASSUME NEW i \in Instances, OnModuleDestroy(i) \/ QuitConsumer(i) \/ Restart(i)
      PROVE  IInv'
  BY <1>7, LifeKeeps
<1>8. ASSUME NEW i \in Instances, Crash(i) PROVE IInv'
  BY <1>8, ResetKeeps
<1>9. CASE UNCHANGED vars
  <2>1. /\ UNCHANGED <<seqno, trimmed, group, grouped, pel, acked, dlq, calls, succeeded,
                       handlers, order, conn, sweep, up, faults, unsubs>>
    BY <1>9 DEF vars, redis, history
  <2>2. TypeOK'
    BY <2>1 DEF IInv, TypeOK
  <2>3. GroupSound' /\ Forward /\ Aside
    BY <2>1 DEF IInv, GroupSound, Forward, Delivered, Aside
  <2> QED BY <2>2, <2>3, AsideKeeps
<1> QED
  BY <1>1, <1>2, <1>3, <1>4, <1>5, <1>6, <1>7, <1>8, <1>9 DEF Next

\* The bus starts with nothing delivered and nobody at work.
LEMMA InitSound ==
  ASSUME Init
  PROVE  IInv
<1>1. \A s \in Sweeps : sweep[s] = IdleSweep
  BY DEF Init
<1>2. \A s \in Sweeps : sweep[s].pc = "idle" /\ sweep[s].msgs = {}
  BY <1>1 DEF IdleSweep
<1>3. <<>> \in Seq(Handlers) /\ <<>> \in Seq(Types) /\ <<>> \in Seq(Command)
      /\ DOMAIN <<>> = {}
  OBVIOUS
<1>4. TypeOK
  <2>1. sweep \in [Sweeps -> SweepState]
    BY IdleTyped DEF Init
  <2>2. /\ handlers \in [Instances -> [Types -> Seq(Handlers)]]
        /\ order \in [Instances -> Seq(Types)]
        /\ conn \in [Instances -> Seq(Command)]
    BY <1>3 DEF Init
  <2> QED BY <2>1, <2>2 DEF Init, TypeOK
<1>5. \A s \in Sweeps, m \in Messages : ~Holds(s, m)
  BY <1>2 DEF Holds, Dispatching
<1>6. GroupSound /\ HeldSound
  BY <1>2, <1>5 DEF Init, GroupSound, HeldSound, Dispatching
<1>7. \A m \in Messages, h \in Handlers : calls[m][h] = 0
  BY DEF Init
<1>8. CallsSound /\ HandledAtMostOnce
  BY <1>7 DEF Init, CallsSound, HandledAtMostOnce
<1>9. ArraysSound
  <2>1. \A i \in Instances, t \in Types : handlers[i][t] = <<>>
    BY DEF Init
  <2> QED BY <1>2, <1>3, <2>1 DEF ArraysSound, AtWork, Distinct
<1>10. DispatchesSound
  BY <1>2 DEF DispatchesSound
<1>11. ConnectionsSound
  <2>1. \A i \in Instances : conn[i] = <<>>
    BY DEF Init
  <2> QED BY <1>3, <2>1 DEF ConnectionsSound, CommandsSound
<1>12. AckedSound
  BY DEF Init, AckedSound
<1> QED
  BY <1>4, <1>6, <1>8, <1>9, <1>10, <1>11, <1>12 DEF IInv

\* The inductive invariant holds in every reachable state of the bus.
THEOREM Invariance == Spec => []IInv
<1>1. Init => IInv
  BY InitSound
<1>2. IInv /\ [Next]_vars => IInv'
  BY StepKeeps
<1> QED
  BY <1>1, <1>2, PTL DEF Spec

\* Redis, the connections and the sweeps of RedisStreamsEventBus hold what their
\* types say: every entry of the dead-letter stream names an event and a handler,
\* and every command on a connection a sweep, an event or a type that exists.
THEOREM TypeCorrect == Spec => []TypeOK
<1>1. IInv => TypeOK
  BY DEF IInv
<1> QED
  BY <1>1, Invariance, PTL

\* However many instances and overlapping sweeps read under the one consumer name
\* of consumePendingMessages, and whatever crashes, no handler is run twice for
\* an event.
THEOREM AtMostOnceSafe == Spec => []HandledAtMostOnce
<1>1. IInv => HandledAtMostOnce
  BY DEF IInv
<1> QED
  BY <1>1, Invariance, PTL

\* The XACK of consumePendingMessages is reached only by events that some handler
\* took, that no handler failed on and that nobody is still handling.
THEOREM AckedSafe == Spec => []AckedWasHandled
<1>1. IInv => AckedWasHandled
  <2> SUFFICES ASSUME IInv, NEW m \in acked
               PROVE  /\ m \notin pel
                      /\ \E h \in Handlers : <<m, h>> \in succeeded
                      /\ \A h \in Handlers : /\ <<m, h>> \notin dlq
                                             /\ calls[m][h] > 0 => <<m, h>> \in succeeded
    BY DEF AckedWasHandled
  <2>1. m \in Messages /\ m \notin pel /\ Clean(m) /\ Succeeded(m)
    BY DEF IInv, TypeOK, AckedSound, Finished
  <2>2. \A h \in Handlers : <<m, h>> \in dlq => calls[m][h] > 0
    BY <2>1 DEF IInv, CallsSound
  <2> QED BY <2>1, <2>2 DEF Clean, Succeeded
<1> QED
  BY <1>1, Invariance, PTL
===============================================================================
