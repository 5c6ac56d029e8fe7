------------------------- MODULE EventStreamProofs -------------------------
(* What holds of EventStream for every value of its constants. *)
EXTENDS EventStream, TLAPS

\* The events that connection c has received or is about to receive, in order: what the
\* listener got, what the generator holds, what is in the queue.
Held(c) == IF out[c] # Ping /\ stream[c] = "sending" THEN 1 ELSE 0
Taken(c) == Len(got[c]) + Held(c)

\* Sender s has not yet come to connection c in its loop.
Pending(c) == \E s \in Senders : c \in rest[s]

\* Only the lock's owner broadcasts, and its event is the last one.
LockInv ==
    \A s \in Senders : /\ event[s] # Ping => lock = s /\ event[s] = sent
                       /\ rest[s] # {} => event[s] # Ping

Listed(c) == stream[c] \in {"waiting", "sending", "closing"}

\* The list holds the connections between register and unregister.
ListInv ==
    /\ \A c \in Conns : c \in active <=> Listed(c)
    /\ \A s \in Senders : rest[s] \subseteq active

\* The numbers in a connection follow each other from its registration to the last event.
OrderInv(c) ==
    /\ ~Listed(c) => got[c] = <<>> /\ queue[c] = <<>> /\ out[c] = Ping
    /\ \A i \in 1..Len(got[c]) : got[c][i] = since[c] + i
    /\ Listed(c) /\ link[c] = "up" =>
         /\ stream[c] \in {"waiting", "sending"}
         /\ Held(c) = 1 => out[c] = since[c] + Taken(c)
         /\ \A i \in 1..Len(queue[c]) : queue[c][i] = since[c] + Taken(c) + i
         /\ since[c] + Taken(c) + Len(queue[c]) = IF Pending(c) THEN sent - 1 ELSE sent

StreamInv == TypeOK /\ LockInv /\ ListInv /\ \A c \in Conns : OrderInv(c)

LEMMA ConstantFacts ==
    /\ NoThread \notin Senders /\ MaxEvents \in Nat /\ AgentOf \in [Conns -> Agents]
    /\ Ping = 0 /\ Ping \notin Events /\ Events \subseteq Nat
BY EventStreamAssumption DEF Ping, Events

LEMMA EmptyQueue == Len(<<>>) = 0
OBVIOUS

LEMMA InitInv == Init => StreamInv
<1> SUFFICES ASSUME Init PROVE StreamInv
  OBVIOUS
<1>1. TypeOK
  BY ConstantFacts DEF Init, TypeOK
<1>2. LockInv /\ ListInv
  BY ConstantFacts DEF Init, LockInv, ListInv, Listed
<1>3. ASSUME NEW c \in Conns PROVE OrderInv(c)
  <2>1. got[c] = <<>> /\ queue[c] = <<>> /\ out[c] = Ping /\ ~Listed(c)
    BY DEF Init, Listed
  <2>2. \A i \in 1..Len(got[c]) : FALSE
    BY <2>1, EmptyQueue
  <2> QED
    BY <2>1, <2>2 DEF OrderInv
<1> QED
  BY <1>1, <1>2, <1>3 DEF StreamInv

\* No loop is under way while the lock is free.
LEMMA FreeLock ==
    ASSUME LockInv, lock = NoThread
    PROVE  \A s \in Senders : rest[s] = {} /\ event[s] = Ping
BY ConstantFacts DEF LockInv

\* A connection no variable of which changed is as ordered as it was.
LEMMA OrderKept ==
    ASSUME NEW c \in Conns, OrderInv(c), Pending(c)' <=> Pending(c),
           UNCHANGED <<queue[c], stream[c], out[c], link[c], got[c], since[c], sent>>
    PROVE  OrderInv(c)'
<1>1. Listed(c)' = Listed(c) /\ Held(c)' = Held(c) /\ Taken(c)' = Taken(c)
  BY DEF Listed, Taken, Held
<1> QED
  BY <1>1 DEF OrderInv

LEMMA BroadcastStep ==
    ASSUME StreamInv, NEW s \in Senders, Broadcast(s)
    PROVE  StreamInv'
<1> USE ConstantFacts DEF StreamInv, Broadcast
<1>1. TypeOK'
  BY DEF TypeOK, Events
<1>2. LockInv'
  BY FreeLock DEF LockInv, TypeOK
<1>3. ListInv'
  BY DEF ListInv, Listed, TypeOK
<1>4. ASSUME NEW c \in Conns PROVE OrderInv(c)'
  <2>1. Listed(c) => ~Pending(c) /\ Pending(c)'
    BY FreeLock DEF ListInv, Pending, TypeOK
  <2>2. sent \in Nat /\ sent' = sent + 1
    BY DEF TypeOK
  <2>3. Listed(c)' = Listed(c) /\ Held(c)' = Held(c) /\ Taken(c)' = Taken(c)
    BY DEF Listed, Taken, Held
  <2> HIDE DEF Broadcast
  <2>4. UNCHANGED <<queue, stream, out, link, got, since>>
    BY DEF Broadcast
  <2> QED
    BY <2>1, <2>2, <2>3, <2>4 DEF OrderInv
<1> QED
  BY <1>1, <1>2, <1>3, <1>4

LEMMA PutStep ==
    ASSUME StreamInv, NEW s \in Senders, NEW c \in Conns, Put(s, c)
    PROVE  StreamInv'
<1> USE ConstantFacts DEF StreamInv, Put
<1>1. event[s] = sent /\ sent \in Nat /\ event[s] \in Events /\ lock = s
  BY DEF LockInv, TypeOK
<1>2. TypeOK'
  BY <1>1 DEF TypeOK
<1>3. LockInv'
  BY <1>1 DEF LockInv, TypeOK
<1>4. ListInv'
  BY DEF ListInv, Listed, TypeOK
<1>5. ASSUME NEW d \in Conns, d # c PROVE OrderInv(d)'
  <2>1. Pending(d)' <=> Pending(d)
    BY <1>5 DEF Pending, TypeOK
  <2>2. queue'[d] = queue[d]
    BY <1>5 DEF TypeOK
  <2> QED
    BY <2>1, <2>2, OrderKept
<1>6. OrderInv(c)'
  <2>1. Pending(c) /\ ~Pending(c)'
    BY <1>1, <1>3 DEF Pending, LockInv, TypeOK
  <2>2. Listed(c)
    BY DEF ListInv
  <2>3. /\ queue[c] \in Seq(Events)
        /\ queue'[c] = Append(queue[c], sent)
    BY <1>1 DEF TypeOK
  <2>4. since[c] \in Nat /\ Taken(c) \in Nat
    BY DEF TypeOK, Taken, Held
  <2> DEFINE base == since[c] + Taken(c)
  <2>a. base \in Nat
    BY <2>4
  <2>b. Listed(c)' = Listed(c) /\ Held(c)' = Held(c) /\ Taken(c)' = Taken(c)
    BY DEF Listed, Taken, Held
  <2>c. UNCHANGED <<sent, stream, out, link, got, since>>
    OBVIOUS
  <2>5. CASE link[c] = "up"
    <3>1. base + Len(queue[c]) = sent - 1
      BY <2>1, <2>2, <2>5 DEF OrderInv
    <3>2. Len(queue'[c]) = Len(queue[c]) + 1 /\ Len(queue[c]) \in Nat
      BY <2>3
    <3> HIDE DEF Put, base
    <3>3. base + Len(queue'[c]) = sent
      BY <1>1, <2>a, <3>1, <3>2
    <3>4. ASSUME NEW i \in 1..Len(queue'[c])
          PROVE  queue'[c][i] = base + i
      <4>1. CASE i \in 1..Len(queue[c])
        <5>1. queue[c][i] = base + i
          BY <2>2, <2>5, <4>1 DEF OrderInv, base
        <5> QED
          BY <2>3, <4>1, <5>1
      <4>2. CASE i = Len(queue[c]) + 1
        <5>1. queue'[c][i] = sent
          BY <1>1, <2>3, <4>2
        <5> QED
          BY <1>1, <2>a, <3>1, <3>2, <4>2, <5>1
      <4> QED
        BY <3>2, <4>1, <4>2
    <3> QED
      BY <2>1, <2>2, <2>b, <2>c, <3>3, <3>4 DEF OrderInv, base
  <2>6. CASE link[c] # "up"
    BY <2>2, <2>6, <2>b, <2>c DEF OrderInv
  <2> QED
    BY <2>5, <2>6
<1> QED
  BY <1>2, <1>3, <1>4, <1>5, <1>6

LEMMA BroadcastDoneStep ==
    ASSUME StreamInv, NEW s \in Senders, BroadcastDone(s)
    PROVE  StreamInv'
<1> USE ConstantFacts DEF StreamInv, BroadcastDone
<1>1. TypeOK'
  BY DEF TypeOK
<1>2. LockInv'
  BY DEF LockInv, TypeOK
<1>3. ListInv'
  BY DEF ListInv, Listed
<1>4. ASSUME NEW c \in Conns PROVE OrderInv(c)'
  <2>1. Pending(c)' <=> Pending(c)
    BY DEF Pending
  <2> QED
    BY <2>1, OrderKept
<1> QED
  BY <1>1, <1>2, <1>3, <1>4

LEMMA ConnectStep ==
    ASSUME StreamInv, NEW c \in Conns, Connect(c)
    PROVE  StreamInv'
<1> USE ConstantFacts DEF StreamInv, Connect
<1>1. TypeOK'
  BY DEF TypeOK
<1>2. LockInv'
  BY DEF LockInv
<1>3. ListInv'
  BY DEF ListInv, Listed, TypeOK
<1>4. ASSUME NEW d \in Conns, d # c PROVE OrderInv(d)'
  BY <1>4, OrderKept DEF Pending, TypeOK
<1>5. OrderInv(c)'
  BY DEF OrderInv, Listed, TypeOK
<1> QED
  BY <1>1, <1>2, <1>3, <1>4, <1>5

LEMMA RegisterStep ==
    ASSUME StreamInv, NEW c \in Conns, Register(c)
    PROVE  StreamInv'
<1> USE ConstantFacts DEF StreamInv, Register
<1>1. TypeOK'
  BY DEF TypeOK
<1>2. LockInv'
  BY DEF LockInv
<1>3. ListInv'
  BY FreeLock DEF ListInv, Listed, TypeOK
<1>4. ASSUME NEW d \in Conns, d # c PROVE OrderInv(d)'
  BY <1>4, OrderKept DEF Pending, TypeOK
<1>5. OrderInv(c)'
  <2>1. got[c] = <<>> /\ queue[c] = <<>> /\ out[c] = Ping
    BY DEF OrderInv, Listed
  <2>2. ~Pending(c)
    BY FreeLock DEF Pending
  <2>3. Taken(c)' = 0 /\ Held(c)' = 0 /\ sent \in Nat
    BY <2>1, EmptyQueue DEF Taken, Held, TypeOK
  <2> QED
    BY <2>1, <2>2, <2>3, EmptyQueue DEF OrderInv, Listed, Pending, TypeOK
<1> QED
  BY <1>1, <1>2, <1>3, <1>4, <1>5

LEMMA TakePingStep ==
    ASSUME StreamInv, NEW c \in Conns, TakePing(c)
    PROVE  StreamInv'
<1> USE ConstantFacts DEF StreamInv, TakePing
<1>1. TypeOK'
  BY DEF TypeOK
<1>2. LockInv'
  BY DEF LockInv
<1>3. ListInv'
  BY DEF ListInv, Listed, TypeOK
<1>4. ASSUME NEW d \in Conns, d # c PROVE OrderInv(d)'
  BY <1>4, OrderKept DEF Pending, TypeOK
<1>5. OrderInv(c)'
  <2>1. Held(c)' = Held(c) /\ Taken(c)' = Taken(c) /\ Listed(c)' = Listed(c)
    BY DEF Held, Taken, Listed, TypeOK
  <2> QED
    BY <2>1 DEF OrderInv, Listed, Held, Pending, TypeOK
<1> QED
  BY <1>1, <1>2, <1>3, <1>4, <1>5

LEMMA DeliverLastStep ==
    ASSUME StreamInv, NEW c \in Conns, DeliverLast(c)
    PROVE  StreamInv'
<1> USE ConstantFacts DEF StreamInv, DeliverLast
<1>1. TypeOK'
  BY DEF TypeOK
<1>2. LockInv'
  BY DEF LockInv
<1>3. ListInv'
  BY DEF ListInv, Listed, TypeOK
<1>4. ASSUME NEW d \in Conns, d # c PROVE OrderInv(d)'
  BY <1>4, OrderKept DEF Pending, TypeOK
<1>5. OrderInv(c)'
  BY DEF OrderInv, Listed, Pending, TypeOK
<1> QED
  BY <1>1, <1>2, <1>3, <1>4, <1>5

LEMMA SwallowStep ==
    ASSUME StreamInv, NEW c \in Conns, Swallow(c)
    PROVE  StreamInv'
<1> USE ConstantFacts DEF StreamInv, Swallow
<1>1. TypeOK'
  BY DEF TypeOK
<1>2. LockInv'
  BY DEF LockInv
<1>3. ListInv'
  BY DEF ListInv, Listed, TypeOK
<1>4. ASSUME NEW d \in Conns, d # c PROVE OrderInv(d)'
  BY <1>4, OrderKept DEF Pending, TypeOK
<1>5. OrderInv(c)'
  BY DEF OrderInv, Listed, Pending, TypeOK
<1> QED
  BY <1>1, <1>2, <1>3, <1>4, <1>5

LEMMA WriteFailsStep ==
    ASSUME StreamInv, NEW c \in Conns, WriteFails(c)
    PROVE  StreamInv'
<1> USE ConstantFacts DEF StreamInv, WriteFails
<1>1. TypeOK'
  BY DEF TypeOK
<1>2. LockInv'
  BY DEF LockInv
<1>3. ListInv'
  BY DEF ListInv, Listed, TypeOK
<1>4. ASSUME NEW d \in Conns, d # c PROVE OrderInv(d)'
  BY <1>4, OrderKept DEF Pending, TypeOK
<1>5. OrderInv(c)'
  BY DEF OrderInv, Listed, Pending, TypeOK
<1> QED
  BY <1>1, <1>2, <1>3, <1>4, <1>5

LEMMA StopListeningStep ==
    ASSUME StreamInv, NEW a \in Agents, StopListening(a)
    PROVE  StreamInv'
<1> USE ConstantFacts DEF StreamInv, StopListening
<1>1. TypeOK'
  BY DEF TypeOK
<1>2. LockInv'
  BY DEF LockInv
<1>3. ListInv'
  BY DEF ListInv, Listed, TypeOK
<1>4. ASSUME NEW c \in Conns PROVE OrderInv(c)'
  <2>1. Pending(c)' <=> Pending(c)
    BY DEF Pending
  <2> QED
    BY <2>1, OrderKept
<1> QED
  BY <1>1, <1>2, <1>3, <1>4

LEMMA CutStep ==
    ASSUME StreamInv, NEW c \in Conns, Cut(c)
    PROVE  StreamInv'
<1> USE ConstantFacts DEF StreamInv, Cut
<1>1. TypeOK'
  BY DEF TypeOK
<1>2. LockInv'
  BY DEF LockInv
<1>3. ListInv'
  BY DEF ListInv, Listed, TypeOK
<1>4. ASSUME NEW d \in Conns, d # c PROVE OrderInv(d)'
  BY <1>4, OrderKept DEF Pending, TypeOK
<1>5. OrderInv(c)'
  BY DEF OrderInv, Listed, Pending, TypeOK
<1> QED
  BY <1>1, <1>2, <1>3, <1>4, <1>5

LEMMA TakeStep ==
    ASSUME StreamInv, NEW c \in Conns, Take(c)
    PROVE  StreamInv'
<1> USE ConstantFacts DEF StreamInv, Take
<1>1. TypeOK'
  BY DEF TypeOK
<1>2. LockInv'
  BY DEF LockInv
<1>3. ListInv'
  BY DEF ListInv, Listed, TypeOK
<1>4. ASSUME NEW d \in Conns, d # c PROVE OrderInv(d)'
  BY <1>4, OrderKept DEF Pending, TypeOK
<1>5. OrderInv(c)'
  <2>1. /\ queue[c] \in Seq(Events) /\ queue[c] # <<>>
        /\ queue'[c] = Tail(queue[c]) /\ out'[c] = Head(queue[c])
    BY DEF TypeOK
  <2>2. since[c] \in Nat /\ Len(got[c]) \in Nat /\ sent \in Nat
    BY DEF TypeOK
  <2>3. Listed(c) /\ Listed(c)' /\ (Pending(c)' <=> Pending(c)) /\ stream'[c] = "sending"
    BY DEF Listed, Pending, TypeOK
  <2>4. Held(c) = 0
    BY DEF Held
  <2>5. UNCHANGED <<sent, link, got, since>>
    OBVIOUS
  <2> HIDE DEF Take
  <2>6. Len(queue[c]) \in Nat /\ Len(queue[c]) >= 1 /\ Len(queue'[c]) = Len(queue[c]) - 1
    BY <2>1
  <2>7. out'[c] = queue[c][1] /\ queue[c][1] \in Events
    BY <2>1, <2>6
  <2>8. ASSUME NEW i \in 1..Len(queue'[c])
        PROVE  i + 1 \in 1..Len(queue[c]) /\ queue'[c][i] = queue[c][i + 1]
    BY <2>1, <2>6
  <2>9. Held(c)' = 1
    BY <2>3, <2>7 DEF Held
  <2> DEFINE base == since[c] + Taken(c)
  <2>10. base \in Nat /\ (since[c] + Taken(c))' = base + 1
    BY <2>2, <2>4, <2>5, <2>9 DEF Taken
  <2>11. CASE link[c] = "up"
    <3>1. /\ \A i \in 1..Len(queue[c]) : queue[c][i] = base + i
          /\ base + Len(queue[c]) = IF Pending(c) THEN sent - 1 ELSE sent
      BY <2>3, <2>11 DEF OrderInv
    <3> HIDE DEF base
    <3>2. out'[c] = base + 1
      BY <2>6, <2>7, <3>1
    <3>3. ASSUME NEW i \in 1..Len(queue'[c])
          PROVE  queue'[c][i] = base + 1 + i
      BY <2>8, <2>10, <3>1
    <3>4. base + 1 + Len(queue'[c]) = base + Len(queue[c])
      <4>1. base \in Nat
        BY <2>10
      <4>2. \A m, n \in Nat : m = n - 1 => base + 1 + m = base + n
        BY <4>1
      <4>3. Len(queue'[c]) \in Nat
        BY <2>6
      <4> QED
        BY <2>6, <4>2, <4>3
    <3> QED
      BY <2>3, <2>5, <2>10, <3>1, <3>2, <3>3, <3>4 DEF OrderInv
  <2>12. CASE link[c] # "up"
    BY <2>3, <2>5, <2>12 DEF OrderInv
  <2> QED
    BY <2>11, <2>12
<1> QED
  BY <1>1, <1>2, <1>3, <1>4, <1>5

LEMMA DeliverStep ==
    ASSUME StreamInv, NEW c \in Conns, Deliver(c)
    PROVE  StreamInv'
<1> USE ConstantFacts DEF StreamInv, Deliver
<1>1. TypeOK'
  BY DEF TypeOK
<1>2. LockInv'
  BY DEF LockInv
<1>3. ListInv'
  BY DEF ListInv, Listed, TypeOK
<1>4. ASSUME NEW d \in Conns, d # c PROVE OrderInv(d)'
  BY <1>4, OrderKept DEF Pending, TypeOK
<1>5. OrderInv(c)'
  <2>1. /\ got[c] \in Seq(Events) /\ since[c] \in Nat /\ link[c] = "up"
        /\ Len(got[c]) \in Nat
    BY DEF TypeOK
  <2>2. Listed(c) /\ Listed(c)' /\ (Pending(c)' <=> Pending(c)) /\ stream'[c] = "waiting"
    BY DEF Listed, Pending, TypeOK
  <2>3. Held(c)' = 0
    BY <2>2 DEF Held
  <2>4. UNCHANGED <<sent, queue, link, since>>
    OBVIOUS
  <2>5. CASE out[c] = Ping
    <3>1. Taken(c)' = Taken(c) /\ Held(c) = 0 /\ got' = got
      BY <2>3, <2>5 DEF Taken, Held
    <3> QED
      BY <2>1, <2>2, <2>3, <2>4, <3>1 DEF OrderInv
  <2>6. CASE out[c] # Ping
    <3>1. Held(c) = 1 /\ Taken(c) = Len(got[c]) + 1
      BY <2>6 DEF Held, Taken
    <3>2. got'[c] = Append(got[c], out[c]) /\ out[c] \in Events
      BY <2>6 DEF TypeOK
    <3>3. Len(got'[c]) = Len(got[c]) + 1
      BY <2>1, <3>2
    <3>4. Taken(c)' = Taken(c)
      BY <2>1, <2>3, <3>1, <3>3 DEF Taken
    <3>5. out[c] = since[c] + (Len(got[c]) + 1)
      BY <2>1, <2>2, <3>1 DEF OrderInv
    <3>6. ASSUME NEW i \in 1..Len(got'[c])
          PROVE  got'[c][i] = since[c] + i
      <4>1. CASE i \in 1..Len(got[c])
        BY <2>1, <3>2, <4>1 DEF OrderInv
      <4>2. CASE i = Len(got[c]) + 1
        BY <2>1, <3>2, <3>5, <4>2
      <4> QED
        BY <2>1, <3>3, <4>1, <4>2
    <3> HIDE DEF Deliver
    <3> QED
      BY <2>1, <2>2, <2>3, <2>4, <3>4, <3>6 DEF OrderInv
  <2> QED
    BY <2>5, <2>6
<1> QED
  BY <1>1, <1>2, <1>3, <1>4, <1>5

LEMMA UnregisterStep ==
    ASSUME StreamInv, NEW c \in Conns, Unregister(c)
    PROVE  StreamInv'
<1> USE ConstantFacts DEF StreamInv, Unregister, Over
<1>1. TypeOK'
  BY DEF TypeOK
<1>2. LockInv'
  BY DEF LockInv
<1>3. ListInv'
  BY FreeLock DEF ListInv, Listed, TypeOK
<1>4. ASSUME NEW d \in Conns, d # c PROVE OrderInv(d)'
  BY <1>4, OrderKept DEF Pending, TypeOK
<1>5. OrderInv(c)'
  <2>1. got'[c] = <<>> /\ queue'[c] = <<>> /\ out'[c] = Ping /\ ~Listed(c)'
    BY DEF Listed, TypeOK
  <2>2. \A i \in 1..Len(got'[c]) : FALSE
    BY <2>1, EmptyQueue
  <2> QED
    BY <2>1, <2>2 DEF OrderInv
<1> QED
  BY <1>1, <1>2, <1>3, <1>4, <1>5

LEMMA NextInv == StreamInv /\ [Next]_vars => StreamInv'
<1> SUFFICES ASSUME StreamInv, [Next]_vars PROVE StreamInv'
  OBVIOUS
<1>1. CASE UNCHANGED vars
  <2>1. TypeOK' /\ LockInv' /\ ListInv'
    BY <1>1 DEF vars, StreamInv, TypeOK, LockInv, ListInv, Listed
  <2>2. \A c \in Conns : OrderInv(c)'
    BY <1>1, OrderKept DEF vars, StreamInv, Pending
  <2> QED
    BY <2>1, <2>2 DEF StreamInv
<1>2. CASE \E s \in Senders : Broadcast(s) \/ Broadcasting(s)
  BY <1>2, BroadcastStep, PutStep, BroadcastDoneStep DEF Broadcasting
<1>3. CASE \E c \in Conns : Connect(c) \/ Generator(c) \/ Cut(c)
  BY <1>3, ConnectStep, RegisterStep, TakeStep, TakePingStep, DeliverStep, DeliverLastStep,
     SwallowStep, WriteFailsStep, UnregisterStep, CutStep DEF Generator
<1>4. CASE \E a \in Agents : StopListening(a)
  BY <1>4, StopListeningStep
<1> QED
  BY <1>1, <1>2, <1>3, <1>4 DEF Next

LEMMA NoGaps == StreamInv => ReceivedWithoutGaps
<1> SUFFICES ASSUME StreamInv, NEW c \in Conns
             PROVE  got[c] = [i \in 1..Len(got[c]) |-> since[c] + i]
  BY DEF ReceivedWithoutGaps
<1>1. got[c] \in Seq(Events) /\ \A i \in 1..Len(got[c]) : got[c][i] = since[c] + i
  BY DEF StreamInv, TypeOK, OrderInv
<1>2. got[c] = [i \in 1..Len(got[c]) |-> got[c][i]]
  BY <1>1
<1> QED
  BY <1>1, <1>2

LEMMA InvHolds == Spec => []StreamInv
BY InitInv, NextInv, PTL DEF Spec

\* Every variable of the stream keeps its type.
THEOREM EventStreamTypeCorrect == Spec => []TypeOK
<1>1. StreamInv => TypeOK
  BY DEF StreamInv
<1> QED
  BY <1>1, InvHolds, PTL

\* However many threads broadcast and connections come and go, a listener receives the events
\* since its registration without a gap, a repetition or a change of order (agent_routes.py).
THEOREM ListenersMissNothing == Spec => []ReceivedWithoutGaps
BY NoGaps, InvHolds, PTL
=============================================================================
