----------------------------- MODULE SmokeProofs -----------------------------
(***************************************************************************)
(* Proofs about Smoke, for every set of readers, every script of messages  *)
(* and every timeout and limit: frames stay in step, output is what the    *)
(* command wrote, the limit is exact, and at most one frame is late.       *)
(***************************************************************************)
EXTENDS Smoke, FramesProofs

\* The provers for the steps that name none, and the seconds they have.
USE SMTT(30), ZenonT(60)

-----------------------------------------------------------------------------
(* The deadline.                                                           *)

\* A frame that is late was the last one: no time remains, and no read begins.
LateInv ==
    /\ elapsed \in 0..Timeout
    /\ reading => pc \in {"ready", "loop"}
    /\ \/ late = 0
       \/ late = 1 /\ client = "smoke" /\ elapsed = Timeout /\ ~reading /\ pc # "connect"

\* The least of two numbers.
LEMMA MinOfTwo ==
    ASSUME NEW a \in Int, NEW b \in Int
    PROVE  Min({a, b}) = IF a <= b THEN a ELSE b
BY DEF Min

\* TakeFrame ends the read, and leaves the deadline alone.
LEMMA TakeFrameMoves ==
    ASSUME TakeFrame
    PROVE  pc' \in {pc, "execute", "done"}
BY Zenon DEF TakeFrame, TakeOutput, TakeExit, append_output, Return, ReturnWith

\* Every step keeps it.
LEMMA NextLateInv ==
    ASSUME LateInv, [Next]_vars
    PROVE  LateInv'
<1>t. Timeout \in Nat /\ Timeout # 0  BY SmokeAssumption
<1>1. CASE Connect  BY <1>1, <1>t DEF LateInv, Connect, taken
<1>2. CASE ConnectFails  BY <1>2, <1>t DEF LateInv, ConnectFails, Return, ReturnWith, clock
<1>3. CASE BeginFrame
  <2>1. late = 1 => remaining = None  BY <1>3, <1>t DEF LateInv, remaining, None
  <2> QED  BY <1>3, <2>1, <1>t DEF LateInv, BeginFrame, Return, ReturnWith
<1>4. CASE ReadByte  BY <1>4, <1>t DEF LateInv, ReadByte, taken
<1>5. CASE ReadFails  BY <1>5, <1>t DEF LateInv, ReadFails, Return, ReturnWith, clock
<1>6. CASE ReadTimesOut  BY <1>6, <1>t DEF LateInv, ReadTimesOut, Return, ReturnWith, clock
<1>7. CASE TakeFrame
  <2>1. pc' \in {pc, "execute", "done"}  BY <1>7, TakeFrameMoves
  <2>2. ~reading'  BY <1>7, Zenon DEF TakeFrame
  <2>3. reading /\ late = 0 /\ pc # "connect"  BY <1>7, Zenon DEF TakeFrame, LateInv
  <2>4. UNCHANGED <<client, elapsed>> /\ late' = IF client = "smoke" /\ elapsed = Timeout THEN 1 ELSE 0
    BY <1>7, <2>3 DEF TakeFrame, clock
  <2> QED  BY <2>1, <2>2, <2>3, <2>4, <1>t DEF LateInv
<1>8. CASE SendExecute  BY <1>8, <1>t DEF LateInv, SendExecute, Return, ReturnWith
<1>9. CASE SendFails  BY <1>9, <1>t DEF LateInv, SendFails, Return, ReturnWith, clock
<1>10. CASE StopPorts  BY <1>10, <1>t DEF LateInv, StopPorts, Return, ReturnWith, clock
<1>11. CASE Tick
  <2>1. Min({elapsed + 1, Timeout}) \in 0..Timeout /\ (elapsed = Timeout => Min({elapsed + 1, Timeout}) = Timeout)
    BY MinOfTwo, <1>t DEF LateInv
  <2> QED  BY <1>11, <2>1, <1>t DEF LateInv, Tick, taken
<1>12. CASE GuestExecutes  BY <1>12, <1>t DEF LateInv, GuestExecutes, clock, taken
<1>13. CASE GuestCloses  BY <1>13, <1>t DEF LateInv, GuestCloses, clock, taken
<1>14. CASE UNCHANGED vars  BY <1>14 DEF LateInv, vars, clock, taken
<1> QED
  BY <1>1, <1>2, <1>3, <1>4, <1>5, <1>6, <1>7, <1>8, <1>9, <1>10, <1>11, <1>12, <1>13,
     <1>14, Zenon
  DEF Next, HostStep

\* The deadline of run_smoke: remaining is None once it has passed, so no read
\* begins, and of a read that was waiting at the deadline at most one frame is
\* taken.
THEOREM SmokeAtMostOneLateFrame == Spec => []AtMostOneLateFrame
<1>1. ASSUME Init PROVE LateInv
  <2>1. Timeout \in Nat  BY SmokeAssumption
  <2>2. ~reading /\ late = 0 /\ elapsed = 0  BY <1>1, Zenon DEF Init
  <2> QED  BY <2>1, <2>2 DEF LateInv
<1>2. LateInv /\ [Next]_vars => LateInv'  BY NextLateInv
<1>3. LateInv => AtMostOneLateFrame  BY DEF LateInv, AtMostOneLateFrame
<1> QED  BY <1>1, <1>2, <1>3, PTL DEF Spec

-----------------------------------------------------------------------------
(* A script as a stream of bytes.                                          *)

Payload(m) == IF m.own THEN <<COMMAND_ID>> \o m.rest ELSE m.rest
Parts(messages) == [i \in DOMAIN messages |-> Bytes(messages[i], COMMAND_ID)]
Framed(m) == [kind |-> m.kind, payload |-> Payload(m)]

\* The bytes of a message are a frame, and the frame is the message.
LEMMA MessageBytes ==
    ASSUME NEW m, Message(m)
    PROVE  /\ m.kind \in Nat
           /\ Payload(m) \in Seq(Nat) /\ Len(Payload(m)) <= MaxLength
           /\ Bytes(m, COMMAND_ID) = write_frame(m.kind, Payload(m))
           /\ Bytes(m, COMMAND_ID) \in Seq(Nat)
           /\ Frame(Bytes(m, COMMAND_ID)) = Framed(m)
<1>1. m.kind \in Nat /\ m.rest \in Seq(Nat) /\ Len(m.rest) < MaxLength  BY DEF Message
<1>m. MaxLength \in Nat  BY SMT DEF MaxLength
<1>2. Payload(m) \in Seq(Nat) /\ Len(Payload(m)) <= MaxLength
  <2>1. CASE m.own
    <3>1. <<COMMAND_ID>> \in Seq(Nat) /\ Len(<<COMMAND_ID>>) = 1  BY DEF COMMAND_ID
    <3>2. Cat(<<COMMAND_ID>>, m.rest) \in Seq(Nat) /\ Len(Cat(<<COMMAND_ID>>, m.rest)) = 1 + Len(m.rest)
      BY <3>1, <1>1, CatSeq, Zenon
    <3>3. Payload(m) = Cat(<<COMMAND_ID>>, m.rest)  BY <2>1, Zenon DEF Payload, Cat
    <3>4. Len(m.rest) \in Nat  BY <1>1
    <3> QED  BY <3>2, <3>3, <3>4, <1>1, <1>m
  <2>2. CASE ~m.own
    <3>1. Payload(m) = m.rest  BY <2>2 DEF Payload
    <3>2. Len(m.rest) \in Nat  BY <1>1
    <3> QED  BY <3>1, <3>2, <1>1, <1>m
  <2> QED  BY <2>1, <2>2
<1>3. Bytes(m, COMMAND_ID) = write_frame(m.kind, Payload(m))  BY Zenon DEF Bytes, Payload
<1>4. /\ write_frame(m.kind, Payload(m)) \in Seq(Nat)
      /\ Frame(write_frame(m.kind, Payload(m))) = Framed(m)
  BY <1>1, <1>2, FrameRead DEF Framed
<1> QED  BY <1>1, <1>2, <1>3, <1>4

\* A message without the id is the same for every id.
LEMMA StrangeBytes ==
    ASSUME NEW m, ~m.own, NEW id
    PROVE  Bytes(m, id) = Bytes(m, COMMAND_ID)
BY DEF Bytes

\* A sequence of messages, each of them well formed.
Messages(s) ==
    /\ s \in Seq({s[i] : i \in DOMAIN s})
    /\ \A i \in DOMAIN s : Message(s[i])

\* The frames of a script, as sequences of bytes.
LEMMA PartsSeq ==
    ASSUME NEW s, Messages(s)
    PROVE  /\ Len(s) \in Nat /\ DOMAIN s = 1..Len(s)
           /\ Parts(s) \in Seq(Seq(Nat)) /\ Len(Parts(s)) = Len(s)
           /\ \A i \in 1..Len(s) : Parts(s)[i] = Bytes(s[i], COMMAND_ID)
<1>1. Len(s) \in Nat /\ DOMAIN s = 1..Len(s)  BY LenProperties DEF Messages
<1>2. \A i \in 1..Len(s) : Bytes(s[i], COMMAND_ID) \in Seq(Nat)
  BY <1>1, MessageBytes DEF Messages
<1>3. Parts(s) \in [1..Len(s) -> Seq(Nat)] /\ \A i \in 1..Len(s) : Parts(s)[i] = Bytes(s[i], COMMAND_ID)
  BY <1>1, <1>2 DEF Parts
<1> HIDE DEF Parts
<1>4. Parts(s) \in Seq(Seq(Nat)) /\ Len(Parts(s)) = Len(s)  BY <1>1, <1>3
<1> QED  BY <1>1, <1>3, <1>4

\* After k frames of the script its bytes go on with bytes.
Follows(s, k, bytes) ==
    \E u \in Seq(Nat) : Cat(Joined(Parts(s))[k], Cat(bytes, u)) = Concat(Parts(s))

\* A reader in step takes the next frame of the script, and stays in step.
LEMMA NextFrame ==
    ASSUME NEW s, Messages(s), NEW k \in 0..Len(s), NEW b \in Seq(Nat), NEW p \in Seq(Nat),
           Follows(s, k, Cat(b, p)), Complete(b)
    PROVE  /\ k + 1 \in 1..Len(s)
           /\ b = Bytes(s[k + 1], COMMAND_ID)
           /\ Follows(s, k + 1, p)
<1> DEFINE P == Parts(s)
           J == Joined(P)
           N == Len(s)
<1>p. N \in Nat /\ P \in Seq(Seq(Nat)) /\ Len(P) = N /\ \A i \in 1..N : P[i] = Bytes(s[i], COMMAND_ID)
      /\ DOMAIN s = 1..N
  BY PartsSeq
<1>j. /\ \A n \in 1..N : J[n] = Cat(J[n - 1], P[n])
      /\ \A n \in 0..N : J[n] \in Seq(Nat)
  <2> HIDE DEF P
  <2> QED  BY <1>p, JoinedSteps
<1>q. \A n \in 0..N : \E u \in Seq(Nat) : Concat(P) = Cat(J[n], u)
  <2> HIDE DEF P
  <2> QED  BY <1>p, JoinedPrefix
<1>c. Concat(P) = J[N]  BY <1>p DEF Concat
<1>1. PICK u \in Seq(Nat) : Cat(J[k], Cat(Cat(b, p), u)) = Concat(P)  BY DEF Follows
<1> HIDE DEF P, J, N
<1>2. k \in Nat /\ k <= N /\ J[k] \in Seq(Nat)  BY <1>p, <1>j DEF N
<1>3. Cat(Cat(b, p), u) = Cat(b, Cat(p, u)) /\ Cat(p, u) \in Seq(Nat) /\ Cat(b, Cat(p, u)) \in Seq(Nat)
      /\ Len(Cat(b, Cat(p, u))) = Len(b) + Len(Cat(p, u))
  BY CatAssociative, CatSeq
<1>4. Len(b) \in Nat /\ Len(b) >= 5  BY DEF Complete, HeaderSize
<1>5. k # N
  <2> SUFFICES ASSUME k = N PROVE FALSE
    OBVIOUS
  <2>1. <<>> \in Seq(Nat) /\ Cat(J[k], <<>>) = J[k] /\ Len(<<>>) = 0
    BY <1>2, CatEmpty, EmptySeq
  <2>2. Cat(J[k], Cat(b, Cat(p, u))) = Cat(J[k], <<>>)  BY <1>1, <1>3, <1>c, <2>1, Zenon
  <2>3. Cat(b, Cat(p, u)) = <<>>  BY <2>1, <2>2, <1>2, <1>3, CatCancel, Zenon
  <2>4. Len(Cat(p, u)) \in Nat  BY <1>3
  <2> QED  BY <2>1, <2>3, <2>4, <1>3, <1>4
<1>6. k + 1 \in 1..N /\ (k + 1) - 1 = k /\ k + 1 \in 0..N  BY <1>2, <1>5, <1>p
<1>7. PICK v \in Seq(Nat) : Concat(P) = Cat(J[k + 1], v)  BY <1>q, <1>6
<1>8. J[k + 1] = Cat(J[k], P[k + 1]) /\ P[k + 1] \in Seq(Nat)  BY <1>j, <1>6, <1>p
<1>9. Concat(P) = Cat(J[k], Cat(P[k + 1], v))  BY <1>7, <1>8, <1>2, CatAssociative
<1>10. Cat(P[k + 1], v) \in Seq(Nat)  BY <1>8, CatSeq, Zenon
<1>11. Cat(b, Cat(p, u)) = Cat(P[k + 1], v)
  <2>1. Cat(J[k], Cat(b, Cat(p, u))) = Cat(J[k], Cat(P[k + 1], v))  BY <1>1, <1>3, <1>9
  <2> QED  BY <2>1, <1>2, <1>3, <1>10, CatCancel
<1>12. b = P[k + 1]
  <2>1. Message(s[k + 1]) /\ P[k + 1] = Bytes(s[k + 1], COMMAND_ID)
    BY <1>6, <1>p DEF Messages
  <2> DEFINE m == s[k + 1]
  <2> HIDE DEF m
  <2>2. Message(m) /\ P[k + 1] = Bytes(m, COMMAND_ID)  BY <2>1 DEF m
  <2>3. /\ m.kind \in Nat /\ Payload(m) \in Seq(Nat) /\ Len(Payload(m)) <= MaxLength
        /\ P[k + 1] = write_frame(m.kind, Payload(m))
    BY <2>2, MessageBytes
  <2>4. Cat(b, Cat(p, u)) = Cat(write_frame(m.kind, Payload(m)), v)  BY <2>3, <1>11
  <2>5. b = write_frame(m.kind, Payload(m))  BY <2>3, <2>4, <1>3, SameFrame
  <2> QED  BY <2>3, <2>5
<1>13. Cat(p, u) = v
  <2>1. Cat(b, Cat(p, u)) = Cat(b, v)  BY <1>11, <1>12
  <2> QED  BY <2>1, <1>3, CatCancel
<1>14. Cat(J[k + 1], Cat(p, u)) = Concat(P)  BY <1>7, <1>13
<1>15. Follows(s, k + 1, p)  BY <1>14 DEF Follows, P, J
<1> QED  BY <1>6, <1>12, <1>15, <1>p DEF N

\* The greeting, which is all there is before the command.
LEMMA FirstFrame ==
    ASSUME NEW m, Message(m), NEW b \in Seq(Nat), NEW p \in Seq(Nat), NEW u \in Seq(Nat),
           Cat(Cat(b, p), u) = Bytes(m, COMMAND_ID), Complete(b)
    PROVE  b = Bytes(m, COMMAND_ID) /\ p = <<>>
<1> DEFINE w == Bytes(m, COMMAND_ID)
<1>1. /\ m.kind \in Nat /\ Payload(m) \in Seq(Nat) /\ Len(Payload(m)) <= MaxLength
      /\ w = write_frame(m.kind, Payload(m)) /\ w \in Seq(Nat)
  BY MessageBytes
<1>e. <<>> \in Seq(Nat) /\ Len(<<>>) = 0  BY EmptySeq
<1> HIDE DEF w
<1>2. Cat(b, Cat(p, u)) = Cat(w, <<>>) /\ Cat(p, u) \in Seq(Nat) /\ Len(Cat(p, u)) = Len(p) + Len(u)
  <2>0. Cat(Cat(b, p), u) = Cat(b, Cat(p, u))  BY CatAssociative
  <2>1. Cat(Cat(b, p), u) = w  BY Zenon DEF w
  <2>2. Cat(w, <<>>) = w  BY <1>1, CatEmpty
  <2> QED  BY <2>0, <2>1, <2>2, CatSeq
<1>3. b = w
  <2>1. Cat(b, Cat(p, u)) = Cat(write_frame(m.kind, Payload(m)), <<>>)  BY <1>1, <1>2
  <2> DEFINE kind == m.kind
             payload == Payload(m)
             t == Cat(p, u)
             r == <<>>
  <2>2. /\ kind \in Nat /\ payload \in Seq(Nat) /\ Len(payload) <= MaxLength
        /\ t \in Seq(Nat) /\ r \in Seq(Nat) /\ Cat(b, t) = Cat(write_frame(kind, payload), r)
    BY <2>1, <1>1, <1>2, <1>e, Zenon
  <2> HIDE DEF kind, payload, t, r
  <2>3. b = write_frame(kind, payload)  BY <2>2, SameFrame
  <2> QED  BY <2>3, <1>1 DEF kind, payload
<1>4. Cat(p, u) = <<>>
  <2>1. Cat(b, Cat(p, u)) = Cat(b, <<>>)  BY <1>2, <1>3
  <2> QED  BY <2>1, <1>2, <1>e, CatCancel, Zenon
<1>5. Len(p) = 0
  <2>1. Len(p) + Len(u) = 0  BY <1>2, <1>4, <1>e
  <2>2. Len(p) \in Nat /\ Len(u) \in Nat  OBVIOUS
  <2> QED  BY <2>1, <2>2
<1>6. p = <<>>  BY <1>5, EmptySeq
<1> QED  BY <1>3, <1>6 DEF w

\* What the assumption on scripts says of the one that runs.
LEMMA ScriptMessages ==
    ASSUME client \in Clients, script \in Scripts[client]
    PROVE  /\ Messages(script)
           /\ client = "ports" => \A i \in DOMAIN script : ~script[i].own
           /\ client # "ports" => script # <<>> /\ ~script[1].own
BY ScriptsAssumption, Zenon DEF Messages

\* What fendd writes when it has read the command.
LEMMA RestFollows ==
    ASSUME NEW s, Messages(s), s # <<>>
    PROVE  /\ AllBytes(Tail(s), COMMAND_ID) \in Seq(Nat)
           /\ 1 \in 1..Len(s)
           /\ Follows(s, 1, AllBytes(Tail(s), COMMAND_ID))
           /\ Follows(s, 1, <<>>)
<1> DEFINE P == Parts(s)
           J == Joined(P)
           Q == Concat(Tail(P))
<1>p. /\ Len(s) \in Nat /\ DOMAIN s = 1..Len(s)
      /\ P \in Seq(Seq(Nat)) /\ Len(P) = Len(s)
      /\ \A i \in 1..Len(s) : P[i] = Bytes(s[i], COMMAND_ID)
  BY PartsSeq
<1>n. 1 \in 1..Len(s) /\ Len(s) >= 1
  <2>1. s \in Seq({s[i] : i \in DOMAIN s})  BY DEF Messages
  <2>2. Len(s) \in Nat \ {0}  BY <2>1, EmptySeq
  <2> QED  BY <2>2
<1>1. AllBytes(Tail(s), COMMAND_ID) = Q
  <2> DEFINE t == Tail(s)
  <2>1. s \in Seq({s[i] : i \in DOMAIN s})  BY DEF Messages
  <2>2. /\ t \in Seq({s[i] : i \in DOMAIN s}) /\ Len(t) = Len(s) - 1
        /\ \A i \in 1..Len(t) : t[i] = s[i + 1]
    BY <2>1, HeadTailProperties
  <2>3. DOMAIN t = 1..(Len(s) - 1)  BY <2>2, LenProperties
  <2> HIDE DEF t, P
  <2>4. P # <<>>  BY <1>p, <1>n
  <2>5. /\ Tail(P) \in Seq(Seq(Nat)) /\ Len(Tail(P)) = Len(s) - 1
        /\ \A i \in 1..(Len(s) - 1) : Tail(P)[i] = P[i + 1]
    BY <1>p, <2>4, HeadTailProperties
  <2> DEFINE q == Tail(P)
             f == [i \in DOMAIN t |-> Bytes(t[i], COMMAND_ID)]
  <2>6. q \in Seq(Seq(Nat)) /\ Len(q) = Len(s) - 1 /\ \A i \in 1..(Len(s) - 1) : q[i] = P[i + 1]
    BY <2>5
  <2> HIDE DEF q
  <2>7. q = f
    <3>1. q = [i \in 1..(Len(s) - 1) |-> q[i]]  BY <2>6, <1>p, LenProperties
    <3>2. ASSUME NEW i \in 1..(Len(s) - 1) PROVE q[i] = Bytes(t[i], COMMAND_ID)
      <4>1. i + 1 \in 1..Len(s) /\ i \in 1..Len(t)  BY <1>p, <1>n, <2>2
      <4>2. q[i] = P[i + 1] /\ P[i + 1] = Bytes(s[i + 1], COMMAND_ID) /\ t[i] = s[i + 1]
        BY <4>1, <1>p, <2>2, <2>6, Zenon
      <4> QED  BY <4>2
    <3>3. f = [i \in 1..(Len(s) - 1) |-> Bytes(t[i], COMMAND_ID)]  BY <2>3
    <3> QED  BY <3>1, <3>2, <3>3
  <2>8. AllBytes(t, COMMAND_ID) = Concat(f)  BY Zenon DEF AllBytes
  <2> QED  BY <2>7, <2>8, Zenon DEF t, q
<1> HIDE DEF P
<1>2. P # <<>>  BY <1>p, <1>n
<1>3. Concat(P) = Cat(P[1], Q) /\ Q \in Seq(Nat)  BY <1>p, <1>2, ConcatHead
<1>4. J[1] = P[1] /\ P[1] \in Seq(Nat)
  <2>1. J[0] = <<>> /\ J[1] = Cat(J[1 - 1], P[1]) /\ P[1] \in Seq(Nat)
    BY <1>p, <1>n, JoinedSteps
  <2>2. Cat(<<>>, P[1]) = P[1]  BY <2>1, CatEmpty
  <2> QED  BY <2>1, <2>2
<1> HIDE DEF Q, J
<1>5. Cat(J[1], Cat(Q, <<>>)) = Concat(P) /\ <<>> \in Seq(Nat)
  <2>1. Cat(Q, <<>>) = Q  BY <1>3, CatEmpty
  <2> QED  BY <2>1, <1>3, <1>4, EmptySeq
<1>6. Cat(J[1], Cat(<<>>, Q)) = Concat(P)
  <2>1. Cat(<<>>, Q) = Q  BY <1>3, CatEmpty
  <2> QED  BY <2>1, <1>3, <1>4
<1>7. Follows(s, 1, Q)  BY <1>5, Zenon DEF Follows, P, J
<1>8. Follows(s, 1, <<>>)  BY <1>3, <1>6 DEF Follows, P, J
<1> QED  BY <1>1, <1>n, <1>3, <1>7, <1>8

ExecuteFrame == write_frame(MessageType.ExecuteCommand, <<COMMAND_ID, 0>>)

\* fendd reads the command that the host writes.
LEMMA GuestReads ==
    /\ ExecuteFrame # <<>>
    /\ guest_read_frame(ExecuteFrame) # None => guest_read_frame(ExecuteFrame)[1].payload[1] = COMMAND_ID
<1> DEFINE p == <<COMMAND_ID, 0>>
           k == MessageType.ExecuteCommand
<1>1. p \in Seq(Nat) /\ Len(p) = 2 /\ p[1] = COMMAND_ID /\ k \in Nat
  BY DEF MessageType, COMMAND_ID
<1>2. 2 <= MaxLength  BY SMT DEF MaxLength
<1> HIDE DEF p, k
<1>3. LET b == write_frame(k, p) IN Len(b) = 5 + 2 /\ Frame(b) = [kind |-> k, payload |-> p]
  BY <1>1, <1>2, FrameRead, Zenon
<1>4. ExecuteFrame = write_frame(k, p)  BY Zenon DEF ExecuteFrame, p, k
<1>5. ExecuteFrame # <<>>  BY <1>3, <1>4, EmptySeq
<1>6. Frame(ExecuteFrame).payload[1] = COMMAND_ID  BY <1>1, <1>3, <1>4
<1>7. guest_read_frame(ExecuteFrame) # None => guest_read_frame(ExecuteFrame) = <<Frame(ExecuteFrame)>>
  BY Zenon DEF guest_read_frame, Some, None
<1>8. guest_read_frame(ExecuteFrame) # None => guest_read_frame(ExecuteFrame)[1] = Frame(ExecuteFrame)
  BY <1>7
<1> QED  BY <1>5, <1>6, <1>8

\* Port events, all at once, are what follows no frames.
LEMMA AllFollows ==
    ASSUME NEW s, Messages(s), \A i \in DOMAIN s : ~s[i].own, NEW id
    PROVE  /\ AllBytes(s, id) \in Seq(Nat)
           /\ Follows(s, 0, AllBytes(s, id))
<1> DEFINE P == Parts(s)
           Q == Concat(P)
<1>p. Len(s) \in Nat /\ P \in Seq(Seq(Nat)) /\ Len(P) = Len(s)  BY PartsSeq
<1>1. AllBytes(s, id) = Q
  <2>1. \A i \in DOMAIN s : Bytes(s[i], id) = Bytes(s[i], COMMAND_ID)  BY StrangeBytes
  <2>2. [i \in DOMAIN s |-> Bytes(s[i], id)] = Parts(s)  BY <2>1, Zenon DEF Parts
  <2> QED  BY <2>2, Zenon DEF AllBytes
<1> HIDE DEF P
<1>2. Joined(P)[0] = <<>> /\ Q \in Seq(Nat)  BY <1>p, JoinedSteps DEF Concat
<1> HIDE DEF Q
<1>3. Cat(Q, <<>>) = Q /\ Cat(<<>>, Q) = Q /\ <<>> \in Seq(Nat)  BY <1>2, CatEmpty, EmptySeq
<1>4. Cat(Joined(P)[0], Cat(Q, <<>>)) = Q  BY <1>2, <1>3
<1>5. Follows(s, 0, Q)  BY <1>3, <1>4, Zenon DEF Follows, P, Q
<1> QED  BY <1>1, <1>2, <1>5

\* Bytes lost at the end leave a beginning of what follows.
LEMMA FollowsCut ==
    ASSUME NEW s, NEW k, NEW a \in Seq(Nat), NEW p \in Seq(Nat), Follows(s, k, Cat(a, p))
    PROVE  Follows(s, k, Cat(a, <<>>))
<1>1. PICK u \in Seq(Nat) : Cat(Joined(Parts(s))[k], Cat(Cat(a, p), u)) = Concat(Parts(s))
  BY Zenon DEF Follows
<1>2. Cat(p, u) \in Seq(Nat) /\ Cat(Cat(a, <<>>), Cat(p, u)) = Cat(Cat(a, p), u)  BY CutEnd
<1>3. Cat(Joined(Parts(s))[k], Cat(Cat(a, <<>>), Cat(p, u))) = Concat(Parts(s))
  BY <1>1, <1>2, Zenon
<1> QED  BY <1>2, <1>3, Zenon DEF Follows

-----------------------------------------------------------------------------
(* The reader and the stream.                                              *)

\* The bytes of the frame being read.
Read == IF reading THEN buf ELSE <<>>

ReadInv ==
    /\ client \in Clients /\ script \in Scripts[client]
    /\ pc \in {"connect", "ready", "execute", "loop", "done"}
    /\ client = "ports" => pc \in {"connect", "loop", "done"} /\ request = <<>>
    /\ reading => pc \in {"ready", "loop"}
    /\ buf \in Seq(Nat) /\ pending \in Seq(Nat)
    /\ request \in {<<>>, ExecuteFrame}
    /\ pc \in {"connect", "ready", "execute"} => request = <<>>
    /\ torn => client = "ports"

\* What has been read of the next frame and what is to come, by the state of the
\* reader: the greeting; nothing, until the command is sent and read by fendd;
\* then what follows the frames taken.
AheadInv ==
    /\ pc \in {"connect", "ready"} => frames = <<>>
    /\ pc = "ready" =>
           \E u \in Seq(Nat) : Cat(Cat(Read, pending), u) = Bytes(script[1], COMMAND_ID)
    /\ pc = "execute" => Len(frames) = 1 /\ pending = <<>>
    /\ pc = "loop" /\ request # <<>> => Len(frames) = 1 /\ Read = <<>> /\ pending = <<>>
    /\ pc = "loop" /\ request = <<>> /\ ~torn =>
           Follows(script, Len(frames), Cat(Read, pending))

TakenInv ==
    ~torn => /\ Len(frames) \in 0..Len(script)
             /\ frames = SubSeq(Sent, 1, Len(frames))

\* Where TakeFrame leads.
LEMMA TakeFramePc ==
    ASSUME TakeFrame
    PROVE  /\ client = "ports" => pc' = pc
           /\ client # "ports" /\ pc = "ready" => pc' \in {"execute", "done"}
           /\ client # "ports" /\ pc # "ready" => pc' \in {pc, "done"}
BY Zenon DEF TakeFrame, TakeOutput, TakeExit, append_output, Return, ReturnWith

\* Bytes read are bytes.
LEMMA ReadSeq ==
    ASSUME ReadInv
    PROVE  Read \in Seq(Nat)
BY EmptySeq DEF ReadInv, Read

\* What the actions do to the reader's state.
LEMMA NextReadInv ==
    ASSUME ReadInv, [Next]_vars
    PROVE  ReadInv'
<1>e. <<>> \in Seq(Nat)  BY EmptySeq
<1>s. /\ Messages(script)
      /\ client = "ports" => \A i \in DOMAIN script : ~script[i].own
      /\ client # "ports" => script # <<>> /\ ~script[1].own
  BY ScriptMessages DEF ReadInv
<1>1. CASE Connect
  <2>1. pending' \in Seq(Nat)
    <3>1. CASE client = "ports"
      <4>1. AllBytes(script, 0) \in Seq(Nat)  BY <3>1, <1>s, AllFollows
      <4> QED  BY <1>1, <3>1, <4>1 DEF Connect
    <3>2. CASE client # "ports"
      <4>1. 1 \in 1..Len(script)  BY <3>2, <1>s, RestFollows
      <4>2. DOMAIN script = 1..Len(script)  BY <1>s, PartsSeq
      <4>3. Message(script[1])  BY <4>1, <4>2, <1>s DEF Messages
      <4>4. Bytes(script[1], COMMAND_ID) \in Seq(Nat)  BY <4>3, MessageBytes
      <4>5. Bytes(script[1], 0) = Bytes(script[1], COMMAND_ID)  BY <3>2, <1>s, StrangeBytes
      <4> QED  BY <1>1, <3>2, <4>4, <4>5 DEF Connect
    <3> QED  BY <3>1, <3>2
  <2> QED  BY <1>1, <2>1 DEF ReadInv, Connect
<1>2. CASE ConnectFails  BY <1>2 DEF ReadInv, ConnectFails, Return, ReturnWith, guest
<1>3. CASE BeginFrame
  BY <1>3, <1>e, Zenon DEF ReadInv, BeginFrame, Return, ReturnWith, guest
<1>4. CASE ReadByte
  <2>1. Append(buf, Head(pending)) \in Seq(Nat) /\ Tail(pending) \in Seq(Nat)
    BY <1>4, ShiftByte DEF ReadInv, ReadByte
  <2> QED  BY <1>4, <2>1 DEF ReadInv, ReadByte
<1>5. CASE ReadFails  BY <1>5 DEF ReadInv, ReadFails, Return, ReturnWith, guest
<1>6. CASE ReadTimesOut  BY <1>6, Zenon DEF ReadInv, ReadTimesOut, Return, ReturnWith, guest
<1>7. CASE TakeFrame
  <2>1. ~reading' /\ reading  BY <1>7, Zenon DEF TakeFrame
  <2>2. UNCHANGED <<client, script, request, pending, buf, torn>>
    BY <1>7 DEF TakeFrame, guest
  <2> QED  BY <1>7, <2>1, <2>2, TakeFramePc DEF ReadInv
<1>8. CASE SendExecute
  <2>1. request' \in {request, ExecuteFrame}  BY <1>8, Zenon DEF SendExecute, ExecuteFrame
  <2> QED  BY <1>8, <2>1 DEF ReadInv, SendExecute, Return, ReturnWith
<1>9. CASE SendFails  BY <1>9 DEF ReadInv, SendFails, Return, ReturnWith, guest
<1>10. CASE StopPorts  BY <1>10 DEF ReadInv, StopPorts, Return, ReturnWith, guest
<1>11. CASE Tick  BY <1>11 DEF ReadInv, Tick, guest
<1>12. CASE GuestExecutes
  <2>1. client # "ports" /\ request = ExecuteFrame  BY <1>12 DEF ReadInv, GuestExecutes
  <2>2. AllBytes(Tail(script), COMMAND_ID) \in Seq(Nat)  BY <2>1, <1>s, RestFollows
  <2>3. Cat(pending, AllBytes(Tail(script), COMMAND_ID)) \in Seq(Nat)
    BY <2>2, CatSeq DEF ReadInv
  <2>4. pending' \in {pending, Cat(pending, AllBytes(Tail(script), COMMAND_ID))}
    BY <1>12, <2>1, GuestReads, Zenon DEF GuestExecutes, Cat
  <2>5. pending' \in Seq(Nat)  BY <2>3, <2>4 DEF ReadInv
  <2> QED  BY <1>12, <2>5 DEF ReadInv, GuestExecutes
<1>13. CASE GuestCloses  BY <1>13, <1>e DEF ReadInv, GuestCloses
<1>14. CASE UNCHANGED vars  BY <1>14 DEF ReadInv, vars, guest
<1> QED
  BY <1>1, <1>2, <1>3, <1>4, <1>5, <1>6, <1>7, <1>8, <1>9, <1>10, <1>11, <1>12, <1>13,
     <1>14, Zenon
  DEF Next, HostStep

Framings == [kind : Nat, payload : Seq(Nat)]

\* The frames sent, as a sequence.
LEMMA SentSeq ==
    ASSUME Messages(script)
    PROVE  /\ Sent \in Seq(Framings) /\ Len(Sent) = Len(script)
           /\ \A i \in 1..Len(script) : Sent[i] = Frame(Bytes(script[i], COMMAND_ID))
<1>1. Len(script) \in Nat /\ DOMAIN script = 1..Len(script)  BY PartsSeq
<1>2. ASSUME NEW i \in 1..Len(script) PROVE Frame(Bytes(script[i], COMMAND_ID)) \in Framings
  <2>1. Message(script[i])  BY <1>1 DEF Messages
  <2> DEFINE m == script[i]
  <2> HIDE DEF m
  <2>2. Message(m)  BY <2>1 DEF m
  <2>3. m.kind \in Nat /\ Payload(m) \in Seq(Nat) /\ Frame(Bytes(m, COMMAND_ID)) = Framed(m)
    BY <2>2, MessageBytes
  <2>4. Frame(Bytes(m, COMMAND_ID)) \in Framings  BY <2>3 DEF Framed, Framings
  <2> QED  BY <2>4 DEF m
<1>3. /\ Sent \in [1..Len(script) -> Framings]
      /\ \A i \in 1..Len(script) : Sent[i] = Frame(Bytes(script[i], COMMAND_ID))
  BY <1>1, <1>2 DEF Sent
<1>4. Sent \in Seq(Framings) /\ Len(Sent) = Len(script)  BY <1>1, <1>3
<1> QED  BY <1>3, <1>4

\* The frame that is taken is the next one of the script.
LEMMA TakeFrameNext ==
    ASSUME ReadInv, AheadInv, TakenInv, TakeFrame, ~torn
    PROVE  LET k == Len(frames) IN
           /\ k + 1 \in 1..Len(script)
           /\ buf = Bytes(script[k + 1], COMMAND_ID)
           /\ frames' = Append(frames, Frame(buf))
           /\ pc = "ready" => k = 0 /\ pending = <<>>
           /\ pc # "ready" => pc = "loop" /\ request = <<>> /\ Follows(script, k + 1, pending)
<1> DEFINE k == Len(frames)
<1>r. reading /\ Complete(buf) /\ Read = buf  BY Zenon DEF TakeFrame, Read
<1>t. buf \in Seq(Nat) /\ pending \in Seq(Nat)  BY DEF ReadInv
<1>s. /\ Messages(script)
      /\ client # "ports" => script # <<>> /\ ~script[1].own
  BY ScriptMessages DEF ReadInv
<1>f. frames' = Append(frames, Frame(buf))  BY Zenon DEF TakeFrame
<1>k. k \in 0..Len(script)  BY DEF TakenInv
<1>1. CASE pc = "ready"
  <2>1. frames = <<>> /\ client # "ports"  BY <1>1 DEF AheadInv, ReadInv
  <2>2. k = 0  BY <2>1, EmptySeq
  <2>3. PICK u \in Seq(Nat) : Cat(Cat(Read, pending), u) = Bytes(script[1], COMMAND_ID)
    BY <1>1, Zenon DEF AheadInv
  <2>4. 1 \in 1..Len(script)  BY <2>1, <1>s, RestFollows
  <2>5. DOMAIN script = 1..Len(script)  BY <1>s, PartsSeq
  <2>6. Message(script[1])  BY <2>4, <2>5, <1>s DEF Messages
  <2>7. Cat(Cat(buf, pending), u) = Bytes(script[1], COMMAND_ID)  BY <2>3, <1>r, Zenon
  <2>8. buf = Bytes(script[1], COMMAND_ID) /\ pending = <<>>
    BY <2>6, <2>7, <1>r, <1>t, FirstFrame
  <2> QED  BY <1>1, <2>2, <2>4, <2>8, <1>f
<1>2. CASE pc # "ready"
  <2>1. pc = "loop"  BY <1>2, <1>r DEF ReadInv
  <2>2. request = <<>>
    <3>1. buf # <<>>  BY <1>r, <1>t, EmptySeq DEF Complete, HeaderSize
    <3> QED  BY <3>1, <1>r, <2>1 DEF AheadInv
  <2>3. Follows(script, k, Cat(buf, pending))  BY <2>1, <2>2, <1>r, Zenon DEF AheadInv
  <2> HIDE DEF k
  <2>4. /\ k + 1 \in 1..Len(script)
        /\ buf = Bytes(script[k + 1], COMMAND_ID)
        /\ Follows(script, k + 1, pending)
    BY <2>3, <1>k, <1>r, <1>t, <1>s, NextFrame
  <2> QED  BY <1>2, <2>1, <2>2, <2>4, <1>f DEF k
<1> QED  BY <1>1, <1>2

\* So the frames taken remain the first ones sent.
LEMMA TakeFrameTaken ==
    ASSUME ReadInv, AheadInv, TakenInv, TakeFrame, ~torn
    PROVE  /\ Len(frames') = Len(frames) + 1
           /\ Len(frames') \in 0..Len(script)
           /\ frames' = SubSeq(Sent, 1, Len(frames'))
<1> DEFINE k == Len(frames)
<1>s. Messages(script)  BY ScriptMessages DEF ReadInv
<1>1. /\ k + 1 \in 1..Len(script)
      /\ buf = Bytes(script[k + 1], COMMAND_ID)
      /\ frames' = Append(frames, Frame(buf))
  BY TakeFrameNext
<1>2. k \in 0..Len(script) /\ frames = SubSeq(Sent, 1, k)  BY DEF TakenInv
<1>3. /\ Sent \in Seq(Framings) /\ Len(Sent) = Len(script)
      /\ \A i \in 1..Len(script) : Sent[i] = Frame(Bytes(script[i], COMMAND_ID))
  BY <1>s, SentSeq
<1> HIDE DEF k
<1>4. frames' = Append(SubSeq(Sent, 1, k), Sent[k + 1])
  <2>1. Sent[k + 1] = Frame(buf)  BY <1>1, <1>3
  <2> QED  BY <2>1, <1>1, <1>2
<1> DEFINE S == Sent
<1>5. S \in Seq(Framings) /\ k \in 0..Len(S) /\ k + 1 \in 1..Len(S)  BY <1>1, <1>2, <1>3
<1> HIDE DEF S
<1>6. Append(SubSeq(S, 1, k), S[k + 1]) = SubSeq(S, 1, k + 1) /\ Len(SubSeq(S, 1, k)) = k
      /\ SubSeq(S, 1, k) \in Seq(Framings)
  BY <1>5, TakeNext
<1>7. frames' = SubSeq(Sent, 1, k + 1)  BY <1>4, <1>6 DEF S
<1>8. Len(Append(SubSeq(S, 1, k), S[k + 1])) = k + 1
  <2>1. S[k + 1] \in Framings  BY <1>5
  <2> QED  BY <2>1, <1>6, AppendProperties
<1>9. Len(frames') = k + 1  BY <1>4, <1>8, Zenon DEF S
<1> QED  BY <1>1, <1>7, <1>9, <1>2 DEF k

\* A reader that has ended looks ahead to nothing.
LEMMA DoneAhead ==
    ASSUME pc' = "done"
    PROVE  AheadInv'
BY DEF AheadInv

\* A step that leaves the stream alone.
LEMMA SameAhead ==
    ASSUME AheadInv, UNCHANGED <<pc, frames, script, request, pending, torn>>, Read' = Read
    PROVE  AheadInv'
<1>1. pc' \in {"connect", "ready"} => frames' = <<>>  BY DEF AheadInv
<1>2. pc' = "ready" =>
           \E u \in Seq(Nat) : Cat(Cat(Read', pending'), u) = Bytes(script'[1], COMMAND_ID)
  <2>1. Cat(Read', pending') = Cat(Read, pending) /\ script'[1] = script[1] /\ pc' = pc  OBVIOUS
  <2> QED  BY <2>1, Zenon DEF AheadInv
<1>3. pc' = "execute" => Len(frames') = 1 /\ pending' = <<>>  BY DEF AheadInv
<1>4. pc' = "loop" /\ request' # <<>> => Len(frames') = 1 /\ Read' = <<>> /\ pending' = <<>>
  BY DEF AheadInv
<1>5. ASSUME pc' = "loop", request' = <<>>, ~torn'
      PROVE  Follows(script', Len(frames'), Cat(Read', pending'))
  <2>1. Cat(Read', pending') = Cat(Read, pending) /\ pc' = pc /\ request' = request /\ script' = script
        /\ frames' = frames
    OBVIOUS
  <2>2. torn' = torn  OBVIOUS
  <2>3. ~torn /\ pc = "loop" /\ request = <<>>  BY <1>5
  <2>4. Follows(script, Len(frames), Cat(Read, pending))  BY <2>3, Zenon DEF AheadInv
  <2> QED  BY <2>1, <2>4, Zenon
<1> QED  BY <1>1, <1>2, <1>3, <1>4, <1>5, Zenon DEF AheadInv

\* The greeting, or the events, are written.
LEMMA ConnectAhead ==
    ASSUME ReadInv, AheadInv, Connect
    PROVE  AheadInv'
<1>s. /\ Messages(script)
      /\ client = "ports" => \A i \in DOMAIN script : ~script[i].own
      /\ client # "ports" => script # <<>> /\ ~script[1].own
  BY ScriptMessages DEF ReadInv
<1>1. frames' = <<>> /\ script' = script  BY DEF Connect, AheadInv, taken
<1>2. ~reading /\ request = <<>>  BY DEF ReadInv, Connect
<1>3. ~reading' /\ request' = <<>>  BY <1>2, Zenon DEF Connect
<1>4. Read' = <<>>  BY <1>3, Zenon DEF Read
<1>e. <<>> \in Seq(Nat) /\ Len(<<>>) = 0  BY EmptySeq
<1>5. CASE client = "ports"
  <2>1. pc' = "loop" /\ pending' = AllBytes(script, 0)  BY <1>5 DEF Connect
  <2> DEFINE A == AllBytes(script, 0)
  <2>2. A \in Seq(Nat) /\ Follows(script, 0, A)  BY <1>5, <1>s, AllFollows
  <2> HIDE DEF A
  <2>3. Cat(<<>>, A) = A  BY <2>2, CatEmpty
  <2>4. Follows(script', Len(frames'), Cat(Read', pending'))
    BY <2>1, <2>2, <2>3, <1>1, <1>4, <1>e DEF A
  <2> QED  BY <2>1, <2>4, <1>3 DEF AheadInv
<1>6. CASE client # "ports"
  <2>1. pc' = "ready" /\ pending' = Bytes(script[1], 0)  BY <1>6 DEF Connect
  <2>2. 1 \in 1..Len(script)  BY <1>6, <1>s, RestFollows
  <2>3. DOMAIN script = 1..Len(script)  BY <1>s, PartsSeq
  <2>4. Message(script[1])  BY <2>2, <2>3, <1>s DEF Messages
  <2> DEFINE w == Bytes(script[1], COMMAND_ID)
  <2>5. w \in Seq(Nat)  BY <2>4, MessageBytes
  <2>6. Bytes(script[1], 0) = w  BY <1>6, <1>s, StrangeBytes
  <2> HIDE DEF w
  <2>7. Cat(Cat(<<>>, w), <<>>) = w  BY <2>5, CatEmpty
  <2>8. Cat(Cat(Read', pending'), <<>>) = w  BY <2>1, <2>6, <2>7, <1>4
  <2>9. \E u \in Seq(Nat) : Cat(Cat(Read', pending'), u) = Bytes(script'[1], COMMAND_ID)
    BY <2>8, <1>1, <1>e, Zenon DEF w
  <2> QED  BY <2>1, <2>9, <1>1 DEF AheadInv
<1> QED  BY <1>5, <1>6

\* A byte passes from the stream to the frame.
LEMMA ReadByteAhead ==
    ASSUME ReadInv, AheadInv, ReadByte
    PROVE  AheadInv'
<1>1. reading /\ reading' /\ Read = buf /\ Read' = buf'
  BY Zenon DEF ReadByte, Read
<1>2. /\ buf' = Append(buf, Head(pending)) /\ pending' = Tail(pending) /\ pending # <<>>
      /\ UNCHANGED <<pc, script, request, frames, torn>>
  BY DEF ReadByte, taken
<1>3. buf \in Seq(Nat) /\ pending \in Seq(Nat) /\ pc \in {"ready", "loop"}
  BY <1>1 DEF ReadInv
<1>4. Cat(Read', pending') = Cat(Read, pending)
  <2>1. Cat(Append(buf, Head(pending)), Tail(pending)) = Cat(buf, pending)
    BY <1>2, <1>3, ShiftByte
  <2> QED  BY <2>1, <1>1, <1>2, Zenon
<1>5. CASE pc = "ready"
  <2>1. PICK u \in Seq(Nat) : Cat(Cat(Read, pending), u) = Bytes(script[1], COMMAND_ID)
    BY <1>5, Zenon DEF AheadInv
  <2>2. Cat(Cat(Read', pending'), u) = Bytes(script'[1], COMMAND_ID)
    BY <2>1, <1>4, <1>2, Zenon
  <2>3. frames' = <<>> /\ pc' = "ready"  BY <1>5, <1>2 DEF AheadInv
  <2> QED  BY <2>2, <2>3 DEF AheadInv
<1>6. CASE pc = "loop"
  <2>1. request = <<>> /\ pc' = "loop" /\ request' = <<>>  BY <1>6, <1>2 DEF AheadInv
  <2>2. ~torn' => Follows(script', Len(frames'), Cat(Read', pending'))
    <3>1. torn' = torn /\ script' = script /\ frames' = frames  BY <1>2
    <3> QED  BY <3>1, <1>4, <1>6, <2>1, Zenon DEF AheadInv
  <2> QED  BY <2>1, <2>2, Zenon DEF AheadInv
<1> QED  BY <1>3, <1>5, <1>6

\* A frame is complete, and what follows it is next.
LEMMA TakeFrameAhead ==
    ASSUME ReadInv, AheadInv, TakenInv, TakeFrame
    PROVE  AheadInv'
<1>1. reading /\ ~reading'  BY Zenon DEF TakeFrame
<1>2. Read' = <<>>  BY <1>1, Zenon DEF Read
<1>3. UNCHANGED <<client, script, request, pending, torn>>  BY DEF TakeFrame, guest
<1>4. pending \in Seq(Nat) /\ pc \in {"ready", "loop"} /\ (torn => client = "ports")
      /\ (client = "ports" => pc = "loop" /\ request = <<>>)
  BY <1>1 DEF ReadInv
<1>5. CASE torn
  <2>1. pc' = "loop" /\ request' = <<>>  BY <1>5, <1>4, <1>3, TakeFramePc
  <2>2. torn'  BY <1>5, <1>3, Zenon
  <2> QED  BY <2>1, <2>2, Zenon DEF AheadInv
<1>6. CASE ~torn
  <2> DEFINE k == Len(frames)
  <2>1. /\ pc = "ready" => k = 0 /\ pending = <<>>
        /\ pc # "ready" => pc = "loop" /\ request = <<>> /\ Follows(script, k + 1, pending)
    BY <1>6, TakeFrameNext
  <2>2. Len(frames') = k + 1  BY <1>6, TakeFrameTaken
  <2>3. CASE pc = "ready"
    <3>1. pc' \in {"execute", "done"}  BY <2>3, <1>4, TakeFramePc
    <3>2. Len(frames') = 1 /\ pending' = <<>>  BY <2>1, <2>2, <2>3, <1>3
    <3> QED  BY <3>1, <3>2 DEF AheadInv
  <2>4. CASE pc # "ready"
    <3>1. pc' \in {"loop", "done"} /\ request' = <<>>  BY <2>1, <2>4, <1>3, TakeFramePc
    <3>2. Cat(<<>>, pending) = pending  BY <1>4, CatEmpty
    <3>3. Follows(script', Len(frames'), Cat(Read', pending'))
      BY <2>1, <2>2, <2>4, <3>2, <1>2, <1>3, Zenon
    <3> QED  BY <3>1, <3>3 DEF AheadInv
  <2> QED  BY <2>3, <2>4
<1> QED  BY <1>5, <1>6

\* fendd runs the command and writes what it has to say.
LEMMA GuestExecutesAhead ==
    ASSUME ReadInv, AheadInv, GuestExecutes
    PROVE  AheadInv'
<1>1. /\ request = ExecuteFrame /\ request # <<>> /\ client # "ports" /\ pc \in {"loop", "done"}
      /\ UNCHANGED <<script, pc, frames>> /\ request' = <<>>
  BY DEF ReadInv, GuestExecutes, taken
<1>s. Messages(script) /\ script # <<>>  BY <1>1, ScriptMessages DEF ReadInv
<1>2. CASE pc = "done"  BY <1>1, <1>2, DoneAhead
<1>3. CASE pc = "loop"
  <2> DEFINE A == AllBytes(Tail(script), COMMAND_ID)
  <2>1. Len(frames) = 1 /\ Read = <<>> /\ pending = <<>>  BY <1>1, <1>3 DEF AheadInv
  <2>2. Read' = <<>>
    <3>1. reading' = reading /\ buf' = buf  BY DEF GuestExecutes
    <3> QED  BY <3>1, <2>1, Zenon DEF Read
  <2>3. pending' \in {<<>>, Cat(<<>>, A)}
    BY <1>1, <2>1, GuestReads, Zenon DEF GuestExecutes, Cat
  <2>4. A \in Seq(Nat) /\ Follows(script, 1, A) /\ Follows(script, 1, <<>>)
    BY <1>s, RestFollows
  <2> HIDE DEF A
  <2>5. Cat(<<>>, A) = A /\ Cat(<<>>, <<>>) = <<>>  BY <2>4, CatEmpty, EmptySeq, Zenon
  <2>6. Follows(script, 1, Cat(Read', pending'))  BY <2>2, <2>3, <2>4, <2>5, Zenon
  <2>7. Follows(script', Len(frames'), Cat(Read', pending'))  BY <2>1, <2>6, <1>1, Zenon
  <2>8. pc' = "loop"  BY <1>1, <1>3
  <2> QED  BY <2>7, <2>8, <1>1 DEF AheadInv
<1> QED  BY <1>1, <1>2, <1>3

\* The stream is cut.
LEMMA GuestClosesAhead ==
    ASSUME ReadInv, AheadInv, GuestCloses
    PROVE  AheadInv'
<1>1. /\ pending' = <<>> /\ UNCHANGED <<pc, script, request, frames>>
      /\ pc \in {"ready", "execute", "loop"}
  BY DEF GuestCloses, taken
<1>2. Read' = Read  BY Zenon DEF GuestCloses, Read
<1>t. torn' = torn  BY DEF GuestCloses
<1>3. Read \in Seq(Nat) /\ pending \in Seq(Nat)  BY ReadSeq DEF ReadInv
<1>4. CASE pc = "ready"
  <2>1. PICK u \in Seq(Nat) : Cat(Cat(Read, pending), u) = Bytes(script[1], COMMAND_ID)
    BY <1>4, Zenon DEF AheadInv
  <2>2. Cat(pending, u) \in Seq(Nat) /\ Cat(Cat(Read, <<>>), Cat(pending, u)) = Cat(Cat(Read, pending), u)
    BY <1>3, CutEnd
  <2>3. Cat(Cat(Read', pending'), Cat(pending, u)) = Bytes(script'[1], COMMAND_ID)
    BY <2>1, <2>2, <1>1, <1>2, Zenon
  <2>4. frames' = <<>> /\ pc' = "ready"  BY <1>4, <1>1 DEF AheadInv
  <2> QED  BY <2>2, <2>3, <2>4 DEF AheadInv
<1>5. CASE pc = "execute"  BY <1>1, <1>5 DEF AheadInv
<1>6. CASE pc = "loop"
  <2>1. pc' = "loop" /\ (request' # <<>> => Len(frames') = 1 /\ Read' = <<>> /\ pending' = <<>>)
    BY <1>1, <1>2, <1>6 DEF AheadInv
  <2>2. ASSUME request' = <<>>, ~torn' PROVE Follows(script', Len(frames'), Cat(Read', pending'))
    <3>1. Follows(script, Len(frames), Cat(Read, pending))
      BY <2>2, <1>t, <1>1, <1>6, Zenon DEF AheadInv
    <3>2. Follows(script, Len(frames), Cat(Read, <<>>))  BY <3>1, <1>3, FollowsCut
    <3> QED  BY <3>2, <1>1, <1>2, Zenon
  <2> QED  BY <2>1, <2>2, Zenon DEF AheadInv
<1> QED  BY <1>1, <1>4, <1>5, <1>6

\* Every step keeps what is ahead,
LEMMA NextAhead ==
    ASSUME ReadInv, AheadInv, TakenInv, [Next]_vars
    PROVE  AheadInv'
<1>1. CASE Connect  BY <1>1, ConnectAhead
<1>2. CASE ConnectFails
  <2>1. /\ pc = "connect" /\ UNCHANGED <<frames, script, request, pending, reading, buf, torn>>
        /\ pc' \in {pc, "done"}
    BY <1>2 DEF ConnectFails, Return, ReturnWith, guest
  <2>2. Read' = Read  BY <2>1, Zenon DEF Read
  <2> QED  BY <2>1, <2>2, SameAhead, DoneAhead
<1>3. CASE BeginFrame
  <2>1. CASE pc' = "done"  BY <2>1, DoneAhead
  <2>2. CASE pc' # "done"
    <3>1. /\ UNCHANGED <<pc, frames, script, request, pending, torn>> /\ buf' = <<>>
          /\ pc \in {"ready", "loop"}
      BY <1>3, <2>2 DEF BeginFrame, Return, ReturnWith, guest
    <3>2. ~reading  BY <1>3, Zenon DEF BeginFrame
    <3>3. Read = <<>> /\ Read' = <<>>  BY <3>1, <3>2, Zenon DEF Read
    <3> QED  BY <3>1, <3>3, SameAhead
  <2> QED  BY <2>1, <2>2
<1>4. CASE ReadByte  BY <1>4, ReadByteAhead
<1>5. CASE ReadFails  BY <1>5, DoneAhead DEF ReadFails, Return, ReturnWith
<1>6. CASE ReadTimesOut
  <2>1. CASE pc' = "done"  BY <2>1, DoneAhead
  <2>2. CASE pc' # "done"
    <3>1. client = "ports" /\ UNCHANGED <<pc, frames, script, request, pending>>
      BY <1>6, <2>2 DEF ReadTimesOut, Return, ReturnWith, guest
    <3>2. reading /\ ~reading'  BY <1>6, Zenon DEF ReadTimesOut
    <3>3. pc' = "loop" /\ request' = <<>>  BY <3>1, <3>2 DEF ReadInv
    <3>4. ASSUME ~torn' PROVE Follows(script', Len(frames'), Cat(Read', pending'))
      <4>1. ~torn /\ buf = <<>>  BY <1>6, <3>1, <3>4, Zenon DEF ReadTimesOut
      <4>2. Read = <<>> /\ Read' = <<>>  BY <4>1, <3>2, Zenon DEF Read
      <4>3. pc = "loop" /\ request = <<>>  BY <3>1, <3>3
      <4>4. Follows(script, Len(frames), Cat(Read, pending))
        BY <4>1, <4>3, Zenon DEF AheadInv
      <4> QED  BY <4>4, <4>2, <3>1, Zenon
    <3> QED  BY <3>3, <3>4, Zenon DEF AheadInv
  <2> QED  BY <2>1, <2>2
<1>7. CASE TakeFrame  BY <1>7, TakeFrameAhead
<1>8. CASE SendExecute
  <2>1. CASE pc' = "done"  BY <2>1, DoneAhead
  <2>2. CASE pc' # "done"
    <3>1. /\ pc = "execute" /\ pc' = "loop" /\ UNCHANGED <<frames, pending>>
          /\ request' = ExecuteFrame
      BY <1>8, <2>2, Zenon DEF SendExecute, Return, ReturnWith, ExecuteFrame
    <3>2. ~reading  BY <3>1 DEF ReadInv
    <3>3. reading' = reading  BY <1>8 DEF SendExecute
    <3>4. Read' = <<>>  BY <3>2, <3>3, Zenon DEF Read
    <3>5. Len(frames') = 1 /\ pending' = <<>>  BY <3>1 DEF AheadInv
    <3> QED  BY <3>1, <3>4, <3>5, GuestReads DEF AheadInv
  <2> QED  BY <2>1, <2>2
<1>9. CASE SendFails  BY <1>9, DoneAhead DEF SendFails, Return, ReturnWith
<1>10. CASE StopPorts  BY <1>10, DoneAhead DEF StopPorts, Return, ReturnWith
<1>11. CASE Tick
  <2>1. UNCHANGED <<pc, frames, script, request, pending, reading, buf, torn>>
    BY <1>11 DEF Tick, guest, taken
  <2>2. Read' = Read  BY <2>1, Zenon DEF Read
  <2> QED  BY <2>1, <2>2, SameAhead
<1>12. CASE GuestExecutes  BY <1>12, GuestExecutesAhead
<1>13. CASE GuestCloses  BY <1>13, GuestClosesAhead
<1>14. CASE UNCHANGED vars
  <2>1. UNCHANGED <<pc, frames, script, request, pending, reading, buf, torn>>
    BY <1>14 DEF vars, guest, taken
  <2>2. Read' = Read  BY <2>1, Zenon DEF Read
  <2> QED  BY <2>1, <2>2, SameAhead
<1> QED
  BY <1>1, <1>2, <1>3, <1>4, <1>5, <1>6, <1>7, <1>8, <1>9, <1>10, <1>11, <1>12, <1>13,
     <1>14, Zenon
  DEF Next, HostStep

\* and what has been taken.
LEMMA NextTaken ==
    ASSUME ReadInv, AheadInv, TakenInv, [Next]_vars
    PROVE  TakenInv'
<1>k. ASSUME UNCHANGED <<script, frames>>, torn => torn' PROVE TakenInv'
  <2>1. Sent' = Sent  BY <1>k DEF Sent
  <2> QED  BY <1>k, <2>1, Zenon DEF TakenInv
<1>1. CASE TakeFrame
  <2>1. UNCHANGED script /\ torn' = torn  BY <1>1 DEF TakeFrame, guest
  <2>2. Sent' = Sent  BY <2>1 DEF Sent
  <2>3. ~torn => Len(frames') \in 0..Len(script) /\ frames' = SubSeq(Sent, 1, Len(frames'))
    BY <1>1, TakeFrameTaken
  <2> QED  BY <2>1, <2>2, <2>3, Zenon DEF TakenInv
<1>2. CASE ~TakeFrame
  <2>1. UNCHANGED <<script, frames>>
    BY <1>2, Zenon DEF Next, HostStep, vars, guest, taken, Connect, ConnectFails,
       BeginFrame, ReadByte, ReadFails, ReadTimesOut, SendExecute, SendFails, StopPorts,
       Tick, GuestExecutes, GuestCloses
  <2>2. torn => torn'
    BY <1>2, Zenon DEF Next, HostStep, vars, guest, taken, Connect, ConnectFails,
       BeginFrame, ReadByte, ReadFails, ReadTimesOut, SendExecute, SendFails, StopPorts,
       Tick, GuestExecutes, GuestCloses
  <2> QED  BY <2>1, <2>2, <1>k
<1> QED  BY <1>1, <1>2

InStep == ReadInv /\ AheadInv /\ TakenInv

LEMMA InitInStep == Init => InStep
<1> SUFFICES ASSUME Init PROVE InStep
    OBVIOUS
<1>1. ~reading /\ ~torn  BY Zenon DEF Init
<1>2. <<>> \in Seq(Nat) /\ Len(<<>>) = 0  BY EmptySeq
<1>3. ReadInv  BY <1>1, <1>2 DEF Init, ReadInv
<1>4. AheadInv  BY DEF Init, AheadInv
<1>5. TakenInv
  <2>1. Messages(script)  BY ScriptMessages DEF Init
  <2>2. Len(script) \in Nat  BY <2>1, PartsSeq
  <2>3. frames = <<>> /\ Len(frames) = 0  BY <1>2 DEF Init
  <2>4. SubSeq(Sent, 1, 0) = <<>>  BY SubSeqEmpty
  <2> QED  BY <2>2, <2>3, <2>4 DEF TakenInv
<1> QED  BY <1>3, <1>4, <1>5 DEF InStep

LEMMA NextInStep ==
    ASSUME InStep, [Next]_vars
    PROVE  InStep'
BY NextReadInv, NextAhead, NextTaken DEF InStep

\* read_frame and write_frame agree on where frames begin: whatever the script,
\* however its bytes arrive and wherever the stream is cut, the frames taken are
\* the first ones written, unless port_forward_loop timed out within a frame.
THEOREM SmokeFramesInStep == Spec => []FramesInStep
<1>1. InStep /\ [Next]_vars => InStep'  BY NextInStep
<1>2. ASSUME InStep PROVE FramesInStep
  <2>1. torn => client = "ports"  BY <1>2 DEF InStep, ReadInv
  <2>2. ASSUME ~torn PROVE IsPrefix(frames, Sent)
    <3>1. Messages(script)  BY <1>2, ScriptMessages DEF InStep, ReadInv
    <3>2. Len(Sent) = Len(script) /\ Len(script) \in Nat  BY <3>1, SentSeq, PartsSeq
    <3>3. Len(frames) \in 0..Len(script) /\ frames = SubSeq(Sent, 1, Len(frames))
      BY <1>2, <2>2 DEF InStep, TakenInv
    <3>4. Len(frames) <= Len(Sent)  BY <3>2, <3>3
    <3> QED  BY <3>3, <3>4, Zenon DEF IsPrefix
  <2> QED  BY <2>1, <2>2, Zenon DEF FramesInStep
<1> QED  BY InitInStep, <1>1, <1>2, PTL DEF Spec

-----------------------------------------------------------------------------
(* What the messages of the command say.                                   *)

\* The host parses the output that fendd writes,
LEMMA OwnOutput ==
    ASSUME NEW m, OwnMessage(m), m.own, m.kind = MessageType.OutputData
    PROVE  /\ m.stream \in {stdout, stderr} /\ m.bytes \in Seq(0..255)
           /\ parse_output_data(Payload(m)) =
                <<[id |-> COMMAND_ID, stream |-> m.stream, data |-> base64_encode(m.bytes)]>>
<1> DEFINE e == base64_encode(m.bytes)
           p == Payload(m)
<1>1. m.stream \in {stdout, stderr} /\ m.bytes \in Seq(0..255) /\ m = Output(m.stream, m.bytes)
  BY DEF OwnMessage, MessageType
<1>2. m.rest = Tail(<<0, m.stream>> \o e)
  <2> DEFINE o == Output(m.stream, m.bytes)
  <2>1. o.rest = Tail(<<0, m.stream>> \o e)  BY Zenon DEF Output, OutputData
  <2>2. m.rest = o.rest  BY <1>1
  <2> QED  BY <2>1, <2>2, Zenon
<1>3. e \in Seq(Nat)
  <2>1. e \in Seq(0..64)  BY <1>1, DecodeEncode
  <2>2. 0..64 \subseteq Nat  OBVIOUS
  <2> HIDE DEF e
  <2> QED  BY <2>1, <2>2, SeqMonotonic, Zenon
<1>4. p = <<COMMAND_ID>> \o Tail(<<0, m.stream>> \o e)  BY <1>2, Zenon DEF Payload
<1>5. m.stream \in Nat /\ COMMAND_ID \in Nat /\ 0 \in Nat
  BY <1>1 DEF stdout, stderr, COMMAND_ID
<1> DEFINE y == m.stream
<1> HIDE DEF e, p, y
<1>6. p = <<COMMAND_ID>> \o Tail(<<0, y>> \o e) /\ y \in Nat  BY <1>4, <1>5, Zenon DEF y
<1>7. /\ p \in Seq(Nat) /\ Len(p) = Len(e) + 2 /\ p[1] = COMMAND_ID /\ p[2] = y
      /\ SubSeq(p, 3, Len(p)) = e
  BY <1>3, <1>5, <1>6, TailOfPair
<1>8. ~(Len(p) < 2)
  <2>1. Len(e) \in Nat  BY <1>3
  <2> QED  BY <2>1, <1>7
<1>9. parse_output_data(p) = <<[id |-> COMMAND_ID, stream |-> y, data |-> e]>>
  BY <1>7, <1>8, Zenon DEF parse_output_data, Some
<1> QED  BY <1>1, <1>9 DEF e, p, y

\* and the exit status.
LEMMA OwnExit ==
    ASSUME NEW m, OwnMessage(m), m.own, m.kind = MessageType.ExitStatus
    PROVE  /\ m = Exit(m.code)
           /\ parse_exit_status(Payload(m)) = <<[id |-> COMMAND_ID, code |-> m.code]>>
<1>1. m = Exit(m.code) /\ m.code \in Nat  BY DEF OwnMessage, MessageType
<1> DEFINE c == m.code
<1>2. m.rest = Tail(<<0, c>>)
  <2>1. Exit(m.code).rest = Tail(<<0, m.code>>)  BY Zenon DEF Exit, ExitStatus
  <2> QED  BY <2>1, <1>1, Zenon
<1>3. Payload(m) = <<COMMAND_ID>> \o Tail(<<0, c>>)  BY <1>2, Zenon DEF Payload
<1>4. c \in Nat  BY <1>1
<1> HIDE DEF c
<1>5. Tail(<<0, c>>) = <<c>>  BY <1>4
<1>6. <<COMMAND_ID>> \o <<c>> = <<COMMAND_ID, c>>
  <2> DEFINE i == <<COMMAND_ID>>
             q == <<COMMAND_ID, c>>
             a == Append(i, c)
  <2>1. i \in Seq(Nat) /\ Len(i) = 1 /\ i[1] = COMMAND_ID  BY DEF COMMAND_ID
  <2>q. q \in Seq(Nat) /\ Len(q) = 2 /\ q[1] = COMMAND_ID /\ q[2] = c
    BY <1>4 DEF COMMAND_ID
  <2> HIDE DEF i, q
  <2>a. a \in Seq(Nat) /\ Len(a) = 2 /\ a[1] = COMMAND_ID /\ a[2] = c
    <3>1. i \in Seq(Nat)  BY <2>1
    <3>2. /\ a \in Seq(Nat) /\ Len(a) = Len(i) + 1
          /\ \A j \in 1..Len(i) : a[j] = i[j]
          /\ a[Len(i) + 1] = c
      BY <3>1, <1>4, AppendProperties
    <3> HIDE DEF a
    <3> QED  BY <3>2, <2>1
  <2> HIDE DEF a
  <2>b. \A j \in 1..Len(a) : a[j] = q[j]  BY <2>a, <2>q
  <2>c. a = q  BY <2>a, <2>q, <2>b, SeqEqual, Zenon
  <2>2. Append(i, c) = <<COMMAND_ID, c>>  BY <2>c DEF a, q
  <2>3. Append(i, c) = i \o <<c>>  BY <2>1, <1>4, AppendIsConcat, Zenon
  <2> QED  BY <2>2, <2>3, Zenon DEF i
<1>7. Payload(m) = <<COMMAND_ID, c>>  BY <1>3, <1>5, <1>6, Zenon
<1>8. parse_exit_status(<<COMMAND_ID, c>>) = <<[id |-> COMMAND_ID, code |-> c]>>
  BY DEF parse_exit_status, Some
<1> QED  BY <1>1, <1>7, <1>8, Zenon DEF c

\* What each message of a script adds to a stream.
Speech(s, stream) ==
    [i \in DOMAIN s |->
        IF s[i].kind = MessageType.OutputData /\ s[i].own /\ s[i].stream = stream
        THEN s[i].bytes ELSE <<>>]
\* What the first n messages of a script add to a stream.
SaidBy(s, stream, n) == Joined(Speech(s, stream))[n]

\* A script of a command or of port events, as ScriptsAssumption has it.
Script(s) ==
    /\ Messages(s)
    /\ \A i \in DOMAIN s :
           /\ s[i].own => OwnMessage(s[i])
           /\ s[i].own /\ s[i].kind = MessageType.ExitStatus => i = Len(s)
           /\ i > 1 /\ ~s[i].own => StrangeMessage(s[i])

\* What messages say, as sequences of bytes.
LEMMA SpeechSeq ==
    ASSUME NEW s, Script(s), NEW stream
    PROVE  Speech(s, stream) \in Seq(Seq(0..255)) /\ Len(Speech(s, stream)) = Len(s)
<1> DEFINE f == Speech(s, stream)
           n == Len(s)
<1>1. n \in Nat /\ DOMAIN s = 1..n  BY PartsSeq DEF Script
<1>2. ASSUME NEW i \in 1..n PROVE f[i] \in Seq(0..255)
  <2>1. CASE s[i].kind = MessageType.OutputData /\ s[i].own /\ s[i].stream = stream
    <3>1. OwnMessage(s[i])  BY <2>1, <1>1 DEF Script
    <3>2. s[i].bytes \in Seq(0..255)  BY <3>1, <2>1, OwnOutput
    <3>3. f[i] = s[i].bytes  BY <2>1, <1>1 DEF Speech
    <3> QED  BY <3>2, <3>3
  <2>2. CASE ~(s[i].kind = MessageType.OutputData /\ s[i].own /\ s[i].stream = stream)
    <3>1. f[i] = <<>>  BY <2>2, <1>1 DEF Speech
    <3> QED  BY <3>1, EmptySeq
  <2> QED  BY <2>1, <2>2
<1>3. DOMAIN f = 1..n /\ f = [i \in 1..n |-> f[i]]  BY <1>1 DEF Speech
<1> HIDE DEF f, n
<1>4. f \in Seq(Seq(0..255)) /\ Len(f) = n  BY <1>1, <1>2, <1>3
<1> QED  BY <1>4 DEF f, n

\* One message more: its bytes, if it is output on this stream.
LEMMA SaidNext ==
    ASSUME NEW s, Script(s), NEW stream, NEW k \in Nat, k + 1 \in 1..Len(s)
    PROVE  /\ SaidBy(s, stream, k) \in Seq(0..255)
           /\ s[k + 1].kind = MessageType.OutputData /\ s[k + 1].own /\ s[k + 1].stream = stream =>
                  SaidBy(s, stream, k + 1) = Cat(SaidBy(s, stream, k), s[k + 1].bytes)
           /\ ~(s[k + 1].kind = MessageType.OutputData /\ s[k + 1].own /\ s[k + 1].stream = stream) =>
                  SaidBy(s, stream, k + 1) = SaidBy(s, stream, k)
<1> DEFINE f == Speech(s, stream)
           J == Joined(f)
<1>1. Len(s) \in Nat /\ DOMAIN s = 1..Len(s)  BY PartsSeq DEF Script
<1>2. f \in Seq(Seq(0..255)) /\ Len(f) = Len(s)  BY SpeechSeq
<1>3. /\ s[k + 1].kind = MessageType.OutputData /\ s[k + 1].own /\ s[k + 1].stream = stream =>
             f[k + 1] = s[k + 1].bytes
      /\ ~(s[k + 1].kind = MessageType.OutputData /\ s[k + 1].own /\ s[k + 1].stream = stream) =>
             f[k + 1] = <<>>
  BY <1>1 DEF Speech
<1> HIDE DEF f
<1>4. /\ \A n \in 1..Len(f) : J[n] = Cat(J[n - 1], f[n])
      /\ \A n \in 0..Len(f) : J[n] \in Seq(0..255)
  BY <1>2, JoinedSteps
<1> HIDE DEF J
<1>5. k \in 0..Len(f) /\ k + 1 \in 1..Len(f) /\ (k + 1) - 1 = k  BY <1>1, <1>2
<1>6. J[k] \in Seq(0..255) /\ J[k + 1] = Cat(J[k], f[k + 1])  BY <1>4, <1>5
<1> DEFINE j == J[k]
<1>7. j \in Seq(0..255)  BY <1>6
<1> HIDE DEF j
<1>8. Cat(j, <<>>) = j  BY <1>7, CatEmpty
<1>9. SaidBy(s, stream, k) = j /\ SaidBy(s, stream, k + 1) = Cat(j, f[k + 1])
  BY <1>6 DEF SaidBy, f, J, j
<1> QED  BY <1>3, <1>7, <1>8, <1>9, Zenon

\* What the first messages say is the beginning of what all of them say.
LEMMA SaidPrefix ==
    ASSUME NEW stream, Script(script), NEW n \in 0..Len(script)
    PROVE  /\ IsPrefix(SaidBy(script, stream, n), Said(stream))
           /\ Len(SaidBy(script, stream, n)) <= Len(Said(stream))
           /\ n = Len(script) => SaidBy(script, stream, n) = Said(stream)
<1> DEFINE f == Speech(script, stream)
           j == SaidBy(script, stream, n)
           w == Said(stream)
<1>1. f \in Seq(Seq(0..255)) /\ Len(f) = Len(script)  BY SpeechSeq
<1>2. w = Concat(f)  BY DEF Said, Speech
<1>3. j = Joined(f)[n]  BY DEF SaidBy
<1> HIDE DEF f, j, w
<1>4. n \in 0..Len(f)  BY <1>1
<1>5. PICK u \in Seq(0..255) : Concat(f) = Cat(Joined(f)[n], u)  BY <1>1, <1>4, JoinedPrefix
<1>6. w = Cat(j, u)  BY <1>2, <1>3, <1>5
<1>7. j \in Seq(0..255)
  <2>1. \A i \in 0..Len(f) : Joined(f)[i] \in Seq(0..255)  BY <1>1, JoinedSteps
  <2> QED  BY <2>1, <1>3, <1>4
<1>8. w \in Seq(0..255) /\ Len(w) = Len(j) + Len(u)  BY <1>6, <1>7, CatSeq
<1>9. Len(j) \in Nat /\ Len(u) \in Nat  BY <1>7, <1>5
<1>10. Len(j) <= Len(w)  BY <1>8, <1>9
<1>11. j = SubSeq(w, 1, Len(j))
  <2> DEFINE l == Len(j)
             q == SubSeq(w, 1, l)
  <2>0. w \in Seq(0..255) /\ 1..l \subseteq 1..Len(w)  BY <1>8, <1>9, <1>10
  <2>1. \A i \in 1..l : w[i] \in 0..255  BY <2>0, ElementOfSeq, Zenon
  <2>2. q \in Seq(0..255) /\ Len(q) = (IF 1 <= l THEN l - 1 + 1 ELSE 0)
        /\ \A i \in 1..(l - 1 + 1) : q[i] = w[1 + i - 1]
    BY <2>1, <1>9, SubSeqProperties
  <2> HIDE DEF q
  <2>3. Len(q) = l  BY <2>2, <1>9
  <2>t. j \in Seq(0..255) /\ u \in Seq(0..255)  BY <1>5, <1>7
  <2>4. \A i \in 1..Len(j) : Cat(j, u)[i] = j[i]  BY <2>t, CatElement
  <2>5. ASSUME NEW i \in 1..l PROVE q[i] = j[i]
    <3>1. i \in 1..(l - 1 + 1) /\ 1 + i - 1 = i  BY <1>9
    <3>2. q[i] = w[i]  BY <3>1, <2>2
    <3>3. w[i] = j[i]  BY <2>4, <1>6
    <3> QED  BY <3>2, <3>3
  <2>6. j = q  BY <2>2, <2>3, <2>5, <1>7, SeqEqual
  <2> QED  BY <2>6 DEF q
<1>12. IsPrefix(j, w)  BY <1>10, <1>11 DEF IsPrefix
<1>13. n = Len(script) => j = w  BY <1>1, <1>2, <1>3 DEF Concat
<1> QED  BY <1>10, <1>12, <1>13 DEF j, w

\* While a command is read, each stream holds what the messages taken have said;
\* port_forward_loop takes no output.
Flow ==
    /\ output \in [{stdout, stderr} -> Seq(0..255)]
    /\ pc # "done" => result.kind = "none"
    /\ client # "ports" /\ pc = "loop" => Len(frames) >= 1
    /\ client # "ports" /\ pc # "done" =>
           \A stream \in {stdout, stderr} : output[stream] = SaidBy(script, stream, Len(frames))
OutInv == Flow /\ OutputIsTheCommands /\ LimitIsExact

\* The script that runs is one of a command or of port events.
LEMMA ScriptOfClient ==
    ASSUME ReadInv
    PROVE  /\ Script(script)
           /\ client # "ports" => ~script[1].own
           /\ client \in {"smoke", "attached", "ports"}
BY ScriptsAssumption, SmokeAssumption, Zenon DEF ReadInv, Script, Messages

\* A step that takes nothing for the command.
LEMMA QuietStep ==
    ASSUME InStep, OutInv, UNCHANGED <<client, script, output>>,
           UNCHANGED frames \/ client = "ports" \/ pc' = "done",
           pc' # "done" => pc # "done",
           pc' = "loop" => client = "ports" \/ pc \in {"execute", "loop"},
           \/ result' = result
           \/ pc' = "done" /\ result'.kind \notin {"Ok", "OutputLimitExceeded"}
    PROVE  OutInv'
<1>1. Flow'
  <2>1. pc = "execute" => Len(frames) = 1  BY DEF InStep, AheadInv
  <2>2. output' \in [{stdout, stderr} -> Seq(0..255)]  BY DEF OutInv, Flow
  <2>3. pc' # "done" => result'.kind = "none"  BY DEF OutInv, Flow
  <2>4. ASSUME client' # "ports", pc' = "loop" PROVE Len(frames') >= 1
    <3>1. client # "ports" /\ pc \in {"execute", "loop"} /\ frames' = frames  BY <2>4
    <3>2. CASE pc = "execute"  BY <3>1, <3>2, <2>1
    <3>3. CASE pc = "loop"
      <4>1. Len(frames) >= 1  BY <3>1, <3>3, Zenon DEF OutInv, Flow
      <4> QED  BY <4>1, <3>1, Zenon
    <3> QED  BY <3>1, <3>2, <3>3
  <2>5. client' # "ports" /\ pc' # "done" =>
           \A stream \in {stdout, stderr} : output'[stream] = SaidBy(script', stream, Len(frames'))
    <3> SUFFICES ASSUME client' # "ports", pc' # "done", NEW stream \in {stdout, stderr}
                 PROVE  output'[stream] = SaidBy(script', stream, Len(frames'))
        OBVIOUS
    <3>1. client # "ports" /\ pc # "done" /\ frames' = frames /\ script' = script /\ output' = output
      OBVIOUS
    <3>2. output[stream] = SaidBy(script, stream, Len(frames))  BY <3>1 DEF OutInv, Flow
    <3> QED  BY <3>1, <3>2, Zenon
  <2> QED  BY <2>2, <2>3, <2>4, <2>5, Zenon DEF Flow
<1>2. \A stream : Said(stream)' = Said(stream)  BY DEF Said
<1>3. OutputIsTheCommands'
  <2>1. \A stream \in {stdout, stderr} : IsPrefix(output'[stream], Said(stream)')
    BY <1>2, Zenon DEF OutInv, OutputIsTheCommands
  <2>2. ASSUME result'.kind = "Ok"
        PROVE  /\ \E i \in DOMAIN script' : script'[i] = Exit(result'.code)
               /\ \A stream \in {stdout, stderr} : output'[stream] = Said(stream)'
    <3>1. result' = result /\ script' = script /\ output' = output /\ result.kind = "Ok"
      BY <2>2
    <3> QED  BY <3>1, <1>2, Zenon DEF OutInv, OutputIsTheCommands
  <2> QED  BY <2>1, <2>2, Zenon DEF OutputIsTheCommands
<1>4. LimitIsExact'
  <2>1. ASSUME client' = "smoke", NEW stream \in {stdout, stderr}
        PROVE  Len(output'[stream]) <= MaxOutput
    BY <2>1 DEF OutInv, LimitIsExact
  <2>2. ASSUME result'.kind = "OutputLimitExceeded"
        PROVE  \E stream \in {stdout, stderr} : Len(Said(stream)') > MaxOutput
    <3>1. result' = result /\ result.kind = "OutputLimitExceeded"  BY <2>2
    <3>2. PICK stream \in {stdout, stderr} : Len(Said(stream)) > MaxOutput
      BY <3>1, Zenon DEF OutInv, LimitIsExact
    <3>3. Len(Said(stream)') > MaxOutput  BY <3>2, <1>2, Zenon
    <3> QED  BY <3>3
  <2> QED  BY <2>1, <2>2, Zenon DEF LimitIsExact
<1> QED  BY <1>1, <1>3, <1>4, Zenon DEF OutInv

\* The result of a step that takes message k + 1 of a command and says no more
\* than it.
LEMMA SaidStep ==
    ASSUME Script(script), NEW k \in Nat, k + 1 \in 1..Len(script), client # "ports",
           UNCHANGED <<client, script>>, Len(frames') = k + 1,
           output' \in [{stdout, stderr} -> Seq(0..255)],
           \A stream \in {stdout, stderr} : output'[stream] = SaidBy(script, stream, k + 1),
           client = "smoke" =>
               \A stream \in {stdout, stderr} : Len(output'[stream]) <= MaxOutput,
           \/ pc' # "done" /\ result'.kind = "none"
           \/ /\ k + 1 = Len(script) /\ result'.kind = "Ok" /\ pc' = "done"
              /\ script[k + 1] = Exit(result'.code)
    PROVE  OutInv'
<1>l. Len(script) \in Nat /\ DOMAIN script = 1..Len(script)  BY PartsSeq DEF Script
<1>1. Flow'
  <2>1. Len(frames') >= 1  OBVIOUS
  <2>2. output' \in [{stdout, stderr} -> Seq(0..255)] /\ (pc' # "done" => result'.kind = "none")
    OBVIOUS
  <2>3. \A stream \in {stdout, stderr} : output'[stream] = SaidBy(script', stream, Len(frames'))
    OBVIOUS
  <2> QED  BY <2>1, <2>2, <2>3, Zenon DEF Flow
<1>2. \A stream : Said(stream)' = Said(stream)  BY DEF Said
<1>3. k + 1 \in 0..Len(script)
  <2>1. ASSUME NEW l \in Nat, NEW n \in 1..l PROVE n \in 0..l  OBVIOUS
  <2> QED  BY <2>1, <1>l, Zenon
<1>4. ASSUME NEW stream \in {stdout, stderr}
      PROVE  /\ IsPrefix(output'[stream], Said(stream)')
             /\ k + 1 = Len(script) => output'[stream] = Said(stream)'
  <2> DEFINE n == k + 1
  <2>1. output'[stream] = SaidBy(script, stream, n)  OBVIOUS
  <2>2. n \in 0..Len(script)  BY <1>3
  <2> HIDE DEF n
  <2>3. /\ IsPrefix(SaidBy(script, stream, n), Said(stream))
        /\ n = Len(script) => SaidBy(script, stream, n) = Said(stream)
    BY <2>2, SaidPrefix
  <2>4. /\ IsPrefix(output'[stream], Said(stream)')
        /\ n = Len(script) => output'[stream] = Said(stream)'
    BY <2>1, <2>3, <1>2, Zenon
  <2> QED  BY <2>4 DEF n
<1>5. ASSUME result'.kind = "Ok"
      PROVE  /\ \E i \in DOMAIN script' : script'[i] = Exit(result'.code)
             /\ \A stream \in {stdout, stderr} : output'[stream] = Said(stream)'
  <2>1. k + 1 = Len(script) /\ script[k + 1] = Exit(result'.code) /\ script' = script
    BY <1>5
  <2>2. k + 1 \in DOMAIN script  BY <1>l, Zenon
  <2>3. \E i \in DOMAIN script' : script'[i] = Exit(result'.code)  BY <2>1, <2>2
  <2> QED  BY <2>1, <2>3, <1>4
<1>6. OutputIsTheCommands'  BY <1>4, <1>5, Zenon DEF OutputIsTheCommands
<1>7. LimitIsExact'
  <2>1. result'.kind # "OutputLimitExceeded"  OBVIOUS
  <2> QED  BY <2>1 DEF LimitIsExact
<1> QED  BY <1>1, <1>6, <1>7, Zenon DEF OutInv

\* The command's own output: decoded to the bytes it wrote.
LEMMA TakeOwnOutput ==
    ASSUME NEW m, OwnMessage(m), m.own, m.kind = MessageType.OutputData, TakeOutput(Payload(m))
    PROVE  append_output(m.stream, m.bytes)
<1> DEFINE p == parse_output_data(Payload(m))
           e == base64_encode(m.bytes)
           d == host_base64_decode(e)
<1>1. /\ m.stream \in {stdout, stderr} /\ m.bytes \in Seq(0..255)
      /\ p = <<[id |-> COMMAND_ID, stream |-> m.stream, data |-> e]>>
  BY OwnOutput
<1>2. d = <<m.bytes>>
  <2> DEFINE b == m.bytes
  <2>1. b \in Seq(0..255)  BY <1>1, Zenon
  <2> HIDE DEF b
  <2>2. host_base64_decode(base64_encode(b)) = <<b>>  BY <2>1, DecodeEncode
  <2> QED  BY <2>2 DEF b
<1> HIDE DEF e
<1>3. p # None /\ p[1].id = COMMAND_ID /\ p[1].stream = m.stream /\ p[1].data = e
  BY <1>1 DEF None
<1>4. PICK parsed \in {p} :
        IF parsed = None \/ parsed[1].id # COMMAND_ID \/ parsed[1].stream \notin {stdout, stderr}
        THEN Return("Protocol") /\ UNCHANGED output
        ELSE \E bytes \in {host_base64_decode(parsed[1].data)} :
             IF bytes = None THEN Return("Protocol") /\ UNCHANGED output
             ELSE append_output(parsed[1].stream, bytes[1])
  BY Zenon DEF TakeOutput
<1> HIDE DEF p
<1>5. PICK bytes \in {host_base64_decode(parsed[1].data)} :
             IF bytes = None THEN Return("Protocol") /\ UNCHANGED output
             ELSE append_output(parsed[1].stream, bytes[1])
  BY <1>1, <1>3, <1>4, Zenon
<1>6. bytes = d /\ parsed[1].stream = m.stream  BY <1>3, <1>4, <1>5, Zenon
<1> HIDE DEF d
<1>7. d # None /\ d[1] = m.bytes  BY <1>2 DEF None
<1> QED  BY <1>5, <1>6, <1>7, Zenon

\* What is not the command's ends the session.
LEMMA TakeStrange ==
    ASSUME NEW m, StrangeMessage(m), ~m.own
    PROVE  /\ m.kind = MessageType.OutputData /\ TakeOutput(Payload(m)) =>
                  Return("Protocol") /\ UNCHANGED output
           /\ m.kind = MessageType.ExitStatus /\ TakeExit(Payload(m)) =>
                  Return("Protocol") /\ UNCHANGED output
<1>1. Payload(m) = m.rest  BY Zenon DEF Payload
<1>2. ASSUME m.kind = MessageType.OutputData, TakeOutput(Payload(m))
      PROVE  Return("Protocol") /\ UNCHANGED output
  <2> DEFINE p == parse_output_data(m.rest)
             d == host_base64_decode(p[1].data)
  <2>1. p = None \/ p[1].id # COMMAND_ID \/ p[1].stream \notin {stdout, stderr} \/ d = None
    BY <1>2, Zenon DEF StrangeMessage
  <2>2. PICK parsed \in {p} :
        IF parsed = None \/ parsed[1].id # COMMAND_ID \/ parsed[1].stream \notin {stdout, stderr}
        THEN Return("Protocol") /\ UNCHANGED output
        ELSE \E bytes \in {host_base64_decode(parsed[1].data)} :
             IF bytes = None THEN Return("Protocol") /\ UNCHANGED output
             ELSE append_output(parsed[1].stream, bytes[1])
    BY <1>1, <1>2, Zenon DEF TakeOutput
  <2>3. parsed = p  BY <2>2
  <2> HIDE DEF p
  <2> QED  BY <2>1, <2>2, <2>3, Zenon
<1>3. ASSUME m.kind = MessageType.ExitStatus, TakeExit(Payload(m))
      PROVE  Return("Protocol") /\ UNCHANGED output
  BY <1>1, <1>3, Zenon DEF StrangeMessage, TakeExit
<1> QED  BY <1>2, <1>3, Zenon

\* The command's exit ends the session with its code.
LEMMA TakeOwnExit ==
    ASSUME NEW m, OwnMessage(m), m.own, m.kind = MessageType.ExitStatus, TakeExit(Payload(m))
    PROVE  m = Exit(m.code) /\ ReturnWith("Ok", m.code) /\ UNCHANGED output
<1> DEFINE p == parse_exit_status(Payload(m))
<1>1. m = Exit(m.code) /\ p = <<[id |-> COMMAND_ID, code |-> m.code]>>  BY OwnExit
<1>2. /\ IF p = None \/ p[1].id # COMMAND_ID THEN Return("Protocol")
         ELSE ReturnWith("Ok", p[1].code)
      /\ UNCHANGED output
  BY Zenon DEF TakeExit
<1> HIDE DEF p
<1>3. p # None /\ p[1].id = COMMAND_ID /\ p[1].code = m.code  BY <1>1 DEF None
<1> QED  BY <1>1, <1>2, <1>3, Zenon

\* What TakeFrame does with the frame of a message.
LEMMA TakeFrameDoes ==
    ASSUME TakeFrame, client # "ports", NEW m, Frame(buf) = Framed(m)
    PROVE  /\ pc = "ready" =>
                  /\ UNCHANGED output
                  /\ (pc' = "execute" /\ UNCHANGED result) \/ Return("Protocol")
           /\ pc # "ready" /\ m.kind = MessageType.OutputData => TakeOutput(Payload(m))
           /\ pc # "ready" /\ m.kind = MessageType.ExitStatus => TakeExit(Payload(m))
           /\ pc # "ready" /\ m.kind \notin {MessageType.OutputData, MessageType.ExitStatus} =>
                  Return("Protocol") /\ UNCHANGED output
<1>1. PICK frame \in {Frame(buf)} :
          IF pc = "ready" THEN
                 /\ IF frame.kind = MessageType.Ready THEN pc' = "execute" /\ UNCHANGED result
                    ELSE Return("Protocol")
                 /\ UNCHANGED output
          ELSE IF frame.kind = MessageType.OutputData THEN TakeOutput(frame.payload)
          ELSE IF frame.kind = MessageType.ExitStatus THEN TakeExit(frame.payload)
          ELSE Return("Protocol") /\ UNCHANGED output
  BY Zenon DEF TakeFrame
<1>2. frame = Framed(m)  BY <1>1
<1>3. Framed(m).kind = m.kind /\ Framed(m).payload = Payload(m)  BY Zenon DEF Framed
<1>4. frame.kind = m.kind /\ frame.payload = Payload(m)  BY <1>2, <1>3, Zenon
<1>5. MessageType.OutputData # MessageType.ExitStatus  BY DEF MessageType
<1> QED  BY <1>1, <1>4, <1>5, Zenon

\* append_output, for the bytes of message k + 1.
LEMMA AppendOut ==
    ASSUME InStep, OutInv, client # "ports", pc # "done", NEW k \in Nat, k = Len(frames),
           k + 1 \in 1..Len(script), Len(frames') = k + 1, UNCHANGED <<client, script>>,
           OwnMessage(script[k + 1]), script[k + 1].own,
           script[k + 1].kind = MessageType.OutputData,
           append_output(script[k + 1].stream, script[k + 1].bytes)
    PROVE  OutInv'
<1> DEFINE m == script[k + 1]
           st == m.stream
           b == m.bytes
           old == output[st]
<1>s. Script(script)  BY ScriptOfClient DEF InStep
<1>1. st \in {stdout, stderr} /\ b \in Seq(0..255)
  <2>1. OwnMessage(m) /\ m.own /\ m.kind = MessageType.OutputData  OBVIOUS
  <2> HIDE DEF m
  <2> QED  BY <2>1, OwnOutput
<1>2. \A stream \in {stdout, stderr} : output[stream] = SaidBy(script, stream, k)
  BY Zenon DEF OutInv, Flow
<1>3. \A stream \in {stdout, stderr} : stream # st => SaidBy(script, stream, k + 1) = output[stream]
  <2> SUFFICES ASSUME NEW stream \in {stdout, stderr}, stream # st
               PROVE  SaidBy(script, stream, k + 1) = output[stream]
      OBVIOUS
  <2>1. SaidBy(script, stream, k + 1) = SaidBy(script, stream, k)  BY <1>s, SaidNext, Zenon
  <2> QED  BY <2>1, <1>2, Zenon
<1>4. SaidBy(script, st, k + 1) = Cat(old, b)
  <2>1. SaidBy(script, st, k + 1) = Cat(SaidBy(script, st, k), b)  BY <1>s, SaidNext, Zenon
  <2> QED  BY <2>1, <1>1, <1>2, Zenon
<1>t. output \in [{stdout, stderr} -> Seq(0..255)]  BY DEF OutInv, Flow
<1>5. old \in Seq(0..255)  BY <1>1, <1>t
<1>6. IF client = "smoke" /\ Len(old) + Len(b) > MaxOutput
      THEN Return("OutputLimitExceeded") /\ UNCHANGED output
      ELSE /\ output' = [output EXCEPT ![st] = Cat(old, b)]
           /\ UNCHANGED <<pc, result>>
  BY Zenon DEF append_output, Cat
<1>l. MaxOutput \in Nat /\ Len(script) \in Nat
  BY <1>s, PartsSeq, SmokeAssumption DEF Script
<1>n. k + 1 \in 0..Len(script)
  <2>1. ASSUME NEW l \in Nat, NEW n \in 1..l PROVE n \in 0..l  OBVIOUS
  <2> QED  BY <2>1, <1>l, Zenon
<1> HIDE DEF m, st, b, old
<1>7. Cat(old, b) \in Seq(0..255) /\ Len(Cat(old, b)) = Len(old) + Len(b)
  BY <1>1, <1>5, CatSeq
<1>8. CASE client = "smoke" /\ Len(old) + Len(b) > MaxOutput
  <2>1. pc' = "done" /\ result'.kind = "OutputLimitExceeded" /\ output' = output
    BY <1>6, <1>8 DEF Return, ReturnWith
  <2>2. Len(Said(st)) > MaxOutput
    <3> DEFINE n == k + 1
               w == Len(Said(st))
               x == SaidBy(script, st, n)
    <3>1. n \in 0..Len(script)  BY <1>n
    <3> HIDE DEF n
    <3>2. Len(x) <= w  BY <3>1, <1>s, SaidPrefix
    <3>3. x = Cat(old, b)  BY <1>4, Zenon DEF n
    <3> HIDE DEF x, w
    <3>4. Len(Cat(old, b)) <= w  BY <3>2, <3>3, Zenon
    <3>5. Len(old) \in Nat /\ Len(b) \in Nat  BY <1>1, <1>5
    <3>6. w \in Nat
      <4> DEFINE f == Speech(script, st)
      <4>1. f \in Seq(Seq(0..255))  BY <1>s, SpeechSeq
      <4>2. Said(st) = Joined(f)[Len(f)]  BY DEF Said, Speech, Concat
      <4> HIDE DEF f
      <4>3. Len(f) \in 0..Len(f)  BY <4>1
      <4>4. \A i \in 0..Len(f) : Joined(f)[i] \in Seq(0..255)  BY <4>1, JoinedSteps
      <4>5. Said(st) \in Seq(0..255)  BY <4>2, <4>3, <4>4, Zenon
      <4> QED  BY <4>5 DEF w
    <3>7. w > MaxOutput  BY <3>4, <3>5, <3>6, <1>7, <1>8, <1>l
    <3> QED  BY <3>7 DEF w
  <2>3. \A stream : Said(stream)' = Said(stream)  BY DEF Said
  <2>4. LimitIsExact'
    <3>1. \E stream \in {stdout, stderr} : Len(Said(stream)') > MaxOutput
      BY <2>2, <2>3, <1>1, Zenon
    <3>2. client' = "smoke" => \A stream \in {stdout, stderr} : Len(output'[stream]) <= MaxOutput
      BY <2>1, Zenon DEF OutInv, LimitIsExact
    <3> QED  BY <3>1, <3>2, Zenon DEF LimitIsExact
  <2>5. OutputIsTheCommands'
    <3>1. \A stream \in {stdout, stderr} : IsPrefix(output'[stream], Said(stream)')
      BY <2>1, <2>3, Zenon DEF OutInv, OutputIsTheCommands
    <3>2. result'.kind # "Ok"  BY <2>1
    <3> QED  BY <3>1, <3>2, Zenon DEF OutputIsTheCommands
  <2>6. Flow'
    <3>1. output' \in [{stdout, stderr} -> Seq(0..255)] /\ pc' = "done" /\ pc' # "loop"
      BY <2>1, <1>t
    <3> QED  BY <3>1, Zenon DEF Flow
  <2> QED  BY <2>4, <2>5, <2>6, Zenon DEF OutInv
<1>9. CASE ~(client = "smoke" /\ Len(old) + Len(b) > MaxOutput)
  <2>1. output' = [output EXCEPT ![st] = Cat(old, b)] /\ pc' = pc /\ result' = result
    BY <1>6, <1>9
  <2>2. output' \in [{stdout, stderr} -> Seq(0..255)]  BY <2>1, <1>t, <1>7, Zenon
  <2>3. output'[st] = Cat(old, b)  BY <2>1, <1>t, <1>1
  <2>4. ASSUME NEW stream \in {stdout, stderr}, stream # st PROVE output'[stream] = output[stream]
    BY <2>1, <2>4, <1>t, Zenon
  <2>5. ASSUME NEW stream \in {stdout, stderr}
        PROVE  output'[stream] = SaidBy(script, stream, k + 1)
    BY <2>3, <2>4, <1>3, <1>4, Zenon
  <2>6. ASSUME client = "smoke", NEW stream \in {stdout, stderr}
        PROVE  Len(output'[stream]) <= MaxOutput
    <3>1. CASE stream = st
      <4>1. Len(old) \in Nat /\ Len(b) \in Nat  BY <1>1, <1>5
      <4>2. Len(old) + Len(b) <= MaxOutput  BY <4>1, <2>6, <1>9, <1>l
      <4>3. Len(Cat(old, b)) <= MaxOutput  BY <4>2, <1>7
      <4> QED  BY <4>3, <3>1, <2>3, Zenon
    <3>2. CASE stream # st
      BY <3>2, <2>4, <2>6, Zenon DEF OutInv, LimitIsExact
    <3> QED  BY <3>1, <3>2
  <2>7. pc' # "done" /\ result'.kind = "none"  BY <2>1 DEF OutInv, Flow
  <2> QED  BY <2>2, <2>5, <2>6, <2>7, <1>s, SaidStep, Zenon
<1> QED  BY <1>8, <1>9

\* The frame of the next message adds what that message says.
LEMMA TakeFrameOut ==
    ASSUME InStep, OutInv, TakeFrame, client # "ports"
    PROVE  OutInv'
<1> DEFINE k == Len(frames)
           m == script[k + 1]
<1>s. Script(script) /\ ~script[1].own  BY ScriptOfClient DEF InStep
<1>t. ~torn  BY Zenon DEF InStep, ReadInv
<1>u. UNCHANGED <<client, script>>  BY DEF TakeFrame, guest
<1>1. /\ k + 1 \in 1..Len(script)
      /\ buf = Bytes(m, COMMAND_ID)
      /\ pc = "ready" => k = 0
      /\ pc # "ready" => pc = "loop"
  BY <1>t, TakeFrameNext, Zenon DEF InStep
<1>2. Len(frames') = k + 1  BY <1>t, TakeFrameTaken, Zenon DEF InStep
<1>3. k \in Nat  BY <1>t DEF InStep, TakenInv
<1>4. Len(script) \in Nat /\ DOMAIN script = 1..Len(script)  BY <1>s, PartsSeq DEF Script
<1>5. Message(m) /\ (m.own => OwnMessage(m))
      /\ (m.own /\ m.kind = MessageType.ExitStatus => k + 1 = Len(script))
      /\ (k + 1 > 1 /\ ~m.own => StrangeMessage(m))
  BY <1>s, <1>1, <1>4, Zenon DEF Script, Messages
<1>6. Frame(buf) = Framed(m)
  <2>1. Message(m)  BY <1>5
  <2> HIDE DEF m
  <2>2. Frame(Bytes(m, COMMAND_ID)) = Framed(m)  BY <2>1, MessageBytes
  <2> QED  BY <2>2, <1>1
<1> DEFINE D == MessageType.OutputData
           E == MessageType.ExitStatus
<1>7. /\ pc = "ready" =>
             /\ UNCHANGED output
             /\ (pc' = "execute" /\ UNCHANGED result) \/ Return("Protocol")
      /\ pc # "ready" /\ m.kind = D => TakeOutput(Payload(m))
      /\ pc # "ready" /\ m.kind = E => TakeExit(Payload(m))
      /\ pc # "ready" /\ m.kind \notin {D, E} => Return("Protocol") /\ UNCHANGED output
  <2> HIDE DEF m
  <2> QED  BY <1>6, TakeFrameDoes, Zenon
<1>8. ASSUME Return("Protocol"), UNCHANGED output PROVE OutInv'
  <2>1. pc' = "done" /\ result'.kind = "Protocol"  BY <1>8 DEF Return, ReturnWith
  <2>2. /\ UNCHANGED <<client, script, output>> /\ pc' = "done" /\ pc' # "loop"
        /\ result'.kind \notin {"Ok", "OutputLimitExceeded"}
    BY <2>1, <1>8, <1>u
  <2> QED  BY <2>2, QuietStep
<1>d. pc # "done"  BY <1>1
<1>9. /\ output \in [{stdout, stderr} -> Seq(0..255)] /\ result.kind = "none"
      /\ \A stream \in {stdout, stderr} : output[stream] = SaidBy(script, stream, k)
      /\ pc = "loop" => k >= 1
  BY <1>d, Zenon DEF OutInv, Flow
<1>10. client = "smoke" => \A stream \in {stdout, stderr} : Len(output[stream]) <= MaxOutput
  BY Zenon DEF OutInv, LimitIsExact
\* A message that is not output of the command says nothing.
<1>11. ASSUME ~(m.kind = D /\ m.own), UNCHANGED output
       PROVE  /\ output' \in [{stdout, stderr} -> Seq(0..255)]
              /\ \A stream \in {stdout, stderr} : output'[stream] = SaidBy(script, stream, k + 1)
              /\ client = "smoke" =>
                     \A stream \in {stdout, stderr} : Len(output'[stream]) <= MaxOutput
  <2>1. ASSUME NEW stream \in {stdout, stderr}
        PROVE  SaidBy(script, stream, k + 1) = SaidBy(script, stream, k)
    BY <1>s, <1>1, <1>3, <1>11, SaidNext, Zenon
  <2> QED  BY <2>1, <1>9, <1>10, <1>11, Zenon
<1> HIDE DEF k
<1>12. CASE pc = "ready"
  <2>1. CASE Return("Protocol")  BY <2>1, <1>7, <1>8, <1>12, Zenon
  <2>2. CASE ~Return("Protocol")
    <3>1. pc' = "execute" /\ result' = result /\ output' = output
      BY <2>2, <1>7, <1>12, Zenon
    <3>2. ~m.own
      <4>1. k + 1 = 1  BY <1>1, <1>12
      <4> QED  BY <4>1, <1>s, Zenon
    <3>3. pc' # "done" /\ result'.kind = "none"  BY <3>1, <1>9
    <3> QED  BY <3>1, <3>2, <3>3, <1>1, <1>2, <1>3, <1>11, <1>s, <1>u, SaidStep, Zenon
  <2> QED  BY <2>1, <2>2
<1>13. CASE pc # "ready"
  <2>k. k + 1 > 1  BY <1>1, <1>3, <1>9, <1>13
  <2>1. CASE m.kind \notin {D, E}  BY <2>1, <1>7, <1>8, <1>13, Zenon
  <2>2. CASE m.kind \in {D, E} /\ ~m.own
    <3>1. StrangeMessage(m)  BY <2>2, <2>k, <1>5, Zenon
    <3>2. Return("Protocol") /\ UNCHANGED output
      <4>1. (m.kind = D /\ TakeOutput(Payload(m))) \/ (m.kind = E /\ TakeExit(Payload(m)))
        BY <2>2, <1>7, <1>13, Zenon
      <4> QED  BY <4>1, <3>1, <2>2, TakeStrange, Zenon
    <3> QED  BY <3>2, <1>8
  <2>3. CASE m.kind = D /\ m.own
    <3>1. OwnMessage(m) /\ TakeOutput(Payload(m))  BY <2>3, <1>5, <1>7, <1>13, Zenon
    <3>2. append_output(m.stream, m.bytes)  BY <2>3, <3>1, TakeOwnOutput, Zenon
    <3> QED  BY <2>3, <3>1, <3>2, <1>d, <1>1, <1>2, <1>3, <1>u, AppendOut, Zenon DEF k
  <2>4. CASE m.kind = E /\ m.own
    <3>1. OwnMessage(m) /\ TakeExit(Payload(m))  BY <2>4, <1>5, <1>7, <1>13, Zenon
    <3>2. m = Exit(m.code) /\ ReturnWith("Ok", m.code) /\ UNCHANGED output
      BY <2>4, <3>1, TakeOwnExit, Zenon
    <3>3. pc' = "done" /\ result'.kind = "Ok" /\ result'.code = m.code
      BY <3>2 DEF ReturnWith
    <3>4. m = Exit(result'.code) /\ k + 1 = Len(script)  BY <3>2, <3>3, <2>4, <1>5, Zenon
    <3>5. ~(m.kind = D /\ m.own)  BY <2>4 DEF MessageType
    <3> QED  BY <3>2, <3>3, <3>4, <3>5, <1>1, <1>2, <1>3, <1>11, <1>s, <1>u, SaidStep, Zenon
  <2> QED  BY <2>1, <2>2, <2>3, <2>4, Zenon
<1> QED  BY <1>12, <1>13

\* Every step keeps it.
LEMMA NextOut ==
    ASSUME InStep, OutInv, [Next]_vars
    PROVE  OutInv'
<1>1. CASE TakeFrame /\ client # "ports"  BY <1>1, TakeFrameOut
<1>2. CASE TakeFrame /\ client = "ports"
  <2>1. UNCHANGED <<client, script, output, pc, result>>
    BY <1>2, Zenon DEF TakeFrame, guest
  <2> QED  BY <2>1, <1>2, QuietStep
<1>3. CASE ~TakeFrame
  <2> DEFINE Q == /\ UNCHANGED <<client, script, output, frames>>
                  /\ pc' # "done" => pc # "done"
                  /\ pc' = "loop" => client = "ports" \/ pc \in {"execute", "loop"}
                  /\ \/ result' = result
                     \/ pc' = "done" /\ result'.kind \notin {"Ok", "OutputLimitExceeded"}
  <2>1. ASSUME Q PROVE OutInv'  BY <2>1, QuietStep
  <2>r. reading => pc \in {"ready", "loop"}  BY DEF InStep, ReadInv
  <2>2. CASE Connect  BY <2>1, <2>2 DEF Connect, taken
  <2>3. CASE ConnectFails  BY <2>1, <2>3 DEF ConnectFails, Return, ReturnWith, guest
  <2>4. CASE BeginFrame  BY <2>1, <2>4 DEF BeginFrame, Return, ReturnWith, guest
  <2>5. CASE ReadByte  BY <2>1, <2>5 DEF ReadByte, taken
  <2>6. CASE ReadFails  BY <2>1, <2>6 DEF ReadFails, Return, ReturnWith, guest
  <2>7. CASE ReadTimesOut  BY <2>1, <2>7 DEF ReadTimesOut, Return, ReturnWith, guest
  <2>8. CASE SendExecute  BY <2>1, <2>8 DEF SendExecute, Return, ReturnWith
  <2>9. CASE SendFails  BY <2>1, <2>9 DEF SendFails, Return, ReturnWith, guest
  <2>10. CASE StopPorts  BY <2>1, <2>10 DEF StopPorts, Return, ReturnWith, guest
  <2>11. CASE Tick  BY <2>1, <2>11 DEF Tick, guest, taken
  <2>12. CASE GuestExecutes  BY <2>1, <2>12 DEF GuestExecutes, taken
  <2>13. CASE GuestCloses  BY <2>1, <2>13 DEF GuestCloses, taken
  <2>14. CASE UNCHANGED vars  BY <2>1, <2>14 DEF vars, guest, taken
  <2> QED
    BY <1>3, <2>2, <2>3, <2>4, <2>5, <2>6, <2>7, <2>8, <2>9, <2>10, <2>11, <2>12, <2>13,
       <2>14, Zenon
    DEF Next, HostStep
<1> QED  BY <1>1, <1>2, <1>3

LEMMA InitOut == Init => OutInv
<1> SUFFICES ASSUME Init PROVE OutInv
    OBVIOUS
<1>1. Script(script)  BY ScriptOfClient, InitInStep DEF InStep
<1>2. Len(frames) = 0 /\ <<>> \in Seq(0..255) /\ 0 \in 0..Len(script)
  <2>1. Len(script) \in Nat  BY <1>1, PartsSeq DEF Script
  <2> QED  BY <2>1, EmptySeq DEF Init
<1>3. ASSUME NEW stream \in {stdout, stderr}
      PROVE  output[stream] = SaidBy(script, stream, 0) /\ output[stream] = <<>>
  <2> DEFINE f == Speech(script, stream)
  <2>1. f \in Seq(Seq(0..255))  BY <1>1, SpeechSeq
  <2> HIDE DEF f
  <2>2. Joined(f)[0] = <<>>  BY <2>1, JoinedSteps
  <2>3. SaidBy(script, stream, 0) = <<>>  BY <2>2 DEF SaidBy, f
  <2>4. output[stream] = <<>>  BY DEF Init
  <2> QED  BY <2>3, <2>4
<1>4. output \in [{stdout, stderr} -> Seq(0..255)]  BY <1>2 DEF Init
<1>5. pc = "connect" /\ result.kind = "none"  BY DEF Init
<1>6. Flow  BY <1>2, <1>3, <1>4, <1>5 DEF Flow
<1>7. OutputIsTheCommands
  <2>1. ASSUME NEW stream \in {stdout, stderr} PROVE IsPrefix(output[stream], Said(stream))
    <3> DEFINE z == 0
    <3>1. z \in 0..Len(script) /\ output[stream] = SaidBy(script, stream, z)  BY <1>2, <1>3
    <3> HIDE DEF z
    <3>2. IsPrefix(SaidBy(script, stream, z), Said(stream))  BY <3>1, <1>1, SaidPrefix
    <3> QED  BY <3>1, <3>2, Zenon
  <2> QED  BY <2>1, <1>5, Zenon DEF OutputIsTheCommands
<1>8. LimitIsExact
  <2>1. MaxOutput \in Nat /\ Len(<<>>) = 0  BY SmokeAssumption, EmptySeq
  <2>2. ASSUME NEW stream \in {stdout, stderr} PROVE Len(output[stream]) <= MaxOutput
    BY <2>1, <1>3
  <2> QED  BY <2>2, <1>5 DEF LimitIsExact
<1> QED  BY <1>6, <1>7, <1>8 DEF OutInv

\* smoke and attached hand out what the command wrote, byte for byte through
\* frames and base64, per stream and in order, and all of it with its exit code:
\* for every script of messages, whatever the limit and the timeouts.
THEOREM SmokeOutputIsTheCommands == Spec => []OutputIsTheCommands
<1>1. InStep /\ OutInv /\ [Next]_vars => InStep' /\ OutInv'  BY NextInStep, NextOut
<1>2. OutInv => OutputIsTheCommands  BY DEF OutInv
<1> QED  BY InitInStep, InitOut, <1>1, <1>2, PTL DEF Spec

\* append_output holds the sum of the chunks against the limit: smoke never keeps
\* more, and reports the limit only of a command that does write more.
THEOREM SmokeLimitIsExact == Spec => []LimitIsExact
<1>1. InStep /\ OutInv /\ [Next]_vars => InStep' /\ OutInv'  BY NextInStep, NextOut
<1>2. OutInv => LimitIsExact  BY DEF OutInv
<1> QED  BY InitInStep, InitOut, <1>1, <1>2, PTL DEF Spec

=============================================================================
