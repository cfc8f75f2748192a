--------------------------- MODULE SessionProofs ----------------------------
(***************************************************************************)
(* Theorems about Session for any number of chunks and signals and any     *)
(* size of the pipes: no output is lost or reordered, and the exit code    *)
(* comes after all of it.                                                  *)
(***************************************************************************)
EXTENDS Session, TLAPS

\* The provers for the steps that name none, and the seconds they have.
USE SMTT(30), ZenonT(60)

FrameSet ==
    [kind : {"OutputData", "ExitStatus", "Ready"}, stream : Streams \union {"none"},
     value : Int]

\* The types of the variables.
TypeOK ==
    /\ main \in {"connect", "ready", "ports", "mask", "signals", "attached", "detach",
                 "done", "failed", "killed"}
    /\ threads \subseteq {"main", "ports", "signals"}
    /\ printed \in [Streams -> Seq(Int)]
    /\ up \in Seq(FrameSet)
    /\ handler \in {"none", "command", "frames", "join", "done"}
    /\ reader \in [Streams -> {"none", "reading", "done"}]
    /\ waiter \in {"none", "joining", "reaped", "done"}
    /\ child \in {"none", "running", "zombie", "reaped"}
    /\ helper \in BOOLEAN
    /\ code \in Int /\ result \in Int
    /\ wrote \in [Streams -> Nat]
    /\ pipe \in [Streams -> Seq(Int)]

\* Before the handler has a command there is no output, and Ready is the only
\* frame; nothing is on its way to a CLI that is gone.
Early ==
    /\ main = "connect" => handler = "none"
    /\ main = "ready" => handler = "command" /\ up = <<Ready>> /\ down = <<>>
    /\ handler = "none" => ~Connected /\ down = <<>>
    /\ handler \in {"none", "command"} =>
         /\ main # "ready" => up = <<>>
         /\ waiter = "none" /\ result = NoCode
         /\ \A s \in Streams : printed[s] = <<>> /\ wrote[s] = 0
    /\ ~Connected => up = <<>>

\* The threads of the guest, from the start of the command to its exit code.
Threads ==
    /\ waiter = "none" => child = "none" /\ ~helper
    /\ waiter = "none" => \A s \in Streams : reader[s] = "none"
    /\ waiter # "none" => \A s \in Streams : reader[s] # "none"
    /\ waiter # "none" => handler \notin {"none", "command"}
    /\ waiter \in {"reaped", "done"} =>
         child = "reaped" /\ \A s \in Streams : reader[s] = "done"
    /\ \A s \in Streams : reader[s] = "none" => pipe[s] = <<>>
    /\ Connected => \A s \in Streams : reader[s] = "done" => pipe[s] = <<>>

\* The guest has sent the exit code, or would have, and sends nothing more.
Over == waiter = "done" \/ (waiter = "none" /\ handler = "done")

\* The exit code is the last frame and the command's; with it, everything that
\* was written is on its way or printed.
ExitLast ==
    /\ \A i \in DOMAIN up :
         /\ up[i].kind = "OutputData" => up[i].stream \in Streams
         /\ up[i].kind = "ExitStatus" => i = Len(up) /\ up[i].value = code /\ Over
         /\ up[i].kind = "Ready" => main = "ready"
    /\ result # NoCode => Over /\ main \in {"detach", "done", "killed"} /\ up = <<>>

\* The signal thread is started last.
SignalsLast ==
    main \in {"connect", "ready", "ports", "mask", "signals"} => "signals" \notin threads

IInv ==
    /\ TypeOK /\ Early /\ Threads /\ ExitLast /\ SignalsLast
    /\ NoOutputLost /\ ExitAfterOutput
-----------------------------------------------------------------------------
(* The frames on their way.                                                *)

\* NoOutputLost for one stream, element by element.
Shown(s) == Len(printed[s])
Taken(s) == wrote[s] - Len(pipe[s])
Flow(s) ==
    /\ Shown(s) <= Taken(s)
    /\ printed[s] = [i \in 1 .. Shown(s) |-> i]
    /\ \A i \in OutputFrames(s) : up[i].value \in (Shown(s) + 1) .. Taken(s)
    /\ \A v \in (Shown(s) + 1) .. Taken(s) : \E i \in OutputFrames(s) : up[i].value = v
    /\ \A i, j \in OutputFrames(s) : i < j => up[i].value < up[j].value
    /\ pipe[s] = [i \in 1 .. Len(pipe[s]) |-> Taken(s) + i]

LEMMA FlowIsNoOutputLost == NoOutputLost <=> (Connected => \A s \in Streams : Flow(s))
<1>1. ASSUME NEW s \in Streams
      PROVE  ({up[i].value : i \in OutputFrames(s)} = (Shown(s) + 1) .. Taken(s)) <=>
               /\ \A i \in OutputFrames(s) : up[i].value \in (Shown(s) + 1) .. Taken(s)
               /\ \A v \in (Shown(s) + 1) .. Taken(s) :
                     \E i \in OutputFrames(s) : up[i].value = v
  OBVIOUS
<1> QED  BY <1>1, Zenon DEF NoOutputLost, Flow, Shown, Taken

\* The lengths involved are numbers.
LEMMA Lengths ==
    ASSUME TypeOK, NEW s \in Streams
    PROVE  /\ Shown(s) \in Nat /\ Len(pipe[s]) \in Nat /\ Taken(s) \in Int
           /\ DOMAIN printed[s] = 1 .. Shown(s) /\ DOMAIN pipe[s] = 1 .. Len(pipe[s])
BY DEF TypeOK, Shown, Taken

\* What Flow says of the next state, with the numbers of the chunks named.
LEMMA FlowNext ==
    ASSUME NEW s \in Streams, NEW k, NEW b, Shown(s)' = k, Taken(s)' = b, k <= b,
           printed'[s] = [i \in 1 .. k |-> i],
           \A i \in OutputFrames(s)' : up'[i].value \in (k + 1) .. b,
           \A v \in (k + 1) .. b : \E i \in OutputFrames(s)' : up'[i].value = v,
           \A i, j \in OutputFrames(s)' : i < j => up'[i].value < up'[j].value,
           pipe'[s] = [i \in 1 .. Len(pipe'[s]) |-> b + i]
    PROVE  Flow(s)'
BY Zenon DEF Flow

\* A step after which the frames, the pipe and the terminal hold what they held.
LEMMA FlowSame ==
    ASSUME NEW s \in Streams, Flow(s), Shown(s)' = Shown(s), Taken(s)' = Taken(s),
           printed'[s] = printed[s], pipe'[s] = pipe[s], OutputFrames(s)' = OutputFrames(s),
           \A i \in OutputFrames(s) : up'[i].value = up[i].value
    PROVE  Flow(s)'
<1> DEFINE k == Shown(s)
           b == Taken(s)
<1>1. /\ k <= b /\ printed'[s] = [i \in 1 .. k |-> i]
      /\ pipe'[s] = [i \in 1 .. Len(pipe'[s]) |-> b + i]
  BY Zenon DEF Flow
<1>2. /\ \A i \in OutputFrames(s)' : up'[i].value \in (k + 1) .. b
      /\ \A v \in (k + 1) .. b : \E i \in OutputFrames(s)' : up'[i].value = v
  BY DEF Flow
<1>3. \A i, j \in OutputFrames(s)' : i < j => up'[i].value < up'[j].value
  BY DEF Flow
<1> HIDE DEF k, b
<1>4. Shown(s)' = k /\ Taken(s)' = b  BY Zenon DEF k, b
<1> QED  BY ONLY s \in Streams, <1>1, <1>2, <1>3, <1>4, FlowNext

\* Nothing moves in a step that leaves a stream alone.
LEMMA FlowUnchanged ==
    ASSUME NEW s \in Streams, Flow(s), UNCHANGED <<printed, up, wrote, pipe>>
    PROVE  Flow(s)'
BY DEF Flow, Shown, Taken, OutputFrames

\* The CLI prints the chunk at the head of the stream: it is the next one.
LEMMA FlowRead ==
    ASSUME TypeOK, NEW s \in Streams, Flow(s), ExitLast,
           up # <<>>, up' = Tail(up), up[1].kind = "OutputData",
           printed' = [printed EXCEPT ![up[1].stream] = Append(@, up[1].value)],
           UNCHANGED <<wrote, pipe>>
    PROVE  Flow(s)'
<1> DEFINE k == Shown(s)
           b == Taken(s)
<1>1. /\ Len(up) \in Nat /\ Len(up) > 0 /\ DOMAIN up = 1 .. Len(up)
      /\ DOMAIN up' = 1 .. (Len(up) - 1)
      /\ \A i \in 1 .. (Len(up) - 1) : up'[i] = up[i + 1]
  BY DEF TypeOK
<1>2. /\ k \in Nat /\ b \in Int /\ b' = b /\ Len(pipe[s]) \in Nat
  BY Lengths DEF Taken
<1>3. \A i \in OutputFrames(s)' : i + 1 \in OutputFrames(s) /\ up'[i] = up[i + 1]
  BY <1>1 DEF OutputFrames
<1>4. \A i \in OutputFrames(s) : i # 1 => i - 1 \in OutputFrames(s)' /\ up'[i - 1] = up[i]
  <2>1. ASSUME NEW i \in OutputFrames(s), i # 1
        PROVE  i - 1 \in OutputFrames(s)' /\ up'[i - 1] = up[i]
    <3> DEFINE j == i - 1
    <3>1. j \in 1 .. (Len(up) - 1) /\ j + 1 = i  BY <1>1, <2>1 DEF OutputFrames
    <3> HIDE DEF j
    <3>2. up'[j] = up[i] /\ j \in DOMAIN up'  BY <1>1, <3>1
    <3>3. j \in OutputFrames(s)'  BY <2>1, <3>2 DEF OutputFrames
    <3> QED  BY <3>2, <3>3 DEF j
  <2> QED  BY <2>1, Zenon
<1>5. \A i, j \in OutputFrames(s)' : i < j => up'[i].value < up'[j].value
  <2>1. \A i, j \in OutputFrames(s)' : i \in Int /\ j \in Int
    BY <1>1 DEF OutputFrames
  <2>2. ASSUME NEW i \in OutputFrames(s)', NEW j \in OutputFrames(s)', i < j
        PROVE  up[i + 1].value < up[j + 1].value
    <3>1. i + 1 < j + 1  BY <2>1, <2>2
    <3> QED  BY <1>3, <3>1 DEF Flow
  <2> QED  BY <1>3, <2>2, Zenon
<1>6. (pipe[s] = [i \in 1 .. Len(pipe[s]) |-> Taken(s) + i])'
  BY DEF Flow, Taken
<1>7. up[1].stream \in Streams  BY <1>1 DEF ExitLast
<1>8. CASE up[1].stream # s
  <2>1. printed'[s] = printed[s] /\ k' = k  BY <1>7, <1>8 DEF TypeOK, Shown
  <2>2. 1 \notin OutputFrames(s)  BY <1>8 DEF OutputFrames
  <2>3. \A i \in OutputFrames(s)' : up'[i].value \in (k + 1) .. b
    BY <1>3, Zenon DEF Flow
  <2>4. \A v \in (k + 1) .. b : \E i \in OutputFrames(s)' : up'[i].value = v
    <3> SUFFICES ASSUME NEW v \in (k + 1) .. b
                 PROVE  \E i \in OutputFrames(s)' : up'[i].value = v
        BY Zenon
    <3>1. PICK i \in OutputFrames(s) : up[i].value = v  BY Zenon DEF Flow
    <3> QED  BY <1>4, <2>2, <3>1, Zenon
  <2> QED  BY <1>2, <1>5, <1>6, <2>1, <2>3, <2>4, Zenon DEF Flow
<1>9. CASE up[1].stream = s
  <2>1. 1 \in OutputFrames(s)  BY <1>1, <1>9 DEF OutputFrames
  <2>2. \A i \in OutputFrames(s) : i \in Int /\ i >= 1 /\ up[i].value \in Int
    BY <1>1, <1>2 DEF OutputFrames, Flow
  <2>3. up[1].value = k + 1
    <3>1. up[1].value \in (k + 1) .. b  BY <2>1 DEF Flow
    <3>2. k + 1 \in (k + 1) .. b  BY <1>2, <3>1
    <3>3. PICK i \in OutputFrames(s) : up[i].value = k + 1  BY <3>2 DEF Flow
    <3>4. i = 1 \/ up[1].value < up[i].value  BY <2>1, <2>2 DEF Flow
    <3> QED  BY <1>2, <3>1, <3>3, <3>4
  <2>4. /\ printed'[s] = Append(printed[s], k + 1)
    BY <1>9, <2>3 DEF TypeOK
  <2>5. k' = k + 1 /\ printed'[s] = [i \in 1 .. (k + 1) |-> i]
    <3>1. printed[s] \in Seq(Int) /\ Len(printed[s]) = k  BY DEF TypeOK, Shown
    <3>2. k' = Len(printed'[s])  BY DEF Shown
    <3>3. printed[s] = [i \in 1 .. k |-> i]  BY DEF Flow
    <3> HIDE DEF k
    <3>4. Len(printed'[s]) = k + 1  BY <1>2, <2>4, <3>1
    <3>5. printed'[s] = [i \in 1 .. (k + 1) |-> i]
      <4>1. \A i \in 1 .. k : printed[s][i] = i  BY <3>3
      <4> QED  BY <1>2, <2>4, <3>1, <4>1
    <3> QED  BY <3>2, <3>4, <3>5
  <2>6. \A i \in OutputFrames(s)' : up'[i].value \in (k + 2) .. b
    <3> SUFFICES ASSUME NEW i \in OutputFrames(s)' PROVE up[i + 1].value \in (k + 2) .. b
        BY <1>3, Zenon
    <3>1. i + 1 \in OutputFrames(s) /\ i \in Int /\ i >= 1
      BY <1>1, <1>3 DEF OutputFrames
    <3>2. up[1].value < up[i + 1].value  BY <2>1, <3>1 DEF Flow
    <3>3. up[i + 1].value \in (k + 1) .. b  BY <3>1 DEF Flow
    <3> QED  BY <1>2, <2>3, <3>2, <3>3
  <2>7. \A v \in (k + 2) .. b : \E i \in OutputFrames(s)' : up'[i].value = v
    <3> SUFFICES ASSUME NEW v \in (k + 2) .. b
                 PROVE  \E i \in OutputFrames(s)' : up'[i].value = v
        BY Zenon
    <3>1. v \in (k + 1) .. b  BY <1>2
    <3>2. PICK i \in OutputFrames(s) : up[i].value = v  BY <3>1 DEF Flow
    <3>3. i # 1  BY <1>2, <2>3, <3>2
    <3> QED  BY <1>4, <3>2, <3>3, Zenon
  <2>8. k + 1 <= b
    BY <1>2, <2>1, <2>3 DEF Flow
  <2>9. (k + 1) + 1 = k + 2  BY <1>2
  <2> HIDE DEF k, b
  <2> QED  BY <1>2, <1>5, <1>6, <2>5, <2>6, <2>7, <2>8, <2>9, Zenon DEF Flow, k, b
<1> QED  BY <1>8, <1>9

\* A frame that is sent is the last one.
LEMMA Appended ==
    ASSUME TypeOK, NEW f \in FrameSet, up' = Append(up, f)
    PROVE  /\ up' \in Seq(FrameSet) /\ Len(up) \in Nat /\ Len(up') = Len(up) + 1
           /\ DOMAIN up = 1 .. Len(up) /\ DOMAIN up' = 1 .. (Len(up) + 1)
           /\ \A i \in 1 .. Len(up) : up'[i] = up[i]
           /\ up'[Len(up) + 1] = f
BY DEF TypeOK

\* What is left of a pipe when its first chunk is taken, and with one more chunk.
LEMMA TailOf ==
    ASSUME NEW q \in Seq(Int), q # <<>>
    PROVE  /\ Len(q) \in Nat /\ Len(q) > 0 /\ Head(q) = q[1]
           /\ Tail(q) \in Seq(Int) /\ Len(Tail(q)) = Len(q) - 1
           /\ \A i \in 1 .. (Len(q) - 1) : Tail(q)[i] = q[i + 1]
OBVIOUS

\* A sequence is known by its elements.
LEMMA SeqIs ==
    ASSUME NEW q \in Seq(Int), NEW n \in Nat, Len(q) = n, NEW c \in Int,
           \A i \in 1 .. n : q[i] = c + i
    PROVE  q = [i \in 1 .. Len(q) |-> c + i]
OBVIOUS

\* stream_pipe sends the chunk at the head of the pipe behind the others.
LEMMA FlowSend ==
    ASSUME TypeOK, NEW s \in Streams, Flow(s), NEW t \in Streams, pipe[t] # <<>>,
           up' = Append(up, Output(t, Head(pipe[t]))),
           pipe' = [pipe EXCEPT ![t] = Tail(@)],
           UNCHANGED <<printed, wrote>>
    PROVE  Flow(s)'
<1> DEFINE k == Shown(s)
           b == Taken(s)
           n == Len(up) + 1
           f == Output(t, Head(pipe[t]))
<1>1. k \in Nat /\ b \in Int /\ k' = k /\ Len(pipe[s]) \in Nat
  BY Lengths DEF Shown
<1>2. Head(pipe[t]) \in Int /\ f \in FrameSet
  BY DEF TypeOK, FrameSet, Output
<1>3. /\ Len(up) \in Nat /\ DOMAIN up = 1 .. Len(up) /\ DOMAIN up' = 1 .. n
      /\ \A i \in 1 .. Len(up) : up'[i] = up[i]
      /\ up'[n] = f
  BY <1>2, Appended
<1>4. f.kind = "OutputData" /\ f.stream = t /\ f.value = Head(pipe[t])  BY DEF Output
<1>5. \A i \in OutputFrames(s) : i \in 1 .. Len(up) /\ up'[i] = up[i] /\ i \in OutputFrames(s)'
  BY <1>3 DEF OutputFrames
<1>6. CASE t # s
  <2>1. OutputFrames(s)' = OutputFrames(s)
    BY <1>3, <1>4, <1>6 DEF OutputFrames
  <2>2. pipe'[s] = pipe[s] /\ b' = b  BY <1>6 DEF TypeOK, Taken
  <2>3. \A i \in OutputFrames(s) : up'[i].value = up[i].value  BY <1>5
  <2>4. Shown(s)' = Shown(s) /\ Taken(s)' = Taken(s)  BY <1>1, <2>2
  <2> QED
    BY ONLY <2>1, <2>2, <2>3, <2>4, s \in Streams, Flow(s), UNCHANGED <<printed, wrote>>,
       FlowSame
<1>7. CASE t = s
  <2>1. OutputFrames(s)' = OutputFrames(s) \union {n}
    BY <1>3, <1>4, <1>7 DEF OutputFrames
  <2>2. /\ pipe'[s] = Tail(pipe[s]) /\ Len(pipe[s]) > 0 /\ pipe[s] \in Seq(Int)
    BY <1>7 DEF TypeOK
  <2> DEFINE m == Len(pipe[s]) - 1
  <2>3. /\ m \in Nat /\ Len(pipe'[s]) = m /\ pipe'[s] \in Seq(Int)
        /\ \A i \in 1 .. m : pipe'[s][i] = pipe[s][i + 1]
        /\ Head(pipe[s]) = pipe[s][1]
    <3> DEFINE q == pipe[s]
    <3>1. q \in Seq(Int) /\ q # <<>> /\ pipe'[s] = Tail(q) /\ m = Len(q) - 1  BY <2>2
    <3> HIDE DEF q, m
    <3>2. /\ Len(q) \in Nat /\ Len(q) > 0 /\ Head(q) = q[1]
          /\ Tail(q) \in Seq(Int) /\ Len(Tail(q)) = Len(q) - 1
          /\ \A i \in 1 .. (Len(q) - 1) : Tail(q)[i] = q[i + 1]
      BY <3>1, TailOf
    <3>3. /\ m \in Nat /\ Len(pipe'[s]) = m /\ pipe'[s] \in Seq(Int)
      BY ONLY <3>1, <3>2
    <3>4. \A i \in 1 .. m : pipe'[s][i] = q[i + 1]
      BY ONLY <3>1, <3>2
    <3> QED  BY <3>2, <3>3, <3>4 DEF q
  <2>4. b' = b + 1
    <3>1. wrote[s] \in Int /\ wrote'[s] = wrote[s]  BY DEF TypeOK
    <3>2. b = wrote[s] - Len(pipe[s]) /\ b' = wrote[s] - m  BY <2>3, <3>1 DEF Taken
    <3> QED  BY ONLY <1>1, <3>1, <3>2
  <2>5. \A i \in 1 .. Len(pipe[s]) : pipe[s][i] = b + i  BY DEF Flow
  <2>6. up'[n].value = b + 1
    <3>1. pipe[s][1] = b + 1  BY <1>1, <2>2, <2>5
    <3> QED  BY <1>3, <1>4, <1>7, <2>3, <3>1
  <2>7. pipe'[s] = [i \in 1 .. Len(pipe'[s]) |-> (b + 1) + i]
    <3>1. ASSUME NEW i \in 1 .. m PROVE pipe'[s][i] = (b + 1) + i
      <4> DEFINE j == i + 1
      <4>1. j \in 1 .. Len(pipe[s]) /\ b + j = (b + 1) + i
        <5> HIDE DEF b
        <5> QED  BY ONLY <1>1, i \in 1 .. m
      <4>2. pipe'[s][i] = pipe[s][j]  BY <2>3
      <4> HIDE DEF j
      <4> QED  BY <2>5, <4>1, <4>2
    <3>2. b + 1 \in Int  BY <1>1
    <3> HIDE DEF m, b
    <3> QED  BY <2>3, <3>1, <3>2, SeqIs, Zenon
  <2> HIDE DEF n, f
  <2>8. \A i \in OutputFrames(s)' : up'[i].value \in (k + 1) .. (b + 1)
    <3>1. \A i \in OutputFrames(s) : up'[i].value \in (k + 1) .. b  BY <1>5 DEF Flow
    <3>2. k + 1 <= b + 1  BY <1>1 DEF Flow
    <3>3. b + 1 \in (k + 1) .. (b + 1) /\ \A v \in (k + 1) .. b : v \in (k + 1) .. (b + 1)
      BY <1>1, <3>2
    <3> HIDE DEF k, b
    <3> QED  BY <2>1, <2>6, <3>1, <3>3, Zenon
  <2>9. \A v \in (k + 1) .. (b + 1) : \E i \in OutputFrames(s)' : up'[i].value = v
    <3> SUFFICES ASSUME NEW v \in (k + 1) .. (b + 1)
                 PROVE  \E i \in OutputFrames(s)' : up'[i].value = v
        BY Zenon
    <3>1. v = b + 1 \/ v \in (k + 1) .. b  BY <1>1
    <3>2. CASE v = b + 1  BY <2>1, <2>6, <3>2, Zenon
    <3>3. CASE v \in (k + 1) .. b
      <4>1. PICK i \in OutputFrames(s) : up[i].value = v  BY <3>3 DEF Flow
      <4> QED  BY <1>5, <4>1
    <3> QED  BY <3>1, <3>2, <3>3, Zenon
  <2>10. ASSUME NEW i \in OutputFrames(s)', NEW j \in OutputFrames(s)', i < j
         PROVE  up'[i].value < up'[j].value
    <3>1. i # n
      <4>1. \A o \in OutputFrames(s)' : o \in 1 .. n  BY <1>3, Zenon DEF OutputFrames
      <4> QED  BY <1>3, <2>10, <4>1 DEF n
    <3>2. i \in OutputFrames(s) /\ up'[i].value = up[i].value  BY <1>5, <2>1, <3>1
    <3>3. CASE j = n
      <4>1. up[i].value \in (k + 1) .. b  BY <3>2 DEF Flow
      <4>2. \A v \in (k + 1) .. b : v < b + 1  BY <1>1
      <4> HIDE DEF k, b
      <4> QED  BY <2>6, <3>2, <3>3, <4>1, <4>2, Zenon
    <3>4. CASE j # n
      <4>1. j \in OutputFrames(s) /\ up'[j].value = up[j].value  BY <1>5, <2>1, <3>4
      <4> QED  BY <2>10, <3>2, <4>1, Zenon DEF Flow
    <3> QED  BY <3>3, <3>4, Zenon
  <2>11. k <= b + 1 /\ printed'[s] = [i \in 1 .. k |-> i]  BY <1>1 DEF Flow
  <2> HIDE DEF k, b, n, f
  <2>12. Shown(s)' = k /\ Taken(s)' = b + 1  BY <1>1, <2>4 DEF k, b
  <2> QED  BY <2>7, <2>8, <2>9, <2>10, <2>11, <2>12, FlowNext, Zenon
<1> QED  BY <1>6, <1>7

\* A frame without output changes nothing.
LEMMA FlowOther ==
    ASSUME TypeOK, NEW s \in Streams, Flow(s), NEW f \in FrameSet,
           f.kind # "OutputData", up' = Append(up, f), UNCHANGED <<printed, wrote, pipe>>
    PROVE  Flow(s)'
<1>1. /\ Len(up) \in Nat /\ DOMAIN up = 1 .. Len(up) /\ DOMAIN up' = 1 .. (Len(up) + 1)
      /\ \A i \in 1 .. Len(up) : up'[i] = up[i]
      /\ up'[Len(up) + 1] = f
  BY Appended
<1>2. OutputFrames(s)' = OutputFrames(s)  BY <1>1 DEF OutputFrames
<1>3. \A i \in OutputFrames(s) : up'[i].value = up[i].value  BY <1>1 DEF OutputFrames
<1>4. Shown(s)' = Shown(s) /\ Taken(s)' = Taken(s)  BY DEF Shown, Taken
<1> QED
  BY ONLY <1>2, <1>3, <1>4, s \in Streams, Flow(s), UNCHANGED <<printed, wrote, pipe>>,
     FlowSame

\* The command writes: the chunk is in the pipe.
LEMMA FlowWrite ==
    ASSUME TypeOK, NEW s \in Streams, Flow(s), NEW t \in Streams,
           wrote' = [wrote EXCEPT ![t] = @ + 1],
           pipe' = [pipe EXCEPT ![t] = Append(@, wrote[t] + 1)],
           UNCHANGED <<printed, up>>
    PROVE  Flow(s)'
<1>1. /\ Shown(s) \in Nat /\ Taken(s) \in Int /\ Shown(s)' = Shown(s)
      /\ Len(pipe[s]) \in Nat
  BY Lengths DEF Shown
<1>2. OutputFrames(s)' = OutputFrames(s)  BY DEF OutputFrames
<1>3. CASE t # s
  <2>1. pipe'[s] = pipe[s] /\ Taken(s)' = Taken(s)  BY <1>3 DEF TypeOK, Taken
  <2> QED
    BY ONLY <1>1, <1>2, <2>1, s \in Streams, Flow(s), UNCHANGED <<printed, up>>, FlowSame
<1>4. CASE t = s
  <2>1. /\ pipe[s] \in Seq(Int) /\ wrote[s] \in Nat /\ wrote'[s] = wrote[s] + 1
        /\ pipe'[s] = Append(pipe[s], wrote[s] + 1)
    BY <1>4 DEF TypeOK
  <2>2. /\ Len(pipe'[s]) = Len(pipe[s]) + 1 /\ DOMAIN pipe'[s] = 1 .. (Len(pipe[s]) + 1)
        /\ \A i \in 1 .. Len(pipe[s]) : pipe'[s][i] = pipe[s][i]
        /\ pipe'[s][Len(pipe[s]) + 1] = wrote[s] + 1
        /\ pipe'[s] \in Seq(Int)
    BY <2>1
  <2>3. Taken(s)' = Taken(s) /\ wrote[s] = Taken(s) + Len(pipe[s])
    BY <1>1, <2>1, <2>2 DEF Taken
  <2>4. \A i \in 1 .. Len(pipe[s]) : pipe[s][i] = Taken(s) + i  BY DEF Flow
  <2>5. pipe'[s] = [i \in 1 .. Len(pipe'[s]) |-> Taken(s) + i]
    <3>1. ASSUME NEW i \in 1 .. (Len(pipe[s]) + 1) PROVE pipe'[s][i] = Taken(s) + i
      <4>1. CASE i = Len(pipe[s]) + 1  BY <1>1, <2>2, <2>3, <4>1
      <4>2. CASE i \in 1 .. Len(pipe[s])  BY <2>2, <2>4, <4>2
      <4> QED  BY <1>1, <4>1, <4>2
    <3> DEFINE q == pipe'[s]
               c == Taken(s)
               m == Len(pipe[s]) + 1
    <3>2. /\ q \in Seq(Int) /\ m \in Nat /\ Len(q) = m /\ c \in Int
          /\ \A i \in 1 .. m : q[i] = c + i
      BY <1>1, <2>2, <3>1
    <3> HIDE DEF q, c, m
    <3>3. q = [i \in 1 .. Len(q) |-> c + i]  BY <3>2, SeqIs
    <3> QED  BY <3>3 DEF q, c
  <2> QED  BY <1>1, <1>2, <2>3, <2>5 DEF Flow
<1> QED  BY <1>3, <1>4

\* Where there is no output there is nothing to lose.
LEMMA FlowEmpty ==
    \A s \in Streams :
        OutputFrames(s) = {} /\ printed[s] = <<>> /\ wrote[s] = 0 /\ pipe[s] = <<>> => Flow(s)
BY DEF Flow, Shown, Taken

\* The same of the next state.
LEMMA FlowEmptyNext ==
    ASSUME NEW s \in Streams, OutputFrames(s)' = {}, printed'[s] = <<>>, wrote'[s] = 0,
           pipe'[s] = <<>>
    PROVE  Flow(s)'
<1>1. Shown(s)' = 0 /\ Taken(s)' = 0
  <2>1. Len(<<>>) = 0 /\ 0 - 0 = 0  OBVIOUS
  <2> QED  BY <2>1, Zenon DEF Shown, Taken
<1>2. 0 <= 0 /\ (0 + 1) .. 0 = {}  OBVIOUS
<1>3. printed'[s] = [i \in 1 .. 0 |-> i] /\ pipe'[s] = [i \in 1 .. Len(pipe'[s]) |-> 0 + i]
  OBVIOUS
<1> QED  BY <1>1, <1>2, <1>3, FlowNext, Zenon

-----------------------------------------------------------------------------
(* The steps.                                                              *)

\* Before anything is started nothing can be wrong.
LEMMA InitIInv == Init => IInv
<1> SUFFICES ASSUME Init PROVE IInv
    OBVIOUS
<1>1. \A s \in Streams : Flow(s)  BY FlowEmpty DEF Init, OutputFrames
<1>2. NoOutputLost  BY <1>1, FlowIsNoOutputLost
<1>3. TypeOK
  <2>1. helper \in BOOLEAN  BY Zenon DEF Init
  <2> QED  BY <2>1 DEF Init, TypeOK, NoCode, Streams
<1>4. Early /\ Threads /\ SignalsLast  BY DEF Init, Early, Threads, SignalsLast, Connected
<1>5. ExitLast /\ ExitAfterOutput  BY DEF Init, ExitLast, ExitAfterOutput
<1> QED  BY <1>2, <1>3, <1>4, <1>5 DEF IInv

\* What the actions with signals do to the CLI.
LEMMA InterruptDoes ==
    ASSUME Interrupt
    PROVE  /\ main \notin {"done", "failed", "killed"}
           /\ \/ threads \subseteq blocked /\ UNCHANGED <<main, up>>
              \/ ~(threads \subseteq blocked) /\ main' = "killed" /\ up' = <<>>
           /\ UNCHANGED <<threads, blocked, printed, result, down>>
           /\ UNCHANGED guest /\ UNCHANGED process
BY Zenon DEF Interrupt

LEMMA ForwardSignalDoes ==
    ASSUME ForwardSignal
    PROVE  /\ Connected /\ "signals" \in threads
           /\ UNCHANGED <<main, threads, blocked, printed, result, up>>
           /\ UNCHANGED guest /\ UNCHANGED process
           /\ down' = Append(down, "ForwardSignal")
BY Zenon DEF ForwardSignal

\* The types are kept.
LEMMA NextTypeOK == IInv /\ [Next]_vars => TypeOK'
<1> SUFFICES ASSUME IInv, [Next]_vars PROVE TypeOK'
    OBVIOUS
<1> USE DEF IInv, TypeOK, Main, cli, guest, process
<1>1. CASE Connect  BY <1>1 DEF Connect, Ready, FrameSet
<1>2. CASE ConnectTimeout  BY <1>2 DEF ConnectTimeout
<1>3. CASE SendExecute  BY <1>3 DEF SendExecute
<1>4. CASE StartPorts  BY <1>4 DEF StartPorts, SpawnThread
<1>5. CASE BlockSignals  BY <1>5 DEF BlockSignals
<1>6. CASE StartSignals  BY <1>6 DEF StartSignals, SpawnThread
<1>7. CASE ReadFrame
  <2>1. up[1] \in FrameSet /\ Head(up) = up[1] /\ Tail(up) \in Seq(FrameSet)
    BY <1>7 DEF ReadFrame
  <2>2. up[1].value \in Int /\ (up[1].kind = "OutputData" => up[1].stream \in Streams)
    BY <1>7, <2>1 DEF FrameSet, ExitLast, ReadFrame
  <2>3. CASE up[1].kind = "OutputData"
    <3>1. printed' \in [Streams -> Seq(Int)]
      <4>1. \A q \in Seq(Int), v \in Int : Append(q, v) \in Seq(Int)  OBVIOUS
      <4>2. printed' = [printed EXCEPT ![up[1].stream] = Append(@, up[1].value)]
        BY <1>7, <2>1, <2>3, Zenon DEF ReadFrame
      <4> QED  BY <2>2, <2>3, <4>1, <4>2
    <3> QED  BY <1>7, <2>1, <2>3, <3>1 DEF ReadFrame
  <2>4. CASE up[1].kind # "OutputData"
    BY <1>7, <2>1, <2>2, <2>4 DEF ReadFrame
  <2> QED  BY <2>3, <2>4
<1>8. CASE Detach  BY <1>8 DEF Detach
<1>9. CASE PortsThreadEnds  BY <1>9 DEF PortsThreadEnds
<1>10. CASE Interrupt
  <2>1. helper' \in BOOLEAN  BY <1>10, InterruptDoes, Zenon
  <2>2. UNCHANGED <<main, up>> \/ (main' = "killed" /\ up' = <<>>)  BY <1>10, InterruptDoes
  <2>3. UNCHANGED <<threads, printed, result>> /\ UNCHANGED guest /\ UNCHANGED process
    BY <1>10, InterruptDoes
  <2>4. CASE UNCHANGED <<main, up>>  BY <2>1, <2>3, <2>4
  <2>5. CASE main' = "killed" /\ up' = <<>>  BY <2>1, <2>3, <2>5
  <2> QED  BY <2>2, <2>4, <2>5
<1>11. CASE ForwardSignal
  <2>1. helper' \in BOOLEAN  BY <1>11, ForwardSignalDoes, Zenon
  <2>2. /\ UNCHANGED <<main, up, threads, printed, result>>
        /\ UNCHANGED guest /\ UNCHANGED process
    BY <1>11, ForwardSignalDoes
  <2> QED  BY <2>1, <2>2
<1>12. ASSUME NEW tty \in BOOLEAN, Spawn(tty) PROVE TypeOK'  BY <1>12 DEF Spawn
<1>13. CASE SpawnFails
  <2>1. <<Output("stderr", 1), Exit(NotFound)>> \in Seq(FrameSet)
    BY DEF Output, Exit, FrameSet, NotFound, Streams
  <2> HIDE DEF FrameSet
  <2>2. up' \in Seq(FrameSet)  BY <1>13, <2>1 DEF SpawnFails
  <2> QED  BY <1>13, <2>2 DEF SpawnFails, NotFound, Streams
<1>14. CASE Reap  BY <1>14 DEF Reap
<1>15. CASE SendExit
  <2>1. Exit(code) \in FrameSet  BY DEF Exit, FrameSet
  <2> QED  BY <1>15, <2>1 DEF SendExit, Send
<1>16. CASE DeliverSignal
  <2>1. child' \in {child, "zombie"} /\ code' \in {code} \union Codes \union {BySignal}
    BY <1>16 DEF DeliverSignal
  <2>2. code' \in Int  BY <2>1, SessionAssumption DEF BySignal
  <2> QED  BY <1>16, <2>1, <2>2 DEF DeliverSignal
<1>17. CASE HandlerStops  BY <1>17 DEF HandlerStops
<1>18. CASE HandlerReturns  BY <1>18 DEF HandlerReturns
<1>19. ASSUME NEW t \in Streams, StreamPipe(t) PROVE TypeOK'
  <2>1. Head(pipe[t]) \in Int /\ Tail(pipe[t]) \in Seq(Int)  BY <1>19 DEF StreamPipe
  <2>2. Output(t, Head(pipe[t])) \in FrameSet  BY <2>1 DEF Output, FrameSet
  <2> QED  BY <1>19, <2>1, <2>2 DEF StreamPipe, Send
<1>20. ASSUME NEW t \in Streams, StreamEnds(t) PROVE TypeOK'
  BY <1>20 DEF StreamEnds
<1>21. ASSUME NEW t \in Streams, CommandWrites(t) PROVE TypeOK'
  BY <1>21 DEF CommandWrites
<1>22. ASSUME NEW n \in Codes, NEW leaves \in BOOLEAN, CommandExits(n, leaves) PROVE TypeOK'
  BY <1>22, SessionAssumption DEF CommandExits
<1>23. CASE BrokenPipe
  <2>1. child' \in {child, "zombie"} /\ code' \in {code, BySignal} /\ helper' \in BOOLEAN
    BY <1>23, Zenon DEF BrokenPipe
  <2> QED  BY <1>23, <2>1 DEF BrokenPipe, BySignal
<1>24. CASE HelperExits  BY <1>24, Zenon DEF HelperExits
<1>25. CASE UNCHANGED vars  BY <1>25 DEF vars
<1> QED
  BY <1>1, <1>2, <1>3, <1>4, <1>5, <1>6, <1>7, <1>8, <1>9, <1>10, <1>11, <1>12, <1>13,
     <1>14, <1>15, <1>16, <1>17, <1>18, <1>19, <1>20, <1>21, <1>22, <1>23, <1>24, <1>25,
     Zenon DEF Next, MainStep, FenddStep

\* What holds of the start and of the end of a connection.
LEMMA NextEarly == IInv /\ [Next]_vars => Early'
<1> SUFFICES ASSUME IInv, [Next]_vars PROVE Early'
    OBVIOUS
<1> USE DEF IInv, TypeOK, Early, Connected, Main, cli, guest, process
<1>1. CASE Connect  BY <1>1 DEF Connect, Threads
<1>2. CASE ConnectTimeout  BY <1>2 DEF ConnectTimeout
<1>3. CASE SendExecute
  <2>1. up' = <<>>  BY <1>3 DEF SendExecute
  <2> QED  BY <1>3, <2>1 DEF SendExecute
<1>4. CASE StartPorts  BY <1>4 DEF StartPorts, SpawnThread
<1>5. CASE BlockSignals  BY <1>5 DEF BlockSignals
<1>6. CASE StartSignals  BY <1>6 DEF StartSignals, SpawnThread
<1>7. CASE ReadFrame  BY <1>7 DEF ReadFrame
<1>8. CASE Detach  BY <1>8 DEF Detach
<1>9. CASE PortsThreadEnds  BY <1>9 DEF PortsThreadEnds
<1>10. CASE Interrupt  BY <1>10, InterruptDoes
<1>11. CASE ForwardSignal  BY <1>11, ForwardSignalDoes DEF SignalsLast
<1>12. ASSUME NEW tty \in BOOLEAN, Spawn(tty) PROVE Early'  BY <1>12 DEF Spawn
<1>13. CASE SpawnFails  BY <1>13 DEF SpawnFails
<1>14. CASE Reap  BY <1>14 DEF Reap, Threads
<1>15. CASE SendExit  BY <1>15 DEF SendExit, Send, Threads
<1>16. CASE DeliverSignal  BY <1>16 DEF DeliverSignal
<1>17. CASE HandlerStops  BY <1>17 DEF HandlerStops
<1>18. CASE HandlerReturns  BY <1>18 DEF HandlerReturns, Threads
<1>19. ASSUME NEW t \in Streams, StreamPipe(t) PROVE Early'
  BY <1>19 DEF StreamPipe, Send, Threads
<1>20. ASSUME NEW t \in Streams, StreamEnds(t) PROVE Early'  BY <1>20 DEF StreamEnds
<1>21. ASSUME NEW t \in Streams, CommandWrites(t) PROVE Early'
  BY <1>21 DEF CommandWrites, Threads
<1>22. ASSUME NEW n \in Codes, NEW leaves \in BOOLEAN, CommandExits(n, leaves) PROVE Early'
  BY <1>22 DEF CommandExits
<1>23. CASE BrokenPipe  BY <1>23 DEF BrokenPipe
<1>24. CASE HelperExits  BY <1>24 DEF HelperExits
<1>25. CASE UNCHANGED vars  BY <1>25 DEF vars
<1> QED
  BY <1>1, <1>2, <1>3, <1>4, <1>5, <1>6, <1>7, <1>8, <1>9, <1>10, <1>11, <1>12, <1>13,
     <1>14, <1>15, <1>16, <1>17, <1>18, <1>19, <1>20, <1>21, <1>22, <1>23, <1>24, <1>25,
     Zenon DEF Next, MainStep, FenddStep

\* The threads of the guest end in their order.
LEMMA NextThreads == IInv /\ [Next]_vars => Threads'
<1> SUFFICES ASSUME IInv, [Next]_vars PROVE Threads'
    OBVIOUS
<1> USE DEF IInv, TypeOK, Threads, Connected, Main, cli, guest, process
<1>1. CASE Connect  BY <1>1 DEF Connect, Early
<1>2. CASE ConnectTimeout  BY <1>2 DEF ConnectTimeout
<1>3. CASE SendExecute  BY <1>3 DEF SendExecute
<1>4. CASE StartPorts  BY <1>4 DEF StartPorts
<1>5. CASE BlockSignals  BY <1>5 DEF BlockSignals
<1>6. CASE StartSignals  BY <1>6 DEF StartSignals
<1>7. CASE ReadFrame  BY <1>7 DEF ReadFrame
<1>8. CASE Detach  BY <1>8 DEF Detach
<1>9. CASE PortsThreadEnds  BY <1>9 DEF PortsThreadEnds
<1>10. CASE Interrupt  BY <1>10, InterruptDoes
<1>11. CASE ForwardSignal  BY <1>11, ForwardSignalDoes
<1>12. ASSUME NEW tty \in BOOLEAN, Spawn(tty) PROVE Threads'
  BY <1>12 DEF Spawn, Early
<1>13. CASE SpawnFails  BY <1>13 DEF SpawnFails, Early
<1>14. CASE Reap  BY <1>14 DEF Reap
<1>15. CASE SendExit  BY <1>15 DEF SendExit
<1>16. CASE DeliverSignal  BY <1>16 DEF DeliverSignal
<1>17. CASE HandlerStops  BY <1>17 DEF HandlerStops
<1>18. CASE HandlerReturns  BY <1>18 DEF HandlerReturns
<1>19. ASSUME NEW t \in Streams, StreamPipe(t) PROVE Threads'
  BY <1>19 DEF StreamPipe, Send
<1>20. ASSUME NEW t \in Streams, StreamEnds(t) PROVE Threads'
  BY <1>20 DEF StreamEnds
<1>21. ASSUME NEW t \in Streams, CommandWrites(t) PROVE Threads'
  BY <1>21 DEF CommandWrites
<1>22. ASSUME NEW n \in Codes, NEW leaves \in BOOLEAN, CommandExits(n, leaves) PROVE Threads'
  BY <1>22 DEF CommandExits
<1>23. CASE BrokenPipe  BY <1>23 DEF BrokenPipe
<1>24. CASE HelperExits  BY <1>24 DEF HelperExits
<1>25. CASE UNCHANGED vars  BY <1>25 DEF vars
<1> QED
  BY <1>1, <1>2, <1>3, <1>4, <1>5, <1>6, <1>7, <1>8, <1>9, <1>10, <1>11, <1>12, <1>13,
     <1>14, <1>15, <1>16, <1>17, <1>18, <1>19, <1>20, <1>21, <1>22, <1>23, <1>24, <1>25,
     Zenon DEF Next, MainStep, FenddStep

\* Nothing is forwarded before the CLI is attached.
LEMMA NextSignalsLast == IInv /\ [Next]_vars => SignalsLast'
<1> SUFFICES ASSUME IInv, [Next]_vars PROVE SignalsLast'
    OBVIOUS
<1> USE DEF IInv, SignalsLast, Main, cli
<1>1. CASE Connect  BY <1>1 DEF Connect
<1>2. CASE ConnectTimeout  BY <1>2 DEF ConnectTimeout
<1>3. CASE SendExecute  BY <1>3 DEF SendExecute
<1>4. CASE StartPorts  BY <1>4 DEF StartPorts, SpawnThread
<1>5. CASE BlockSignals  BY <1>5 DEF BlockSignals
<1>6. CASE StartSignals  BY <1>6 DEF StartSignals, SpawnThread
<1>7. CASE ReadFrame  BY <1>7 DEF ReadFrame
<1>8. CASE Detach  BY <1>8 DEF Detach
<1>9. CASE PortsThreadEnds  BY <1>9 DEF PortsThreadEnds
<1>10. CASE Interrupt  BY <1>10, InterruptDoes
<1>11. CASE ForwardSignal  BY <1>11, ForwardSignalDoes
<1>12. ASSUME NEW tty \in BOOLEAN, Spawn(tty) PROVE SignalsLast'  BY <1>12 DEF Spawn
<1>13. CASE SpawnFails  BY <1>13 DEF SpawnFails
<1>14. CASE Reap  BY <1>14 DEF Reap
<1>15. CASE SendExit  BY <1>15 DEF SendExit
<1>16. CASE DeliverSignal  BY <1>16 DEF DeliverSignal
<1>17. CASE HandlerStops  BY <1>17 DEF HandlerStops
<1>18. CASE HandlerReturns  BY <1>18 DEF HandlerReturns
<1>19. ASSUME NEW t \in Streams, StreamPipe(t) PROVE SignalsLast'  BY <1>19 DEF StreamPipe
<1>20. ASSUME NEW t \in Streams, StreamEnds(t) PROVE SignalsLast'  BY <1>20 DEF StreamEnds
<1>21. ASSUME NEW t \in Streams, CommandWrites(t) PROVE SignalsLast'
  BY <1>21 DEF CommandWrites
<1>22. ASSUME NEW n \in Codes, NEW leaves \in BOOLEAN, CommandExits(n, leaves) PROVE SignalsLast'
  BY <1>22 DEF CommandExits
<1>23. CASE BrokenPipe  BY <1>23 DEF BrokenPipe
<1>24. CASE HelperExits  BY <1>24 DEF HelperExits
<1>25. CASE UNCHANGED vars  BY <1>25 DEF vars
<1> QED
  BY <1>1, <1>2, <1>3, <1>4, <1>5, <1>6, <1>7, <1>8, <1>9, <1>10, <1>11, <1>12, <1>13,
     <1>14, <1>15, <1>16, <1>17, <1>18, <1>19, <1>20, <1>21, <1>22, <1>23, <1>24, <1>25
     DEF Next, MainStep, FenddStep

\* After the exit code, the guest neither writes nor changes it.
LEMMA OverStays == IInv /\ [Next]_vars /\ Over => Over' /\ UNCHANGED <<code, wrote>>
<1> DEFINE Stays == Over' /\ UNCHANGED <<code, wrote>>
<1> SUFFICES ASSUME IInv, [Next]_vars, Over PROVE Stays
    OBVIOUS
<1> USE DEF IInv, Over, Threads, Main, cli, guest, process
<1>1. CASE Connect  BY <1>1, Zenon DEF Connect, Early
<1>2. CASE ConnectTimeout  BY <1>2 DEF ConnectTimeout
<1>3. CASE SendExecute  BY <1>3 DEF SendExecute
<1>4. CASE StartPorts  BY <1>4 DEF StartPorts
<1>5. CASE BlockSignals  BY <1>5 DEF BlockSignals
<1>6. CASE StartSignals  BY <1>6 DEF StartSignals
<1>7. CASE ReadFrame  BY <1>7 DEF ReadFrame
<1>8. CASE Detach  BY <1>8 DEF Detach
<1>9. CASE PortsThreadEnds  BY <1>9 DEF PortsThreadEnds
<1>10. CASE Interrupt  BY <1>10, InterruptDoes
<1>11. CASE ForwardSignal  BY <1>11, ForwardSignalDoes
<1>12. ASSUME NEW tty \in BOOLEAN, Spawn(tty) PROVE Stays
  BY <1>12 DEF Spawn, Early
<1>13. CASE SpawnFails  BY <1>13 DEF SpawnFails, Early
<1>14. CASE Reap  BY <1>14 DEF Reap
<1>15. CASE SendExit  BY <1>15 DEF SendExit
<1>16. CASE DeliverSignal  BY <1>16 DEF DeliverSignal
<1>17. CASE HandlerStops  BY <1>17 DEF HandlerStops
<1>18. CASE HandlerReturns  BY <1>18 DEF HandlerReturns
<1>19. ASSUME NEW t \in Streams, StreamPipe(t) PROVE Stays  BY <1>19 DEF StreamPipe
<1>20. ASSUME NEW t \in Streams, StreamEnds(t) PROVE Stays  BY <1>20 DEF StreamEnds
<1>21. ASSUME NEW t \in Streams, CommandWrites(t) PROVE Stays
  BY <1>21 DEF CommandWrites
<1>22. ASSUME NEW n \in Codes, NEW leaves \in BOOLEAN, CommandExits(n, leaves) PROVE Stays
  BY <1>22 DEF CommandExits
<1>23. CASE BrokenPipe  BY <1>23 DEF BrokenPipe
<1>24. CASE HelperExits  BY <1>24 DEF HelperExits
<1>25. CASE UNCHANGED vars  BY <1>25 DEF vars
<1> QED
  BY <1>1, <1>2, <1>3, <1>4, <1>5, <1>6, <1>7, <1>8, <1>9, <1>10, <1>11, <1>12, <1>13,
     <1>14, <1>15, <1>16, <1>17, <1>18, <1>19, <1>20, <1>21, <1>22, <1>23, <1>24, <1>25
     DEF Next, MainStep, FenddStep

\* The exit code is sent last.
LEMMA NextExitLast == IInv /\ [Next]_vars => ExitLast'
<1> SUFFICES ASSUME IInv, [Next]_vars PROVE ExitLast'
    OBVIOUS
<1>over. Over => Over' /\ code' = code  BY OverStays
<1>cut. ASSUME up' = <<>>, result' = result,
               result # NoCode => main' \in {"detach", "done", "killed"}
        PROVE  ExitLast'
  BY <1>over, <1>cut DEF IInv, ExitLast
<1>moved. ASSUME UNCHANGED <<up, result>>, main # "ready",
             main \in {"detach", "done", "killed"} => main' \in {"detach", "done", "killed"}
      PROVE  ExitLast'
  BY <1>over, <1>moved DEF IInv, ExitLast
<1>same. ASSUME UNCHANGED <<up, result, main>> PROVE ExitLast'
  BY <1>over, <1>same DEF IInv, ExitLast
<1> USE DEF IInv, Main, cli, guest, process
<1>1. CASE Connect
  <2>1. up' = <<Ready>> /\ main' = "ready" /\ result = NoCode /\ result' = NoCode
    BY <1>1 DEF Connect, Early
  <2> QED  BY <2>1 DEF ExitLast, Ready
<1>2. CASE ConnectTimeout  BY <1>2, <1>moved DEF ConnectTimeout
<1>3. CASE SendExecute
  <2>1. up' = <<>> /\ result' = result /\ result = NoCode
    BY <1>3 DEF SendExecute, Early
  <2> QED  BY <1>cut, <2>1
<1>4. CASE StartPorts  BY <1>4, <1>moved DEF StartPorts
<1>5. CASE BlockSignals  BY <1>5, <1>moved DEF BlockSignals
<1>6. CASE StartSignals  BY <1>6, <1>moved DEF StartSignals
<1>7. CASE ReadFrame
  <2>1. /\ main = "attached" /\ up # <<>> /\ up \in Seq(FrameSet) /\ result = NoCode
        /\ UNCHANGED <<waiter, handler, code>>
    BY <1>7 DEF ReadFrame, ExitLast, TypeOK
  <2>2. /\ Len(up) \in Nat /\ Len(up) > 0 /\ DOMAIN up = 1 .. Len(up)
        /\ Len(up') = Len(up) - 1 /\ DOMAIN up' = 1 .. (Len(up) - 1) /\ Head(up) = up[1]
        /\ \A i \in 1 .. (Len(up) - 1) : up'[i] = up[i + 1]
    BY <1>7, <2>1 DEF ReadFrame
  <2>3. Over' = Over  BY <2>1 DEF Over
  <2>4. ASSUME NEW i \in DOMAIN up'
        PROVE  /\ up'[i].kind = "OutputData" => up'[i].stream \in Streams
               /\ up'[i].kind = "ExitStatus" => i = Len(up') /\ up'[i].value = code' /\ Over'
               /\ up'[i].kind # "Ready"
    <3>1. i + 1 \in DOMAIN up /\ up'[i] = up[i + 1] /\ (i + 1 = Len(up) => i = Len(up'))
      BY <2>2
    <3> QED  BY <2>1, <2>3, <3>1 DEF ExitLast
  <2>5. CASE up[1].kind = "OutputData"
    <3>1. result' = NoCode  BY <1>7, <2>1, <2>2, <2>5 DEF ReadFrame
    <3> QED  BY <2>4, <3>1 DEF ExitLast
  <2>6. CASE up[1].kind # "OutputData"
    <3>1. up[1].kind \in {"OutputData", "ExitStatus", "Ready"}
      <4>1. up[1] \in FrameSet  BY <2>1, <2>2
      <4> QED  BY <4>1 DEF FrameSet
    <3>2. Len(up) = 1 /\ Over  BY <2>1, <2>2, <2>6, <3>1 DEF ExitLast
    <3>3. up' = <<>> /\ main' = "detach"  BY <1>7, <2>1, <2>2, <2>6, <3>2 DEF ReadFrame
    <3> QED  BY <2>3, <2>4, <3>2, <3>3 DEF ExitLast
  <2> QED  BY <2>5, <2>6
<1>8. CASE Detach  BY <1>8, <1>cut DEF Detach
<1>9. CASE PortsThreadEnds  BY <1>9, <1>same DEF PortsThreadEnds
<1>10. CASE Interrupt  BY <1>10, <1>cut, <1>same, InterruptDoes
<1>11. CASE ForwardSignal  BY <1>11, <1>same, ForwardSignalDoes
<1>12. ASSUME NEW tty \in BOOLEAN, Spawn(tty) PROVE ExitLast'
  BY <1>12, <1>same DEF Spawn
<1>13. CASE SpawnFails
  <2>1. main # "ready" /\ up = <<>> /\ result = NoCode /\ result' = NoCode
    BY <1>13 DEF SpawnFails, Early
  <2>2. code' = NotFound /\ Over'  BY <1>13 DEF SpawnFails, Over, Early
  <2>3. CASE Connected
    <3>1. up' = <<Output("stderr", 1), Exit(NotFound)>>  BY <1>13, <2>1, <2>3 DEF SpawnFails
    <3> QED  BY <2>1, <2>2, <3>1 DEF ExitLast, Output, Exit, Streams
  <2>4. CASE ~Connected
    <3>1. up' = <<>>  BY <1>13, <2>1, <2>4 DEF SpawnFails
    <3> QED  BY <1>cut, <2>1, <3>1
  <2> QED  BY <2>3, <2>4
<1>14. CASE Reap  BY <1>14, <1>same DEF Reap
<1>15. CASE SendExit
  <2>1. /\ Over' /\ ~Over /\ code' = code /\ main' = main /\ result' = result
    BY <1>15 DEF SendExit, Over
  <2>2. result = NoCode  BY <2>1 DEF ExitLast
  <2>3. CASE ~Connected
    <3>1. up' = <<>>  BY <1>15, <2>3 DEF SendExit, Send, Early
    <3> QED  BY <1>cut, <2>1, <2>2, <3>1
  <2>4. CASE Connected
    <3>1. up' = Append(up, Exit(code))  BY <1>15, <2>4 DEF SendExit, Send
    <3>2. Exit(code) \in FrameSet  BY DEF Exit, FrameSet, TypeOK
    <3>3. /\ Len(up) \in Nat /\ Len(up') = Len(up) + 1
          /\ DOMAIN up = 1 .. Len(up) /\ DOMAIN up' = 1 .. (Len(up) + 1)
          /\ \A i \in 1 .. Len(up) : up'[i] = up[i]
          /\ up'[Len(up) + 1] = Exit(code)
      BY <3>1, <3>2, Appended
    <3>4. \A i \in DOMAIN up' : i \in DOMAIN up \/ i = Len(up')  BY <3>3
    <3> QED  BY <2>1, <2>2, <3>3, <3>4 DEF ExitLast, Exit
  <2> QED  BY <2>3, <2>4
<1>16. CASE DeliverSignal  BY <1>16, <1>same DEF DeliverSignal
<1>17. CASE HandlerStops  BY <1>17, <1>same DEF HandlerStops
<1>18. CASE HandlerReturns  BY <1>18, <1>same DEF HandlerReturns
<1>19. ASSUME NEW t \in Streams, StreamPipe(t) PROVE ExitLast'
  <2>1. /\ ~Over /\ main' = main /\ result' = result
    BY <1>19 DEF StreamPipe, Over, Threads
  <2>2. result = NoCode  BY <2>1 DEF ExitLast
  <2>3. CASE ~Connected
    <3>1. up' = <<>>  BY <1>19, <2>3 DEF StreamPipe, Send, Early
    <3> QED  BY <1>cut, <2>1, <2>2, <3>1
  <2>4. CASE Connected
    <3> DEFINE f == Output(t, Head(pipe[t]))
    <3>1. up' = Append(up, f)  BY <1>19, <2>4 DEF StreamPipe, Send
    <3>2. f \in FrameSet /\ f.kind = "OutputData" /\ f.stream = t
      <4>1. Head(pipe[t]) \in Int  BY <1>19 DEF TypeOK, StreamPipe
      <4> QED  BY <4>1 DEF Output, FrameSet
    <3> HIDE DEF f
    <3>3. /\ Len(up) \in Nat /\ DOMAIN up = 1 .. Len(up) /\ DOMAIN up' = 1 .. (Len(up) + 1)
          /\ \A i \in 1 .. Len(up) : up'[i] = up[i]
          /\ up'[Len(up) + 1] = f
      BY <3>1, <3>2, Appended
    <3>4. \A i \in DOMAIN up' : i \in DOMAIN up \/ i = Len(up) + 1  BY <3>3
    <3> QED  BY <2>1, <2>2, <3>2, <3>3, <3>4 DEF ExitLast
  <2> QED  BY <2>3, <2>4
<1>20. ASSUME NEW t \in Streams, StreamEnds(t) PROVE ExitLast'
  BY <1>20, <1>same DEF StreamEnds
<1>21. ASSUME NEW t \in Streams, CommandWrites(t) PROVE ExitLast'
  BY <1>21, <1>same DEF CommandWrites
<1>22. ASSUME NEW n \in Codes, NEW leaves \in BOOLEAN, CommandExits(n, leaves) PROVE ExitLast'
  BY <1>22, <1>same DEF CommandExits
<1>23. CASE BrokenPipe  BY <1>23, <1>same DEF BrokenPipe
<1>24. CASE HelperExits  BY <1>24, <1>same DEF HelperExits
<1>25. CASE UNCHANGED vars  BY <1>25, <1>same DEF vars
<1> QED
  BY <1>1, <1>2, <1>3, <1>4, <1>5, <1>6, <1>7, <1>8, <1>9, <1>10, <1>11, <1>12, <1>13,
     <1>14, <1>15, <1>16, <1>17, <1>18, <1>19, <1>20, <1>21, <1>22, <1>23, <1>24, <1>25
     DEF Next, MainStep, FenddStep

\* No step loses output, repeats it or changes its order.
LEMMA NextNoOutputLost == IInv /\ [Next]_vars => NoOutputLost'
<1>primed. (NoOutputLost <=> (Connected => \A s \in Streams : Flow(s)))'
  BY FlowIsNoOutputLost, PTL
<1> SUFFICES ASSUME IInv, [Next]_vars, NEW s \in Streams PROVE (Connected => Flow(s))'
    BY <1>primed
<1> DEFINE Kept == Connected' => Flow(s)'
<1>flow. Connected => Flow(s)  BY FlowIsNoOutputLost DEF IInv
<1>same. ASSUME UNCHANGED <<printed, up, wrote, pipe>>, Connected' => Connected PROVE Kept
  BY <1>flow, <1>same, FlowUnchanged
<1>types. TypeOK /\ ExitLast  BY DEF IInv
<1> USE DEF Main, cli, guest, process
<1>1. CASE Connect
  <2>1. up' = <<Ready>> /\ UNCHANGED <<printed, wrote, pipe>>  BY <1>1 DEF Connect
  <2>2. printed[s] = <<>> /\ wrote[s] = 0 /\ pipe[s] = <<>>
    BY <1>1 DEF Connect, IInv, Early, Threads
  <2>3. OutputFrames(s)' = {}  BY <2>1 DEF OutputFrames, Ready
  <2> QED  BY <2>1, <2>2, <2>3, FlowEmptyNext
<1>2. CASE ConnectTimeout  BY <1>2 DEF ConnectTimeout, Connected
<1>3. CASE SendExecute
  <2>1. up' = <<>> /\ UNCHANGED <<printed, wrote, pipe>>
    <3>1. up = <<Ready>>  BY <1>3 DEF SendExecute, IInv, Early
    <3> QED  BY <1>3, <3>1 DEF SendExecute
  <2>2. printed[s] = <<>> /\ wrote[s] = 0 /\ pipe[s] = <<>>
    BY <1>3, Zenon DEF SendExecute, IInv, Early, Threads
  <2>3. OutputFrames(s)' = {}  BY <2>1 DEF OutputFrames
  <2> QED  BY <2>1, <2>2, <2>3, FlowEmptyNext
<1>4. CASE StartPorts  BY <1>4, <1>same DEF StartPorts, Connected
<1>5. CASE BlockSignals  BY <1>5, <1>same DEF BlockSignals, Connected
<1>6. CASE StartSignals  BY <1>6, <1>same DEF StartSignals, Connected
<1>7. CASE ReadFrame
  <2>1. Connected /\ up # <<>> /\ up' = Tail(up) /\ Head(up) = up[1] /\ UNCHANGED <<wrote, pipe>>
    BY <1>7, <1>types DEF ReadFrame, Connected, TypeOK
  <2>2. CASE up[1].kind = "OutputData"
    <3>1. printed' = [printed EXCEPT ![up[1].stream] = Append(@, up[1].value)]
      BY <1>7, <2>1, <2>2 DEF ReadFrame
    <3> QED  BY <1>flow, <1>types, <2>1, <2>2, <3>1, FlowRead
  <2>3. CASE up[1].kind # "OutputData"
    <3>1. printed' = printed  BY <1>7, <2>1, <2>3 DEF ReadFrame
    <3>2. Len(up) = 1
      <4>1. up[1] \in FrameSet /\ 1 \in DOMAIN up  BY <1>types, <2>1 DEF TypeOK
      <4>2. up[1].kind \in {"ExitStatus", "Ready"}  BY <2>3, <4>1 DEF FrameSet
      <4> QED  BY <1>7, <1>types, <4>1, <4>2, Zenon DEF ExitLast, ReadFrame
    <3>3. OutputFrames(s) = {} /\ OutputFrames(s)' = {}
      <4>1. up \in Seq(FrameSet)  BY <1>types DEF TypeOK
      <4>2. DOMAIN up = 1 .. 1  BY <3>2, <4>1
      <4>3. DOMAIN Tail(up) = 1 .. 0  BY <2>1, <3>2, <4>1
      <4> QED  BY <2>1, <2>3, <4>2, <4>3 DEF OutputFrames
    <3>4. Shown(s)' = Shown(s) /\ Taken(s)' = Taken(s)  BY <2>1, <3>1 DEF Shown, Taken
    <3> QED  BY <1>flow, <2>1, <3>1, <3>3, <3>4 DEF Flow
  <2> QED  BY <2>2, <2>3
<1>8. CASE Detach  BY <1>8 DEF Detach, Connected
<1>9. CASE PortsThreadEnds  BY <1>9, <1>same DEF PortsThreadEnds, Connected
<1>10. CASE Interrupt  BY <1>10, <1>same, InterruptDoes DEF Connected
<1>11. CASE ForwardSignal  BY <1>11, <1>same, ForwardSignalDoes
<1>12. ASSUME NEW tty \in BOOLEAN, Spawn(tty) PROVE Kept
  BY <1>12, <1>same DEF Spawn, Connected
<1>13. CASE SpawnFails
  <2> SUFFICES ASSUME Connected PROVE Flow(s)'
      BY <1>13 DEF SpawnFails, Connected
  <2>1. /\ printed[s] = <<>> /\ wrote[s] = 0 /\ pipe[s] = <<>> /\ up = <<>>
    BY <1>13 DEF SpawnFails, IInv, Early, Threads
  <2>2. /\ up' = <<Output("stderr", 1), Exit(NotFound)>> /\ UNCHANGED <<printed, pipe>>
    <3>1. up' = up \o <<Output("stderr", 1), Exit(NotFound)>> /\ UNCHANGED <<printed, pipe>>
      BY <1>13 DEF SpawnFails
    <3> QED  BY <2>1, <3>1
  <2>3. CASE s = "stderr"
    <3>1. wrote'[s] = 1  BY <1>13, <1>types, <2>3 DEF SpawnFails, TypeOK
    <3>2. OutputFrames(s)' = {1} /\ up'[1].value = 1
      BY <2>2, <2>3 DEF OutputFrames, Output, Exit
    <3>3. Shown(s)' = 0 /\ Taken(s)' = 1 /\ Len(pipe'[s]) = 0
      BY <2>1, <2>2, <3>1 DEF Shown, Taken
    <3>4. 0 <= 1 /\ \A v : v \in (0 + 1) .. 1 <=> v = 1  OBVIOUS
    <3>5. printed'[s] = [i \in 1 .. 0 |-> i] /\ pipe'[s] = [i \in 1 .. 0 |-> 1 + i]
      BY <2>1, <2>2
    <3> QED  BY <3>2, <3>3, <3>4, <3>5, Zenon DEF Flow
  <2>4. CASE s # "stderr"
    <3>1. wrote'[s] = 0  BY <1>13, <1>types, <2>1, <2>4 DEF SpawnFails, TypeOK
    <3>2. OutputFrames(s)' = {}  BY <2>2, <2>4 DEF OutputFrames, Output, Exit
    <3> QED  BY <2>1, <2>2, <3>1, <3>2 DEF Flow, Shown, Taken
  <2> QED  BY <2>3, <2>4
<1>14. CASE Reap  BY <1>14, <1>same DEF Reap, Connected
<1>15. CASE SendExit
  <2> SUFFICES ASSUME Connected PROVE Flow(s)'
      BY <1>15 DEF SendExit, Connected
  <2>1. up' = Append(up, Exit(code)) /\ UNCHANGED <<printed, wrote, pipe>>
    BY <1>15 DEF SendExit, Send
  <2>2. Exit(code) \in FrameSet /\ Exit(code).kind # "OutputData"
    BY <1>types DEF Exit, FrameSet, TypeOK
  <2> QED  BY <1>flow, <1>types, <2>1, <2>2, FlowOther
<1>16. CASE DeliverSignal  BY <1>16, <1>same DEF DeliverSignal, Connected
<1>17. CASE HandlerStops  BY <1>17, <1>same DEF HandlerStops, Connected
<1>18. CASE HandlerReturns  BY <1>18, <1>same DEF HandlerReturns, Connected
<1>19. ASSUME NEW t \in Streams, StreamPipe(t) PROVE Kept
  <2> SUFFICES ASSUME Connected PROVE Flow(s)'
      BY <1>19 DEF StreamPipe, Connected
  <2> QED  BY <1>19, <1>flow, <1>types, FlowSend, Zenon DEF StreamPipe, Send
<1>20. ASSUME NEW t \in Streams, StreamEnds(t) PROVE Kept
  BY <1>20, <1>same DEF StreamEnds, Connected
<1>21. ASSUME NEW t \in Streams, CommandWrites(t) PROVE Kept
  <2> SUFFICES ASSUME Connected PROVE Flow(s)'
      BY <1>21 DEF CommandWrites, Connected
  <2> QED  BY <1>21, <1>flow, <1>types, FlowWrite, Zenon DEF CommandWrites
<1>22. ASSUME NEW n \in Codes, NEW leaves \in BOOLEAN, CommandExits(n, leaves) PROVE Kept
  BY <1>22, <1>same DEF CommandExits, Connected
<1>23. CASE BrokenPipe  BY <1>23, <1>same DEF BrokenPipe, Connected
<1>24. CASE HelperExits  BY <1>24, <1>same DEF HelperExits, Connected
<1>25. CASE UNCHANGED vars  BY <1>25, <1>same DEF vars, Connected
<1> QED
  BY <1>1, <1>2, <1>3, <1>4, <1>5, <1>6, <1>7, <1>8, <1>9, <1>10, <1>11, <1>12, <1>13,
     <1>14, <1>15, <1>16, <1>17, <1>18, <1>19, <1>20, <1>21, <1>22, <1>23, <1>24, <1>25
     DEF Next, MainStep, FenddStep

\* The exit code is taken when all output has been.
LEMMA NextExitAfterOutput == IInv /\ [Next]_vars => ExitAfterOutput'
<1> SUFFICES ASSUME IInv, [Next]_vars, result' # NoCode PROVE ExitAfterOutput'
    BY DEF ExitAfterOutput
<1>1. CASE ReadFrame /\ up[1].kind # "OutputData"
  <2>1. /\ main = "attached" /\ up # <<>> /\ Head(up) = up[1] /\ 1 \in DOMAIN up
        /\ DOMAIN up = 1 .. Len(up) /\ up[1] \in FrameSet
    BY <1>1 DEF ReadFrame, IInv, TypeOK
  <2>2. up[1].kind = "ExitStatus"
    <3>1. up[1].kind \in {"OutputData", "ExitStatus", "Ready"}  BY <2>1 DEF FrameSet
    <3> QED  BY <1>1, <2>1, <3>1 DEF IInv, ExitLast
  <2>3. Len(up) = 1 /\ up[1].value = code /\ Over  BY <2>1, <2>2 DEF IInv, ExitLast
  <2>4. result' = code /\ UNCHANGED <<code, wrote, printed>>
    BY <1>1, <2>1, <2>3 DEF ReadFrame, process
  <2>5. ASSUME NEW s \in Streams PROVE printed[s] = [i \in 1 .. wrote[s] |-> i]
    <3>1. Flow(s)  BY <2>1, FlowIsNoOutputLost DEF IInv, Connected
    <3>2. OutputFrames(s) = {}  BY <2>1, <2>2, <2>3 DEF OutputFrames
    <3>3. pipe[s] = <<>>  BY <2>1, <2>3 DEF Over, IInv, Threads, Connected
    <3>4. Taken(s) = wrote[s] /\ wrote[s] \in Nat /\ Shown(s) \in Nat
      BY <3>3, Lengths DEF Taken, IInv, TypeOK
    <3>5. Shown(s) = wrote[s]
      <4>1. ~(Shown(s) + 1 \in (Shown(s) + 1) .. Taken(s))  BY <3>1, <3>2, Zenon DEF Flow
      <4>2. Shown(s) <= Taken(s)  BY <3>1 DEF Flow
      <4> QED  BY ONLY <3>4, <4>1, <4>2
    <3> QED  BY <3>1, <3>5 DEF Flow
  <2> QED  BY <2>4, <2>5 DEF ExitAfterOutput
<1>2. CASE ~(ReadFrame /\ up[1].kind # "OutputData")
  <2>1. result' = result
    <3>1. CASE ReadFrame
      <4>1. Head(up) = up[1]  BY <3>1 DEF ReadFrame, IInv, TypeOK
      <4> QED  BY <1>2, <3>1, <4>1 DEF ReadFrame
    <3>2. CASE Interrupt  BY <3>2, InterruptDoes
    <3>3. CASE ForwardSignal  BY <3>3, ForwardSignalDoes
    <3>4. CASE ~ReadFrame /\ ~Interrupt /\ ~ForwardSignal
      BY <3>4, Zenon DEF Next, MainStep, FenddStep, vars, cli, Connect, ConnectTimeout,
         SendExecute, StartPorts, BlockSignals, StartSignals, Detach, PortsThreadEnds,
         Spawn, SpawnFails, Reap, SendExit, DeliverSignal, HandlerStops, HandlerReturns,
         StreamPipe, StreamEnds, CommandWrites, CommandExits, BrokenPipe, HelperExits
    <3> QED  BY <3>1, <3>2, <3>3, <3>4
  <2>2. Over /\ main # "attached"  BY <2>1 DEF IInv, ExitLast
  <2>3. UNCHANGED <<code, wrote>>  BY <2>2, OverStays
  <2>4. printed' = printed
    <3>1. CASE Interrupt  BY <3>1, InterruptDoes
    <3>2. CASE ForwardSignal  BY <3>2, ForwardSignalDoes
    <3>3. CASE ~Interrupt /\ ~ForwardSignal
      BY <2>2, <3>3, Zenon DEF Next, MainStep, FenddStep, vars, cli, Connect,
         ConnectTimeout, SendExecute, StartPorts, BlockSignals, StartSignals, ReadFrame,
         Detach, PortsThreadEnds, Spawn, SpawnFails, Reap, SendExit, DeliverSignal,
         HandlerStops, HandlerReturns, StreamPipe, StreamEnds, CommandWrites,
         CommandExits, BrokenPipe, HelperExits
    <3> QED  BY <3>1, <3>2, <3>3
  <2> QED  BY <2>1, <2>3, <2>4 DEF IInv, ExitAfterOutput
<1> QED  BY <1>1, <1>2

\* The invariant holds of every reachable state.
LEMMA AlwaysIInv == Spec => []IInv
<1>1. IInv /\ [Next]_vars => IInv'
  BY NextTypeOK, NextEarly, NextThreads, NextSignalsLast, NextExitLast, NextNoOutputLost,
     NextExitAfterOutput
  DEF IInv
<1> QED  BY <1>1, InitIInv, PTL DEF Spec

-----------------------------------------------------------------------------

\* While the CLI is connected, every chunk the command wrote is printed, in one
\* frame on its way or in the pipe, in order and once: however stream_pipe, the
\* waiter, the CLI and signals interleave, whatever the sizes of the pipes.
THEOREM SessionLosesNothing == Spec => []NoOutputLost
<1>1. IInv => NoOutputLost  BY DEF IInv
<1> QED  BY <1>1, AlwaysIInv, PTL

\* The exit code run_attached returns is the command's and comes after all of its
\* output: the waiter joins the stream_pipe threads before it sends ExitStatus.
THEOREM SessionExit == Spec => []ExitAfterOutput
<1>1. IInv => ExitAfterOutput  BY DEF IInv
<1> QED  BY <1>1, AlwaysIInv, PTL

=============================================================================
