---------------------------- MODULE NbdServerProofs ----------------------------
(***************************************************************************)
(* NBD sessions, for any number of clients, requests, permits and in-flight *)
(* tasks, and every set of failures: what a FLUSH, a FUA write or a DISC    *)
(* promises holds when it is answered, and what the sessions share stays    *)
(* right.                                                                   *)
(***************************************************************************)
EXTENDS NbdServer, FiniteSetTheorems, TLAPS

\* A leaf goes to Zenon; the leaves with arithmetic or sequences go to the SMT solver.
USE ZenonT(60)

Stages == {"none", "dispatch", "run", "acted", "panicked", "reply", "eio", "chan", "buffer", "wire", "lost"}
Kinds == {"read", "write", "fua", "flush", "disc", "bad"}
Results == {"none", "ok", "err"}
Handlers == {0, 1, 2}
Open == {"options", "trans", "closing"}

\* Where the effect of a request can no longer appear, and where its response
\* has left the task.
Early == {"none", "dispatch", "run"}
Done == {"chan", "buffer", "wire", "lost"}

SesTypes ==
    /\ kind \in [Clients -> [Numbers -> Kinds \cup {"none"}]]
    /\ stage \in [Clients -> [Numbers -> Stages]]
    /\ result \in [Clients -> [Numbers -> Results]]
    /\ phase \in [Clients -> Open \cup {"off", "closed"}]
    /\ serving \in [Clients -> Handlers] /\ current \in {1, 2}
    /\ rdr \in [Clients -> Numbers \cup {Idle, Out}]
    /\ wtr \in [Clients -> {"run", "drain", "gone"}]
    /\ chan \in [Clients -> Seq(Numbers \cup {Shutdown, Disconnect})]
    /\ covers \in [Clients -> [Numbers -> SUBSET (Clients \X Numbers \X Handlers)]]
    /\ applied \in SUBSET (Clients \X Numbers \X Handlers)

\* What request n of client c is and what its result says.  A request that has
\* not been read is blank; the reader holds the one it dispatches; an acknowledged
\* mutation is applied, and a FUA write that is past its flush synced.
Honest(c, n) ==
    /\ stage[c][n] = "none" => kind[c][n] = "none"
    /\ kind[c][n] \notin {"flush", "disc"} => covers[c][n] = {}
    /\ stage[c][n] # "none" => kind[c][n] \in Kinds /\ phase[c] \notin {"off", "options"}
    /\ stage[c][n] = "dispatch" <=> rdr[c] = n
    /\ stage[c][n] \in Early => result[c][n] = "none"
    /\ stage[c][n] \in {"run", "acted", "panicked"} => kind[c][n] \in Mutating \cup {"read"}
    /\ kind[c][n] \in Mutating /\ result[c][n] = "ok" => Item(c, n) \in applied
    /\ kind[c][n] = "fua" /\ result[c][n] = "ok" => stage[c][n] = "acted" \/ Item(c, n) \in synced

\* A barrier covers requests that were read before it; those whose effect may
\* still appear are its own session's, and only while the reader waits for them.
Barrier(c, n) ==
    /\ \A d \in Clients, m \in Numbers, h \in Handlers :
          <<d, m, h>> \in covers[c][n] =>
             /\ stage[d][m] \notin {"none", "dispatch"}
             /\ stage[d][m] = "run" => d = c /\ stage[c][n] = "dispatch"
    /\ kind[c][n] = "flush" /\ result[c][n] = "ok" =>
          \A d \in Clients, m \in Numbers, h \in Handlers :
             <<d, m, h>> \in covers[c][n] \cap applied /\ h = serving[c] => <<d, m, h>> \in synced
    /\ kind[c][n] = "disc" /\ result[c][n] = "ok" =>
          \A d \in Clients, m \in Numbers, h \in Handlers :
             <<d, m, h>> \in (covers[c][n] \cap applied) \ stale => <<d, m, h>> \in stored

\* A request read after the mark never runs.
AfterMark(c, n) ==
    <<c, n>> \in late =>
       /\ serving[c] \in degraded /\ stage[c][n] \notin {"none", "run"}
       /\ kind[c][n] \in Mutating \cup {"read", "flush"} => result[c][n] # "ok"

RequestInv(c, n) == Honest(c, n) /\ Barrier(c, n) /\ AfterMark(c, n)

\* Requests are read in order; the channel holds responses whose tasks are done,
\* and the reader has returned when it holds the Disconnect.
Elements(q) == {q[i] : i \in 1 .. Len(q)}
InChan(c) == Elements(chan[c])
SessionInv(c) ==
    /\ \E k \in Nat : Sent(c) = 1 .. k
    /\ \A n \in Numbers : n \in InChan(c) => stage[c][n] \in Done
    /\ Disconnect \in InChan(c) \/ wtr[c] = "drain" => rdr[c] = Out

\* A mutation is in the handler the router serves, in S3, or was made on a handler
\* the router had replaced.
Placed ==
    \A d \in Clients, m \in Numbers, h \in Handlers :
       <<d, m, h>> \in applied \ stale => h = current \/ <<d, m, h>> \in stored

SesInv ==
    /\ SesTypes /\ late \subseteq Clients \X Numbers /\ Placed
    /\ \A c \in Clients : SessionInv(c)
    /\ \A c \in Clients, n \in Numbers : RequestInv(c, n)

--------------------------------------------------------------------------------
(* Operators.                                                              *)

\* The reader's marks and the writer's messages are no request numbers.
LEMMA Marks ==
    /\ Idle \notin Numbers /\ Out \notin Numbers /\ Idle # Out
    /\ Shutdown \notin Numbers /\ Disconnect \notin Numbers /\ Shutdown # Disconnect
BY SMTT(60) DEF Numbers, Idle, Out, Shutdown, Disconnect

\* A value for each request, and the change of one of them.
Table(T) == [Clients -> [Numbers -> T]]
Becomes(f, g, c, n, v) ==
    g[c][n] = v /\ \A d \in Clients, m \in Numbers : d # c \/ m # n => g[d][m] = f[d][m]

\* Setting one request changes that request only.
LEMMA SetAt ==
    ASSUME NEW T, NEW f \in Table(T), NEW c \in Clients, NEW n \in Numbers, NEW v \in T
    PROVE  Set(f, c, n, v) \in Table(T) /\ Becomes(f, Set(f, c, n, v), c, n, v)
<1> USE DEF Table
<1>1. Set(f, c, n, v) = [f EXCEPT ![c] = [f[c] EXCEPT ![n] = v]]
  BY DEF Set
<1>2. f[c] \in [Numbers -> T]
  OBVIOUS
<1>3. [f[c] EXCEPT ![n] = v] \in [Numbers -> T]
  BY <1>2
<1>4. Set(f, c, n, v) \in [Clients -> [Numbers -> T]]
  BY <1>1, <1>3
<1>5. Set(f, c, n, v)[c] = [f[c] EXCEPT ![n] = v]
  BY <1>1
<1>6. Set(f, c, n, v)[c][n] = v
  BY <1>2, <1>5
<1>7. ASSUME NEW d \in Clients, NEW m \in Numbers, d # c \/ m # n
      PROVE  Set(f, c, n, v)[d][m] = f[d][m]
  <2>1. CASE d = c
    <3>1. m # n
      BY <1>7, <2>1
    <3> QED
      BY <1>2, <1>5, <2>1, <3>1
  <2>2. CASE d # c
    BY <1>1, <2>2
  <2> QED
    BY <2>1, <2>2
<1> QED
  BY <1>4, <1>6, <1>7 DEF Becomes

\* The same for the stage of a request.
LEMMA StageAt ==
    ASSUME SesTypes, NEW c \in Clients, NEW n \in Numbers, NEW v \in Stages, stage' = Set(stage, c, n, v)
    PROVE  stage' \in Table(Stages) /\ Becomes(stage, stage', c, n, v)
<1>1. stage \in Table(Stages)
  BY DEF SesTypes, Table
<1> QED
  BY <1>1, SetAt

\* The writer moves all responses that are at some stages to another.
LEMMA MovedAt ==
    ASSUME SesTypes, NEW c \in Clients, NEW from, NEW to \in Stages
    PROVE  /\ Moved(c, from, to) \in [Clients -> [Numbers -> Stages]]
           /\ \A n \in Numbers : Moved(c, from, to)[c][n] = IF stage[c][n] \in from THEN to ELSE stage[c][n]
           /\ \A d \in Clients \ {c} : Moved(c, from, to)[d] = stage[d]
<1>1. stage \in [Clients -> [Numbers -> Stages]]
  BY DEF SesTypes
<1>2. Moved(c, from, to) = [stage EXCEPT ![c] = [n \in Numbers |-> IF stage[c][n] \in from THEN to ELSE stage[c][n]]]
  BY DEF Moved
<1>3. [n \in Numbers |-> IF stage[c][n] \in from THEN to ELSE stage[c][n]] \in [Numbers -> Stages]
  BY <1>1
<1> QED
  BY <1>1, <1>2, <1>3

\* What the channel holds after a response was appended, taken, or all were dropped.
LEMMA AppendHolds ==
    ASSUME NEW T, NEW q \in Seq(T), NEW r \in T
    PROVE  Append(q, r) \in Seq(T) /\ Elements(Append(q, r)) = Elements(q) \cup {r}
BY SMTT(60) DEF Elements

\* Taking the first response leaves no others than were there.
LEMMA TailHolds ==
    ASSUME NEW T, NEW q \in Seq(T), q # <<>>
    PROVE  Tail(q) \in Seq(T) /\ Head(q) \in Elements(q) /\ Elements(Tail(q)) \subseteq Elements(q)
BY SMTT(60) DEF Elements

\* A writer that ended holds nothing.
LEMMA EmptyHolds == ASSUME NEW T PROVE <<>> \in Seq(T) /\ Elements(<<>>) = {}
BY SMTT(60) DEF Elements

--------------------------------------------------------------------------------
(* Requests a step does not act on.                                        *)

\* Effects, barriers, marks and stages only advance, and only a running task adds
\* an effect.
Advances ==
    /\ applied \subseteq applied' /\ synced \subseteq synced' /\ stored \subseteq stored'
    /\ stale \subseteq stale' /\ degraded \subseteq degraded'
    /\ \A d \in Clients, m \in Numbers, h \in Handlers :
          <<d, m, h>> \in applied' /\ <<d, m, h>> \notin applied => stage[d][m] = "run"
    /\ \A d \in Clients, m \in Numbers : stage[d][m] \notin {"none", "dispatch"} =>
          stage'[d][m] \notin {"none", "dispatch"} /\ (stage'[d][m] = "run" => stage[d][m] = "run")

\* Request m of client d stays what it is, or its response moves on.
Calm(d, m) ==
    /\ kind'[d][m] = kind[d][m] /\ result'[d][m] = result[d][m] /\ covers'[d][m] = covers[d][m]
    /\ \/ stage'[d][m] = stage[d][m]
       \/ stage[d][m] \in {"reply", "eio"} \cup Done /\ stage'[d][m] \in Done
    /\ rdr'[d] = m <=> rdr[d] = m
    /\ stage[d][m] # "none" => serving'[d] = serving[d] /\ phase'[d] \notin {"off", "options"}
    /\ <<d, m>> \in late' => <<d, m>> \in late

\* Such a request keeps what is known of it.
LEMMA CalmKept ==
    ASSUME NEW d \in Clients, NEW m \in Numbers, RequestInv(d, m), Calm(d, m), Advances
    PROVE  RequestInv(d, m)'
<1>h. Honest(d, m) /\ Barrier(d, m) /\ AfterMark(d, m)
  BY DEF RequestInv
<1>m. "none" \notin {"reply", "eio"} \cup Done /\ "dispatch" \notin {"reply", "eio"} \cup Done
      /\ "run" \notin {"reply", "eio"} \cup Done /\ "acted" \notin {"reply", "eio"} \cup Done
      /\ "panicked" \notin {"reply", "eio"} \cup Done
  BY DEF Done
<1>1. CASE stage[d][m] = "none"
  <2>1. stage'[d][m] = "none"
    BY <1>1, <1>m DEF Calm
  <2>2. kind'[d][m] = "none" /\ result'[d][m] = "none" /\ covers'[d][m] = {} /\ rdr'[d] # m /\ <<d, m>> \notin late'
    BY <1>1, <1>h DEF Calm, Honest, AfterMark, Early
  <2> QED
    BY <2>1, <2>2 DEF RequestInv, Honest, Barrier, AfterMark, Early, Mutating
<1>2. CASE stage[d][m] # "none"
  <2>1. serving'[d] = serving[d] /\ phase'[d] \notin {"off", "options"} /\ Item(d, m)' = Item(d, m)
    BY <1>2 DEF Calm, Item
  <2>2. stage'[d][m] # "none" /\ (stage'[d][m] \in Early => stage'[d][m] = stage[d][m])
    BY <1>2, <1>m DEF Calm, Early
  <2>3. Honest(d, m)'
    <3>1. stage'[d][m] = "dispatch" <=> rdr'[d] = m
      BY <1>h, <1>m DEF Calm, Honest
    <3>2. /\ kind'[d][m] \in Kinds /\ (stage'[d][m] \in Early => result'[d][m] = "none")
          /\ kind'[d][m] \notin {"flush", "disc"} => covers'[d][m] = {}
      BY <1>2, <1>h, <2>2 DEF Calm, Honest
    <3>3. stage'[d][m] \in {"run", "acted", "panicked"} => kind'[d][m] \in Mutating \cup {"read"}
      BY <1>h, <1>m DEF Calm, Honest
    <3>4. kind'[d][m] \in Mutating /\ result'[d][m] = "ok" => Item(d, m)' \in applied'
      BY <1>h, <2>1 DEF Calm, Honest, Advances
    <3>5. kind'[d][m] = "fua" /\ result'[d][m] = "ok" => stage'[d][m] = "acted" \/ Item(d, m)' \in synced'
      BY <1>h, <1>m, <2>1 DEF Calm, Honest, Advances
    <3> QED
      BY <2>1, <2>2, <3>1, <3>2, <3>3, <3>4, <3>5 DEF Honest
  <2>4. Barrier(d, m)'
    <3>1. ASSUME NEW e \in Clients, NEW k \in Numbers, NEW h \in Handlers, <<e, k, h>> \in covers'[d][m]
          PROVE  /\ stage'[e][k] \notin {"none", "dispatch"}
                 /\ stage'[e][k] = "run" => e = d /\ stage'[d][m] = "dispatch"
      <4>1. /\ stage[e][k] \notin {"none", "dispatch"}
            /\ stage[e][k] = "run" => e = d /\ stage[d][m] = "dispatch"
        BY <1>h, <3>1 DEF Calm, Barrier
      <4> QED
        BY <4>1, <1>m DEF Calm, Advances
    <3>2. ASSUME kind'[d][m] \in {"flush", "disc"}, result'[d][m] = "ok",
                 NEW e \in Clients, NEW k \in Numbers, NEW h \in Handlers, <<e, k, h>> \in covers'[d][m] \cap applied'
          PROVE  <<e, k, h>> \in covers[d][m] \cap applied
      <4>1. <<e, k, h>> \in covers[d][m] /\ stage[d][m] \notin Early
        <5>1. <<e, k, h>> \in covers[d][m]
          BY <3>2 DEF Calm
        <5>2. result[d][m] = "ok"
          BY <3>2 DEF Calm
        <5> QED
          BY <5>1, <5>2, <1>h DEF Honest
      <4>2. stage[e][k] # "run"
        BY <4>1, <1>h DEF Barrier, Early
      <4> QED
        BY <3>2, <4>1, <4>2 DEF Advances
    <3>3. ASSUME kind'[d][m] = "flush", result'[d][m] = "ok",
                 NEW e \in Clients, NEW k \in Numbers, NEW h \in Handlers,
                 <<e, k, h>> \in covers'[d][m] \cap applied', h = serving'[d]
          PROVE  <<e, k, h>> \in synced'
      <4>1. <<e, k, h>> \in covers[d][m] \cap applied
        BY <3>2, <3>3
      <4> QED
        BY <4>1, <3>3, <1>h, <2>1 DEF Calm, Barrier, Advances
    <3>4. ASSUME kind'[d][m] = "disc", result'[d][m] = "ok",
                 NEW e \in Clients, NEW k \in Numbers, NEW h \in Handlers,
                 <<e, k, h>> \in (covers'[d][m] \cap applied') \ stale'
          PROVE  <<e, k, h>> \in stored'
      <4>1. <<e, k, h>> \in covers[d][m] \cap applied
        BY <3>2, <3>4
      <4> QED
        BY <4>1, <3>4, <1>h DEF Calm, Barrier, Advances
    <3> QED
      BY <3>1, <3>3, <3>4 DEF Barrier
  <2>5. AfterMark(d, m)'
    BY <1>h, <1>m, <2>1, <2>2 DEF Calm, AfterMark, Advances, Early
  <2> QED
    BY <2>3, <2>4, <2>5 DEF RequestInv
<1> QED
  BY <1>1, <1>2

\* A session's order and channel after a step that sends at most r to the writer.
LEMMA SessionMoves ==
    ASSUME NEW d \in Clients, SessionInv(d), Sent(d)' = Sent(d), NEW r, InChan(d)' \subseteq InChan(d) \cup {r},
           \A m \in Numbers : stage[d][m] \in Done => stage'[d][m] \in Done,
           r \in Numbers => stage'[d][r] \in Done,
           r = Disconnect \/ rdr[d] = Out \/ wtr'[d] = "drain" => rdr'[d] = Out
    PROVE  SessionInv(d)'
<1>1. \E k \in Nat : Sent(d)' = 1 .. k
  BY DEF SessionInv
<1>2. \A n \in Numbers : n \in InChan(d)' => stage'[d][n] \in Done
  BY DEF SessionInv
<1>3. Disconnect \in InChan(d)' \/ wtr'[d] = "drain" => rdr'[d] = Out
  BY DEF SessionInv
<1> QED
  BY <1>1, <1>2, <1>3 DEF SessionInv

\* The sessions a step does not act on.
LEMMA SessionKept ==
    ASSUME NEW d \in Clients, SessionInv(d), chan'[d] = chan[d], wtr'[d] = wtr[d], rdr'[d] = rdr[d],
           \A m \in Numbers : stage'[d][m] = stage[d][m]
    PROVE  SessionInv(d)'
<1>1. Sent(d)' = Sent(d) /\ InChan(d)' = InChan(d)
  BY DEF Sent, InChan
<1> QED
  BY <1>1 DEF SessionInv

\* What stays where it is when responses move has been read as before.
LEMMA CalmSent ==
    ASSUME NEW d \in Clients, \A m \in Numbers : Calm(d, m)
    PROVE  Sent(d)' = Sent(d) /\ \A m \in Numbers : stage[d][m] \in Done => stage'[d][m] \in Done
<1>1. "none" \notin {"reply", "eio"} \cup Done
  BY DEF Done
<1>2. \A m \in Numbers : stage'[d][m] = "none" <=> stage[d][m] = "none"
  BY <1>1 DEF Calm
<1> QED
  BY <1>2 DEF Sent, Calm

\* Push appends to the session's channel, or drops the response.
LEMMA PushHolds ==
    ASSUME SesTypes, NEW c \in Clients, NEW r \in Numbers \cup {Shutdown, Disconnect}, Push(c, r)
    PROVE  /\ chan' \in [Clients -> Seq(Numbers \cup {Shutdown, Disconnect})]
           /\ InChan(c)' \subseteq InChan(c) \cup {r}
           /\ \A d \in Clients \ {c} : chan'[d] = chan[d]
<1>1. chan \in [Clients -> Seq(Numbers \cup {Shutdown, Disconnect})]
  BY DEF SesTypes
<1>2. CASE wtr[c] = "gone"
  BY <1>1, <1>2 DEF Push, InChan
<1>3. CASE wtr[c] # "gone"
  <2>1. chan' = [chan EXCEPT ![c] = Append(chan[c], r)]
    BY <1>3 DEF Push
  <2>2. chan'[c] = Append(chan[c], r)
    BY <1>1, <2>1
  <2>3. /\ Append(chan[c], r) \in Seq(Numbers \cup {Shutdown, Disconnect})
        /\ Elements(Append(chan[c], r)) = Elements(chan[c]) \cup {r}
    BY <1>1, AppendHolds, SMTT(30)
  <2> QED
    BY <1>1, <2>1, <2>2, <2>3 DEF InChan
<1> QED
  BY <1>2, <1>3

\* The writer takes the first response.
LEMMA TakeHolds ==
    ASSUME SesTypes, NEW c \in Clients, chan[c] # <<>>, chan' = [chan EXCEPT ![c] = Tail(@)]
    PROVE  /\ chan' \in [Clients -> Seq(Numbers \cup {Shutdown, Disconnect})]
           /\ InChan(c)' \subseteq InChan(c) /\ Head(chan[c]) \in InChan(c)
           /\ \A d \in Clients \ {c} : chan'[d] = chan[d]
<1>1. chan \in [Clients -> Seq(Numbers \cup {Shutdown, Disconnect})]
  BY DEF SesTypes
<1>2. /\ Tail(chan[c]) \in Seq(Numbers \cup {Shutdown, Disconnect})
      /\ Head(chan[c]) \in Elements(chan[c]) /\ Elements(Tail(chan[c])) \subseteq Elements(chan[c])
  BY <1>1, TailHolds
<1>3. chan' = [chan EXCEPT ![c] = Tail(chan[c])]
  OBVIOUS
<1>4. chan'[c] = Tail(chan[c])
  BY <1>1, <1>3
<1> QED
  BY <1>1, <1>2, <1>3, <1>4 DEF InChan

\* The writer ends.
LEMMA EndHolds ==
    ASSUME SesTypes, NEW c \in Clients, WriterEnds(c)
    PROVE  /\ chan' \in [Clients -> Seq(Numbers \cup {Shutdown, Disconnect})]
           /\ InChan(c)' \subseteq InChan(c)
           /\ wtr' \in [Clients -> {"run", "drain", "gone"}] /\ wtr'[c] = "gone"
           /\ \A d \in Clients \ {c} : chan'[d] = chan[d] /\ wtr'[d] = wtr[d]
<1>1. /\ chan \in [Clients -> Seq(Numbers \cup {Shutdown, Disconnect})]
      /\ wtr \in [Clients -> {"run", "drain", "gone"}]
  BY DEF SesTypes
<1>2. chan' = [chan EXCEPT ![c] = <<>>] /\ wtr' = [wtr EXCEPT ![c] = "gone"]
  BY DEF WriterEnds
<1>3. <<>> \in Seq(Numbers \cup {Shutdown, Disconnect}) /\ Elements(<<>>) = {}
  BY EmptyHolds
<1>4. chan'[c] = <<>>
  BY <1>1, <1>2
<1>5. InChan(c)' = {}
  BY <1>3, <1>4 DEF InChan
<1> QED
  BY <1>1, <1>2, <1>3, <1>5

\* A step that changes no request but to move its response on, and no effect.
LEMMA QuietStep ==
    ASSUME SesInv, UNCHANGED <<kind, result, covers, late, stale, current, applied, synced, stored, degraded>>,
           stage' \in [Clients -> [Numbers -> Stages]],
           phase' \in [Clients -> Open \cup {"off", "closed"}], serving' \in [Clients -> Handlers],
           rdr' \in [Clients -> Numbers \cup {Idle, Out}], wtr' \in [Clients -> {"run", "drain", "gone"}],
           chan' \in [Clients -> Seq(Numbers \cup {Shutdown, Disconnect})],
           \A d \in Clients, m \in Numbers : Calm(d, m),
           \A d \in Clients : SessionInv(d)'
    PROVE  SesInv'
<1>1. SesTypes'
  BY DEF SesInv, SesTypes
<1>2. Placed'
  BY DEF SesInv, Placed
<1>3. Advances
  <2>1. "none" \notin Done /\ "dispatch" \notin Done /\ "run" \notin Done
    BY DEF Done
  <2>2. \A d \in Clients, m \in Numbers : stage'[d][m] = stage[d][m] \/ stage'[d][m] \in Done
    BY DEF Calm
  <2> QED
    BY <2>1, <2>2 DEF Advances
<1>4. \A d \in Clients, m \in Numbers : RequestInv(d, m)'
  BY <1>3, CalmKept DEF SesInv
<1> QED
  BY <1>1, <1>2, <1>4 DEF SesInv

--------------------------------------------------------------------------------
(* Connections, the end of the reader, and the writer.                     *)

\* A session enters another phase; only one without requests negotiates.
LEMMA PhaseMoves ==
    ASSUME SesInv, UNCHANGED <<requests, export, covers, late, stale, rdr, writer>>,
           phase' \in [Clients -> Open \cup {"off", "closed"}], serving' \in [Clients -> Handlers],
           \A d \in Clients, m \in Numbers : stage[d][m] # "none" =>
              serving'[d] = serving[d] /\ phase'[d] \notin {"off", "options"}
    PROVE  SesInv'
<1>1. UNCHANGED <<kind, stage, result, current, applied, synced, stored, degraded, covers, late, stale, rdr, chan, wtr>>
  BY DEF requests, export, writer
<1>2. SesTypes /\ \A d \in Clients : SessionInv(d)
  BY DEF SesInv
<1>3. \A d \in Clients, m \in Numbers : Calm(d, m)
  BY <1>1 DEF Calm
<1>4. \A d \in Clients : SessionInv(d)'
  BY <1>1, <1>2, SessionKept
<1> QED
  BY <1>1, <1>2, <1>3, <1>4, QuietStep DEF SesTypes

\* Connections are accepted, negotiate, end and vanish.
LEMMA ConnectionSteps ==
    ASSUME SesInv, NEW c \in Clients,
           Accept(c) \/ ChooseExport(c) \/ LeaveOptions(c) \/ CloseSession(c) \/ ClientVanishes(c)
    PROVE  SesInv'
<1>1. UNCHANGED <<requests, export, covers, late, stale, rdr, writer>>
  BY DEF Accept, ChooseExport, LeaveOptions, CloseSession, ClientVanishes, ghost
<1>2. /\ phase \in [Clients -> Open \cup {"off", "closed"}] /\ serving \in [Clients -> Handlers]
      /\ current \in Handlers
  BY DEF SesInv, SesTypes, Handlers
<1>3. \A d \in Clients, m \in Numbers : stage[d][m] # "none" => phase[d] \notin {"off", "options"}
  BY DEF SesInv, RequestInv, Honest
<1>4. CASE ClientVanishes(c)
  <2>1. UNCHANGED <<phase, serving>>
    BY <1>4 DEF ClientVanishes, session
  <2> QED
    BY <1>1, <1>2, <1>3, <2>1, PhaseMoves
<1>5. CASE Accept(c)
  <2>1. PICK q \in {"options", "closed"} : phase' = [phase EXCEPT ![c] = q]
    BY <1>5 DEF Accept
  <2>2. serving' = serving /\ phase[c] = "off" /\ q \in Open \cup {"off", "closed"}
    BY <1>5 DEF Accept, Open
  <2>3. phase' \in [Clients -> Open \cup {"off", "closed"}]
    BY <1>2, <2>1, <2>2
  <2>4. \A d \in Clients, m \in Numbers : stage[d][m] # "none" => phase'[d] \notin {"off", "options"}
    <3> SUFFICES ASSUME NEW d \in Clients, NEW m \in Numbers, stage[d][m] # "none"
                 PROVE  phase'[d] \notin {"off", "options"}
      OBVIOUS
    <3>1. d # c
      BY <1>3, <2>2
    <3> QED
      BY <1>2, <1>3, <2>1, <3>1
  <2> QED
    BY <1>1, <1>2, <2>2, <2>3, <2>4, PhaseMoves
<1>6. CASE LeaveOptions(c) \/ CloseSession(c)
  <2>1. phase' = [phase EXCEPT ![c] = "closed"] /\ serving' = serving
    BY <1>6 DEF LeaveOptions, CloseSession, Release
  <2>2. phase' \in [Clients -> Open \cup {"off", "closed"}]
    BY <1>2, <2>1
  <2>3. \A d \in Clients : phase'[d] \in {phase[d], "closed"}
    BY <1>2, <2>1
  <2> QED
    BY <1>1, <1>2, <1>3, <2>1, <2>2, <2>3, PhaseMoves
<1>7. CASE ChooseExport(c)
  <2>1. phase' = [phase EXCEPT ![c] = "trans"] /\ serving' = [serving EXCEPT ![c] = current] /\ phase[c] = "options"
    BY <1>7 DEF ChooseExport
  <2>2. phase' \in [Clients -> Open \cup {"off", "closed"}] /\ serving' \in [Clients -> Handlers]
    BY <1>2, <2>1 DEF Open
  <2>3. ASSUME NEW d \in Clients, NEW m \in Numbers, stage[d][m] # "none"
        PROVE  serving'[d] = serving[d] /\ phase'[d] \notin {"off", "options"}
    <3>1. d # c
      BY <1>3, <2>1, <2>3
    <3> QED
      BY <1>2, <1>3, <2>1, <2>3, <3>1
  <2> QED
    BY <1>1, <2>2, <2>3, PhaseMoves
<1> QED
  BY <1>4, <1>5, <1>6, <1>7

\* The reader returns between two requests.
LEMMA ReaderLeaves ==
    ASSUME SesInv, NEW c \in Clients, LeaveReader(c) \/ Garbled(c)
    PROVE  SesInv'
<1>1. UNCHANGED <<kind, stage, result, current, applied, synced, stored, degraded, covers, late, stale, wtr, serving>>
  BY DEF LeaveReader, Garbled, requests, export, ghost, writer
<1>2. SesTypes /\ SessionInv(c) /\ \A d \in Clients : SessionInv(d)
  BY DEF SesInv
<1>3. rdr' = [rdr EXCEPT ![c] = Out] /\ rdr[c] = Idle /\ phase' = [phase EXCEPT ![c] = "closing"]
  BY DEF LeaveReader, Garbled
<1>4. /\ rdr \in [Clients -> Numbers \cup {Idle, Out}] /\ phase \in [Clients -> Open \cup {"off", "closed"}]
      /\ stage \in [Clients -> [Numbers -> Stages]] /\ serving \in [Clients -> Handlers]
      /\ wtr \in [Clients -> {"run", "drain", "gone"}]
      /\ chan \in [Clients -> Seq(Numbers \cup {Shutdown, Disconnect})]
  BY <1>2 DEF SesTypes
<1>5. rdr' \in [Clients -> Numbers \cup {Idle, Out}] /\ phase' \in [Clients -> Open \cup {"off", "closed"}]
  BY <1>3, <1>4 DEF Open
<1>6. rdr'[c] = Out /\ \A d \in Clients \ {c} : rdr'[d] = rdr[d] /\ phase'[d] = phase[d]
  BY <1>3, <1>4
<1>7. phase'[c] = "closing"
  BY <1>3, <1>4
<1>8. \A d \in Clients, m \in Numbers : stage[d][m] # "none" => phase[d] \notin {"off", "options"}
  BY DEF SesInv, RequestInv, Honest
<1>9. ASSUME NEW d \in Clients, NEW m \in Numbers PROVE Calm(d, m)
  <2>1. rdr'[d] = m <=> rdr[d] = m
    BY <1>3, <1>6, Marks
  <2>2. stage[d][m] # "none" => phase'[d] \notin {"off", "options"}
    BY <1>6, <1>7, <1>8
  <2> QED
    BY <1>1, <2>1, <2>2 DEF Calm
<1>10. /\ chan' \in [Clients -> Seq(Numbers \cup {Shutdown, Disconnect})]
       /\ InChan(c)' \subseteq InChan(c) \cup {Shutdown}
       /\ \A d \in Clients \ {c} : chan'[d] = chan[d]
  <2>1. CASE LeaveReader(c)
    BY <1>2, <2>1, PushHolds DEF LeaveReader
  <2>2. CASE Garbled(c)
    BY <1>4, <2>2 DEF Garbled, writer, InChan
  <2> QED
    BY <2>1, <2>2
<1>11. ASSUME NEW d \in Clients PROVE SessionInv(d)'
  <2>1. CASE d = c
    <3>1. Sent(c)' = Sent(c)
      BY <1>1 DEF Sent
    <3> QED
      BY <1>1, <1>2, <1>6, <1>10, <2>1, <3>1, Marks, SessionMoves
  <2>2. CASE d # c
    BY <1>1, <1>2, <1>6, <1>10, <2>2, SessionKept
  <2> QED
    BY <2>1, <2>2
<1> QED
  BY <1>1, <1>4, <1>5, <1>9, <1>10, <1>11, QuietStep

\* Responses of a session move from its tasks through the channel to the client.
LEMMA WriterMoves ==
    ASSUME SesInv, NEW c \in Clients, NEW r,
           UNCHANGED <<kind, result, current, applied, synced, stored, degraded, covers, late, stale, serving, phase, rdr>>,
           stage' \in [Clients -> [Numbers -> Stages]],
           chan' \in [Clients -> Seq(Numbers \cup {Shutdown, Disconnect})],
           wtr' \in [Clients -> {"run", "drain", "gone"}],
           \A d \in Clients \ {c} : chan'[d] = chan[d] /\ wtr'[d] = wtr[d],
           \A d \in Clients \ {c}, m \in Numbers : stage'[d][m] = stage[d][m],
           \A m \in Numbers : \/ stage'[c][m] = stage[c][m]
                              \/ stage[c][m] \in {"reply", "eio"} \cup Done /\ stage'[c][m] \in Done,
           InChan(c)' \subseteq InChan(c) \cup {r}, r # Disconnect,
           r \in Numbers => stage'[c][r] \in Done,
           wtr'[c] = "drain" => rdr[c] = Out
    PROVE  SesInv'
<1>1. SesTypes /\ SessionInv(c) /\ \A d \in Clients : SessionInv(d)
  BY DEF SesInv
<1>2. \A d \in Clients, m \in Numbers : stage[d][m] # "none" => phase[d] \notin {"off", "options"}
  BY DEF SesInv, RequestInv, Honest
<1>3. \A d \in Clients, m \in Numbers : Calm(d, m)
  <2> SUFFICES ASSUME NEW d \in Clients, NEW m \in Numbers PROVE Calm(d, m)
    OBVIOUS
  <2>1. \/ stage'[d][m] = stage[d][m]
        \/ stage[d][m] \in {"reply", "eio"} \cup Done /\ stage'[d][m] \in Done
    OBVIOUS
  <2> QED
    BY <1>2, <2>1 DEF Calm
<1>4. ASSUME NEW d \in Clients PROVE SessionInv(d)'
  <2>1. CASE d = c
    <3>1. Sent(c)' = Sent(c) /\ \A m \in Numbers : stage[c][m] \in Done => stage'[c][m] \in Done
      BY <1>3, CalmSent
    <3>2. r = Disconnect \/ rdr[c] = Out \/ wtr'[c] = "drain" => rdr'[c] = Out
      OBVIOUS
    <3> QED
      BY <1>1, <2>1, <3>1, <3>2, SessionMoves
  <2>2. CASE d # c
    BY <1>1, <2>2, SessionKept
  <2> QED
    BY <2>1, <2>2
<1> QED
  BY <1>1, <1>3, <1>4, QuietStep DEF SesTypes

\* A task hands its response to the writer.
LEMMA RespondStep ==
    ASSUME SesInv, NEW c \in Clients, NEW n \in Numbers, Respond(c, n)
    PROVE  SesInv'
<1>1. UNCHANGED <<kind, result, current, applied, synced, stored, degraded, covers, late, stale, serving, phase, rdr, wtr>>
  BY DEF Respond, session, export, ghost
<1>2. SesTypes
  BY DEF SesInv
<1>3. stage \in [Clients -> [Numbers -> Stages]] /\ wtr \in [Clients -> {"run", "drain", "gone"}]
  BY <1>2 DEF SesTypes
<1>4. PICK v \in {"lost", "chan"} : stage' = Set(stage, c, n, v)
  BY DEF Respond, Sends
<1>5. v \in Stages /\ v \in Done /\ stage[c][n] \in {"reply", "eio"} \cup Done
  BY <1>4 DEF Stages, Done, Respond
<1>6. /\ stage' \in [Clients -> [Numbers -> Stages]] /\ stage'[c][n] = v
      /\ \A d \in Clients, m \in Numbers : d # c \/ m # n => stage'[d][m] = stage[d][m]
  BY <1>2, <1>4, <1>5, StageAt DEF Table, Becomes
<1>7. /\ chan' \in [Clients -> Seq(Numbers \cup {Shutdown, Disconnect})]
      /\ InChan(c)' \subseteq InChan(c) \cup {n}
      /\ \A d \in Clients \ {c} : chan'[d] = chan[d]
  BY <1>2, PushHolds DEF Respond
<1>8. n # Disconnect
  BY Marks
<1>9. wtr'[c] = "drain" => rdr[c] = Out
  BY <1>1 DEF SesInv, SessionInv
<1>10. \A m \in Numbers : \/ stage'[c][m] = stage[c][m]
                          \/ stage[c][m] \in {"reply", "eio"} \cup Done /\ stage'[c][m] \in Done
  BY <1>5, <1>6
<1>11. \A d \in Clients \ {c}, m \in Numbers : stage'[d][m] = stage[d][m]
  BY <1>6
<1> QED
  BY <1>1, <1>3, <1>5, <1>6, <1>7, <1>8, <1>9, <1>10, <1>11, WriterMoves

\* The writer's steps up to the drain.
LEMMA WriterSteps ==
    ASSUME SesInv, NEW c \in Clients,
           WriteReply(c) \/ FlushReplies(c) \/ WriterShutdown(c) \/ WriterDisconnect(c) \/ WriterClosed(c)
    PROVE  SesInv'
<1>1. UNCHANGED <<kind, result, current, applied, synced, stored, degraded, covers, late, stale, serving, phase, rdr>>
  BY DEF WriteReply, FlushReplies, WriterShutdown, WriterDisconnect, WriterClosed, session, export, ghost, requests
<1>2. SesTypes /\ SessionInv(c)
  BY DEF SesInv
<1>3. /\ stage \in [Clients -> [Numbers -> Stages]] /\ wtr \in [Clients -> {"run", "drain", "gone"}]
      /\ chan \in [Clients -> Seq(Numbers \cup {Shutdown, Disconnect})]
  BY <1>2 DEF SesTypes
<1>4. Shutdown # Disconnect /\ Shutdown \notin Numbers
  BY Marks
\* Responses that move with the whole buffer or channel.
<1>5. ASSUME NEW from \in SUBSET Done, NEW to \in Done, stage' = Moved(c, from, to)
      PROVE  /\ stage' \in [Clients -> [Numbers -> Stages]]
             /\ \A d \in Clients \ {c}, m \in Numbers : stage'[d][m] = stage[d][m]
             /\ \A m \in Numbers : \/ stage'[c][m] = stage[c][m]
                                   \/ stage[c][m] \in {"reply", "eio"} \cup Done /\ stage'[c][m] \in Done
  <2>1. to \in Stages
    BY DEF Done, Stages
  <2>2. /\ Moved(c, from, to) \in [Clients -> [Numbers -> Stages]]
        /\ \A n \in Numbers : Moved(c, from, to)[c][n] = IF stage[c][n] \in from THEN to ELSE stage[c][n]
        /\ \A d \in Clients \ {c} : Moved(c, from, to)[d] = stage[d]
    BY <1>2, <2>1, MovedAt, SMTT(60)
  <2> QED
    BY <1>5, <2>2
<1>6. {"chan", "buffer"} \in SUBSET Done /\ {"buffer"} \in SUBSET Done /\ "lost" \in Done /\ "wire" \in Done
      /\ "buffer" \in Done
  BY DEF Done
<1>7. ASSUME WriterEnds(c), stage' = Moved(c, {"chan", "buffer"}, "lost") \/ stage' = Moved(c, {"buffer"}, "lost")
      PROVE  SesInv'
  <2>1. /\ stage' \in [Clients -> [Numbers -> Stages]]
        /\ \A d \in Clients \ {c}, m \in Numbers : stage'[d][m] = stage[d][m]
        /\ \A m \in Numbers : \/ stage'[c][m] = stage[c][m]
                              \/ stage[c][m] \in {"reply", "eio"} \cup Done /\ stage'[c][m] \in Done
    BY <1>5, <1>6, <1>7
  <2>2. /\ chan' \in [Clients -> Seq(Numbers \cup {Shutdown, Disconnect})]
        /\ InChan(c)' \subseteq InChan(c) \cup {Shutdown}
        /\ wtr' \in [Clients -> {"run", "drain", "gone"}] /\ wtr'[c] # "drain"
        /\ \A d \in Clients \ {c} : chan'[d] = chan[d] /\ wtr'[d] = wtr[d]
    BY <1>2, <1>7, EndHolds
  <2> QED
    BY <1>1, <1>4, <2>1, <2>2, WriterMoves
<1>8. CASE WriteReply(c)
  <2>1. CASE WriterEnds(c) /\ stage' = Moved(c, {"chan", "buffer"}, "lost")
    BY <1>7, <2>1
  <2>2. CASE /\ chan' = [chan EXCEPT ![c] = Tail(@)] /\ UNCHANGED wtr
             /\ stage' = Set(stage, c, Head(chan[c]), "buffer")
    <3>1. Head(chan[c]) \in Numbers /\ chan[c] # <<>> /\ wtr[c] = "run"
      BY <1>8 DEF WriteReply
    <3>2. /\ chan' \in [Clients -> Seq(Numbers \cup {Shutdown, Disconnect})]
          /\ InChan(c)' \subseteq InChan(c) \cup {Shutdown} /\ Head(chan[c]) \in InChan(c)
          /\ \A d \in Clients \ {c} : chan'[d] = chan[d]
      BY <1>2, <2>2, <3>1, TakeHolds
    <3>3. stage[c][Head(chan[c])] \in Done
      BY <1>2, <3>1, <3>2 DEF SessionInv
    <3>4. "buffer" \in Stages
      BY DEF Stages
    <3>5. /\ stage' \in [Clients -> [Numbers -> Stages]] /\ stage'[c][Head(chan[c])] = "buffer"
          /\ \A d \in Clients, m \in Numbers : d # c \/ m # Head(chan[c]) => stage'[d][m] = stage[d][m]
      BY <1>2, <2>2, <3>1, <3>4, StageAt DEF Table, Becomes
    <3>6. \A m \in Numbers : \/ stage'[c][m] = stage[c][m]
                             \/ stage[c][m] \in {"reply", "eio"} \cup Done /\ stage'[c][m] \in Done
      BY <1>6, <3>3, <3>5
    <3>7. \A d \in Clients \ {c}, m \in Numbers : stage'[d][m] = stage[d][m]
      BY <3>5
    <3>8. wtr' \in [Clients -> {"run", "drain", "gone"}] /\ wtr'[c] # "drain" /\ \A d \in Clients : wtr'[d] = wtr[d]
      BY <1>3, <2>2, <3>1
    <3> QED
      <4>1. \A d \in Clients \ {c} : chan'[d] = chan[d] /\ wtr'[d] = wtr[d]
        BY <3>2, <3>8
      <4>2. /\ chan' \in [Clients -> Seq(Numbers \cup {Shutdown, Disconnect})]
            /\ InChan(c)' \subseteq InChan(c) \cup {Shutdown} /\ stage' \in [Clients -> [Numbers -> Stages]]
            /\ wtr' \in [Clients -> {"run", "drain", "gone"}]
        BY <3>2, <3>5, <3>8
      <4>3. (Shutdown \in Numbers => stage'[c][Shutdown] \in Done) /\ (wtr'[c] = "drain" => rdr[c] = Out)
        BY <1>4, <3>8
      <4> QED
        BY <1>1, <1>4, <3>6, <3>7, <4>1, <4>2, <4>3, WriterMoves
  <2> QED
    BY <1>8, <2>1, <2>2 DEF WriteReply
<1>9. CASE FlushReplies(c)
  <2>1. CASE WriterEnds(c) /\ stage' = Moved(c, {"buffer"}, "lost")
    BY <1>7, <2>1
  <2>2. CASE UNCHANGED <<wtr, chan>> /\ stage' = Moved(c, {"buffer"}, "wire")
    <3>1. /\ stage' \in [Clients -> [Numbers -> Stages]]
          /\ \A d \in Clients \ {c}, m \in Numbers : stage'[d][m] = stage[d][m]
          /\ \A m \in Numbers : \/ stage'[c][m] = stage[c][m]
                                \/ stage[c][m] \in {"reply", "eio"} \cup Done /\ stage'[c][m] \in Done
      BY <1>5, <1>6, <2>2
    <3>2. wtr'[c] # "drain" /\ InChan(c)' \subseteq InChan(c) \cup {Shutdown}
      BY <1>9, <2>2 DEF FlushReplies, InChan
    <3> QED
      BY <1>1, <1>3, <1>4, <2>2, <3>1, <3>2, WriterMoves
  <2> QED
    BY <1>9, <2>1, <2>2 DEF FlushReplies
<1>10. CASE WriterShutdown(c)
  BY <1>7, <1>10 DEF WriterShutdown
<1>11. CASE WriterDisconnect(c)
  <2>1. /\ wtr' = [wtr EXCEPT ![c] = "drain"] /\ chan' = [chan EXCEPT ![c] = Tail(@)]
        /\ chan[c] # <<>> /\ Head(chan[c]) = Disconnect
    BY <1>11 DEF WriterDisconnect
  <2>2. PICK to \in {"wire", "lost"} : stage' = Moved(c, {"buffer"}, to)
    BY <1>11 DEF WriterDisconnect
  <2>3. /\ stage' \in [Clients -> [Numbers -> Stages]]
        /\ \A d \in Clients \ {c}, m \in Numbers : stage'[d][m] = stage[d][m]
        /\ \A m \in Numbers : \/ stage'[c][m] = stage[c][m]
                              \/ stage[c][m] \in {"reply", "eio"} \cup Done /\ stage'[c][m] \in Done
    BY <1>5, <1>6, <2>2
  <2>4. /\ chan' \in [Clients -> Seq(Numbers \cup {Shutdown, Disconnect})]
        /\ InChan(c)' \subseteq InChan(c) \cup {Shutdown} /\ Head(chan[c]) \in InChan(c)
        /\ \A d \in Clients \ {c} : chan'[d] = chan[d]
    BY <1>2, <2>1, TakeHolds
  <2>5. rdr[c] = Out
    BY <1>2, <2>1, <2>4 DEF SessionInv
  <2>6. wtr' \in [Clients -> {"run", "drain", "gone"}] /\ \A d \in Clients \ {c} : wtr'[d] = wtr[d]
    BY <1>3, <2>1
  <2> QED
    BY <1>1, <1>4, <2>3, <2>4, <2>5, <2>6, WriterMoves
<1>12. CASE WriterClosed(c)
  <2>1. WriterEnds(c) /\ UNCHANGED stage
    BY <1>12 DEF WriterClosed, requests
  <2>2. /\ chan' \in [Clients -> Seq(Numbers \cup {Shutdown, Disconnect})]
        /\ InChan(c)' \subseteq InChan(c) \cup {Shutdown}
        /\ wtr' \in [Clients -> {"run", "drain", "gone"}] /\ wtr'[c] # "drain"
        /\ \A d \in Clients \ {c} : chan'[d] = chan[d] /\ wtr'[d] = wtr[d]
    BY <1>2, <2>1, EndHolds
  <2> QED
    BY <1>1, <1>3, <1>4, <2>1, <2>2, WriterMoves
<1> QED
  BY <1>8, <1>9, <1>10, <1>11, <1>12

--------------------------------------------------------------------------------
(* The task of a request.                                                  *)

\* One request acts; the others are left alone.
LEMMA OthersCalm ==
    ASSUME SesInv, NEW c \in Clients, NEW n \in Numbers, NEW v, NEW w,
           UNCHANGED <<kind, covers, late, serving>>,
           Becomes(stage, stage', c, n, v), Becomes(result, result', c, n, w),
           \A d \in Clients : phase'[d] \in {phase[d], "closing"},
           \A d \in Clients, m \in Numbers : d # c \/ m # n => (rdr'[d] = m <=> rdr[d] = m)
    PROVE  \A d \in Clients, m \in Numbers : d # c \/ m # n => Calm(d, m)
<1> SUFFICES ASSUME NEW d \in Clients, NEW m \in Numbers, d # c \/ m # n PROVE Calm(d, m)
  OBVIOUS
<1>1. stage'[d][m] = stage[d][m] /\ result'[d][m] = result[d][m]
  BY DEF Becomes
<1>2. stage[d][m] # "none" => phase'[d] \notin {"off", "options"}
  BY DEF SesInv, RequestInv, Honest
<1> QED
  BY <1>1, <1>2 DEF Calm

\* The sessions while a task works.
LEMMA TaskSessions ==
    ASSUME SesInv, NEW c \in Clients, NEW n \in Numbers, NEW v, UNCHANGED <<chan, wtr, rdr>>,
           Becomes(stage, stage', c, n, v), stage[c][n] \notin Done \cup {"none"}, v # "none"
    PROVE  \A d \in Clients : SessionInv(d)'
<1> SUFFICES ASSUME NEW d \in Clients PROVE SessionInv(d)'
  OBVIOUS
<1>1. SessionInv(d)
  BY DEF SesInv
<1>2. ASSUME NEW m \in Numbers PROVE /\ stage'[d][m] = "none" <=> stage[d][m] = "none"
                                     /\ stage[d][m] \in Done => stage'[d][m] \in Done
  BY DEF Becomes
<1>3. Sent(d)' = Sent(d)
  BY <1>2 DEF Sent
<1>4. InChan(d)' \subseteq InChan(d) \cup {Shutdown} /\ Shutdown \notin Numbers /\ Shutdown # Disconnect
  BY Marks DEF InChan
<1>5. Shutdown = Disconnect \/ rdr[d] = Out \/ wtr'[d] = "drain" => rdr'[d] = Out
  BY <1>1, <1>4 DEF SessionInv
<1> QED
  BY <1>1, <1>2, <1>3, <1>4, <1>5, SessionMoves

\* A step of a task: its effect appears only from "run", an ok result comes with
\* its effect, and a FUA write that leaves "acted" with ok is synced.
LEMMA TaskStep ==
    ASSUME SesInv, NEW c \in Clients, NEW n \in Numbers,
           NEW v \in {"acted", "panicked", "reply", "eio"}, NEW w \in Results,
           stage[c][n] \in {"run", "acted", "panicked"},
           v \in {"acted", "panicked"} => stage[c][n] = "run",
           stage' = Set(stage, c, n, v),
           result' \in Table(Results), Becomes(result, result', c, n, w),
           w = "ok" => stage[c][n] = "run" \/ result[c][n] = "ok",
           UNCHANGED <<kind, covers, late, serving, phase, rdr, chan, wtr, current, stored>>,
           applied \subseteq applied', synced \subseteq synced', stale \subseteq stale', degraded \subseteq degraded',
           applied' = applied \/ (stage[c][n] = "run" /\ applied' = applied \cup {Item(c, n)}),
           kind[c][n] \in Mutating /\ w = "ok" => Item(c, n) \in applied',
           kind[c][n] = "fua" /\ w = "ok" => v = "acted" \/ Item(c, n) \in synced',
           Item(c, n) \in applied' \ applied => serving[c] = current \/ Item(c, n) \in stale'
    PROVE  SesInv'
<1>1. SesTypes /\ RequestInv(c, n)
  BY DEF SesInv
<1>2. v \in Stages /\ v \notin Early /\ v # "none"
  BY DEF Stages, Early
<1>3. stage' \in Table(Stages) /\ Becomes(stage, stage', c, n, v)
  BY <1>1, <1>2, StageAt
<1>4. stage'[c][n] = v /\ result'[c][n] = w
  BY <1>3 DEF Becomes
<1>5. Item(c, n) \in Clients \X Numbers \X Handlers
  BY <1>1 DEF Item, SesTypes
<1>a. ASSUME NEW x \in applied' PROVE x \in applied \/ (stage[c][n] = "run" /\ x = Item(c, n))
  <2>1. CASE applied' = applied
    BY <2>1
  <2>2. CASE stage[c][n] = "run" /\ applied' = applied \cup {Item(c, n)}
    BY <2>2
  <2> QED
    BY <2>1, <2>2
<1>6. SesTypes'
  <2>1. applied' \in SUBSET (Clients \X Numbers \X Handlers)
    <3>1. applied \in SUBSET (Clients \X Numbers \X Handlers)
      BY <1>1 DEF SesTypes
    <3>2. ASSUME NEW x \in applied' PROVE x \in Clients \X Numbers \X Handlers
      BY <1>a, <1>5, <3>1
    <3> QED
      BY <3>2
  <2> QED
    BY <1>1, <1>3, <2>1 DEF SesTypes, Table
<1>7. Advances
  <2>1. ASSUME NEW d \in Clients, NEW m \in Numbers, NEW h \in Handlers,
               <<d, m, h>> \in applied', <<d, m, h>> \notin applied
        PROVE  stage[d][m] = "run"
    <3>1. stage[c][n] = "run" /\ <<d, m, h>> = Item(c, n)
      BY <1>a, <2>1
    <3>2. d = c /\ m = n
      BY <3>1 DEF Item
    <3> QED
      BY <3>1, <3>2
  <2>2. ASSUME NEW d \in Clients, NEW m \in Numbers, stage[d][m] \notin {"none", "dispatch"}
        PROVE  stage'[d][m] \notin {"none", "dispatch"} /\ (stage'[d][m] = "run" => stage[d][m] = "run")
    <3>1. CASE d = c /\ m = n
      BY <1>2, <1>4, <3>1 DEF Early
    <3>2. CASE d # c \/ m # n
      BY <1>3, <2>2, <3>2 DEF Becomes
    <3> QED
      BY <3>1, <3>2
  <2> QED
    BY <2>1, <2>2 DEF Advances
<1>8. Placed'
  <2> SUFFICES ASSUME NEW d \in Clients, NEW m \in Numbers, NEW h \in Handlers, <<d, m, h>> \in applied' \ stale'
               PROVE  h = current' \/ <<d, m, h>> \in stored'
    BY DEF Placed
  <2>1. CASE <<d, m, h>> \in applied
    BY <2>1 DEF SesInv, Placed
  <2>2. CASE <<d, m, h>> \notin applied
    <3>1. <<d, m, h>> = Item(c, n)
      BY <2>2
    <3>2. h = serving[c]
      BY <3>1 DEF Item
    <3> QED
      BY <2>2, <3>1, <3>2
  <2> QED
    BY <2>1, <2>2
<1>9. RequestInv(c, n)'
  <2>1. Honest(c, n) /\ Barrier(c, n) /\ AfterMark(c, n)
    BY <1>1 DEF RequestInv
  <2>2. kind[c][n] \in Mutating \cup {"read"} /\ phase[c] \notin {"off", "options"} /\ rdr[c] # n
        /\ kind[c][n] \in Kinds
    BY <2>1 DEF Honest
  <2>3. kind[c][n] \notin {"flush", "disc"} /\ covers[c][n] = {}
    BY <2>1, <2>2 DEF Mutating, Honest
  <2>4. Item(c, n)' = Item(c, n)
    BY DEF Item
  <2>5. Honest(c, n)'
    <3>1. stage'[c][n] \notin {"none", "dispatch"} /\ stage'[c][n] \notin Early
      BY <1>2, <1>4 DEF Early
    <3> QED
      BY <1>4, <2>2, <2>3, <2>4, <3>1 DEF Honest
  <2>6. Barrier(c, n)'
    BY <2>3 DEF Barrier
  <2>7. AfterMark(c, n)'
    <3> SUFFICES ASSUME <<c, n>> \in late PROVE AfterMark(c, n)'
      BY DEF AfterMark
    <3>1. serving[c] \in degraded /\ stage[c][n] # "run" /\ result[c][n] # "ok"
      BY <2>1, <2>2 DEF AfterMark
    <3>2. v \notin {"none", "run"} /\ w # "ok"
      BY <3>1
    <3> QED
      BY <1>4, <3>1, <3>2 DEF AfterMark
  <2> QED
    BY <2>5, <2>6, <2>7 DEF RequestInv
<1>10. \A d \in Clients, m \in Numbers : d # c \/ m # n => Calm(d, m)
  BY <1>3, OthersCalm
<1>11. \A d \in Clients, m \in Numbers : RequestInv(d, m)'
  <2> SUFFICES ASSUME NEW d \in Clients, NEW m \in Numbers PROVE RequestInv(d, m)'
    OBVIOUS
  <2>1. CASE d = c /\ m = n
    BY <1>9, <2>1
  <2>2. CASE d # c \/ m # n
    BY <1>7, <1>10, <2>2, CalmKept DEF SesInv
  <2> QED
    BY <2>1, <2>2
<1>12. \A d \in Clients : SessionInv(d)'
  <2>1. stage[c][n] \notin Done \cup {"none"}
    BY DEF Done
  <2> QED
    BY <1>2, <1>3, <2>1, TaskSessions
<1> QED
  BY <1>6, <1>8, <1>11, <1>12 DEF SesInv

\* The result of a request is set, or stays.
LEMMA ResultAt ==
    ASSUME SesTypes, NEW c \in Clients, NEW n \in Numbers, NEW w \in Results,
           result' = Set(result, c, n, w) \/ (result' = result /\ w = result[c][n])
    PROVE  result' \in Table(Results) /\ Becomes(result, result', c, n, w)
<1>1. result \in Table(Results)
  BY DEF SesTypes, Table
<1>2. CASE result' = Set(result, c, n, w)
  BY <1>1, <1>2, SetAt
<1>3. CASE result' = result /\ w = result[c][n]
  BY <1>1, <1>3 DEF Becomes
<1> QED
  BY <1>2, <1>3

\* The operation takes effect or fails.
LEMMA ActStep ==
    ASSUME SesInv, NEW c \in Clients, NEW n \in Numbers, Act(c, n)
    PROVE  SesInv'
<1>1. /\ UNCHANGED <<kind, covers, late, serving, phase, rdr, chan, wtr, current, stored, synced, degraded>>
      /\ stage[c][n] = "run"
  BY DEF Act, session, writer
<1>2. PICK ok \in BOOLEAN :
          /\ IF ok /\ kind[c][n] \in Mutating
             THEN applied' = applied \cup {Item(c, n)} ELSE UNCHANGED applied
          /\ stage' = Set(stage, c, n, IF ok /\ kind[c][n] = "fua" THEN "acted" ELSE "reply")
          /\ result' = Set(result, c, n, IF ok THEN "ok" ELSE "err")
          /\ stale' = IF serving[c] # current THEN stale \cup {Item(c, n)} ELSE stale
  BY DEF Act
<1>3. stale \subseteq stale' /\ (serving[c] = current \/ Item(c, n) \in stale')
  BY <1>2
<1>4. SesTypes
  BY DEF SesInv
<1>5. CASE ok
  <2>1. result' = Set(result, c, n, "ok")
    BY <1>2, <1>5
  <2>2. result' \in Table(Results) /\ Becomes(result, result', c, n, "ok")
    BY <1>4, <2>1, ResultAt DEF Results
  <2>3. CASE kind[c][n] \in Mutating
    <3>1. applied' = applied \cup {Item(c, n)}
      BY <1>2, <1>5, <2>3
    <3>2. CASE kind[c][n] = "fua"
      <4>1. stage' = Set(stage, c, n, "acted")
        BY <1>2, <1>5, <3>2
      <4> QED
        BY <1>1, <1>3, <2>2, <3>1, <4>1, TaskStep DEF Results
    <3>3. CASE kind[c][n] # "fua"
      <4>1. stage' = Set(stage, c, n, "reply")
        BY <1>2, <3>3
      <4> QED
        BY <1>1, <1>3, <2>2, <3>1, <3>3, <4>1, TaskStep DEF Results
    <3> QED
      BY <3>2, <3>3
  <2>4. CASE kind[c][n] \notin Mutating
    <3>1. applied' = applied /\ kind[c][n] # "fua"
      BY <1>2, <2>4 DEF Mutating
    <3>2. stage' = Set(stage, c, n, "reply")
      BY <1>2, <3>1
    <3> QED
      BY <1>1, <1>3, <2>2, <2>4, <3>1, <3>2, TaskStep DEF Results
  <2> QED
    BY <2>3, <2>4
<1>6. CASE ~ok
  <2>1. applied' = applied /\ stage' = Set(stage, c, n, "reply") /\ result' = Set(result, c, n, "err")
    BY <1>2, <1>6
  <2>2. result' \in Table(Results) /\ Becomes(result, result', c, n, "err")
    BY <1>4, <2>1, ResultAt DEF Results
  <2> QED
    BY <1>1, <1>3, <2>1, <2>2, TaskStep DEF Results
<1> QED
  BY <1>5, <1>6

\* FUA: the flush after the write syncs what the handler has applied.
LEMMA ForceUnitAccessStep ==
    ASSUME SesInv, NEW c \in Clients, NEW n \in Numbers, ForceUnitAccess(c, n)
    PROVE  SesInv'
<1>1. /\ UNCHANGED <<kind, covers, late, serving, phase, rdr, chan, wtr, current, stored, applied, stale, degraded>>
      /\ stage[c][n] = "acted" /\ stage' = Set(stage, c, n, "reply")
  BY DEF ForceUnitAccess, session, writer, ghost
<1>2. SesTypes
  BY DEF SesInv
<1>3. CASE serving[c] \in degraded
  <2>1. result' = Set(result, c, n, "err") /\ synced' = synced
    BY <1>3 DEF ForceUnitAccess
  <2>2. result' \in Table(Results) /\ Becomes(result, result', c, n, "err")
    BY <1>2, <2>1, ResultAt DEF Results
  <2> QED
    BY <1>1, <2>1, <2>2, TaskStep DEF Results
<1>4. CASE serving[c] \notin degraded
  <2>1. result' = result /\ synced' = synced \cup {w \in applied : w[3] = serving[c]}
    BY <1>4 DEF ForceUnitAccess
  <2>2. result[c][n] \in Results
    <3>1. result[c] \in [Numbers -> Results]
      BY <1>2 DEF SesTypes
    <3> QED
      BY <3>1
  <2>3. result' \in Table(Results) /\ Becomes(result, result', c, n, result[c][n])
    BY <1>2, <2>1, <2>2, ResultAt
  <2>4. kind[c][n] \in Mutating /\ result[c][n] = "ok" => Item(c, n) \in applied
    BY DEF SesInv, RequestInv, Honest
  <2>5. Item(c, n)[3] = serving[c]
    BY DEF Item
  <2>6. kind[c][n] = "fua" /\ result[c][n] = "ok" => Item(c, n) \in synced'
    BY <2>1, <2>4, <2>5 DEF Mutating
  <2> QED
    BY <1>1, <2>1, <2>2, <2>3, <2>4, <2>6, TaskStep
<1> QED
  BY <1>3, <1>4

\* A mutating request panics, and the panic is caught.
LEMMA PanicSteps ==
    ASSUME SesInv, NEW c \in Clients, NEW n \in Numbers, Panic(c, n) \/ MarkDegraded(c, n)
    PROVE  SesInv'
<1>1. /\ UNCHANGED <<kind, covers, late, serving, phase, rdr, chan, wtr, current, stored, applied, stale, synced>>
      /\ degraded \subseteq degraded'
  BY DEF Panic, MarkDegraded, session, writer, ghost
<1>2. SesTypes /\ RequestInv(c, n)
  BY DEF SesInv
<1>3. CASE Panic(c, n)
  <2>1. stage[c][n] = "run" /\ stage' = Set(stage, c, n, "panicked") /\ result' = result
    BY <1>3 DEF Panic
  <2>2. result[c][n] = "none"
    BY <1>2, <2>1 DEF RequestInv, Honest, Early
  <2>3. result' \in Table(Results) /\ Becomes(result, result', c, n, "none")
    BY <1>2, <2>1, <2>2, ResultAt DEF Results
  <2> QED
    BY <1>1, <2>1, <2>3, TaskStep DEF Results
<1>4. CASE MarkDegraded(c, n)
  <2>1. stage[c][n] = "panicked" /\ stage' = Set(stage, c, n, "eio") /\ result' = Set(result, c, n, "err")
    BY <1>4 DEF MarkDegraded
  <2>2. result' \in Table(Results) /\ Becomes(result, result', c, n, "err")
    BY <1>2, <2>1, ResultAt DEF Results
  <2> QED
    BY <1>1, <2>1, <2>2, TaskStep DEF Results
<1> QED
  BY <1>3, <1>4

--------------------------------------------------------------------------------
(* The reader.                                                             *)

\* The reader is done with the request it dispatched: a barrier waited for the
\* session's tasks, only a FLUSH succeeds here, and only on an export that is not
\* degraded.
LEMMA LeaveDispatch ==
    ASSUME SesInv, NEW c \in Clients, NEW n \in Numbers, NEW q \in {Idle, Out},
           NEW v \in {"run", "reply"} \cup Done, NEW w \in Results,
           NEW r,
           rdr[c] = n, rdr' = [rdr EXCEPT ![c] = q], stage' = Set(stage, c, n, v),
           result' \in Table(Results), Becomes(result, result', c, n, w),
           UNCHANGED <<kind, covers, late, serving, current, applied, stored, stale, wtr>>,
           synced \subseteq synced', degraded \subseteq degraded',
           phase' \in [Clients -> Open \cup {"off", "closed"}], \A d \in Clients : phase'[d] \in {phase[d], "closing"},
           chan' \in [Clients -> Seq(Numbers \cup {Shutdown, Disconnect})],
           \A d \in Clients \ {c} : chan'[d] = chan[d],
           InChan(c)' \subseteq InChan(c) \cup {r}, r \in Numbers => r = n /\ v \in Done, r = Disconnect => q = Out,
           kind[c][n] \in {"flush", "disc"} => Joined(c),
           v = "run" => w = "none" /\ kind[c][n] \in Mutating \cup {"read"} /\ serving[c] \notin degraded,
           w = "ok" => /\ kind[c][n] = "flush" /\ serving[c] \notin degraded
                       /\ \A d \in Clients, m \in Numbers : <<d, m, serving[c]>> \in applied => <<d, m, serving[c]>> \in synced'
    PROVE  SesInv'
<1>1. SesTypes /\ Honest(c, n) /\ Barrier(c, n) /\ AfterMark(c, n)
  BY DEF SesInv, RequestInv
<1>2. stage[c][n] = "dispatch"
  BY <1>1 DEF Honest
<1>3. v \in Stages /\ v \notin {"none", "dispatch", "acted", "panicked"}
  BY DEF Done, Stages
<1>4. stage' \in Table(Stages) /\ Becomes(stage, stage', c, n, v)
  BY <1>1, <1>3, StageAt
<1>5. stage'[c][n] = v /\ result'[c][n] = w
  BY <1>4 DEF Becomes
<1>6. rdr \in [Clients -> Numbers \cup {Idle, Out}]
  BY <1>1 DEF SesTypes
<1>7. /\ rdr' \in [Clients -> Numbers \cup {Idle, Out}] /\ rdr'[c] = q
      /\ \A d \in Clients \ {c} : rdr'[d] = rdr[d]
  BY <1>6
<1>8. q \notin Numbers /\ rdr[c] # Out
  BY Marks
<1>9. SesTypes'
  BY <1>1, <1>4, <1>7 DEF SesTypes, Table
<1>10. Placed'
  BY DEF SesInv, Placed
<1>11. Advances
  <2>1. ASSUME NEW d \in Clients, NEW m \in Numbers, stage[d][m] \notin {"none", "dispatch"}
        PROVE  stage'[d][m] = stage[d][m]
    <3>1. d # c \/ m # n
      BY <1>2, <2>1
    <3> QED
      BY <1>4, <3>1 DEF Becomes
  <2> QED
    BY <2>1 DEF Advances
<1>12. \A d \in Clients, m \in Numbers : d # c \/ m # n => Calm(d, m)
  <2>1. ASSUME NEW d \in Clients, NEW m \in Numbers, d # c \/ m # n PROVE rdr'[d] = m <=> rdr[d] = m
    <3>1. CASE d = c
      BY <1>7, <1>8, <2>1, <3>1
    <3>2. CASE d # c
      BY <1>7, <3>2
    <3> QED
      BY <3>1, <3>2
  <2>2. \A d \in Clients, m \in Numbers : d # c \/ m # n => (rdr'[d] = m <=> rdr[d] = m)
    BY <2>1
  <2>3. UNCHANGED <<kind, covers, late, serving>>
    OBVIOUS
  <2> QED
    BY <1>4, <2>2, <2>3, OthersCalm, SMTT(60)
<1>13. RequestInv(c, n)'
  <2>1. /\ kind[c][n] \in Kinds /\ phase[c] \notin {"off", "options"}
        /\ kind[c][n] \notin {"flush", "disc"} => covers[c][n] = {}
    BY <1>1, <1>2 DEF Honest
  <2>2. Honest(c, n)'
    <3>1. kind[c][n] \in Mutating => w # "ok"
      BY DEF Mutating
    <3>2. kind[c][n] = "fua" => w # "ok"
      OBVIOUS
    <3>3. v \in Early => w = "none"
      BY DEF Early, Done
    <3>4. v \in {"run", "acted", "panicked"} => kind[c][n] \in Mutating \cup {"read"}
      BY <1>3
    <3> QED
      BY <1>3, <1>5, <1>7, <1>8, <2>1, <3>1, <3>2, <3>3, <3>4 DEF Honest
  <2>3. ASSUME NEW d \in Clients, NEW m \in Numbers, NEW h \in Handlers, <<d, m, h>> \in covers'[c][n]
        PROVE  stage'[d][m] \notin {"none", "dispatch", "run"}
    <3>1. <<d, m, h>> \in covers[c][n] /\ Joined(c)
      BY <2>1, <2>3
    <3>2. stage[d][m] \notin {"none", "dispatch"} /\ (stage[d][m] = "run" => d = c)
      BY <1>1, <3>1 DEF Barrier
    <3>3. stage[c][m] # "run"
      BY <3>1 DEF Joined, Running
    <3>4. stage[d][m] # "run"
      BY <3>2, <3>3
    <3> QED
      BY <1>11, <3>2, <3>4 DEF Advances
  <2>4. kind'[c][n] = "flush" /\ result'[c][n] = "ok" =>
          \A d \in Clients, m \in Numbers, h \in Handlers :
             <<d, m, h>> \in covers'[c][n] \cap applied' /\ h = serving'[c] => <<d, m, h>> \in synced'
    BY <1>5
  <2>5. ~(kind'[c][n] = "disc" /\ result'[c][n] = "ok")
    BY <1>5
  <2>6. Barrier(c, n)'
    BY <2>3, <2>4, <2>5 DEF Barrier
  <2>7. AfterMark(c, n)'
    <3> SUFFICES ASSUME <<c, n>> \in late PROVE AfterMark(c, n)'
      BY DEF AfterMark
    <3>1. serving[c] \in degraded
      BY <1>1 DEF AfterMark
    <3>2. v \notin {"none", "run"} /\ w # "ok"
      BY <1>3, <3>1
    <3> QED
      BY <1>5, <3>1, <3>2 DEF AfterMark
  <2> QED
    BY <2>2, <2>6, <2>7 DEF RequestInv
<1>14. \A d \in Clients, m \in Numbers : RequestInv(d, m)'
  <2> SUFFICES ASSUME NEW d \in Clients, NEW m \in Numbers PROVE RequestInv(d, m)'
    OBVIOUS
  <2>1. CASE d = c /\ m = n
    BY <1>13, <2>1
  <2>2. CASE d # c \/ m # n
    BY <1>11, <1>12, <2>2, CalmKept DEF SesInv
  <2> QED
    BY <2>1, <2>2
<1>15. ASSUME NEW d \in Clients PROVE SessionInv(d)'
  <2>1. SessionInv(d) /\ SessionInv(c)
    BY DEF SesInv
  <2>2. CASE d # c
    <3>1. \A m \in Numbers : stage'[d][m] = stage[d][m]
      BY <1>4, <2>2 DEF Becomes
    <3> QED
      BY <1>7, <2>1, <2>2, <3>1, SessionKept
  <2>3. CASE d = c
    <3>1. ASSUME NEW m \in Numbers PROVE /\ stage'[c][m] = "none" <=> stage[c][m] = "none"
                                         /\ stage[c][m] \in Done => stage'[c][m] \in Done
      <4>1. CASE m = n
        BY <1>2, <1>3, <1>5, <4>1 DEF Done
      <4>2. CASE m # n
        BY <1>4, <4>2 DEF Becomes
      <4> QED
        BY <4>1, <4>2
    <3>2. Sent(c)' = Sent(c)
      BY <3>1 DEF Sent
    <3>3. r = Disconnect \/ rdr[c] = Out \/ wtr'[c] = "drain" => rdr'[c] = Out
      BY <1>7, <1>8, <2>1 DEF SessionInv
    <3>4. r \in Numbers => stage'[c][r] \in Done
      BY <1>5
    <3> QED
      BY <2>1, <2>3, <3>1, <3>2, <3>3, <3>4, SessionMoves
  <2> QED
    BY <2>2, <2>3
<1> QED
  BY <1>9, <1>10, <1>14, <1>15 DEF SesInv

\* A request gets its task, an invalid one its answer or, cut off, none, and a DISC
\* leaves the drain to the writer.
LEMMA DispatchSteps ==
    ASSUME SesInv, NEW c \in Clients, NEW n \in Numbers,
           Spawn(c, n) \/ AnswerInvalid(c, n) \/ DrainCut(c, n) \/ Disc(c, n)
    PROVE  SesInv'
<1>1. /\ UNCHANGED <<kind, covers, late, serving, current, applied, stored, stale, wtr, synced, degraded>>
      /\ rdr[c] = n
  BY DEF Spawn, AnswerInvalid, DrainCut, Disc, session, export, ghost, writer
<1>2. SesTypes /\ Honest(c, n)
  BY DEF SesInv, RequestInv
<1>3. phase \in [Clients -> Open \cup {"off", "closed"}] /\ chan \in [Clients -> Seq(Numbers \cup {Shutdown, Disconnect})]
  BY <1>2 DEF SesTypes
<1>4. result[c][n] = "none" /\ "none" \in Results /\ "err" \in Results
  BY <1>1, <1>2 DEF Honest, Early, Results
<1>5. CASE Spawn(c, n)
  <2>1. /\ UNCHANGED <<phase, chan>> /\ rdr' = [rdr EXCEPT ![c] = Idle]
        /\ kind[c][n] \in Mutating \cup {"read"}
    BY <1>5 DEF Spawn, session, writer
  <2>2. kind[c][n] \notin {"flush", "disc"}
    BY <2>1 DEF Mutating
  <2>3. InChan(c)' \subseteq InChan(c) \cup {Shutdown} /\ Shutdown \notin Numbers /\ Shutdown # Disconnect
    BY <2>1, Marks DEF InChan
  <2>4. CASE serving[c] \in degraded \/ c \in owed
    <3>1. stage' = Set(stage, c, n, "reply") /\ result' = Set(result, c, n, "err")
      BY <1>5, <2>4 DEF Spawn
    <3>2. result' \in Table(Results) /\ Becomes(result, result', c, n, "err")
      BY <1>2, <1>4, <3>1, ResultAt
    <3> QED
      BY <1>1, <1>3, <1>4, <2>1, <2>2, <2>3, <3>1, <3>2, LeaveDispatch
  <2>5. CASE ~(serving[c] \in degraded \/ c \in owed)
    <3>1. stage' = Set(stage, c, n, "run") /\ result' = result
      BY <1>5, <2>5 DEF Spawn
    <3>2. result' \in Table(Results) /\ Becomes(result, result', c, n, "none")
      BY <1>2, <1>4, <3>1, ResultAt
    <3> QED
      BY <1>1, <1>3, <1>4, <2>1, <2>2, <2>3, <2>5, <3>1, <3>2, LeaveDispatch
  <2> QED
    BY <2>4, <2>5
<1>6. CASE AnswerInvalid(c, n)
  <2>1. /\ UNCHANGED phase /\ rdr' = [rdr EXCEPT ![c] = Idle] /\ kind[c][n] = "bad"
        /\ result' = Set(result, c, n, "err") /\ Push(c, n)
    BY <1>6 DEF AnswerInvalid, session
  <2>2. PICK v \in {"lost", "chan"} : stage' = Set(stage, c, n, v)
    BY <1>6 DEF AnswerInvalid, Sends
  <2>3. v \in Done /\ v # "run"
    BY <2>2 DEF Done
  <2>4. /\ chan' \in [Clients -> Seq(Numbers \cup {Shutdown, Disconnect})]
        /\ InChan(c)' \subseteq InChan(c) \cup {n} /\ \A d \in Clients \ {c} : chan'[d] = chan[d]
    BY <1>2, <2>1, PushHolds
  <2>5. result' \in Table(Results) /\ Becomes(result, result', c, n, "err")
    BY <1>2, <1>4, <2>1, ResultAt
  <2>6. n # Disconnect
    BY Marks
  <2> QED
    BY <1>1, <1>3, <1>4, <2>1, <2>2, <2>3, <2>4, <2>5, <2>6, LeaveDispatch
<1>7. CASE Disc(c, n)
  <2>1. /\ phase' = [phase EXCEPT ![c] = "closing"] /\ rdr' = [rdr EXCEPT ![c] = Out] /\ Joined(c)
        /\ stage' = Set(stage, c, n, "wire") /\ result' = result /\ Push(c, Disconnect)
    BY <1>7 DEF Disc
  <2>2. phase' \in [Clients -> Open \cup {"off", "closed"}] /\ \A d \in Clients : phase'[d] \in {phase[d], "closing"}
    BY <1>3, <2>1 DEF Open
  <2>3. "wire" \in Done
    BY DEF Done
  <2>4. /\ chan' \in [Clients -> Seq(Numbers \cup {Shutdown, Disconnect})]
        /\ InChan(c)' \subseteq InChan(c) \cup {Disconnect} /\ \A d \in Clients \ {c} : chan'[d] = chan[d]
    BY <1>2, <2>1, PushHolds
  <2>5. result' \in Table(Results) /\ Becomes(result, result', c, n, "none")
    BY <1>2, <1>4, <2>1, ResultAt
  <2>6. Disconnect \notin Numbers
    BY Marks
  <2> QED
    BY <1>1, <1>4, <2>1, <2>2, <2>3, <2>4, <2>5, <2>6, LeaveDispatch
<1>8. CASE DrainCut(c, n)
  <2>1. /\ phase' = [phase EXCEPT ![c] = "closing"] /\ rdr' = [rdr EXCEPT ![c] = Out] /\ kind[c][n] = "bad"
        /\ stage' = Set(stage, c, n, "lost") /\ result' = result /\ UNCHANGED chan
    BY <1>8 DEF DrainCut, writer
  <2>2. phase' \in [Clients -> Open \cup {"off", "closed"}] /\ \A d \in Clients : phase'[d] \in {phase[d], "closing"}
    BY <1>3, <2>1 DEF Open
  <2>3. "lost" \in Done
    BY DEF Done
  <2>4. InChan(c)' \subseteq InChan(c) \cup {Shutdown} /\ Shutdown \notin Numbers /\ Shutdown # Disconnect
    BY <2>1, Marks DEF InChan
  <2>5. result' \in Table(Results) /\ Becomes(result, result', c, n, "none")
    BY <1>2, <1>4, <2>1, ResultAt
  <2> QED
    BY <1>1, <1>3, <1>4, <2>1, <2>2, <2>3, <2>4, <2>5, LeaveDispatch
<1> QED
  BY <1>5, <1>6, <1>7, <1>8

\* FLUSH: handler.flush syncs what its handler has applied, fails, or panics.
LEMMA FlushStep ==
    ASSUME SesInv, NEW c \in Clients, NEW n \in Numbers, Flush(c, n)
    PROVE  SesInv'
<1>1. /\ UNCHANGED <<kind, covers, late, serving, current, applied, stored, stale, wtr, phase>>
      /\ rdr[c] = n /\ kind[c][n] = "flush" /\ Joined(c) /\ rdr' = [rdr EXCEPT ![c] = Idle] /\ Push(c, n)
  BY DEF Flush, session, ghost
<1>2. SesTypes
  BY DEF SesInv
<1>3. phase \in [Clients -> Open \cup {"off", "closed"}]
  BY <1>2 DEF SesTypes
<1>4. PICK v \in {"lost", "chan"} : stage' = Set(stage, c, n, v)
  BY DEF Flush, Sends
<1>5. v \in Done /\ v # "run" /\ n # Disconnect
  BY <1>4, Marks DEF Done
<1>6. /\ chan' \in [Clients -> Seq(Numbers \cup {Shutdown, Disconnect})]
      /\ InChan(c)' \subseteq InChan(c) \cup {n} /\ \A d \in Clients \ {c} : chan'[d] = chan[d]
  BY <1>1, <1>2, PushHolds
<1>7. PICK how \in {"ok", "err", "panic"} :
          /\ serving[c] \in degraded => how = "err"
          /\ result' = Set(result, c, n, IF how = "ok" THEN "ok" ELSE "err")
          /\ synced' = IF how = "ok" THEN synced \cup {w \in applied : w[3] = serving[c]} ELSE synced
          /\ degraded' = IF how = "panic" THEN degraded \cup {serving[c]} ELSE degraded
  BY DEF Flush
<1>8. synced \subseteq synced' /\ degraded \subseteq degraded' /\ "ok" \in Results /\ "err" \in Results
  BY <1>7 DEF Results
<1>9. CASE how = "ok"
  <2>1. /\ result' = Set(result, c, n, "ok") /\ serving[c] \notin degraded
        /\ synced' = synced \cup {w \in applied : w[3] = serving[c]}
    BY <1>7, <1>9
  <2>2. result' \in Table(Results) /\ Becomes(result, result', c, n, "ok")
    BY <1>2, <1>8, <2>1, ResultAt
  <2>3. \A d \in Clients, m \in Numbers : <<d, m, serving[c]>> \in applied => <<d, m, serving[c]>> \in synced'
    BY <2>1
  <2> QED
    BY <1>1, <1>3, <1>4, <1>5, <1>6, <1>8, <2>1, <2>2, <2>3, LeaveDispatch
<1>10. CASE how # "ok"
  <2>1. result' = Set(result, c, n, "err")
    BY <1>7, <1>10
  <2>2. result' \in Table(Results) /\ Becomes(result, result', c, n, "err")
    BY <1>2, <1>8, <2>1, ResultAt
  <2> QED
    BY <1>1, <1>3, <1>4, <1>5, <1>6, <1>8, <2>2, LeaveDispatch
<1> QED
  BY <1>9, <1>10

\* The request that is read is the first that was not: requests are read in order.
LEMMA NextNumber ==
    ASSUME NEW c \in Clients, NEW n \in Numbers, NEW k \in Nat, Sent(c) = 1 .. k, n = Cardinality(Sent(c)) + 1
    PROVE  n = k + 1 /\ n \notin Sent(c) /\ Sent(c) \cup {n} = 1 .. n /\ n \in Nat
<1>1. Cardinality(1 .. k) = k
  <2>1. Cardinality(1 .. k) = IF 1 > k THEN 0 ELSE k - 1 + 1
    BY FS_Interval, SMTT(60)
  <2> QED
    BY <2>1, SMTT(60)
<1>2. n = k + 1
  BY <1>1
<1> QED
  BY <1>2, SMTT(60)

\* What a barrier is to cover when it is read: mutations that were read before, and
\* only those of its own session may still be running.
LEMMA KnownHolds ==
    ASSUME SesInv, NEW c \in Clients, rdr[c] = Idle
    PROVE  /\ Known(c) \in SUBSET (Clients \X Numbers \X Handlers)
           /\ \A d \in Clients, m \in Numbers, h \in Handlers : <<d, m, h>> \in Known(c) =>
                 stage[d][m] \notin {"none", "dispatch"} /\ (stage[d][m] = "run" => d = c)
<1>1. serving \in [Clients -> Handlers]
  BY DEF SesInv, SesTypes
<1>2. ASSUME NEW w \in Known(c)
      PROVE  \E d \in Clients, m \in Numbers :
                /\ w = <<d, m, serving[d]>>
                /\ (d = c /\ stage[c][m] # "none") \/ stage[d][m] = "wire"
  <2>1. PICK q \in Clients \X Numbers :
            /\ w = Item(q[1], q[2])
            /\ (q[1] = c /\ stage[c][q[2]] # "none") \/ stage[q[1]][q[2]] = "wire"
    BY <1>2 DEF Known
  <2>2. q[1] \in Clients /\ q[2] \in Numbers
    BY <2>1
  <2> QED
    BY <2>1, <2>2 DEF Item
<1>3. Known(c) \in SUBSET (Clients \X Numbers \X Handlers)
  <2>1. ASSUME NEW w \in Known(c) PROVE w \in Clients \X Numbers \X Handlers
    <3>1. PICK d \in Clients, m \in Numbers : w = <<d, m, serving[d]>>
      BY <1>2, <2>1
    <3>2. serving[d] \in Handlers
      BY <1>1
    <3> QED
      BY <3>1, <3>2
  <2> QED
    BY <2>1
<1>4. ASSUME NEW d \in Clients, NEW m \in Numbers, NEW h \in Handlers, <<d, m, h>> \in Known(c)
      PROVE  stage[d][m] \notin {"none", "dispatch"} /\ (stage[d][m] = "run" => d = c)
  <2>1. PICK e \in Clients, j \in Numbers :
            /\ <<d, m, h>> = <<e, j, serving[e]>>
            /\ (e = c /\ stage[c][j] # "none") \/ stage[e][j] = "wire"
    BY <1>2, <1>4
  <2>2. d = e /\ m = j
    BY <2>1
  <2>3. CASE stage[d][m] = "wire"
    BY <2>3
  <2>4. CASE d = c /\ stage[c][m] # "none"
    <3>1. rdr[c] # m /\ Honest(c, m)
      BY Marks DEF SesInv, RequestInv
    <3> QED
      BY <2>4, <3>1 DEF Honest
  <2> QED
    BY <2>1, <2>2, <2>3, <2>4
<1> QED
  BY <1>3, <1>4

\* The next request header is read.
LEMMA ReadStep ==
    ASSUME SesInv, NEW c \in Clients, NEW n \in Numbers, NEW k \in Kinds, ReadRequest(c, n, k)
    PROVE  SesInv'
<1>1. /\ phase[c] = "trans" /\ rdr[c] = Idle /\ n = Cardinality(Sent(c)) + 1
      /\ rdr' = [rdr EXCEPT ![c] = n] /\ kind' = Set(kind, c, n, k) /\ stage' = Set(stage, c, n, "dispatch")
      /\ covers' = IF k \in {"flush", "disc"} THEN Set(covers, c, n, Known(c)) ELSE covers
      /\ late' = IF serving[c] \in degraded THEN late \cup {<<c, n>>} ELSE late
      /\ UNCHANGED <<phase, serving, result, chan, wtr, current, applied, synced, stored, degraded, stale>>
  BY DEF ReadRequest, session, writer, export
<1>2. SesTypes /\ SessionInv(c) /\ Honest(c, n) /\ late \subseteq Clients \X Numbers
  BY DEF SesInv, RequestInv
<1>3. PICK j \in Nat : Sent(c) = 1 .. j
  BY <1>2 DEF SessionInv
<1>4. n \notin Sent(c) /\ Sent(c) \cup {n} = 1 .. n /\ n \in Nat
  BY <1>1, <1>3, NextNumber, SMTT(60)
<1>5. stage[c][n] = "none"
  BY <1>4 DEF Sent
<1>6. result[c][n] = "none" /\ kind[c][n] = "none" /\ covers[c][n] = {}
  BY <1>2, <1>5 DEF Honest, Early
<1>7. stage' \in Table(Stages) /\ Becomes(stage, stage', c, n, "dispatch")
  BY <1>1, <1>2, StageAt DEF Stages
<1>8. kind' \in Table(Kinds \cup {"none"}) /\ Becomes(kind, kind', c, n, k)
  <2>1. kind \in Table(Kinds \cup {"none"})
    BY <1>2 DEF SesTypes, Table
  <2>2. k \in Kinds \cup {"none"}
    OBVIOUS
  <2> QED
    BY <1>1, <2>1, <2>2, SetAt
<1>9. PICK v \in SUBSET (Clients \X Numbers \X Handlers) :
          /\ covers' \in Table(SUBSET (Clients \X Numbers \X Handlers)) /\ Becomes(covers, covers', c, n, v)
          /\ k \notin {"flush", "disc"} => v = {}
          /\ v = {} \/ v = Known(c)
  <2>1. covers \in Table(SUBSET (Clients \X Numbers \X Handlers))
    BY <1>2 DEF SesTypes, Table
  <2>2. CASE k \in {"flush", "disc"}
    <3>1. covers' = Set(covers, c, n, Known(c)) /\ Known(c) \in SUBSET (Clients \X Numbers \X Handlers)
      BY <1>1, <2>2, KnownHolds
    <3> QED
      BY <2>1, <2>2, <3>1, SetAt
  <2>3. CASE k \notin {"flush", "disc"}
    <3>1. covers' = covers /\ {} \in SUBSET (Clients \X Numbers \X Handlers)
      BY <1>1, <2>3
    <3> QED
      BY <1>6, <2>1, <3>1 DEF Becomes
  <2> QED
    BY <2>2, <2>3
<1>10. /\ rdr' \in [Clients -> Numbers \cup {Idle, Out}] /\ rdr'[c] = n
       /\ \A d \in Clients \ {c} : rdr'[d] = rdr[d]
  <2>1. rdr \in [Clients -> Numbers \cup {Idle, Out}]
    BY <1>2 DEF SesTypes
  <2> QED
    BY <1>1, <2>1
<1>11. SesTypes'
  BY <1>1, <1>2, <1>7, <1>8, <1>9, <1>10 DEF SesTypes, Table
<1>12. Placed' /\ late' \subseteq Clients \X Numbers
  <2>1. Placed'
    BY <1>1 DEF SesInv, Placed
  <2>2. <<c, n>> \in Clients \X Numbers
    OBVIOUS
  <2>3. late' \subseteq late \cup {<<c, n>>}
    BY <1>1
  <2> QED
    BY <1>2, <2>1, <2>2, <2>3
<1>13. Advances
  <2>1. ASSUME NEW d \in Clients, NEW m \in Numbers, stage[d][m] \notin {"none", "dispatch"}
        PROVE  stage'[d][m] = stage[d][m]
    <3>1. d # c \/ m # n
      BY <1>5, <2>1
    <3> QED
      BY <1>7, <3>1 DEF Becomes
  <2> QED
    BY <1>1, <2>1 DEF Advances
<1>14. ASSUME NEW d \in Clients, NEW m \in Numbers, d # c \/ m # n PROVE RequestInv(d, m)'
  <2>1. kind'[d][m] = kind[d][m] /\ stage'[d][m] = stage[d][m] /\ covers'[d][m] = covers[d][m]
    BY <1>7, <1>8, <1>9, <1>14 DEF Becomes
  <2>2. rdr'[d] = m <=> rdr[d] = m
    <3>1. CASE d = c
      <4>1. m # n /\ rdr[c] # m
        BY <1>1, <1>14, <3>1, Marks
      <4> QED
        BY <1>10, <3>1, <4>1
    <3>2. CASE d # c
      BY <1>10, <3>2
    <3> QED
      BY <3>1, <3>2
  <2>3. <<d, m>> \in late' => <<d, m>> \in late
    <3>1. <<d, m>> # <<c, n>>
      BY <1>14
    <3> QED
      BY <1>1, <3>1
  <2>4. RequestInv(d, m)
    BY DEF SesInv
  <2>5. stage[d][m] # "none" => phase'[d] \notin {"off", "options"}
    BY <1>1, <2>4 DEF RequestInv, Honest
  <2>6. Calm(d, m)
    BY <1>1, <2>1, <2>2, <2>3, <2>5 DEF Calm
  <2> QED
    BY <1>13, <2>4, <2>6, CalmKept
<1>15. RequestInv(c, n)'
  <2>1. stage'[c][n] = "dispatch" /\ kind'[c][n] = k /\ covers'[c][n] = v /\ result'[c][n] = "none"
    BY <1>1, <1>6, <1>7, <1>8, <1>9 DEF Becomes
  <2>2. Honest(c, n)'
    BY <1>1, <1>9, <1>10, <2>1 DEF Honest, Early
  <2>3. ASSUME NEW d \in Clients, NEW m \in Numbers, NEW h \in Handlers, <<d, m, h>> \in covers'[c][n]
        PROVE  /\ stage'[d][m] \notin {"none", "dispatch"}
               /\ stage'[d][m] = "run" => d = c /\ stage'[c][n] = "dispatch"
    <3>1. <<d, m, h>> \in Known(c)
      BY <1>9, <2>1, <2>3
    <3>2. stage[d][m] \notin {"none", "dispatch"} /\ (stage[d][m] = "run" => d = c)
      BY <1>1, <3>1, KnownHolds
    <3> QED
      BY <1>13, <2>1, <3>2 DEF Advances
  <2>4. Barrier(c, n)'
    BY <2>1, <2>3 DEF Barrier
  <2>5. <<c, n>> \in late' => serving'[c] \in degraded'
    <3>1. CASE serving[c] \in degraded
      BY <1>1, <3>1
    <3>2. CASE serving[c] \notin degraded
      <4>1. <<c, n>> \notin late
        BY <3>2 DEF SesInv, RequestInv, AfterMark
      <4> QED
        BY <1>1, <3>2, <4>1
    <3> QED
      BY <3>1, <3>2
  <2>6. AfterMark(c, n)'
    BY <2>1, <2>5 DEF AfterMark
  <2> QED
    BY <2>2, <2>4, <2>6 DEF RequestInv
<1>16. \A d \in Clients, m \in Numbers : RequestInv(d, m)'
  BY <1>14, <1>15
<1>17. ASSUME NEW d \in Clients PROVE SessionInv(d)'
  <2>1. SessionInv(d)
    BY DEF SesInv
  <2>2. CASE d # c
    <3>1. \A m \in Numbers : stage'[d][m] = stage[d][m]
      BY <1>7, <2>2 DEF Becomes
    <3> QED
      BY <1>1, <1>10, <2>1, <2>2, <3>1, SessionKept
  <2>3. CASE d = c
    <3>1. Sent(c)' = Sent(c) \cup {n}
      <4>1. ASSUME NEW m \in Numbers PROVE stage'[c][m] # "none" <=> stage[c][m] # "none" \/ m = n
        <5>1. CASE m = n
          BY <1>7, <5>1 DEF Becomes
        <5>2. CASE m # n
          BY <1>7, <5>2 DEF Becomes
        <5> QED
          BY <5>1, <5>2
      <4> QED
        BY <4>1 DEF Sent
    <3>2. \E i \in Nat : Sent(c)' = 1 .. i
      BY <1>4, <3>1
    <3>3. InChan(c)' = InChan(c) /\ wtr'[c] = wtr[c]
      BY <1>1 DEF InChan
    <3>4. \A m \in Numbers : m \in InChan(c)' => stage'[c][m] \in Done
      <4> SUFFICES ASSUME NEW m \in Numbers, m \in InChan(c) PROVE stage'[c][m] \in Done
        BY <3>3
      <4>1. stage[c][m] \in Done
        BY <1>2 DEF SessionInv
      <4>2. m # n
        BY <1>5, <4>1 DEF Done
      <4> QED
        BY <1>7, <4>1, <4>2 DEF Becomes
    <3>5. ~(Disconnect \in InChan(c)' \/ wtr'[c] = "drain")
      BY <1>1, <1>2, <3>3, Marks DEF SessionInv
    <3> QED
      BY <2>3, <3>2, <3>4, <3>5 DEF SessionInv
  <2> QED
    BY <2>2, <2>3
<1> QED
  BY <1>11, <1>12, <1>16, <1>17 DEF SesInv

--------------------------------------------------------------------------------
(* The drains.                                                             *)

\* DISC's drain: the reader has returned, so all the session sent has acted, and
\* what is in the handler the router has goes to S3.
LEMMA DrainStep ==
    ASSUME SesInv, NEW c \in Clients, DrainExport(c)
    PROVE  SesInv'
<1>1. /\ wtr[c] = "drain" /\ WriterEnds(c)
      /\ UNCHANGED <<kind, stage, covers, late, stale, phase, serving, rdr, current, applied, synced, degraded>>
  BY DEF DrainExport, session, ghost
<1>2. SesTypes /\ SessionInv(c) /\ Placed
  BY DEF SesInv
<1>3. PICK ok \in BOOLEAN :
          /\ stored' = IF ok THEN stored \cup {w \in applied : w[3] = current} ELSE stored
          /\ result' = [result EXCEPT ![c] = [n \in Numbers |->
                           IF kind[c][n] = "disc" THEN (IF ok THEN "ok" ELSE "err") ELSE result[c][n]]]
  BY DEF DrainExport
<1>4. PICK r \in Results \ {"none"} : r = IF ok THEN "ok" ELSE "err"
  BY DEF Results
<1>5. rdr[c] = Out
  BY <1>1, <1>2 DEF SessionInv
<1>6. result \in [Clients -> [Numbers -> Results]]
  BY <1>2 DEF SesTypes
<1>7. /\ result' \in [Clients -> [Numbers -> Results]]
      /\ \A n \in Numbers : result'[c][n] = IF kind[c][n] = "disc" THEN r ELSE result[c][n]
      /\ \A d \in Clients \ {c} : result'[d] = result[d]
  <2>1. [n \in Numbers |-> IF kind[c][n] = "disc" THEN r ELSE result[c][n]] \in [Numbers -> Results]
    BY <1>6
  <2>2. result' = [result EXCEPT ![c] = [n \in Numbers |-> IF kind[c][n] = "disc" THEN r ELSE result[c][n]]]
    BY <1>3, <1>4
  <2> QED
    BY <1>6, <2>1, <2>2
<1>8. /\ chan' \in [Clients -> Seq(Numbers \cup {Shutdown, Disconnect})]
      /\ InChan(c)' \subseteq InChan(c)
      /\ wtr' \in [Clients -> {"run", "drain", "gone"}] /\ wtr'[c] = "gone"
      /\ \A d \in Clients \ {c} : chan'[d] = chan[d] /\ wtr'[d] = wtr[d]
  BY <1>1, <1>2, EndHolds
<1>9. SesTypes'
  BY <1>1, <1>2, <1>7, <1>8 DEF SesTypes
<1>10. stored \subseteq stored'
  BY <1>3
<1>11. Placed' /\ late' \subseteq Clients \X Numbers
  BY <1>1, <1>2, <1>10 DEF Placed, SesInv
<1>12. Advances
  BY <1>1, <1>10 DEF Advances
<1>13. ASSUME NEW d \in Clients, NEW m \in Numbers, d # c \/ kind[d][m] # "disc" PROVE RequestInv(d, m)'
  <2>1. RequestInv(d, m)
    BY DEF SesInv
  <2>2. result'[d][m] = result[d][m]
    BY <1>7, <1>13
  <2>3. stage[d][m] # "none" => phase'[d] \notin {"off", "options"}
    BY <1>1, <2>1 DEF RequestInv, Honest
  <2>4. Calm(d, m)
    BY <1>1, <2>2, <2>3 DEF Calm
  <2> QED
    BY <1>12, <2>1, <2>4, CalmKept
<1>14. ASSUME NEW n \in Numbers, kind[c][n] = "disc" PROVE RequestInv(c, n)'
  <2>1. Honest(c, n) /\ Barrier(c, n) /\ AfterMark(c, n)
    BY DEF SesInv, RequestInv
  <2>2. stage[c][n] \notin Early
    BY <1>5, <1>14, <2>1, Marks DEF Honest, Early, Mutating
  <2>3. result'[c][n] = r
    BY <1>7, <1>14
  <2>4. Honest(c, n)'
    BY <1>1, <1>14, <2>1, <2>2 DEF Honest, Mutating, Early
  <2>5. \A d \in Clients, m \in Numbers, h \in Handlers : <<d, m, h>> \in covers'[c][n] =>
             /\ stage'[d][m] \notin {"none", "dispatch"}
             /\ stage'[d][m] = "run" => d = c /\ stage'[c][n] = "dispatch"
    BY <1>1, <2>1 DEF Barrier
  <2>6. ASSUME r = "ok", NEW d \in Clients, NEW m \in Numbers, NEW h \in Handlers, <<d, m, h>> \in applied \ stale
        PROVE  <<d, m, h>> \in stored'
    <3>1. stored' = stored \cup {w \in applied : w[3] = current}
      BY <1>3, <1>4, <2>6
    <3>2. h = current \/ <<d, m, h>> \in stored
      BY <1>2, <2>6 DEF Placed
    <3>3. <<d, m, h>>[3] = h
      OBVIOUS
    <3> QED
      BY <2>6, <3>1, <3>2, <3>3
  <2>7. kind'[c][n] = "disc" /\ result'[c][n] = "ok" =>
          \A d \in Clients, m \in Numbers, h \in Handlers :
             <<d, m, h>> \in (covers'[c][n] \cap applied') \ stale' => <<d, m, h>> \in stored'
    BY <1>1, <2>3, <2>6
  <2>8. Barrier(c, n)'
    BY <1>1, <1>14, <2>5, <2>7 DEF Barrier
  <2>9. AfterMark(c, n)'
    BY <1>1, <1>14, <2>1 DEF AfterMark, Mutating
  <2> QED
    BY <2>4, <2>8, <2>9 DEF RequestInv
<1>15. \A d \in Clients, m \in Numbers : RequestInv(d, m)'
  BY <1>13, <1>14
<1>16. ASSUME NEW d \in Clients PROVE SessionInv(d)'
  <2>1. SessionInv(d)
    BY DEF SesInv
  <2>2. CASE d # c
    BY <1>1, <1>8, <2>1, <2>2, SessionKept
  <2>3. CASE d = c
    <3>1. Sent(c)' = Sent(c)
      BY <1>1 DEF Sent
    <3>2. \A m \in Numbers : m \in InChan(c)' => stage'[c][m] \in Done
      BY <1>1, <1>2, <1>8 DEF SessionInv
    <3> QED
      BY <1>1, <1>2, <1>5, <2>3, <3>1, <3>2 DEF SessionInv
  <2> QED
    BY <2>2, <2>3
<1> QED
  BY <1>9, <1>11, <1>15, <1>16 DEF SesInv

\* resize_export drains the handler that it replaces.
LEMMA ReplaceStep ==
    ASSUME SesInv, ReplaceHandler
    PROVE  SesInv'
<1>1. /\ current = 1 /\ current' = 2 /\ stored' = stored \cup {w \in applied : w[3] = 1}
      /\ UNCHANGED <<kind, stage, result, covers, late, stale, phase, serving, rdr, chan, wtr, applied, synced, degraded>>
  BY DEF ReplaceHandler, session, requests, writer, ghost
<1>2. SesTypes /\ Placed
  BY DEF SesInv
<1>3. SesTypes'
  BY <1>1, <1>2 DEF SesTypes
<1>4. Placed'
  <2> SUFFICES ASSUME NEW d \in Clients, NEW m \in Numbers, NEW h \in Handlers, <<d, m, h>> \in applied \ stale
               PROVE  <<d, m, h>> \in stored'
    BY <1>1 DEF Placed
  <2>1. h = 1 \/ <<d, m, h>> \in stored
    BY <1>1, <1>2 DEF Placed
  <2>2. <<d, m, h>>[3] = h
    OBVIOUS
  <2> QED
    BY <1>1, <2>1, <2>2
<1>5. Advances
  BY <1>1 DEF Advances
<1>6. ASSUME NEW d \in Clients, NEW m \in Numbers PROVE RequestInv(d, m)'
  <2>1. RequestInv(d, m)
    BY DEF SesInv
  <2>2. stage[d][m] # "none" => phase'[d] \notin {"off", "options"}
    BY <1>1, <2>1 DEF RequestInv, Honest
  <2>3. Calm(d, m)
    BY <1>1, <2>2 DEF Calm
  <2> QED
    BY <1>5, <2>1, <2>3, CalmKept
<1>7. \A d \in Clients : SessionInv(d)'
  BY <1>1, SessionKept DEF SesInv
<1> QED
  BY <1>1, <1>3, <1>4, <1>6, <1>7 DEF SesInv

--------------------------------------------------------------------------------
(* The invariant.                                                          *)

\* Before the first connection there are no requests and no effects.
LEMMA SesInit_Inv == SesInit => SesInv
<1> SUFFICES ASSUME SesInit PROVE SesInv
  OBVIOUS
<1>1. /\ phase = [c \in Clients |-> "off"] /\ serving = [c \in Clients |-> 0] /\ rdr = [c \in Clients |-> Idle]
      /\ kind = [c \in Clients |-> [n \in Numbers |-> "none"]] /\ stage = kind /\ result = kind
      /\ chan = [c \in Clients |-> <<>>] /\ wtr = [c \in Clients |-> "run"] /\ current = 1
      /\ applied = {} /\ covers = [c \in Clients |-> [n \in Numbers |-> {}]] /\ late = {}
  BY DEF SesInit
<1>2. SesTypes
  <2>1. <<>> \in Seq(Numbers \cup {Shutdown, Disconnect})
    BY EmptyHolds
  <2>2. "none" \in Kinds \cup {"none"} /\ "none" \in Stages /\ "none" \in Results /\ 0 \in Handlers
    BY DEF Kinds, Stages, Results, Handlers
  <2>3. /\ kind \in [Clients -> [Numbers -> Kinds \cup {"none"}]] /\ stage \in [Clients -> [Numbers -> Stages]]
        /\ result \in [Clients -> [Numbers -> Results]] /\ serving \in [Clients -> Handlers]
    BY <1>1, <2>2
  <2>4. chan \in [Clients -> Seq(Numbers \cup {Shutdown, Disconnect})]
    BY <1>1, <2>1
  <2>5. covers \in [Clients -> [Numbers -> SUBSET (Clients \X Numbers \X Handlers)]]
    BY <1>1
  <2> QED
    BY <1>1, <2>3, <2>4, <2>5 DEF SesTypes
<1>3. \A c \in Clients, n \in Numbers : kind[c][n] = "none" /\ stage[c][n] = "none" /\ result[c][n] = "none" /\ covers[c][n] = {}
  BY <1>1
<1>4. ASSUME NEW c \in Clients PROVE SessionInv(c)
  <2>1. Sent(c) = {}
    BY <1>3 DEF Sent
  <2>2. {} = 1 .. 0 /\ 0 \in Nat
    BY SMTT(60)
  <2>3. InChan(c) = {}
    BY <1>1, EmptyHolds DEF InChan
  <2> QED
    BY <1>1, <2>1, <2>2, <2>3 DEF SessionInv
<1>5. ASSUME NEW c \in Clients, NEW n \in Numbers PROVE RequestInv(c, n)
  <2>1. rdr[c] # n
    BY <1>1, Marks
  <2> QED
    BY <1>1, <1>3, <2>1 DEF RequestInv, Honest, Barrier, AfterMark, Mutating, Early
<1> QED
  BY <1>1, <1>2, <1>4, <1>5 DEF SesInv, Placed

\* Every step keeps the invariant.
LEMMA SesNext_Inv == SesInv /\ [SesNext]_sesVars => SesInv'
<1> SUFFICES ASSUME SesInv, [SesNext]_sesVars PROVE SesInv'
  OBVIOUS
<1>1. CASE UNCHANGED sesVars \/ ServerStops \/ \E c \in Clients : SendPayload(c)
  <2>1. /\ UNCHANGED <<requests, export, covers, late, stale, rdr, writer>> /\ UNCHANGED <<phase, serving>>
    BY <1>1 DEF sesVars, ServerStops, SendPayload, session, ghost
  <2>2. \A d \in Clients, m \in Numbers : stage[d][m] # "none" => phase[d] \notin {"off", "options"}
    BY DEF SesInv, RequestInv, Honest
  <2> QED
    BY <2>1, <2>2, PhaseMoves DEF SesInv, SesTypes
<1>2. ASSUME NEW c \in Clients, Accept(c) \/ ChooseExport(c) \/ LeaveOptions(c) \/ CloseSession(c) \/ ClientVanishes(c)
      PROVE  SesInv'
  BY <1>2, ConnectionSteps
<1>3. ASSUME NEW c \in Clients, NEW n \in Numbers, NEW k \in {"read", "write", "fua", "flush", "disc", "bad"}, ReadRequest(c, n, k)
      PROVE  SesInv'
  BY <1>3, ReadStep DEF Kinds
<1>4. ASSUME NEW c \in Clients, NEW n \in Numbers, Step(c, n) PROVE SesInv'
  <2>1. CASE Spawn(c, n) \/ AnswerInvalid(c, n) \/ DrainCut(c, n) \/ Disc(c, n)
    BY <2>1, DispatchSteps
  <2>2. CASE Flush(c, n)
    BY <2>2, FlushStep
  <2>3. CASE Act(c, n)
    BY <2>3, ActStep
  <2>4. CASE ForceUnitAccess(c, n)
    BY <2>4, ForceUnitAccessStep
  <2>5. CASE MarkDegraded(c, n)
    BY <2>5, PanicSteps
  <2>6. CASE Respond(c, n)
    BY <2>6, RespondStep
  <2> QED
    BY <1>4, <2>1, <2>2, <2>3, <2>4, <2>5, <2>6 DEF Step
<1>5. ASSUME NEW c \in Clients, NEW n \in Numbers, Panic(c, n) PROVE SesInv'
  BY <1>5, PanicSteps
<1>6. ASSUME NEW c \in Clients, LeaveReader(c) \/ Garbled(c) PROVE SesInv'
  BY <1>6, ReaderLeaves
<1>7. ASSUME NEW c \in Clients,
             WriteReply(c) \/ FlushReplies(c) \/ WriterShutdown(c) \/ WriterDisconnect(c) \/ WriterClosed(c)
      PROVE  SesInv'
  BY <1>7, WriterSteps
<1>8. ASSUME NEW c \in Clients, DrainExport(c) PROVE SesInv'
  BY <1>8, DrainStep
<1>9. CASE ReplaceHandler
  BY <1>9, ReplaceStep
<1> QED
  BY <1>1, <1>2, <1>3, <1>4, <1>5, <1>6, <1>7, <1>8, <1>9 DEF SesNext, Progress

--------------------------------------------------------------------------------
(* Permits.                                                                *)

\* The sessions that hold a permit.
Holders == {c \in Clients : phase[c] \in {"options", "trans", "closing"}}

\* The reader has a request only in transmission, so a DISC does not reopen a
\* session that gave its permit back.
PermitInv ==
    /\ PermitsReturn
    /\ \A c \in Clients : rdr[c] \in Numbers => phase[c] = "trans"

\* Permits move with the sessions that hold them: one is taken, given back, or
\* none changes hands.
LEMMA PermitMoves ==
    ASSUME PermitsReturn, NEW c \in Clients,
           \/ permits' = permits /\ Holders' = Holders
           \/ permits' = permits - 1 /\ c \notin Holders /\ Holders' = Holders \cup {c}
           \/ permits' = permits + 1 /\ c \in Holders /\ Holders' = Holders \ {c}
    PROVE  PermitsReturn'
<1>1. IsFiniteSet(Holders)
  <2>1. Holders \subseteq Clients
    BY DEF Holders
  <2> QED
    BY <2>1, SessionBounds, FS_Subset
<1>2. Cardinality(Holders) \in Nat /\ permits = Budget - Cardinality(Holders) /\ Budget \in Nat
  BY <1>1, FS_CardinalityType, SessionBounds DEF PermitsReturn, Holders
<1>3. permits' = Budget - Cardinality(Holders') => PermitsReturn'
  BY DEF PermitsReturn, Holders
<1>4. CASE permits' = permits /\ Holders' = Holders
  BY <1>2, <1>3, <1>4
<1>5. CASE permits' = permits - 1 /\ c \notin Holders /\ Holders' = Holders \cup {c}
  <2>1. Cardinality(Holders \cup {c}) = Cardinality(Holders) + 1
    BY <1>1, <1>5, FS_AddElement
  <2>2. permits' = Budget - Cardinality(Holders')
    BY <1>2, <1>5, <2>1, SMTT(60)
  <2> QED
    BY <1>3, <2>2
<1>6. CASE permits' = permits + 1 /\ c \in Holders /\ Holders' = Holders \ {c}
  <2>1. Cardinality(Holders \ {c}) = Cardinality(Holders) - 1
    BY <1>1, <1>6, FS_RemoveElement
  <2>2. permits' = Budget - Cardinality(Holders')
    BY <1>2, <1>6, <2>1, SMTT(60)
  <2> QED
    BY <1>3, <2>2
<1> QED
  BY <1>4, <1>5, <1>6

\* A session that enters another phase holds a permit after it, or does not.
LEMMA HoldersMove ==
    ASSUME SesInv, NEW c \in Clients, NEW q, phase' = [phase EXCEPT ![c] = q]
    PROVE  /\ \A d \in Clients \ {c} : phase'[d] = phase[d]
           /\ phase'[c] = q
           /\ q \in {"options", "trans", "closing"} => Holders' = Holders \cup {c}
           /\ q \notin {"options", "trans", "closing"} => Holders' = Holders \ {c}
<1>1. phase \in [Clients -> Open \cup {"off", "closed"}]
  BY DEF SesInv, SesTypes
<1>2. phase'[c] = q /\ \A d \in Clients \ {c} : phase'[d] = phase[d]
  BY <1>1
<1>3. ASSUME NEW d \in Clients, d # c PROVE d \in Holders' <=> d \in Holders
  BY <1>2, <1>3 DEF Holders
<1>4. c \in Holders' <=> q \in {"options", "trans", "closing"}
  BY <1>2 DEF Holders
<1>5. Holders \subseteq Clients /\ Holders' \subseteq Clients
  BY DEF Holders
<1> QED
  BY <1>2, <1>3, <1>4, <1>5

\* The reader of one session moves.
LEMMA ReaderMoves ==
    ASSUME SesInv, NEW c \in Clients, NEW q \in Numbers \cup {Idle, Out}, rdr' = [rdr EXCEPT ![c] = q]
    PROVE  rdr'[c] = q /\ \A d \in Clients \ {c} : rdr'[d] = rdr[d]
<1>1. rdr \in [Clients -> Numbers \cup {Idle, Out}]
  BY DEF SesInv, SesTypes
<1> QED
  BY <1>1

\* Every step keeps the permits with the sessions that are not over.
LEMMA SesNext_Permits == SesInv /\ PermitInv /\ [SesNext]_sesVars => PermitInv'
<1> SUFFICES ASSUME SesInv, PermitInv, [SesNext]_sesVars PROVE PermitInv'
  OBVIOUS
<1>1. PermitsReturn /\ \A d \in Clients : rdr[d] \in Numbers => phase[d] = "trans"
  BY DEF PermitInv
<1>2. Idle \notin Numbers /\ Out \notin Numbers
  BY Marks
<1>3. ASSUME UNCHANGED <<phase, permits, rdr>> PROVE PermitInv'
  BY <1>1, <1>3 DEF PermitInv, PermitsReturn
<1>4. ASSUME NEW c \in Clients, NEW q, phase' = [phase EXCEPT ![c] = q], permits' = permits, UNCHANGED rdr,
             phase[c] # "trans",
             c \in Holders <=> q \in {"options", "trans", "closing"}
      PROVE  PermitInv'
  <2>1. Holders' = Holders
    <3>1. CASE q \in {"options", "trans", "closing"}
      <4>1. Holders' = Holders \cup {c} /\ c \in Holders
        BY <1>4, <3>1, HoldersMove
      <4> QED
        BY <4>1
    <3>2. CASE q \notin {"options", "trans", "closing"}
      <4>1. Holders' = Holders \ {c} /\ c \notin Holders
        BY <1>4, <3>2, HoldersMove
      <4> QED
        BY <4>1
    <3> QED
      BY <3>1, <3>2
  <2>2. PermitsReturn'
    BY <1>1, <1>4, <2>1, PermitMoves
  <2>3. \A d \in Clients \ {c} : phase'[d] = phase[d]
    BY <1>4, HoldersMove
  <2>4. \A d \in Clients : rdr'[d] \in Numbers => phase'[d] = "trans"
    BY <1>1, <1>4, <2>3
  <2> QED
    BY <2>2, <2>4 DEF PermitInv
<1>5. ASSUME NEW c \in Clients, Accept(c) PROVE PermitInv'
  <2>1. phase[c] = "off" /\ UNCHANGED rdr /\ c \notin Holders
    BY <1>5 DEF Accept, Holders
  <2>2. CASE permits > 0
    <3>1. permits' = permits - 1 /\ phase' = [phase EXCEPT ![c] = "options"]
      BY <1>5, <2>2 DEF Accept
    <3>2. Holders' = Holders \cup {c}
      BY <3>1, HoldersMove
    <3>3. PermitsReturn'
      BY <1>1, <2>1, <3>1, <3>2, PermitMoves
    <3>4. \A d \in Clients : rdr'[d] \in Numbers => phase'[d] = "trans"
      BY <1>1, <2>1, <3>1, HoldersMove
    <3> QED
      BY <3>3, <3>4 DEF PermitInv
  <2>3. CASE ~(permits > 0)
    <3>1. permits' = permits /\ phase' = [phase EXCEPT ![c] = "closed"]
      BY <1>5, <2>3 DEF Accept
    <3> QED
      BY <1>4, <2>1, <3>1
  <2> QED
    BY <2>2, <2>3
<1>6. ASSUME NEW c \in Clients, ChooseExport(c) PROVE PermitInv'
  <2>1. phase[c] = "options" /\ phase' = [phase EXCEPT ![c] = "trans"] /\ permits' = permits /\ UNCHANGED rdr
    BY <1>6 DEF ChooseExport
  <2>2. c \in Holders
    BY <2>1 DEF Holders
  <2> QED
    BY <1>4, <2>1, <2>2
<1>7. ASSUME NEW c \in Clients, LeaveOptions(c) \/ CloseSession(c) PROVE PermitInv'
  <2>1. /\ phase[c] \in {"options", "closing"} /\ phase' = [phase EXCEPT ![c] = "closed"]
        /\ permits' = permits + 1 /\ UNCHANGED rdr
    BY <1>7 DEF LeaveOptions, CloseSession, Release
  <2>2. c \in Holders
    BY <2>1 DEF Holders
  <2>3. Holders' = Holders \ {c}
    <3>1. "closed" \notin {"options", "trans", "closing"}
      OBVIOUS
    <3> QED
      BY <2>1, <3>1, HoldersMove
  <2>4. PermitsReturn'
    BY <1>1, <2>1, <2>2, <2>3, PermitMoves
  <2>5. \A d \in Clients : rdr'[d] \in Numbers => phase'[d] = "trans"
    BY <1>1, <2>1, HoldersMove
  <2> QED
    BY <2>4, <2>5 DEF PermitInv
<1>8. ASSUME NEW c \in Clients, NEW n \in Numbers, NEW k, ReadRequest(c, n, k) PROVE PermitInv'
  <2>1. phase[c] = "trans" /\ rdr' = [rdr EXCEPT ![c] = n] /\ UNCHANGED <<phase, permits>>
    BY <1>8 DEF ReadRequest, session
  <2>2. \A d \in Clients : rdr'[d] \in Numbers => phase'[d] = "trans"
    BY <1>1, <2>1, ReaderMoves
  <2> QED
    BY <1>1, <2>1, <2>2 DEF PermitInv, PermitsReturn
<1>9. ASSUME NEW c \in Clients, NEW n \in Numbers, Spawn(c, n) \/ AnswerInvalid(c, n) \/ Flush(c, n) PROVE PermitInv'
  <2>1. rdr' = [rdr EXCEPT ![c] = Idle] /\ UNCHANGED <<phase, permits>>
    BY <1>9 DEF Spawn, AnswerInvalid, Flush, session
  <2>2. \A d \in Clients : rdr'[d] \in Numbers => phase'[d] = "trans"
    BY <1>1, <1>2, <2>1, ReaderMoves
  <2> QED
    BY <1>1, <2>1, <2>2 DEF PermitInv, PermitsReturn
<1>10. ASSUME NEW c \in Clients, phase[c] = "trans", rdr' = [rdr EXCEPT ![c] = Out],
              phase' = [phase EXCEPT ![c] = "closing"], permits' = permits
       PROVE  PermitInv'
  <2>1. c \in Holders
    BY <1>10 DEF Holders
  <2>2. Holders' = Holders
    <3>1. Holders' = Holders \cup {c}
      BY <1>10, HoldersMove
    <3> QED
      BY <2>1, <3>1
  <2>3. PermitsReturn'
    BY <1>1, <1>10, <2>2, PermitMoves
  <2>4. rdr'[c] = Out /\ \A d \in Clients \ {c} : rdr'[d] = rdr[d]
    BY <1>10, ReaderMoves
  <2>5. \A d \in Clients \ {c} : phase'[d] = phase[d]
    BY <1>10, HoldersMove
  <2>6. \A d \in Clients : rdr'[d] \in Numbers => phase'[d] = "trans"
    BY <1>1, <1>2, <2>4, <2>5
  <2> QED
    BY <2>3, <2>6 DEF PermitInv
<1>11. ASSUME NEW c \in Clients, LeaveReader(c) \/ Garbled(c) PROVE PermitInv'
  BY <1>10, <1>11 DEF LeaveReader, Garbled
<1>12. ASSUME NEW c \in Clients, NEW n \in Numbers, Disc(c, n) \/ DrainCut(c, n) PROVE PermitInv'
  BY <1>1, <1>10, <1>12 DEF Disc, DrainCut
<1>13. ASSUME NEW c \in Clients, NEW n \in Numbers,
              Act(c, n) \/ ForceUnitAccess(c, n) \/ MarkDegraded(c, n) \/ Respond(c, n) \/ Panic(c, n)
       PROVE  PermitInv'
  BY <1>3, <1>13 DEF Act, ForceUnitAccess, MarkDegraded, Respond, Panic, session
<1>14. ASSUME NEW c \in Clients,
              \/ WriteReply(c) \/ FlushReplies(c) \/ WriterShutdown(c) \/ WriterDisconnect(c)
              \/ DrainExport(c) \/ WriterClosed(c) \/ ClientVanishes(c) \/ SendPayload(c)
       PROVE  PermitInv'
  BY <1>3, <1>14 DEF SendPayload, WriteReply, FlushReplies, WriterShutdown, WriterDisconnect, DrainExport, WriterClosed, ClientVanishes, session
<1>15. CASE ServerStops \/ ReplaceHandler \/ UNCHANGED sesVars
  BY <1>3, <1>15 DEF ServerStops, ReplaceHandler, sesVars, session
<1> QED
  BY <1>5, <1>6, <1>7, <1>8, <1>9, <1>11, <1>12, <1>13, <1>14, <1>15 DEF SesNext, Progress, Step

\* At the start every permit is free.
LEMMA SesInit_Permits == SesInit => PermitInv
<1> SUFFICES ASSUME SesInit PROVE PermitInv
  OBVIOUS
<1>1. permits = Budget /\ phase = [c \in Clients |-> "off"] /\ rdr = [c \in Clients |-> Idle]
  BY DEF SesInit
<1>2. {c \in Clients : phase[c] \in {"options", "trans", "closing"}} = {}
  BY <1>1
<1>3. Budget = Budget - Cardinality({})
  BY FS_EmptySet, SessionBounds, SMTT(60)
<1> QED
  BY <1>1, <1>2, <1>3, Marks DEF PermitInv, PermitsReturn

--------------------------------------------------------------------------------
(* The properties.                                                         *)

\* Sets of mutations are compared member by member.
LEMMA Mutations ==
    ASSUME NEW w \in Clients \X Numbers \X Handlers
    PROVE  \E d \in Clients, m \in Numbers, h \in Handlers : w = <<d, m, h>> /\ w[3] = h
<1>1. w = <<w[1], w[2], w[3]>> /\ w[1] \in Clients /\ w[2] \in Numbers /\ w[3] \in Handlers
  BY SMTT(60)
<1> QED
  BY <1>1

\* The invariant gives what FLUSH, FUA and DISC promise.
LEMMA DurableFollows == SesInv => AnsweredIsDurable
<1> SUFFICES ASSUME SesInv PROVE AnsweredIsDurable
  OBVIOUS
<1>1. /\ covers \in [Clients -> [Numbers -> SUBSET (Clients \X Numbers \X Handlers)]]
      /\ \A c \in Clients, n \in Numbers : Honest(c, n) /\ Barrier(c, n)
  BY DEF SesInv, SesTypes, RequestInv
<1>2. FlushCovers
  <2> SUFFICES ASSUME NEW c \in Clients, NEW n \in Numbers, kind[c][n] = "flush", result[c][n] = "ok",
                      NEW w \in covers[c][n] \cap applied, w[3] = serving[c]
               PROVE  w \in synced
    BY DEF FlushCovers
  <2>1. w \in Clients \X Numbers \X Handlers
    BY <1>1
  <2>2. PICK d \in Clients, m \in Numbers, h \in Handlers : w = <<d, m, h>> /\ w[3] = h
    BY <2>1, Mutations
  <2> QED
    BY <1>1, <2>2 DEF Barrier
<1>3. FuaDurable
  BY <1>1 DEF FuaDurable, Honest
<1>4. DiscCovers
  <2> SUFFICES ASSUME NEW c \in Clients, NEW n \in Numbers, kind[c][n] = "disc", result[c][n] = "ok",
                      NEW w \in (covers[c][n] \cap applied) \ stale
               PROVE  w \in stored
    BY DEF DiscCovers
  <2>1. w \in Clients \X Numbers \X Handlers
    BY <1>1
  <2>2. PICK d \in Clients, m \in Numbers, h \in Handlers : w = <<d, m, h>> /\ w[3] = h
    BY <2>1, Mutations
  <2> QED
    BY <1>1, <2>2 DEF Barrier
<1> QED
  BY <1>2, <1>3, <1>4 DEF AnsweredIsDurable

\* The invariants give what sessions share.
LEMMA SoundFollows == SesInv /\ PermitInv => SessionsSound
<1> SUFFICES ASSUME SesInv, PermitInv PROVE SessionsSound
  OBVIOUS
<1>1. /\ serving \in [Clients -> Handlers] /\ late \subseteq Clients \X Numbers /\ Placed
      /\ \A c \in Clients, n \in Numbers : Honest(c, n) /\ AfterMark(c, n)
  BY DEF SesInv, SesTypes, RequestInv
<1>2. DegradedHolds
  <2> SUFFICES ASSUME NEW p \in late, kind[p[1]][p[2]] \in Mutating \cup {"read", "flush"}
               PROVE  result[p[1]][p[2]] # "ok"
    BY DEF DegradedHolds
  <2>1. p \in Clients \X Numbers
    BY <1>1
  <2>2. p = <<p[1], p[2]>> /\ p[1] \in Clients /\ p[2] \in Numbers
    BY <2>1, SMTT(60)
  <2> QED
    BY <1>1, <2>2 DEF AfterMark
<1>3. AckedKept
  <2> SUFFICES ASSUME NEW c \in Clients, NEW n \in Numbers, kind[c][n] \in Mutating, result[c][n] = "ok"
               PROVE  Item(c, n) \in stored \cup stale \/ serving[c] = current
    BY DEF AckedKept
  <2>1. Item(c, n) \in applied /\ Item(c, n) = <<c, n, serving[c]>> /\ serving[c] \in Handlers
    BY <1>1 DEF Honest, Item
  <2> QED
    BY <1>1, <2>1 DEF Placed
<1> QED
  BY <1>2, <1>3 DEF SessionsSound, PermitInv

\* When the server answers a FLUSH, a FUA write or a DISC with success, the mutations
\* it covers are durable, or in S3, however the request tasks, the readers, the
\* writers and the sessions of the export interleave, fail, panic or vanish, and
\* however the export is resized under them.
THEOREM AnswersAreDurable == SesSpec => []AnsweredIsDurable
<1>1. SesInit => SesInv
  BY SesInit_Inv
<1>2. SesInv /\ [SesNext]_sesVars => SesInv'
  BY SesNext_Inv
<1>3. SesInv => AnsweredIsDurable
  BY DurableFollows
<1> QED
  BY <1>1, <1>2, <1>3, PTL DEF SesSpec

\* The connection budget is exact, a request read after the degraded mark never
\* succeeds, and an acknowledged write is where the router finds it.
THEOREM SessionsStaySound == SesSpec => []SessionsSound
<1>1. SesInit => SesInv /\ PermitInv
  BY SesInit_Inv, SesInit_Permits
<1>2. SesInv /\ PermitInv /\ [SesNext]_sesVars => SesInv' /\ PermitInv'
  BY SesNext_Inv, SesNext_Permits
<1>3. SesInv /\ PermitInv => SessionsSound
  BY SoundFollows
<1> QED
  BY <1>1, <1>2, <1>3, PTL DEF SesSpec
================================================================================
