------------------------------- MODULE NbdServer -------------------------------
(***************************************************************************)
(* NBD sessions (block/server.rs).  A listener admits connections against  *)
(* one budget; a session negotiates an export and then runs three kinds of *)
(* tasks: a reader that takes requests off the socket in order, one task   *)
(* per request in flight, and a writer that takes responses from a bounded *)
(* channel, batches them in a buffer and flushes when no more are waiting. *)
(* FLUSH and DISC wait in the reader for the tasks of the session.  A      *)
(* panic in a mutating request marks the export degraded for every         *)
(* session and cancels its own.                                            *)
(*                                                                         *)
(* The export's data is abstracted to sets of requests: applied (in the    *)
(* page cache and block states), synced (after fdatasync), stored (in S3   *)
(* after a drain).  Framing and option data are left out.                  *)
(***************************************************************************)
EXTENDS Integers, Sequences, FiniteSets

CONSTANTS
    Clients,      \* client connections
    Budget,       \* connection_limiter
    Requests,     \* bound: requests a client sends
    Total,        \* bound: requests all clients send
    Inflight,     \* MAX_INFLIGHT_REQUESTS, also the channel's capacity
    SesScenarios  \* the sets of kinds of request and events of a behaviour

ASSUME SessionBounds ==
    IsFiniteSet(Clients) /\ Budget \in Nat /\ Requests \in Nat /\ Inflight \in Nat \ {0}

VARIABLES
    sesMay,    \* the kinds of request and the events of this behaviour
    phase,     \* session: off | options | trans | closing | closed
    permits,   \* connection_limiter
    serving,   \* the handler (export incarnation) a session holds
    rdr,       \* reader: Idle | Out | the request it is dispatching
    kind,      \* kind of each request
    stage,     \* how far a request is (below)
    result,    \* none | ok | err
    chan,      \* response channel: request numbers, Shutdown, Disconnect
    wtr,       \* writer: run | drain | gone
    token,     \* the session's cancellation token was cancelled
    here,      \* the client keeps its connection open
    owed,      \* the clients that have not sent the payload of the request in the reader
    current,   \* the handler the router has for the export
    stopping,  \* the server's token was cancelled
    applied, synced, stored,  \* mutations: <<client, number, handler>>
    poisoned,  \* handlers a panic left in an unknown state
    degraded,  \* handlers marked degraded
    covers,    \* ghost: the mutations a FLUSH or DISC must cover
    late,      \* ghost: requests read after the mark
    touched,   \* ghost: requests that succeeded on a poisoned handler
    stale      \* ghost: mutations on a handler the router has replaced

(* Stages of a request: none, then dispatch (in the reader), run (its task *)
(* passed the checks), acted (its effect is there), panicked, reply or eio *)
(* (the response is computed), chan, buffer, wire (at the client), lost.   *)

session == <<phase, permits, serving>>
requests == <<kind, stage, result>>
writer == <<chan, wtr>>
client == <<here, owed>>
export == <<current, applied, synced, stored, poisoned, degraded>>
ghost == <<covers, late, touched, stale>>
sesVars == <<sesMay, session, rdr, requests, writer, token, client, stopping,
             export, ghost>>

May(e) == e \in sesMay
Numbers == 1..Requests
Idle == 0
Out == -1
Shutdown == 0
Disconnect == -1
Mutating == {"write", "fua"}
Running(c) ==
    {n \in Numbers : stage[c][n] \in {"run", "acted", "panicked", "reply", "eio"}}
Sent(c) == {n \in Numbers : stage[c][n] # "none"}
Set(f, c, n, v) == [f EXCEPT ![c][n] = v]
Item(c, n) == <<c, n, serving[c]>>

SesInit ==
    /\ sesMay \in SesScenarios
    /\ phase = [c \in Clients |-> "off"]
    /\ permits = Budget
    /\ serving = [c \in Clients |-> 0]
    /\ rdr = [c \in Clients |-> Idle]
    /\ kind = [c \in Clients |-> [n \in Numbers |-> "none"]]
    /\ stage = kind /\ result = kind
    /\ chan = [c \in Clients |-> <<>>]
    /\ wtr = [c \in Clients |-> "run"]
    /\ token = [c \in Clients |-> FALSE]
    /\ here = [c \in Clients |-> TRUE] /\ owed = {}
    /\ current = 1 /\ stopping = FALSE
    /\ applied = {} /\ synced = {} /\ stored = {}
    /\ poisoned = {} /\ degraded = {}
    /\ covers = [c \in Clients |-> [n \in Numbers |-> {}]]
    /\ late = {} /\ touched = {} /\ stale = {}

--------------------------------------------------------------------------------
(* Connections.                                                            *)

\* start: an accepted connection takes a permit for its life, or is dropped.
Accept(c) ==
    /\ phase[c] = "off" /\ ~stopping
    /\ IF permits > 0
       THEN permits' = permits - 1 /\ phase' = [phase EXCEPT ![c] = "options"]
       ELSE UNCHANGED permits /\ phase' = [phase EXCEPT ![c] = "closed"]
    /\ UNCHANGED <<sesMay, serving, rdr, requests, writer, token, client, stopping,
                   export, ghost>>

\* GO or EXPORT_NAME: the session keeps the handler the router has now.
ChooseExport(c) ==
    /\ phase[c] = "options" /\ here[c]
    /\ phase' = [phase EXCEPT ![c] = "trans"]
    /\ serving' = [serving EXCEPT ![c] = current]
    /\ UNCHANGED <<sesMay, permits, rdr, requests, writer, token, client, stopping,
                   export, ghost>>

\* The session's task ends and its permit goes back.
Release(c) ==
    /\ phase' = [phase EXCEPT ![c] = "closed"]
    /\ permits' = permits + 1

\* ABORT, an unknown name in EXPORT_NAME, a bad handshake, or the end of the
\* connection during negotiation.  The server's token is not looked at here.
LeaveOptions(c) ==
    /\ phase[c] = "options" /\ (May("abort") \/ ~here[c])
    /\ Release(c)
    /\ UNCHANGED <<sesMay, serving, rdr, requests, writer, token, client, stopping,
                   export, ghost>>

--------------------------------------------------------------------------------
(* The reader.                                                             *)

\* Responses go to the channel while its receiver is there; a response to a
\* writer that is gone is dropped.
CanSend(c) == wtr[c] = "gone" \/ Len(chan[c]) < Inflight
Push(c, r) ==
    chan' = IF wtr[c] = "gone" THEN chan
            ELSE [chan EXCEPT ![c] = Append(@, r)]
Sends(c, n) ==
    IF wtr[c] = "gone" THEN "lost" ELSE "chan"

\* Acknowledged mutations the client of any session knows of, and those this
\* session sent before: what a barrier has to cover.
Known(c) ==
    {Item(q[1], q[2]) : q \in
        {p \in Clients \X Numbers :
            /\ kind[p[1]][p[2]] \in Mutating
            /\ \/ p[1] = c /\ stage[c][p[2]] # "none"
               \/ stage[p[1]][p[2]] = "wire" /\ result[p[1]][p[2]] = "ok"}}

\* The next request header.  "bad" stands for an unknown command and an
\* oversized request.  The payload of a write, an oversized one included, may
\* be behind the header.
ReadRequest(c, n, k) ==
    /\ phase[c] = "trans" /\ rdr[c] = Idle /\ here[c]
    /\ n = Cardinality(Sent(c)) + 1
    /\ Cardinality({p \in Clients \X Numbers : p[2] \in Sent(p[1])}) < Total
    /\ k \in sesMay
    /\ rdr' = [rdr EXCEPT ![c] = n]
    /\ kind' = Set(kind, c, n, k)
    /\ stage' = Set(stage, c, n, "dispatch")
    /\ covers' = IF k \in {"flush", "disc"} THEN Set(covers, c, n, Known(c)) ELSE covers
    /\ late' = IF serving[c] \in degraded THEN late \cup {<<c, n>>} ELSE late
    /\ \/ UNCHANGED owed
       \/ May("stall") /\ k \in Mutating \cup {"bad"} /\ owed' = owed \cup {c}
    /\ UNCHANGED <<sesMay, session, result, writer, token, here, stopping, export,
                   touched, stale>>

\* The client sends the payload the reader waits for.
SendPayload(c) ==
    /\ c \in owed /\ here[c]
    /\ owed' = owed \ {c}
    /\ UNCHANGED <<sesMay, session, rdr, requests, writer, token, here, stopping,
                   export, ghost>>

\* read_exact of the payload returns: it is there, or the connection ended.
\* Neither the session's token nor the server's is looked at meanwhile.
PayloadRead(c) == c \notin owed \/ ~here[c]

\* Mutant of Spawn: the mark is not looked at.
SpawnUnchecked(c, n) ==
    /\ rdr[c] = n /\ kind[c][n] \in Mutating \cup {"read"}
    /\ Cardinality(Running(c)) < Inflight /\ PayloadRead(c)
    /\ rdr' = [rdr EXCEPT ![c] = Idle] /\ owed' = owed \ {c}
    /\ stage' = Set(stage, c, n, "run")
    /\ UNCHANGED <<sesMay, session, kind, result, writer, token, here, stopping,
                   export, ghost>>

\* A request gets its task once fewer than MAX_INFLIGHT_REQUESTS run and its
\* payload was read; the task of a write whose payload was cut off answers with
\* an I/O error, and the handler's check of the mark is the first thing the
\* others do.
Spawn(c, n) ==
    /\ rdr[c] = n /\ kind[c][n] \in Mutating \cup {"read"}
    /\ Cardinality(Running(c)) < Inflight /\ PayloadRead(c)
    /\ rdr' = [rdr EXCEPT ![c] = Idle] /\ owed' = owed \ {c}
    /\ IF serving[c] \in degraded \/ c \in owed
       THEN /\ stage' = Set(stage, c, n, "reply")
            /\ result' = Set(result, c, n, "err")
       ELSE /\ stage' = Set(stage, c, n, "run")
            /\ UNCHANGED result
    /\ UNCHANGED <<sesMay, session, kind, writer, token, here, stopping, export,
                   ghost>>

\* An invalid request is answered by the reader, an oversized write after its
\* payload was drained.
AnswerInvalid(c, n) ==
    /\ rdr[c] = n /\ kind[c][n] = "bad" /\ c \notin owed /\ CanSend(c)
    /\ rdr' = [rdr EXCEPT ![c] = Idle]
    /\ stage' = Set(stage, c, n, Sends(c, n))
    /\ result' = Set(result, c, n, "err")
    /\ Push(c, n)
    /\ UNCHANGED <<sesMay, session, kind, wtr, token, client, stopping, export, ghost>>

\* Mutant of Joined: the reader does not wait for the running tasks.
NotJoined(c) == TRUE

\* The join_next loop of FLUSH and DISC.
Joined(c) == Running(c) = {}

\* Bound: one panic in a behaviour.
CanPanic == May("panic") /\ poisoned = {} /\ degraded = {}

\* handler.flush, called by the reader itself; a panic is caught, marks the
\* export degraded and cancels the session.
Flush(c, n) ==
    /\ rdr[c] = n /\ kind[c][n] = "flush" /\ Joined(c) /\ CanSend(c)
    /\ rdr' = [rdr EXCEPT ![c] = Idle]
    /\ stage' = Set(stage, c, n, Sends(c, n))
    /\ Push(c, n)
    /\ \E how \in {"ok", "err", "panic"} :
          /\ serving[c] \in degraded => how = "err"
          /\ how = "err" => serving[c] \in degraded \/ May("fail")
          /\ how = "panic" => CanPanic
          /\ result' = Set(result, c, n, IF how = "ok" THEN "ok" ELSE "err")
          /\ synced' = IF how = "ok"
                       THEN synced \cup {w \in applied : w[3] = serving[c]}
                       ELSE synced
          /\ degraded' = IF how = "panic" THEN degraded \cup {serving[c]} ELSE degraded
          /\ token' = [token EXCEPT ![c] = @ \/ how = "panic"]
    /\ UNCHANGED <<sesMay, session, kind, wtr, client, stopping, current, applied,
                   stored, poisoned, ghost>>

\* DISC: the drain is left to the writer, the reader returns.
Disc(c, n) ==
    /\ rdr[c] = n /\ kind[c][n] = "disc" /\ Joined(c) /\ CanSend(c)
    /\ rdr' = [rdr EXCEPT ![c] = Out]
    /\ phase' = [phase EXCEPT ![c] = "closing"]
    /\ stage' = Set(stage, c, n, "wire")
    /\ Push(c, Disconnect)
    /\ UNCHANGED <<sesMay, permits, serving, kind, result, wtr, token, client, stopping,
                   export, ghost>>

\* The cancelled token or the end of the stream, between two requests.
LeaveReader(c) ==
    /\ phase[c] = "trans" /\ rdr[c] = Idle /\ CanSend(c)
    /\ token[c] \/ stopping \/ ~here[c]
    /\ rdr' = [rdr EXCEPT ![c] = Out]
    /\ phase' = [phase EXCEPT ![c] = "closing"]
    /\ Push(c, Shutdown)
    /\ UNCHANGED <<sesMay, permits, serving, requests, wtr, token, client, stopping,
                   export, ghost>>

\* A header that does not parse: the reader returns without a word to the
\* writer, which learns it when the last sender is dropped.
Garbled(c) ==
    /\ May("garble") /\ phase[c] = "trans" /\ rdr[c] = Idle /\ here[c]
    /\ rdr' = [rdr EXCEPT ![c] = Out]
    /\ phase' = [phase EXCEPT ![c] = "closing"]
    /\ UNCHANGED <<sesMay, permits, serving, requests, writer, token, client, stopping,
                   export, ghost>>

\* The connection ends in the payload of an oversized write: the drain's error
\* is the reader's, which returns as for a header that does not parse.
DrainCut(c, n) ==
    /\ rdr[c] = n /\ kind[c][n] = "bad" /\ c \in owed /\ ~here[c]
    /\ rdr' = [rdr EXCEPT ![c] = Out]
    /\ phase' = [phase EXCEPT ![c] = "closing"]
    /\ stage' = Set(stage, c, n, "lost")
    /\ owed' = owed \ {c}
    /\ UNCHANGED <<sesMay, permits, serving, kind, result, writer, token, here,
                   stopping, export, ghost>>

--------------------------------------------------------------------------------
(* The task of a request.                                                  *)

\* The operation takes effect, or fails.  A read that runs into what a panic
\* left behind returns it.
Act(c, n) ==
    /\ stage[c][n] = "run"
    /\ \E ok \in BOOLEAN :
          /\ ok \/ May("fail")
          /\ IF ok /\ kind[c][n] \in Mutating
             THEN applied' = applied \cup {Item(c, n)} ELSE UNCHANGED applied
          /\ stage' = Set(stage, c, n, IF ok /\ kind[c][n] = "fua" THEN "acted"
                                       ELSE "reply")
          /\ result' = Set(result, c, n, IF ok THEN "ok" ELSE "err")
          /\ touched' = IF ok /\ serving[c] \in poisoned
                        THEN touched \cup {<<c, n>>} ELSE touched
          /\ stale' = IF serving[c] # current THEN stale \cup {Item(c, n)} ELSE stale
    /\ UNCHANGED <<sesMay, session, rdr, kind, writer, token, client, stopping,
                   current, synced, stored, poisoned, degraded, covers, late>>

\* FUA: the handler's flush after the write, which checks the mark again.
ForceUnitAccess(c, n) ==
    /\ stage[c][n] = "acted"
    /\ stage' = Set(stage, c, n, "reply")
    /\ IF serving[c] \in degraded
       THEN result' = Set(result, c, n, "err") /\ UNCHANGED synced
       ELSE /\ synced' = synced \cup {w \in applied : w[3] = serving[c]}
            /\ UNCHANGED result
    /\ UNCHANGED <<sesMay, session, rdr, kind, writer, token, client, stopping,
                   current, applied, stored, poisoned, degraded, ghost>>

\* A mutating request panics half-way.
Panic(c, n) ==
    /\ CanPanic
    /\ stage[c][n] = "run" /\ kind[c][n] \in Mutating
    /\ stage' = Set(stage, c, n, "panicked")
    /\ poisoned' = poisoned \cup {serving[c]}
    /\ UNCHANGED <<sesMay, session, rdr, kind, result, writer, token, client,
                   stopping, current, applied, synced, stored, degraded, ghost>>

\* run_mutating_request catches the panic and marks the export.
MarkDegraded(c, n) ==
    /\ stage[c][n] = "panicked"
    /\ degraded' = degraded \cup {serving[c]}
    /\ stage' = Set(stage, c, n, "eio")
    /\ result' = Set(result, c, n, "err")
    /\ UNCHANGED <<sesMay, session, rdr, kind, writer, token, client, stopping,
                   current, applied, synced, stored, poisoned, ghost>>

\* The response goes to the writer; after a panic the session is cancelled.
Respond(c, n) ==
    /\ stage[c][n] \in {"reply", "eio"} /\ CanSend(c)
    /\ Push(c, n)
    /\ stage' = Set(stage, c, n, Sends(c, n))
    /\ token' = [token EXCEPT ![c] = @ \/ stage[c][n] = "eio"]
    /\ UNCHANGED <<sesMay, session, rdr, kind, result, wtr, client, stopping, export,
                   ghost>>

--------------------------------------------------------------------------------
(* The writer.                                                             *)

Buffered(c) == {n \in Numbers : stage[c][n] = "buffer"}
Moved(c, from, to) ==
    [stage EXCEPT ![c] = [n \in Numbers |-> IF @[n] \in from THEN to ELSE @[n]]]

\* The writer's end cancels the session's token (CancelOnDrop); what is in
\* its buffer and in the channel is gone.
WriterEnds(c) ==
    /\ wtr' = [wtr EXCEPT ![c] = "gone"]
    /\ chan' = [chan EXCEPT ![c] = <<>>]
    /\ token' = [token EXCEPT ![c] = TRUE]

\* The next response is put in the buffer; the write fails without a client,
\* and may fail while the reader's half of the connection is still good.
WriteReply(c) ==
    /\ wtr[c] = "run" /\ chan[c] # <<>> /\ Head(chan[c]) \in Numbers
    /\ \/ /\ here[c]
          /\ chan' = [chan EXCEPT ![c] = Tail(@)]
          /\ stage' = Set(stage, c, Head(chan[c]), "buffer")
          /\ UNCHANGED <<wtr, token>>
       \/ /\ ~here[c] \/ May("broken")
          /\ WriterEnds(c)
          /\ stage' = Moved(c, {"chan", "buffer"}, "lost")
    /\ UNCHANGED <<sesMay, session, rdr, kind, result, client, stopping, export, ghost>>

\* Mutant of FlushReplies: only a full buffer is flushed.
FlushFullBuffer(c) ==
    /\ wtr[c] = "run" /\ chan[c] = <<>> /\ Cardinality(Buffered(c)) = Inflight
    /\ stage' = Moved(c, {"buffer"}, "wire")
    /\ UNCHANGED <<sesMay, session, rdr, kind, result, writer, token, client, stopping,
                   export, ghost>>

\* Nothing more is waiting: the buffer is flushed.
FlushReplies(c) ==
    /\ wtr[c] = "run" /\ chan[c] = <<>> /\ Buffered(c) # {}
    /\ IF here[c]
       THEN stage' = Moved(c, {"buffer"}, "wire") /\ UNCHANGED <<wtr, chan, token>>
       ELSE WriterEnds(c) /\ stage' = Moved(c, {"buffer"}, "lost")
    /\ UNCHANGED <<sesMay, session, rdr, kind, result, client, stopping, export, ghost>>

\* Shutdown ends the writer at once.
WriterShutdown(c) ==
    /\ wtr[c] = "run" /\ chan[c] # <<>> /\ Head(chan[c]) = Shutdown
    /\ WriterEnds(c)
    /\ stage' = Moved(c, {"chan", "buffer"}, "lost")
    /\ UNCHANGED <<sesMay, session, rdr, kind, result, client, stopping, export, ghost>>

\* Disconnect flushes the buffer, and the drain begins.
WriterDisconnect(c) ==
    /\ wtr[c] = "run" /\ chan[c] # <<>> /\ Head(chan[c]) = Disconnect
    /\ wtr' = [wtr EXCEPT ![c] = "drain"]
    /\ chan' = [chan EXCEPT ![c] = Tail(@)]
    /\ stage' = Moved(c, {"buffer"}, IF here[c] THEN "wire" ELSE "lost")
    /\ UNCHANGED <<sesMay, session, rdr, kind, result, token, client, stopping,
                   export, ghost>>

\* drain_export of the export with the session's name: all its mutations
\* are in S3, or the error is counted and logged.
DrainExport(c) ==
    /\ wtr[c] = "drain"
    /\ \E ok \in BOOLEAN :
          /\ ok \/ May("fail")
          /\ stored' = IF ok THEN stored \cup {w \in applied : w[3] = current} ELSE stored
          /\ result' = [result EXCEPT ![c] = [n \in Numbers |->
                           IF kind[c][n] = "disc" THEN (IF ok THEN "ok" ELSE "err")
                           ELSE @[n]]]
    /\ WriterEnds(c)
    /\ UNCHANGED <<sesMay, session, rdr, kind, stage, client, stopping, current,
                   applied, synced, poisoned, degraded, ghost>>

\* All senders are dropped: recv returns None.
WriterClosed(c) ==
    /\ wtr[c] = "run" /\ phase[c] = "closing" /\ Running(c) = {}
    /\ chan[c] = <<>> /\ Buffered(c) = {}
    /\ WriterEnds(c)
    /\ UNCHANGED <<sesMay, session, rdr, requests, client, stopping, export, ghost>>

\* handle_transmission returns after the tasks and the writer.
CloseSession(c) ==
    /\ phase[c] = "closing" /\ Running(c) = {} /\ wtr[c] = "gone"
    /\ Release(c)
    /\ UNCHANGED <<sesMay, serving, rdr, requests, writer, token, client, stopping,
                   export, ghost>>

--------------------------------------------------------------------------------
(* The client, the server's end and a resize.                              *)

ClientVanishes(c) ==
    /\ May("vanish") /\ here[c]
    /\ here' = [here EXCEPT ![c] = FALSE]
    /\ UNCHANGED <<sesMay, session, rdr, requests, writer, token, owed, stopping,
                   export, ghost>>

ServerStops ==
    /\ May("stop") /\ ~stopping
    /\ stopping' = TRUE
    /\ UNCHANGED <<sesMay, session, rdr, requests, writer, token, client, export, ghost>>

\* resize_export: the export is drained, removed and made again with another
\* handler; open sessions are not told.
ReplaceHandler ==
    /\ May("replace") /\ current = 1
    /\ current' = 2
    /\ stored' = stored \cup {w \in applied : w[3] = 1}
    /\ UNCHANGED <<sesMay, session, rdr, requests, writer, token, client, stopping,
                   applied, synced, poisoned, degraded, ghost>>

--------------------------------------------------------------------------------
Step(c, n) ==
    \/ Spawn(c, n) \/ AnswerInvalid(c, n) \/ DrainCut(c, n) \/ Flush(c, n) \/ Disc(c, n)
    \/ Act(c, n) \/ ForceUnitAccess(c, n) \/ MarkDegraded(c, n) \/ Respond(c, n)

Progress(c) ==
    \/ \E n \in Numbers : Step(c, n)
    \/ LeaveReader(c) \/ WriteReply(c) \/ FlushReplies(c) \/ WriterShutdown(c)
    \/ WriterDisconnect(c) \/ DrainExport(c) \/ WriterClosed(c)
    \/ CloseSession(c)

SesNext ==
    \/ \E c \in Clients :
          \/ Accept(c) \/ ChooseExport(c) \/ LeaveOptions(c)
          \/ \E n \in Numbers, k \in {"read", "write", "fua", "flush", "disc", "bad"} :
                ReadRequest(c, n, k)
          \/ SendPayload(c)
          \/ \E n \in Numbers : Panic(c, n)
          \/ Garbled(c) \/ Progress(c) \/ ClientVanishes(c)
    \/ ServerStops \/ ReplaceHandler

\* The tasks of a session run; nothing is assumed of clients, not even that
\* one that sent a header sends the payload.  A client that keeps its
\* connection reads what it is sent.
SesSpec == SesInit /\ [][SesNext]_sesVars /\ WF_sesVars(\E c \in Clients : Progress(c))

--------------------------------------------------------------------------------
(* Properties.                                                             *)

\* Every permit is with a session that is not over, or free.
PermitsReturn ==
    permits = Budget - Cardinality({c \in Clients :
                                      phase[c] \in {"options", "trans", "closing"}})

\* A FLUSH that succeeds made durable all mutations this session sent before
\* it and those of other sessions a client has seen acknowledged (the
\* server offers CAN_MULTI_CONN).
FlushCovers ==
    \A c \in Clients, n \in Numbers :
       kind[c][n] = "flush" /\ result[c][n] = "ok" =>
          {w \in covers[c][n] \cap applied : w[3] = serving[c]} \subseteq synced

\* A successful FUA write is durable when it is answered.
FuaDurable ==
    \A c \in Clients, n \in Numbers :
       kind[c][n] = "fua" /\ result[c][n] = "ok"
          /\ stage[c][n] \in {"reply", "chan", "buffer", "wire"} => Item(c, n) \in synced

\* When a DISC has drained, the mutations of the session and the
\* acknowledged ones of the others are in S3 (the reader joins the tasks:
\* "Without this, the drain can miss writes").
DiscCovers ==
    \A c \in Clients, n \in Numbers :
       kind[c][n] = "disc" /\ result[c][n] = "ok" =>
          (covers[c][n] \cap applied) \ stale \subseteq stored

\* After the mark every request of every session fails: reads, mutations,
\* FUA and FLUSH each check it on a path of their own.
DegradedHolds ==
    \A p \in late : kind[p[1]][p[2]] \in Mutating \cup {"read", "flush"} =>
                       result[p[1]][p[2]] # "ok"

\* No request succeeds on what a panic left behind ("so no one can observe
\* the poisoned `WriteCache` state").
PoisonUnseen == touched = {}

\* An acknowledged mutation is in the handler the router serves, or in S3
\* from where that handler reads it.
AckedReachable ==
    \A c \in Clients, n \in Numbers :
       kind[c][n] \in Mutating /\ result[c][n] = "ok" /\ stage[c][n] = "wire" =>
          Item(c, n) \in stored \/ serving[c] = current

\* The same for a session that did not outlive the handler it holds.
AckedKept ==
    \A c \in Clients, n \in Numbers :
       kind[c][n] \in Mutating /\ result[c][n] = "ok" /\ stage[c][n] = "wire" =>
          Item(c, n) \in stored \cup stale \/ serving[c] = current

\* The reader waits for a payload its client, still connected, does not send.
Stalled(c) == c \in owed /\ here[c]

\* The requests that were read and have neither been answered nor lost with
\* their session, but for one whose client keeps its payload back.
Pending ==
    {p \in Clients \X Numbers :
        /\ stage[p[1]][p[2]] \notin {"none", "wire", "lost"}
        /\ ~(Stalled(p[1]) /\ rdr[p[1]] = p[2])}

\* The sessions in transmission after the server's token is cancelled or their
\* writer is gone: they have to end and give their permit back, unless the
\* reader is stuck in a payload.
Ending ==
    {c \in Clients : /\ phase[c] \in {"trans", "closing"} /\ ~Stalled(c)
                     /\ stopping \/ wtr[c] = "gone"}

\* What a FLUSH, a FUA write or a DISC promises when it is answered is so, over
\* every interleaving of the request tasks and the sessions.
AnsweredIsDurable == FlushCovers /\ FuaDurable /\ DiscCovers

\* What sessions share stays right when one fails or its handler is replaced:
\* permits, the degraded mark, and the writes that were acknowledged.
SessionsSound == PermitsReturn /\ DegradedHolds /\ AckedKept

\* Every request is answered and every session can end: the bounded channel, the
\* joins and the barriers never wait on each other, so from any state the sessions
\* come to one in which nothing that was read waits and none that must end is left.
\* A client that stops in the middle of a payload keeps its own session, and
\* nothing else, from that for as long as it stays connected; once it is gone the
\* session ends.
SessionProgress == []<>(Pending = {} /\ Ending = {})
================================================================================
