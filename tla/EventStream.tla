---------------------------- MODULE EventStream ----------------------------
(***************************************************************************)
(* The events of one turn on their way to one browser: the durable log of  *)
(* gateway/mysql_repository.py, Redis Pub/Sub and the bridge of            *)
(* gateway/redis_transport.py, the broker of gateway/events.py, the        *)
(* connection of server/web/websocket.py and the socket of                 *)
(* webui/src/platform/realtime/client.ts.                                  *)
(*                                                                         *)
(* The log is durable, everything after it may lose events: Pub/Sub while  *)
(* nobody listens, the broker's queue when it is full, the connection when *)
(* it ends.  The adapter has to fill every hole from the log.              *)
(*                                                                         *)
(* An event is its sequence number.  A step of the web process ends where  *)
(* the code really suspends: a lock that is taken, a database read, an     *)
(* empty queue.  put_nowait in send never does, so all the frames of a     *)
(* replay enter the send queue in one step.                                *)
(***************************************************************************)
EXTENDS Integers, Sequences, FiniteSets

CONSTANTS
    End,         \* sequence of the terminal event, the turn's last one
    QueueMax,    \* maxsize of a broker subscription
    SendMax,     \* ws_send_queue_size
    MaxDrops,    \* bound on connections lost to the network or to a timeout
    MaxOutages,  \* bound on outages of the event subscription
    MaxSilent,   \* bound on publishes that fail while the bridge listens
    MaxDbErrors  \* bound on failing replay queries

ASSUME StreamAssumption ==
    /\ End \in Nat \ {0} /\ QueueMax \in Nat \ {0} /\ SendMax \in Nat \ {0}
    /\ {MaxDrops, MaxOutages, MaxSilent, MaxDbErrors} \subseteq Nat

VARIABLES
    \* nlp_turn_events and the way to the broker
    top,        \* last sequence appended
    floor,      \* events up to here are pruned
    wire,       \* published or about to be, not yet at the broker
    silent,     \* events whose publish failed without an outage
    bridge,     \* "up", "broken" (not noticed yet) or "down" (recovering)
    \* the connection
    link,       \* where the connection stands, below
    cmd,        \* what _receive_commands works on
    queue,      \* the broker's queue of the session's subscription
    pump,       \* _pump_session: where it stands and the event it has
    last,       \* _last_sequences
    sendq,      \* _send_queue
    \* the browser
    seen,       \* lastSequences, 0 without an entry
    following,  \* lastSequences has an entry for the turn
    got,        \* events handed to onEvent
    gapped,     \* a stream.gap made it reload the turns through HTTP
    faults      \* faults left, by kind

logVars == <<top, floor, silent>>
connVars == <<link, cmd, queue, pump, last, sendq>>
browser == <<seen, following, got, gapped>>
vars == <<logVars, wire, bridge, connVars, browser, faults>>

-----------------------------------------------------------------------------
\* Entries of a subscription queue and of the send queue that are no events.
Interrupted == 0   \* _INTERRUPTED
Gap == 0           \* stream.gap
Control == -1      \* command.ack, session.updated

\* A connection that is "open" ends by way of "ending", or of "woken" when
\* its sender is sure to write a frame first, and may be "stuck" there.
Links == {"closed", "open", "woken", "ending", "stuck"}

Idle == [at |-> "idle", after |-> 0, target |-> 0]
PumpIdle == [at |-> "idle", event |-> 0]
NoPump == [at |-> "none", event |-> 0]

TypeOK ==
    /\ top \in 0..End /\ floor \in 0..(End - 1)
    /\ wire \subseteq 1..top /\ silent \subseteq 1..top
    /\ bridge \in {"up", "broken", "down"}
    /\ link \in Links
    /\ cmd \in [at : {"idle", "subscribe", "resume", "lock", "replay"},
                after : -1..End, target : 0..End]
    /\ queue \in Seq(0..End) /\ Len(queue) =< QueueMax
    /\ pump \in [at : {"none", "idle", "lock", "replay", "dead"}, event : 0..End]
    /\ last \in 0..End
    /\ sendq \in Seq(-1..End) /\ Len(sendq) =< SendMax
    /\ seen \in 0..End /\ following \in BOOLEAN
    /\ got \subseteq 1..End /\ gapped \in BOOLEAN
    /\ faults \in [{"drop", "outage", "silent", "db"} -> Nat]

\* A page that is loaded while the turn runs asks for all of its events.
Init ==
    /\ top = 0 /\ floor = 0 /\ wire = {} /\ silent = {} /\ bridge = "up"
    /\ link = "closed" /\ cmd = Idle /\ queue = <<>> /\ pump = NoPump
    /\ last = 0 /\ sendq = <<>>
    /\ seen = 0 /\ following = TRUE /\ got = {} /\ gapped = FALSE
    /\ faults = [drop |-> MaxDrops, outage |-> MaxOutages,
                 silent |-> MaxSilent, db |-> MaxDbErrors]

Fault(kind) ==
    /\ faults[kind] > 0
    /\ faults' = [faults EXCEPT ![kind] = @ - 1]

-----------------------------------------------------------------------------
\* The broker.

\* Mutant: a full queue takes one more entry.
Put_Grows(entry) == queue' = Append(queue, entry)

\* put_nowait, at the cost of the oldest entry when the queue is full.
Put(entry) ==
    queue' = Append(IF Len(queue) = QueueMax THEN Tail(queue) ELSE queue, entry)

Subscribed == pump.at \in {"idle", "lock", "replay"}

Offer(entry) ==
    IF Subscribed THEN Put(entry) ELSE UNCHANGED queue

\* interrupt_all: wakes the subscribers so that they replay.
InterruptAll == Offer(Interrupted)

-----------------------------------------------------------------------------
\* The log and Pub/Sub.

\* emit: append_event, after which the event is on its way to Redis.
Emit ==
    /\ top < End
    /\ top' = top + 1
    /\ wire' = wire \cup {top'}
    /\ UNCHANGED <<floor, silent, bridge, connVars, browser, faults>>

\* Tasks that emit concurrently may publish out of order; run() awaits all
\* of them before it emits the terminal event.
Published(e) == e \in wire /\ (e = End => wire = {End})

\* The bridge hands a message to the broker.
Deliver(e) ==
    /\ Published(e) /\ bridge = "up"
    /\ wire' = wire \ {e}
    /\ Offer(e)
    /\ UNCHANGED <<logVars, bridge, link, cmd, pump, last, sendq, browser, faults>>

\* Pub/Sub keeps nothing for a subscriber that is away.
Miss(e) ==
    /\ Published(e) /\ bridge # "up"
    /\ wire' = wire \ {e}
    /\ UNCHANGED <<logVars, bridge, connVars, browser, faults>>

\* RedisEventPublisher.publish swallows the error: nobody is interrupted.
PublishFails(e) ==
    /\ Published(e) /\ Fault("silent")
    /\ wire' = wire \ {e}
    /\ silent' = silent \cup {e}
    /\ UNCHANGED <<top, floor, bridge, connVars, browser>>

\* The subscription's connection to Redis breaks.
Outage ==
    /\ bridge = "up" /\ Fault("outage")
    /\ bridge' = "broken"
    /\ UNCHANGED <<logVars, wire, connVars, browser>>

\* _listen gets the error: every live connection has to replay.
Notice ==
    /\ bridge = "broken"
    /\ bridge' = "down"
    /\ InterruptAll
    /\ UNCHANGED <<logVars, wire, link, cmd, pump, last, sendq, browser, faults>>

\* Mutant: connections made during the outage are left alone.
Recover_Quiet ==
    /\ bridge = "down"
    /\ bridge' = "up"
    /\ UNCHANGED <<logVars, wire, connVars, browser, faults>>

\* Subscribed again: so do the connections made in between.
Recover ==
    /\ bridge = "down"
    /\ bridge' = "up"
    /\ InterruptAll
    /\ UNCHANGED <<logVars, wire, link, cmd, pump, last, sendq, browser, faults>>

\* prune_events, days after the turn has ended, when no live event and no
\* replay of it is under way any more: the terminal event stays.
Prune(n) ==
    /\ top = End /\ wire = {} /\ queue = <<>> /\ floor < n
    /\ {cmd.at, pump.at} \cap {"lock", "replay"} = {}
    /\ floor' = n
    /\ UNCHANGED <<top, silent, wire, bridge, connVars, browser, faults>>

-----------------------------------------------------------------------------
\* The connection.

\* _terminate up to where it waits: both tasks stop, the sender does not
\* look at _closed and may go on with the frames of the send queue.
Stop(how) ==
    /\ link' = how
    /\ cmd' = Idle /\ queue' = <<>> /\ pump' = NoPump

Terminate == Stop("ending") /\ UNCHANGED <<last, sendq>>

\* send for each frame in turn.  The first that finds no room terminates;
\* the frames before it stay queued, the later ones only move
\* _last_sequences.  When the command task terminates it awaits the
\* cancelled pump first, which gives the sender time to write a frame.
Send(frames, newCmd, newPump, newLast) ==
    /\ last' = newLast
    /\ IF Len(sendq) + Len(frames) > SendMax
       THEN /\ Stop(IF newCmd # cmd /\ Subscribed THEN "woken" ELSE "ending")
            /\ sendq' = sendq \o SubSeq(frames, 1, SendMax - Len(sendq))
       ELSE /\ sendq' = sendq \o frames
            /\ cmd' = newCmd /\ pump' = newPump
            /\ UNCHANGED <<link, queue>>

\* The socket is gone, and with it what was queued.
Closed == Stop("closed") /\ last' = 0 /\ sendq' = <<>>

\* The rest of _terminate: the sender is cancelled and the socket closed.
SenderEnds ==
    /\ link = "ending"
    /\ Closed
    /\ UNCHANGED <<logVars, wire, bridge, browser, faults>>

\* wait_for of Python 3.11 returns the result of a send_json that has just
\* ended instead of raising the cancellation: the sender goes on, _terminate
\* awaits it and never closes the socket.
SenderSurvives ==
    /\ link = "ending"
    /\ link' = "stuck"
    /\ UNCHANGED <<logVars, wire, bridge, cmd, queue, pump, last, sendq, browser, faults>>

\* _send_gateway_event_locked for the events first..final.
EventFrames(first, final) ==
    [i \in 1..(final - first + 1) |-> first + i - 1]
        \o (IF first =< final /\ final = End THEN <<Control>> ELSE <<>>)

\* events_after: the oldest row of the log that follows sequence n.
FirstRow(n) == (IF n < floor THEN floor ELSE n) + 1

\* _replay_locked up to target: what it sends, and the last event sent.
ReplayFrames(target) ==
    LET first == FirstRow(last)
    IN  (IF first > last + 1 /\ first =< target THEN <<Gap>> ELSE <<>>)
            \o EventFrames(first, target)

Replayed(target) == IF FirstRow(last) =< target THEN target ELSE last

\* connection.ready reaches the browser, which sends session.subscribe and,
\* for a turn it follows, stream.resume from where it stands.
Connect ==
    /\ link = "closed"
    /\ link' = "open"
    /\ cmd' = [at |-> "subscribe", after |-> IF following THEN seen ELSE -1, target |-> 0]
    /\ UNCHANGED <<logVars, wire, bridge, queue, pump, last, sendq, browser, faults>>

\* session.subscribe: the queue exists from here on.
Subscribe ==
    /\ cmd.at = "subscribe"
    /\ Send(<<Control>>, IF cmd.after >= 0 THEN [cmd EXCEPT !.at = "resume"] ELSE Idle,
            PumpIdle, last)
    /\ UNCHANGED <<logVars, wire, bridge, browser, faults>>

\* stream.resume, replay_turn: the target is read before the lock is taken.
ResumeTarget ==
    /\ cmd.at = "resume"
    /\ cmd' = [cmd EXCEPT !.at = "lock", !.target = top]
    /\ UNCHANGED <<logVars, wire, bridge, link, queue, pump, last, sendq, browser, faults>>

Unlocked == cmd.at # "replay" /\ pump.at # "replay"

ResumeLock ==
    /\ cmd.at = "lock" /\ Unlocked
    /\ LET start == IF last < cmd.after THEN cmd.after ELSE last
       IN  IF start < cmd.target
           THEN /\ cmd' = [cmd EXCEPT !.at = "replay"]
                /\ last' = start
                /\ UNCHANGED <<link, queue, pump, sendq>>
           ELSE Send(<<Control>>, Idle, pump, start)
    /\ UNCHANGED <<logVars, wire, bridge, browser, faults>>

ResumeReplay ==
    /\ cmd.at = "replay"
    /\ Send(ReplayFrames(cmd.target) \o <<Control>>, Idle, pump, Replayed(cmd.target))
    /\ UNCHANGED <<logVars, wire, bridge, browser, faults>>

\* A query that fails leaves _receive_commands, and its caller closes.
ResumeFails ==
    /\ cmd.at \in {"subscribe", "resume", "replay"} /\ Fault("db")
    /\ Terminate
    /\ UNCHANGED <<logVars, wire, bridge, browser>>

-----------------------------------------------------------------------------
\* _pump_session.

PumpTake ==
    /\ pump.at = "idle" /\ queue # <<>>
    /\ IF Head(queue) = Interrupted
       THEN Terminate
       ELSE /\ pump' = [at |-> "lock", event |-> Head(queue)]
            /\ queue' = Tail(queue)
            /\ UNCHANGED <<link, cmd, last, sendq>>
    /\ UNCHANGED <<logVars, wire, bridge, browser, faults>>

\* Mutant: a later event goes out without a look at the hole before it.
PumpLock_NoReplay ==
    /\ pump.at = "lock" /\ Unlocked
    /\ \/ /\ pump.event =< last
          /\ pump' = PumpIdle
          /\ UNCHANGED <<link, cmd, queue, last, sendq>>
       \/ /\ pump.event > last
          /\ Send(EventFrames(pump.event, pump.event), cmd, PumpIdle, pump.event)
    /\ UNCHANGED <<logVars, wire, bridge, browser, faults>>

\* Mutant: a live event that the replay has sent is sent again.
PumpLock_Again ==
    /\ pump.at = "lock" /\ Unlocked
    /\ \/ /\ pump.event =< last + 1
          /\ Send(EventFrames(pump.event, pump.event), cmd, PumpIdle, pump.event)
       \/ /\ pump.event > last + 1
          /\ pump' = [pump EXCEPT !.at = "replay"]
          /\ UNCHANGED <<link, cmd, queue, last, sendq>>
    /\ UNCHANGED <<logVars, wire, bridge, browser, faults>>

\* _deliver_gateway_event has the lock: an event it has sent already, the
\* next one, or one behind a hole.
PumpLock ==
    /\ pump.at = "lock" /\ Unlocked
    /\ \/ /\ pump.event =< last
          /\ pump' = PumpIdle
          /\ UNCHANGED <<link, cmd, queue, last, sendq>>
       \/ /\ pump.event = last + 1
          /\ Send(EventFrames(pump.event, pump.event), cmd, PumpIdle, pump.event)
       \/ /\ pump.event > last + 1
          /\ pump' = [pump EXCEPT !.at = "replay"]
          /\ UNCHANGED <<link, cmd, queue, last, sendq>>
    /\ UNCHANGED <<logVars, wire, bridge, browser, faults>>

\* The hole is filled from the log, or reported, and the event follows.
PumpReplay ==
    /\ pump.at = "replay"
    /\ LET e == pump.event
           hole == IF Replayed(e - 1) < e - 1 THEN <<Gap>> ELSE <<>>
       IN  Send(ReplayFrames(e - 1) \o hole \o EventFrames(e, e), cmd, PumpIdle, e)
    /\ UNCHANGED <<logVars, wire, bridge, browser, faults>>

\* The query fails: the task ends and closes its subscription.  Nobody
\* awaits it, so the connection stays open without live events.
PumpFails ==
    /\ pump.at = "replay" /\ Fault("db")
    /\ pump' = [at |-> "dead", event |-> 0]
    /\ queue' = <<>>
    /\ UNCHANGED <<logVars, wire, bridge, link, cmd, last, sendq, browser>>

\* The network, the browser or a send timeout; or the session has expired.
Drop ==
    /\ link # "closed" /\ Fault("drop")
    /\ Closed \/ (link = "open" /\ Terminate)
    /\ UNCHANGED <<logVars, wire, bridge, browser>>

-----------------------------------------------------------------------------
\* _sender_loop hands a frame to the browser's onmessage.

Receive ==
    /\ sendq # <<>>
    /\ sendq' = Tail(sendq)
    /\ link' = IF link = "woken" THEN "ending" ELSE link
    /\ LET f == Head(sendq)
       IN  /\ gapped' = (gapped \/ f = Gap)
           /\ IF f > 0
              THEN /\ got' = got \cup {f}
                   /\ following' = (f # End)
                   /\ seen' = IF f = End THEN 0 ELSE IF f > seen THEN f ELSE seen
              ELSE UNCHANGED <<got, following, seen>>
    /\ UNCHANGED <<logVars, wire, bridge, cmd, queue, pump, last, faults>>

-----------------------------------------------------------------------------
Transport ==
    \/ Emit \/ Notice \/ Recover
    \/ \E e \in 1..End : Deliver(e) \/ Miss(e)

Connection ==
    \/ Connect \/ Subscribe
    \/ ResumeTarget \/ ResumeLock \/ ResumeReplay
    \/ PumpTake \/ PumpLock \/ PumpReplay
    \/ Receive \/ SenderEnds \/ SenderSurvives

Environment ==
    \/ \E e \in 1..End : PublishFails(e)
    \/ Outage \/ Drop \/ ResumeFails \/ PumpFails
    \/ \E n \in 1..(End - 1) : Prune(n)

Next == Transport \/ Connection \/ Environment

Spec == Init /\ [][Next]_vars

FairSpec ==
    /\ Spec
    /\ WF_vars(Emit) /\ WF_vars(Notice) /\ WF_vars(Recover)
    /\ \A e \in 1..End : WF_vars(Deliver(e) \/ Miss(e))
    /\ WF_vars(Connect) /\ WF_vars(Subscribe)
    /\ WF_vars(ResumeTarget) /\ WF_vars(ResumeLock) /\ WF_vars(ResumeReplay)
    /\ WF_vars(PumpTake) /\ WF_vars(PumpLock) /\ WF_vars(PumpReplay)
    /\ WF_vars(Receive) /\ WF_vars(SenderEnds)
    /\ SF_vars(link = "open" /\ Receive)

-----------------------------------------------------------------------------
(* No silent hole: a browser that was handed an event has been handed all  *)
(* the earlier ones, over any number of connections, outages and full      *)
(* queues, unless a stream.gap told it to reload.                          *)
NoSilentGap == gapped \/ \A n \in got : 1..n \subseteq got

(* Within a connection the replay of stream.resume and the live events of  *)
(* the pump are merged: an event is queued once, after all the earlier     *)
(* ones, and _last_sequences is where the connection stands.               *)
InOrder ==
    \A i \in DOMAIN sendq :
        /\ sendq[i] =< last
        /\ \A j \in 1..(i - 1) : sendq[i] > 0 => sendq[j] < sendq[i]

(* The browser learns that the turn has ended, from the terminal event or  *)
(* from the reload that a stream.gap asks for, although a replay may be    *)
(* longer than the send queue (_replay_locked, send) and every reconnect   *)
(* gets only some frames further.  Three ways the code has of not telling  *)
(* it are left: the publish of the terminal event failed alone, a failed   *)
(* query ended the pump, or a cancellation was lost and the socket stays.  *)
EndIsSeen ==
    <>(End \in got \/ gapped \/ End \in silent \/ pump.at = "dead" \/ link = "stuck")
=============================================================================
