----------------------------- MODULE EventChannel -----------------------------
(***************************************************************************)
(* One event channel (conversation, tool or control) of the daemon and one *)
(* client that follows it:                                                 *)
(*   publishing   crates/deepx-runtime/src/ringing/hub.rs, sequencer.rs,   *)
(*                journal.rs, router.rs                                    *)
(*   serving      crates/deepx-daemon/src/ringing_http.rs (handle_sse)     *)
(*   following    crates/deepx-client/src/sse.rs (ChannelStream)           *)
(*                                                                         *)
(* All seeds of a channel share one counter of stream numbers; each seed   *)
(* has a journal of its own, brought into memory when it is first touched. *)
(* The worker of a seed publishes from one thread, those of different      *)
(* seeds run side by side.  A reliable event is the delta of a round or    *)
(* the completion of one, which folds its deltas away; a replaceable event *)
(* is the checkpoint of the current round.  Of an earlier run of the       *)
(* daemon only reliable events are kept here.                              *)
(***************************************************************************)
EXTENDS Integers, Sequences, FiniteSets, SequencesExt, FiniteSetsExt

CONSTANTS
    Seeds,           \* sessions whose events go through the channel
    MaxStream,       \* bound: stream numbers given out
    MaxHistory,      \* bound: events of an earlier run of the daemon on disk, per seed
    Capacity,        \* capacity of a seed's journal in memory (8192 in the code)
    BroadcastSize,   \* capacity of the broadcast channel (1024 in the code)
    MaxBreaks,       \* bound: connections that break
    BreakMidReplay   \* may a connection break before the resets of its replay are read?

ASSUME ChannelAssumption ==
    /\ MaxStream \in Nat /\ MaxHistory \in Nat /\ MaxBreaks \in Nat
    /\ Capacity \in Nat \ {0} /\ BroadcastSize \in Nat \ {0}
    /\ BreakMidReplay \in BOOLEAN
    /\ IsFiniteSet(Seeds)

VARIABLES
    history,   \* events of each seed on disk when the daemon starts, numbered from 1
    counter,   \* Sequencer.stream_seq of the channel
    loaded,    \* seeds whose state is in memory
    numbered,  \* number a seed's worker has drawn and not yet published, 0 for none
    journal,   \* ReliableJournal.entries of each seed
    evicted,   \* ReliableJournal.evicted_through of each seed
    slot,      \* number of the seed's replaceable value, 0 for none
    newest,    \* largest number published or read from disk
    rx,        \* broadcast receiver of the connection
    after,     \* Last-Event-ID of the connection
    replayed,  \* events the connection has replayed
    serving,   \* the daemon's end of the connection is open
    wire,      \* frames sent and not yet read
    phase,     \* where the client's loop stands
    cursor,    \* ChannelStream.cursor
    attached,  \* seeds attached under the client's lease
    seen,      \* events read on this connection
    owed,      \* reliable events published for the client and not yet read
    breaks     \* connections broken so far

hubVars == <<history, counter, loaded, numbered, journal, evicted, slot, newest>>
connVars == <<rx, after, replayed, serving, wire>>
clientVars == <<phase, cursor, attached, seen>>
vars == <<hubVars, connVars, clientVars, owed, breaks>>

Kinds == {"delta", "done", "checkpoint"}
Events == [seed : Seeds, seq : Nat, kind : Kinds]
Reset(s) == [reset |-> s]
Resets == {Reset(s) : s \in Seeds}
Phases == {"connect", "subscribed", "open"}

Event(s, n, kind) == [seed |-> s, seq |-> n, kind |-> kind]

\* The events by number; what two runs of the daemon gave the same number is in any order.
InOrder(events) ==
    {order \in SetToSeqs(events) : \A i, j \in DOMAIN order : i < j => order[i].seq <= order[j].seq}

----------------------------------------------------------------------------
(* Bringing a seed into memory: ensure_seed_loaded.                        *)

\* What with_ops keeps of a seed's history, and what the journal has dropped.
HistoryDropped(s) == IF history[s] > Capacity THEN history[s] - Capacity ELSE 0
HistoryKept(s) ==
    [i \in 1 .. history[s] - HistoryDropped(s) |->
        Event(s, HistoryDropped(s) + i, "done")]

\* The sequencer only moves forward.
CounterOver(s) == IF s \in loaded THEN counter ELSE Max({counter, history[s]})

\* A history has numbers that the run may have given out already, to other seeds.
EnsureLoaded(s) ==
    /\ loaded' = loaded \cup {s}
    /\ IF s \in loaded THEN UNCHANGED <<journal, evicted, newest, owed>>
       ELSE /\ journal' = [journal EXCEPT ![s] = HistoryKept(s)]
            /\ evicted' = [evicted EXCEPT ![s] = HistoryDropped(s)]
            /\ newest' = Max({newest, history[s]})
            /\ owed' = {[event |-> x.event, late |-> x.late \/ x.event.seq <= history[s]] : x \in owed}

----------------------------------------------------------------------------
(* Publishing.                                                             *)

\* publish_with_causation draws its number before it takes the channels lock.
DrawNumber(s) ==
    /\ numbered[s] = 0
    /\ CounterOver(s) < MaxStream
    /\ EnsureLoaded(s)
    /\ counter' = CounterOver(s) + 1
    /\ numbered' = [numbered EXCEPT ![s] = counter']
    /\ UNCHANGED <<history, slot, connVars, clientVars, breaks>>

HasRoom(entries) == Len(entries) < Capacity

\* Mutant: what was dropped is not remembered.
ForgetEvicted(s, entries) == UNCHANGED evicted

RememberEvicted(s, entries) ==
    evicted' = [evicted EXCEPT ![s] = IF HasRoom(entries) THEN @ ELSE Max({@, Head(entries).seq})]

Deltas(s) == {e \in ToSet(journal[s]) : e.kind = "delta"}

KeepUnlessDelta(kept, e) == IF e.kind = "delta" THEN kept ELSE Append(kept, e)

FoldDeltas(entries) ==
    LET kept[n \in 0 .. Len(entries)] ==
            IF n = 0 THEN <<>> ELSE KeepUnlessDelta(kept[n - 1], entries[n])
    IN  kept[Len(entries)]

\* ReliableJournal::append, and the folding of the round's deltas when it is done.
AppendToJournal(e) ==
    LET entries == journal[e.seed]
        kept == IF HasRoom(entries) THEN entries ELSE Tail(entries)
    IN  /\ RememberEvicted(e.seed, entries)
        /\ journal' = [journal EXCEPT ![e.seed] =
               Append(IF e.kind = "done" THEN FoldDeltas(kept) ELSE kept, e)]

\* A receiver that is full learns that it lagged, and the connection ends.
LagAndClose(e) == rx' = <<>> /\ serving' = FALSE

Fanout(e) ==
    IF ~serving THEN UNCHANGED <<rx, serving>>
    ELSE IF Len(rx) < BroadcastSize THEN rx' = Append(rx, e) /\ UNCHANGED serving
    ELSE LagAndClose(e)

\* Mutant: the terminal event leaves the checkpoint of its round behind.
KeepSlot(e) == UNCHANGED slot

FlushSlot(e) == slot' = IF e.kind = "done" THEN [slot EXCEPT ![e.seed] = 0] ELSE slot

Released(s) ==
    /\ numbered' = [numbered EXCEPT ![s] = 0]
    /\ newest' = Max({newest, numbered[s]})

\* A client is owed what is published once it has a cursor or its first replay is made: before,
\* the replay leaves reliable events to the bootstrap.
Follows(s) == s \in attached /\ (cursor > 0 \/ (phase = "open" /\ serving))

PublishReliable(s, kind) ==
    /\ numbered[s] # 0
    /\ LET e == Event(s, numbered[s], kind)
           folded == IF kind = "done" THEN Deltas(s) ELSE {}
       IN  /\ AppendToJournal(e)
           /\ FlushSlot(e)
           /\ Fanout(e)
           /\ owed' = {x \in owed : x.event \notin folded}
                      \cup IF Follows(s) THEN {[event |-> e, late |-> e.seq <= newest]} ELSE {}
    /\ Released(s)
    /\ UNCHANGED <<history, counter, loaded, after, replayed, wire, clientVars, breaks>>

PublishReplaceable(s) ==
    /\ numbered[s] # 0
    /\ slot' = [slot EXCEPT ![s] = numbered[s]]
    /\ Fanout(Event(s, numbered[s], "checkpoint"))
    /\ Released(s)
    /\ UNCHANGED <<history, counter, loaded, journal, evicted, after, replayed, wire, clientVars,
                   owed, breaks>>

----------------------------------------------------------------------------
(* Serving one connection: handle_sse.                                     *)

Reliable(s) == {e \in ToSet(journal[s]) : e.seq > after}
Slots == {Event(s, slot[s], "checkpoint") : s \in {q \in attached : slot[q] > after}}

\* A cursor older than what the seed's journal has dropped cannot be served.
Expired(s) == evicted[s] > after

\* A new client gets its history with the bootstrap: without a cursor only the
\* replaceable values are replayed.
Replay ==
    LET served == IF after = 0 THEN {} ELSE attached \cap loaded
        events == (UNION {Reliable(s) : s \in {q \in served : ~Expired(q)}}) \cup Slots
        resets == {Reset(s) : s \in {q \in served : Expired(q)}}
    IN  /\ phase = "subscribed"
        /\ replayed' = events
        /\ \E order \in InOrder(events), refusals \in SetToSeqs(resets) :
              wire' = order \o refusals
        /\ phase' = "open"
        /\ UNCHANGED <<hubVars, rx, after, serving, cursor, attached, seen, owed, breaks>>

\* Mutant: what was replayed is sent again when it comes live.
OldOnly(e) == e.seq <= after

AlreadySent(e) == e.seq <= after \/ e \in replayed

ServeLive ==
    /\ phase = "open" /\ serving /\ rx # <<>>
    /\ rx' = Tail(rx)
    /\ wire' = IF Head(rx).seed \notin attached \/ AlreadySent(Head(rx)) THEN wire
               ELSE Append(wire, Head(rx))
    /\ UNCHANGED <<hubVars, after, replayed, serving, clientVars, owed, breaks>>

----------------------------------------------------------------------------
(* The client.                                                             *)

\* Opening a session attaches it and reads its bootstrap, which loads it.
Attach(s) ==
    /\ s \notin attached
    /\ EnsureLoaded(s)
    /\ counter' = CounterOver(s)
    /\ attached' = attached \cup {s}
    /\ UNCHANGED <<history, numbered, slot, connVars, phase, cursor, seen, breaks>>

Subscribe ==
    /\ phase = "connect"
    /\ after' = cursor
    /\ rx' = <<>> /\ serving' = TRUE
    /\ phase' = "subscribed"
    /\ UNCHANGED <<hubVars, replayed, wire, cursor, attached, seen, owed, breaks>>

\* The cursor follows whatever number the frame has.
ReadEvent ==
    /\ phase = "open" /\ wire # <<>> /\ Head(wire) \notin Resets
    /\ cursor' = Head(wire).seq
    /\ seen' = seen \cup {Head(wire)}
    /\ owed' = {x \in owed : x.event # Head(wire)}
    /\ wire' = Tail(wire)
    /\ UNCHANGED <<hubVars, rx, after, replayed, serving, phase, attached, breaks>>

\* The client reads the bootstrap of the seed; its cursor stays.
ReadReset ==
    /\ phase = "open" /\ wire # <<>> /\ Head(wire) \in Resets
    /\ owed' = {x \in owed : x.event.seed # Head(wire).reset}
    /\ wire' = Tail(wire)
    /\ UNCHANGED <<hubVars, rx, after, replayed, serving, clientVars, breaks>>

\* A client that has no cursor yet starts over: what it misses is the bootstrap's.
HangUp ==
    /\ rx' = <<>> /\ wire' = <<>> /\ serving' = FALSE
    /\ after' = 0 /\ replayed' = {}
    /\ phase' = "connect" /\ seen' = {}
    /\ owed' = IF cursor = 0 THEN {} ELSE owed
    /\ UNCHANGED <<hubVars, cursor, attached>>

ConnectionBreaks ==
    /\ phase # "connect" /\ breaks < MaxBreaks
    /\ BreakMidReplay \/ ToSet(wire) \cap Resets = {}
    /\ breaks' = breaks + 1
    /\ HangUp

ConnectionEnds ==
    /\ phase = "open" /\ ~serving /\ wire = <<>>
    /\ HangUp
    /\ UNCHANGED breaks

----------------------------------------------------------------------------
Init ==
    /\ history \in [Seeds -> 0 .. MaxHistory]
    /\ counter = 0 /\ loaded = {} /\ newest = 0
    /\ numbered = [s \in Seeds |-> 0]
    /\ journal = [s \in Seeds |-> <<>>]
    /\ evicted = [s \in Seeds |-> 0]
    /\ slot = [s \in Seeds |-> 0]
    /\ rx = <<>> /\ wire = <<>> /\ serving = FALSE /\ after = 0 /\ replayed = {}
    /\ phase = "connect" /\ cursor = 0 /\ attached = {} /\ seen = {}
    /\ owed = {} /\ breaks = 0

HubNext ==
    \E s \in Seeds :
        \/ DrawNumber(s)
        \/ \E kind \in {"delta", "done"} : PublishReliable(s, kind)
        \/ PublishReplaceable(s)

ClientNext ==
    \/ \E s \in Seeds : Attach(s)
    \/ Subscribe \/ ReadEvent \/ ReadReset
    \/ ConnectionBreaks \/ ConnectionEnds

Next == HubNext \/ Replay \/ ServeLive \/ ClientNext

Spec == Init /\ [][Next]_vars

----------------------------------------------------------------------------
(* Properties.                                                             *)

TypeOK ==
    /\ counter \in 0 .. MaxStream /\ loaded \subseteq Seeds /\ newest \in 0 .. counter
    /\ \A s \in Seeds :
          /\ numbered[s] \in 0 .. counter /\ evicted[s] \in 0 .. counter /\ slot[s] \in 0 .. counter
          /\ ToSet(journal[s]) \subseteq Events /\ Len(journal[s]) <= Capacity
    /\ ToSet(rx) \subseteq Events /\ Len(rx) <= BroadcastSize
    /\ ToSet(wire) \subseteq Events \cup Resets
    /\ after \in 0 .. counter /\ replayed \subseteq Events /\ serving \in BOOLEAN
    /\ phase \in Phases /\ cursor \in 0 .. counter /\ attached \subseteq Seeds
    /\ seen \subseteq Events /\ owed \subseteq [event : Events, late : BOOLEAN]

\* Where the cursor is, and where it gets to as what is on the wire is read.
CursorsAhead == {cursor} \cup {f.seq : f \in ToSet(wire) \ Resets}

\* The client can still learn of the event from the daemon it comes back to:
\* its cursor will not have passed it, and the journal has it or refuses the cursor.
Recoverable(e) ==
    /\ \A c \in CursorsAhead : e.seq > c
    /\ e \in ToSet(journal[e.seed]) \/ evicted[e.seed] >= e.seq

OnItsWay(e) ==
    \/ e \in ToSet(wire) \cup ToSet(rx)
    \/ Reset(e.seed) \in ToSet(wire)
    \/ phase = "subscribed" /\ Recoverable(e)

\* "Reliable events must be replayed by cursor and may not be dropped
\* silently" (router.rs): whatever lags, breaks, is evicted or folded, a
\* reliable event of an attached seed is on its way to the client, or the
\* client will be given it, or a reset, when it comes back.
ReachesClient(e) ==
    \/ serving /\ OnItsWay(e)
    \/ ~serving /\ (e \in ToSet(wire) \/ Reset(e.seed) \in ToSet(wire) \/ Recoverable(e))

\* Events that others overtook between number and journal, or whose number a history has that
\* was read later, are left out: they may be lost.
NothingSlipsBehind == \A x \in owed : ~x.late => ReachesClient(x.event)

\* Replay and live delivery overlap, numbers may come out of order, and still
\* no connection shows the client one event twice.
OncePerConnection ==
    /\ \A i, j \in DOMAIN wire : wire[i] = wire[j] => i = j
    /\ ToSet(wire) \cap seen = {}

\* Together: the client is told of every reliable event, and of none twice.
ExactlyOnce == NothingSlipsBehind /\ OncePerConnection

\* "Terminal events invalidate the replaceable identities that fed them"
\* (router.rs): no replay can show the checkpoint of a round that is done.
NoStaleCheckpoint ==
    \A s \in Seeds : \A e \in ToSet(journal[s]) :
        slot[s] # 0 /\ e.kind = "done" => e.seq < slot[s]
=============================================================================
