------------------------------ MODULE RfsimRadio ------------------------------
(***************************************************************************)
(* The 802.15.4 radio of an OT-RFSIM node: the driver's two levels of      *)
(* state, the calls of the MAC above it, the events of the simulator below *)
(* it, and the node's main loop, which runs the driver and reports its     *)
(* state before it sleeps.  Times are what is left of them; a clock that   *)
(* drifts makes the node's time pass at another pace than the simulator's. *)
(***************************************************************************)
EXTENDS Integers

CONSTANTS
    Channels,
    Senders,        \* other nodes whose frames are on the air
    TxFrames,       \* what the MAC sends: a subset of {"acked", "plain"}
    Calls,          \* what else the MAC does: a subset of {"receive", "sleep", "power", "promiscuous"}
    Faults,         \* a subset of {"loss", "fast", "slow"}
    Interferer,     \* whether the node is a Wi-Fi interferer, which it is told before it sends
    TURNAROUND_TIME, STARTUP_TIME, RAMPUP_TIME, FAILSAFE_TIME, \* microseconds, scaled
    CCA_TIME, AIFS_TIME, IFS_TIME, MAX_ACK_WAIT,
    FRAME_TIME, ACK_TIME, \* durations of frames
    WAIT_TIMES      \* random delays of an interferer

RadioAssumption ==
    /\ 0 \notin Channels
    /\ \A t \in {TURNAROUND_TIME, STARTUP_TIME, RAMPUP_TIME, FAILSAFE_TIME, CCA_TIME, AIFS_TIME, FRAME_TIME, ACK_TIME} :
         t \in Nat \ {0}
    /\ AIFS_TIME < TURNAROUND_TIME + MAX_ACK_WAIT /\ TURNAROUND_TIME < IFS_TIME

None == -1

\* sState and RadioSubState, without those that are never set.
States == {"disabled", "sleep", "receive", "transmit"}
Receiving == {"rx_frame", "rx_ack_tx", "rx_aifs"}
SubStates == Receiving \cup
    {"ready", "ifs", "cca", "cca_to_tx", "tx_frame", "tx_to_rx", "tx_to_aifs", "tx_aifs", "tx_ack_rx",
     "rx_tx_to_rx", "startup", "await_cca", "backoff"}
FrameKinds == {"broadcast", "unicast", "other", "ack", "stray"} \* unicast: to this node; ack: the one awaited

VARIABLES
    r,              \* the driver: [st, sub, next, txWait, delaySleep, cur, ongoing, frame, stamp, ...]
    mac,            \* the MAC: [done, result, sent, task]
    sim,            \* the simulator: [cca, ccaCh, tx, energy, ch, wake], None or what is left of a time
    air,            \* sender -> its frame: [kind, ch, left]
    awake, drifts,  \* the node runs; how often its clock may still drift
    hist            \* history, see Init

vars == <<r, mac, sim, air, awake, drifts, hist>>

NoFrame == [kind |-> "other", ch |-> 0, left |-> None]

\* The static variables of the driver; next is 0 when sNextRadioEventTime is undefined or past.
InitRadio == [st |-> "disabled", sub |-> "startup", next |-> STARTUP_TIME, txWait |-> FALSE, delaySleep |-> FALSE,
              cur |-> CHOOSE c \in Channels : TRUE, ongoing |-> CHOOSE c \in Channels : TRUE,
              frame |-> [kind |-> "plain", ch |-> 0], promiscuous |-> FALSE, stamp |-> None,
              failed |-> FALSE,                       \* sLastTxEventData.mError is a failed CCA
              moved |-> TRUE, repSt |-> "none", repCh |-> 0] \* what was last reported

Init ==
    /\ r = InitRadio
    /\ mac = [done |-> 1, result |-> "none", sent |-> 0, task |-> FALSE]
    /\ sim = [cca |-> None, ccaCh |-> 0, tx |-> None, energy |-> "none", ch |-> 0, wake |-> None]
    /\ air = [s \in Senders |-> NoFrame]
    /\ awake = TRUE
    /\ drifts = IF Faults \cap {"fast", "slow"} = {} THEN 0 ELSE 1
    /\ hist = [failsafe |-> {},     \* failsafe timers that expired though the simulator's answer is due
               clash |-> FALSE,     \* a transmission began during another
               owed |-> None,       \* what is left of the AIFS before an acknowledgment
               ackWrong |-> FALSE,  \* one was sent at another time
               ackProm |-> FALSE,   \* one was sent in promiscuous mode
               unsampled |-> FALSE, \* a frame was sent on a channel that was not sampled
               stampWrong |-> FALSE] \* a frame was received with the time of another

\* All that one pass of the driver can change.
Ctx == [r |-> r, mac |-> mac, sim |-> sim, hist |-> hist]
Becomes(x) == r' = x.r /\ mac' = x.mac /\ sim' = x.sim /\ hist' = x.hist

\* setRadioSubState.
SetSub(x, s, t) == [x EXCEPT !.r.sub = s, !.r.next = t, !.r.moved = TRUE]

\* setRadioState.
SetState(x, s) ==
    [(IF s = "disabled" /\ x.r.st # s THEN SetSub(x, "startup", STARTUP_TIME) ELSE x) EXCEPT !.r.st = s]

\* signalRadioTxDone.
Signal(x, error) ==
    IF Interferer THEN x
    ELSE [(IF x.r.st = "transmit" THEN SetState(x, "receive") ELSE x)
             EXCEPT !.mac = [@ EXCEPT !.done = IF @ < 2 THEN @ + 1 ELSE @, !.result = error, !.task = TRUE]]

IsTransmitPending(x) == x.r.st = "transmit" /\ ~x.r.txWait
IsBusy(x) == x.r.st \in {"transmit", "receive"} /\ x.r.sub # "ready"

Tune(x) == [x EXCEPT !.r.ongoing = x.r.cur]

\* startCcaForTransmission: the simulator samples the channel of the MAC's frame.
StartCca(x) ==
    [x EXCEPT !.r.txWait = TRUE, !.r.failed = FALSE,
              !.sim.cca = CCA_TIME, !.sim.ccaCh = x.r.frame.ch, !.sim.ch = x.r.frame.ch]

\* radioTransmit and radioTransmitInterference.
Transmit(x, ch, duration) ==
    [x EXCEPT !.r.failed = FALSE, !.sim.tx = duration, !.sim.ch = ch,
              !.hist.clash = @ \/ x.sim.tx # None]

SendMessage(x, ch) ==
    [Transmit(x, ch, FRAME_TIME) EXCEPT !.mac.sent = IF @ < 2 THEN @ + 1 ELSE @,
                                        !.hist.unsampled = @ \/ x.sim.ccaCh # ch]

SendAck(x) ==
    [Transmit(x, x.r.cur, ACK_TIME) EXCEPT !.hist.ackWrong = @ \/ x.hist.owed # 0, !.hist.owed = None,
                                           !.hist.ackProm = @ \/ x.r.promiscuous]

DelayedSleep(x) == IF x.r.delaySleep THEN [SetState(x, "sleep") EXCEPT !.r.delaySleep = FALSE] ELSE x

Failsafe(x, what, pending) == IF pending THEN [x EXCEPT !.hist.failsafe = @ \cup {what}] ELSE x

\* Mutant: the timer of the CCA leaves the simulator no time to answer.
ReadyTight(x) == IF IsTransmitPending(x) THEN StartCca(SetSub(Tune(x), "cca", CCA_TIME)) ELSE Tune(x)

\* A radio that is ready takes on the channel of the MAC and begins what it has to send.
Ready(x) ==
    IF IsTransmitPending(x) THEN StartCca(SetSub(Tune(x), "cca", CCA_TIME + FAILSAFE_TIME)) ELSE Tune(x)

\* The transition of platformRadioProcess when the time of the substate is over.
Expired(x) ==
    CASE x.r.sub = "startup" -> SetSub(x, "ready", 0)
      [] x.r.sub = "ready" -> Ready(x)
      [] x.r.sub = "cca" ->
           [SetSub(Signal(Failsafe(x, "cca", x.sim.cca # None), "channel_access"), "ready", 0) EXCEPT !.r.txWait = FALSE]
      [] x.r.sub = "cca_to_tx" -> SetSub(SendMessage(x, x.r.frame.ch), "tx_frame", FRAME_TIME + FAILSAFE_TIME)
      [] x.r.sub = "tx_frame" -> SetSub(Failsafe(x, "tx_frame", x.sim.tx # None), "tx_to_rx", TURNAROUND_TIME)
      [] x.r.sub = "tx_to_rx" -> SetSub(Tune(x), "ifs", IFS_TIME - TURNAROUND_TIME)
      [] x.r.sub = "tx_to_aifs" -> SetSub(x, "tx_aifs", MAX_ACK_WAIT)
      [] x.r.sub = "tx_aifs" -> [Signal(SetSub(x, "ready", 0), "no_ack") EXCEPT !.r.txWait = FALSE]
      [] x.r.sub = "tx_ack_rx" -> Signal(SetSub(Tune(x), "ifs", IFS_TIME), "no_ack")
      [] x.r.sub = "ifs" -> [SetSub(Tune(x), "ready", 0) EXCEPT !.r.txWait = FALSE]
      [] x.r.sub = "rx_frame" -> SetSub(x, "ifs", TURNAROUND_TIME)
      [] x.r.sub = "rx_aifs" -> SetSub(SendAck(x), "rx_ack_tx", ACK_TIME)
      [] x.r.sub = "rx_ack_tx" -> DelayedSleep(SetSub(x, "rx_tx_to_rx", TURNAROUND_TIME))
      [] x.r.sub = "rx_tx_to_rx" -> SetSub(x, "ifs", TURNAROUND_TIME)
      [] x.r.sub \in {"await_cca", "backoff"} -> SetSub(x, "ready", 0)

\* platformRadioProcess; it fails at once what the MAC wants to send during a reception.
RadioProcess(x) ==
    LET y == IF IsTransmitPending(x) /\ x.r.sub \in Receiving THEN Signal(x, "channel_access") ELSE x
    IN IF Interferer THEN x ELSE IF y.r.next = 0 THEN Expired(y) ELSE y

\* platformRadioInterfererProcess, with the random wait w.
InterfererProcess(x, w) ==
    IF ~Interferer \/ x.r.next # 0 THEN x
    ELSE CASE x.r.sub = "ready" -> [SetSub(Tune(x), IF x.r.failed THEN "backoff" ELSE "await_cca",
                                           IF x.r.failed THEN w ELSE w + 1) EXCEPT !.r.txWait = FALSE]
           [] x.r.sub \in {"await_cca", "backoff"} -> StartCca(SetSub(x, "cca", CCA_TIME + FAILSAFE_TIME))
           [] x.r.sub = "cca_to_tx" ->
                SetSub(Transmit(x, x.r.ongoing, FRAME_TIME), "tx_frame", FRAME_TIME + FAILSAFE_TIME)
           [] OTHER -> SetSub(x, "ready", 1)

-----------------------------------------------------------------------------
(* The events of the simulator. *)

\* platformRadioRxStart of sender s.
RxStart(x, s, ch, duration) ==
    IF /\ x.r.ongoing = ch /\ x.r.st \in {"receive", "transmit"}
       /\ x.r.sub \in {"ready", "ifs", "tx_aifs"}
    THEN [SetSub(x, IF x.r.sub = "tx_aifs" THEN "tx_ack_rx" ELSE "rx_frame", duration + FAILSAFE_TIME) EXCEPT !.r.stamp = s]
    ELSE x

\* radioReceive: it ends a transmission that awaits an acknowledgment, or hands a frame to the MAC.
Receive(x, s, kind, ok) ==
    IF x.r.st \notin {"receive", "transmit"} THEN x
    ELSE IF x.r.txWait /\ x.r.frame.kind = "acked"
         THEN Signal([x EXCEPT !.r.txWait = FALSE], IF kind = "ack" /\ ok THEN "none" ELSE "no_ack")
    ELSE IF kind \in {"broadcast", "unicast"} /\ ok
         THEN [x EXCEPT !.hist.stampWrong = @ \/ x.r.stamp # s]
    ELSE x

\* platformRadioRxDone.
RxDone(x, s, kind, ok) ==
    IF x.r.sub = "rx_frame"
    THEN Receive(IF kind = "unicast" /\ ok THEN [SetSub(x, "rx_aifs", AIFS_TIME) EXCEPT !.hist.owed = AIFS_TIME]
                 ELSE DelayedSleep(SetSub(x, "ifs", TURNAROUND_TIME)), s, kind, ok)
    ELSE IF x.r.sub = "tx_ack_rx" THEN Receive(SetSub(x, "ifs", IFS_TIME), s, kind, ok)
    ELSE x

\* Mutant: a busy channel is sampled again, and the MAC is not told.
CcaRetries(x, clear) ==
    IF x.sim.ccaCh # x.r.frame.ch \/ x.r.sub # "cca" THEN x
    ELSE IF clear THEN SetSub(x, "cca_to_tx", TURNAROUND_TIME)
    ELSE SetSub([x EXCEPT !.r.txWait = FALSE, !.r.failed = TRUE], "ready", 0)

\* platformRadioCcaDone.
CcaDone(x, clear) ==
    IF x.sim.ccaCh # x.r.frame.ch \/ x.r.sub # "cca" THEN x
    ELSE IF clear THEN SetSub(x, "cca_to_tx", TURNAROUND_TIME)
    ELSE LET y == [x EXCEPT !.r.txWait = FALSE, !.r.failed = TRUE]
         IN IF Interferer THEN SetSub(y, "ready", 1) ELSE Signal(SetSub(y, "ready", 0), "channel_access")

\* platformRadioTxDone.
TxDone(x) ==
    CASE x.r.sub = "rx_ack_tx" -> SetSub(x, "rx_tx_to_rx", TURNAROUND_TIME)
      [] x.r.sub = "tx_frame" /\ (x.r.frame.kind = "plain" \/ Interferer) -> Signal(SetSub(x, "tx_to_rx", TURNAROUND_TIME), "none")
      [] x.r.sub = "tx_frame" /\ x.r.frame.kind = "acked" /\ ~Interferer -> SetSub(x, "tx_to_aifs", TURNAROUND_TIME)
      [] OTHER -> x

-----------------------------------------------------------------------------
(* The calls of the MAC. *)

\* otPlatRadioReceive.
CallReceive(x, ch) ==
    IF x.r.st = "disabled" THEN x
    ELSE SetState([(IF x.r.st = "sleep" /\ x.r.sub # "startup" THEN SetSub(x, "startup", RAMPUP_TIME) ELSE x)
                      EXCEPT !.r.txWait = FALSE, !.r.delaySleep = FALSE, !.r.cur = ch], "receive")

\* otPlatRadioSleep.
CallSleep(x) ==
    IF x.r.sub \in Receiving THEN [x EXCEPT !.r.delaySleep = TRUE]
    ELSE IF x.r.st \in {"sleep", "receive"} THEN SetState([x EXCEPT !.r.delaySleep = FALSE], "sleep")
    ELSE x

\* otPlatRadioTransmit, before which the MAC calls otPlatRadioReceive on the frame's channel.
CallTransmit(x, kind, ch) ==
    LET y == [CallReceive(x, ch) EXCEPT !.r.frame = [kind |-> kind, ch |-> ch]]
    IN SetState([y EXCEPT !.mac = [@ EXCEPT !.done = 0, !.result = "none", !.sent = 0]], "transmit")

\* otPlatRadioEnable and otPlatRadioDisable.
CallPower(x) ==
    CASE x.r.st = "disabled" -> SetSub(SetState([x EXCEPT !.r.delaySleep = FALSE], "sleep"), "startup", STARTUP_TIME)
      [] x.r.st = "sleep" -> SetState([x EXCEPT !.r.delaySleep = FALSE], "disabled")
      [] OTHER -> x

\* What one call of the MAC can make of x; while it sends, or has not yet reacted to the end, it makes none.
Callable(x) ==
    IF x.mac.done = 0 \/ x.mac.task THEN {}
    ELSE {CallReceive(x, ch) : ch \in IF "receive" \in Calls THEN Channels ELSE {}}
         \cup {CallSleep(x) : c \in Calls \cap {"sleep"}}
         \cup {CallPower(x) : c \in Calls \cap {"power"}}
         \cup {[x EXCEPT !.r.promiscuous = ~@] : c \in Calls \cap {"promiscuous"}}
         \cup {CallTransmit(x, f[1], f[2]) : f \in IF x.r.st = "disabled" THEN {} ELSE TxFrames \X Channels}

-----------------------------------------------------------------------------
(* The main loop of the node. *)

UNCH_LOOP == UNCHANGED <<air, drifts>>

\* The rest of a pass of otSysProcessDrivers, after the event or the alarm.
Pass(x) == \E w \in WAIT_TIMES : Becomes(InterfererProcess(RadioProcess(x), w))

\* The energy state that is reported for a state and substate.
EnergyState(x) ==
    CASE x.r.sub \in {"tx_frame", "rx_ack_tx"} -> "transmit"
      [] x.r.sub \notin {"tx_frame", "rx_ack_tx"} /\ (x.r.st = "transmit" \/ x.r.sub = "rx_frame") -> "receive"
      [] OTHER -> x.r.st

\* platformRadioReportStateToSimulator; the simulator wakes the node when the substate is over.  An earlier
\* report's wake stays in its queue: StackRuns has those too.
Report(x) ==
    IF ~x.r.moved /\ x.r.repSt = x.r.st /\ x.r.repCh = x.r.ongoing THEN x
    ELSE [x EXCEPT !.r = [@ EXCEPT !.moved = FALSE, !.repSt = x.r.st, !.repCh = x.r.ongoing],
                   !.sim = [@ EXCEPT !.energy = EnergyState(x), !.ch = x.r.ongoing,
                                     !.wake = IF x.r.next > 0 THEN x.r.next ELSE None]]

\* Nothing more to do: the node reports its state and sleeps.
FallAsleep ==
    /\ awake /\ ~mac.task /\ (IsTransmitPending(Ctx) => IsBusy(Ctx))
    /\ Becomes(Report(Ctx)) /\ awake' = FALSE /\ UNCH_LOOP

\* There is more to do: another pass without an event.
Again ==
    /\ awake /\ ~mac.task /\ IsTransmitPending(Ctx) /\ ~IsBusy(Ctx)
    /\ Pass(Ctx) /\ UNCHANGED awake /\ UNCH_LOOP

\* A tasklet of the MAC after a transmission: only a sleepy node does not listen when idle.
Tasklet ==
    /\ awake /\ mac.task
    /\ \E y \in {CallReceive(Ctx, ch) : ch \in Channels} \cup {CallSleep(Ctx) : c \in Calls \cap {"sleep"}} :
         Becomes([y EXCEPT !.mac.task = FALSE])
    /\ UNCHANGED awake /\ UNCH_LOOP

\* An alarm of the stack, or a line on its UART, wakes the node; the MAC is called before or after the pass.
StackRuns ==
    /\ ~awake /\ awake' = TRUE /\ UNCH_LOOP
    /\ LET x == RadioProcess(Ctx)
       IN \/ \E y \in Callable(x) \cup {x} : Pass(y)
          \/ \E w \in WAIT_TIMES : \E y \in Callable(InterfererProcess(RadioProcess(x), w)) : Becomes(y)

-----------------------------------------------------------------------------
(* The simulator and the other nodes. *)

Woken == ~awake /\ awake' = TRUE

\* The time for which the node asked to be woken.
Wake ==
    /\ sim.wake = 0 /\ Woken /\ UNCH_LOOP
    /\ Pass([RadioProcess(Ctx) EXCEPT !.sim.wake = None])

\* The channel was sampled; on channel 0 nobody sends.
CcaSampled ==
    /\ sim.cca = 0 /\ Woken /\ UNCH_LOOP
    /\ \E clear \in IF sim.ccaCh = 0 THEN {TRUE} ELSE BOOLEAN :
         Pass(CcaDone([RadioProcess(Ctx) EXCEPT !.sim.cca = None], clear))

Transmitted ==
    /\ sim.tx = 0 /\ Woken /\ UNCH_LOOP
    /\ Pass(TxDone([RadioProcess(Ctx) EXCEPT !.sim.tx = None, !.sim.energy = IF @ = "transmit" THEN "receive" ELSE @]))

\* CheckRadioReachable, as far as the receiver decides it.
Reachable(ch) == sim.energy = "receive" /\ sim.ch = ch

Arrives(ch) == IF ~Reachable(ch) THEN {FALSE} ELSE IF "loss" \in Faults THEN BOOLEAN ELSE {TRUE}

Duration(kind) == IF kind \in {"ack", "stray"} THEN ACK_TIME ELSE FRAME_TIME

\* A frame begins; it reaches the node if that listens.
FrameStarts(s, kind, ch) ==
    /\ air[s].left = None /\ ~awake
    /\ air' = [air EXCEPT ![s] = [kind |-> kind, ch |-> ch, left |-> Duration(kind)]]
    /\ UNCHANGED drifts
    /\ \E here \in Arrives(ch) :
         /\ awake' = here
         /\ IF here THEN Pass(RxStart(RadioProcess(Ctx), s, ch, Duration(kind))) ELSE Becomes(Ctx)

\* A frame ends; only a node it is addressed to is told, or all when it has no address.
FrameEnds(s) ==
    /\ air[s].left = 0 /\ ~awake
    /\ air' = [air EXCEPT ![s] = NoFrame]
    /\ UNCHANGED drifts
    /\ \E here \in IF air[s].kind = "other" THEN {FALSE} ELSE Arrives(air[s].ch), ok \in BOOLEAN :
         /\ awake' = here
         /\ IF here THEN Pass(RxDone(RadioProcess(Ctx), s, air[s].kind, ok)) ELSE Becomes(Ctx)

Less(t, n) == IF t = None THEN None ELSE IF t > n THEN t - n ELSE 0

\* Time passes when no event is due; a clock that drifts runs one unit more or less.
Tick ==
    /\ ~awake /\ sim.wake # 0 /\ sim.cca # 0 /\ sim.tx # 0 /\ \A s \in Senders : air[s].left # 0
    /\ sim' = [sim EXCEPT !.wake = Less(@, 1), !.cca = Less(@, 1), !.tx = Less(@, 1)]
    /\ air' = [s \in Senders |-> [air[s] EXCEPT !.left = Less(@, 1)]]
    /\ hist' = [hist EXCEPT !.owed = IF @ > 0 THEN @ - 1 ELSE @]
    /\ \E d \in {1} \cup (IF drifts = 0 THEN {} ELSE IF "fast" \in Faults THEN {2} ELSE {0}) :
         r' = [r EXCEPT !.next = Less(@, d)] /\ drifts' = IF d = 1 THEN drifts ELSE drifts - 1
    /\ UNCHANGED <<mac, awake>>

Simulator == Wake \/ CcaSampled \/ Transmitted \/ \E s \in Senders : FrameEnds(s)
Loop == FallAsleep \/ Again \/ Tasklet

Next ==
    \/ Loop \/ Simulator \/ StackRuns \/ Tick
    \/ \E s \in Senders, kind \in FrameKinds, ch \in Channels : FrameStarts(s, kind, ch)

Spec == Init /\ [][Next]_vars

\* The node runs, the simulator delivers what is due, and time passes: an alarm of the stack is always
\* later than now, so the stack does not run for ever at one time.
FairSpec == Spec /\ WF_vars(Loop) /\ SF_vars(Simulator) /\ SF_vars(Tick)

-----------------------------------------------------------------------------
TypeOK ==
    /\ r.st \in States /\ r.sub \in SubStates /\ r.next \in Nat /\ mac.done \in 0..2
    /\ sim.wake \in {None} \cup Nat /\ sim.cca \in {None} \cup Nat /\ sim.tx \in {None} \cup Nat

\* otPlatRadioTxDone is called once for a frame of the MAC, and the radio is in its transmit state until then.
DoneOnce == mac.done < 2 /\ (mac.done = 0 <=> r.st = "transmit")

\* A frame that was not sent is said to have failed to get the channel; one that was sent, once, is not.
ResultTrue ==
    /\ mac.sent <= 1
    /\ mac.done = 1 /\ mac.result # "none" => (mac.result = "channel_access" <=> mac.sent = 0)
    /\ mac.done = 1 /\ mac.result = "none" /\ r.frame.ch # 0 => mac.sent = 1

\* While the node sleeps, the simulator will wake it when its substate is over: not later.
WokenInTime == ~awake /\ r.next > 0 => sim.wake # None /\ sim.wake <= r.next

\* The failsafe timers of CCA and transmission do not expire before the simulator answers.
AnswersFirst == hist.failsafe = {}

\* The radio never begins a transmission while another of its own is going on.
OneTransmission == ~hist.clash

\* An acknowledgment is sent exactly the time AIFS after the frame, whatever the MAC does in between.
AckInTime == ~hist.ackWrong /\ (hist.owed # None => r.sub = "rx_aifs")

\* A frame is sent on the channel that was sampled for it.
SampledFirst == ~hist.unsampled

\* The state reported before the node sleeps has the channel on which the radio is to receive.
ReportedChannel == ~awake /\ r.st = "receive" /\ r.sub = "ready" => sim.ch = r.cur

\* No acknowledgment is sent in promiscuous mode.
NoAckPromiscuous == ~hist.ackProm

\* A frame is handed to the MAC with the time at which that frame began.
StampOwn == ~hist.stampWrong

\* The radio tells the MAC the end of every transmission, without its help.
TransmitEnds == (mac.done = 0) ~> (mac.done # 0)

\* An interferer does not stop sending.
KeepsSending == []<>(r.sub = "tx_frame")
====
