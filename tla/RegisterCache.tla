--------------------------- MODULE RegisterCache ----------------------------
(***************************************************************************)
(* Switches and selects that read, modify and write a register.            *)
(*                                                                         *)
(* An entity computes the word to write from the cached one, puts it on    *)
(* the write queue and notes it in the cache at once.  The queue is sent   *)
(* frame by frame under the lock of the link, between the polls, which     *)
(* store what they read; a switch shows what was stored or noted last.     *)
(* The inverter resets some registers unless they are written again, which *)
(* the keep-alive timer of their switch does.                              *)
(*                                                                         *)
(* A write is a function from registers to words, and a word is the set of *)
(* its bits that are 1.  All registers are read in one poll.  The transport*)
(* and the queue are abstracted from module ModbusController.              *)
(***************************************************************************)
EXTENDS ControlTables, FiniteSets, SequencesExt

CONSTANTS
    Registers,     \* the registers in the model
    Starts,        \* the words the inverter may start with
    Switches,      \* the switches, each a control
    Selects,       \* the selects, each a set of controls
    Unknown,       \* no value
    MaxCalls,      \* bound: calls of the user
    MaxFailures,   \* bound: frames that fail, and losses of the link
    MaxResets,     \* bound: resets of a register by the inverter
    MaxQueue       \* bound: the queue when a keep-alive timer fires

TouVersionRegister == 33289
TouVersionV2 == BitsOf(43605)

Words == SUBSET (0..15)
Controls == Switches \cup UNION Selects
BitEntities == {c \in Controls : c.bits # {}}
BitRegisters == {c.register : c \in BitEntities}

ASSUME CacheAssumption ==
    /\ TouVersionRegister \in Registers
    /\ Unknown # TRUE /\ \A word \in Words : word # Unknown
    /\ \A start \in Starts : start \in [Registers -> Words]
    /\ {MaxCalls, MaxFailures, MaxResets, MaxQueue} \subseteq Nat

\* The tables of controls: no register has both bits and values.
ASSUME ControlAssumption ==
    \A c \in Controls :
        /\ {c.register, c.target} \subseteq Registers
        /\ c.bits \cup c.conflicts \cup c.requires \in Words
        /\ c.requiresAny \in Seq(0..15)
        /\ c.on \cup c.off \subseteq Words
        /\ c.companions \in Seq(Registers) /\ Len(c.companions) <= 3
        /\ IF c.bits # {} THEN c.target = c.register
           ELSE {c.register, c.target} \cap BitRegisters = {}

KeptAlive == {s \in Switches : s.keepAlive}

\* The registers that revert to 0 unless they are written within the RC timeout.
Reverting == {s.register : s \in KeptAlive}

Callers == {"switch", "select"}

VARIABLES
    device,      \* the registers of the inverter
    cache,       \* hass.data[DOMAIN][VALUES]
    queue,       \* write_queue
    frame,       \* the frame that holds the lock of the link
    link,        \* whether the inverter is connected
    asking,      \* calls that wait for a live read
    shown,       \* _attr_is_on of the switches
    timers,      \* switches whose _keep_alive_unsub is set
    wish,        \* the last command to a switch
    calls, failures, resets   \* what happened so far

entityVars == <<asking, shown, timers, wish>>
countVars == <<calls, failures, resets>>
cacheVars == <<device, cache, queue, frame, link, entityVars, countVars>>

\* A call of set_register_bit.
Call(by, control, value, force) ==
    [by |-> by, control |-> control, value |-> value, force |-> force]

\* A frame on the link: the words it carries, and the calls that wait for it.
Frame(kind, words, waiting) == [kind |-> kind, words |-> words, waiting |-> waiting]
Idle == Frame("idle", <<>>, {})

TypeOK ==
    /\ device \in [Registers -> Words]
    /\ cache \in [Registers -> Words \cup {Unknown}]
    /\ \A i \in DOMAIN queue : DOMAIN queue[i] \subseteq Registers
    /\ frame.kind \in {"idle", "poll", "live", "write", "readback"}
    /\ link \in BOOLEAN
    /\ \A k \in asking : k.by \in Callers /\ \A j \in asking : j.by = k.by => j = k
    /\ shown \in [Switches -> BOOLEAN \cup {Unknown}]
    /\ timers \subseteq KeptAlive
    /\ wish \in [Switches -> BOOLEAN \cup {Unknown}]

Init ==
    /\ device \in Starts
    /\ cache = [r \in Registers |-> Unknown]
    /\ queue = <<>> /\ frame = Idle /\ link = TRUE
    /\ asking = {} /\ timers = {}
    /\ shown = [s \in Switches |-> Unknown]
    /\ wish = [s \in Switches |-> Unknown]
    /\ calls = 0 /\ failures = 0 /\ resets = 0

-----------------------------------------------------------------------------
(***************************************************************************)
(* The words.                                                              *)
(***************************************************************************)
Single(register, word) == [r \in {register} |-> word]

\* handle_modbus_update: whether a switch is on, by the word of its register.
IsOn(s, word) ==
    IF s.bits # {} THEN (s.bits \subseteq word) # s.inverted ELSE word \in s.on

\* Variant with a defect, to test the properties: only changes are notified.
NotifiedOfChanges(words) ==
    [s \in Switches |-> IF s.register \in DOMAIN words /\ words[s.register] # cache[s.register]
                        THEN IsOn(s, words[s.register])
                        ELSE shown[s]]

\* Every switch of a register that was stored is notified, changed or not.
Notified(words) ==
    [s \in Switches |-> IF s.register \in DOMAIN words THEN IsOn(s, words[s.register])
                        ELSE shown[s]]

Stored(words) == [r \in Registers |-> IF r \in DOMAIN words THEN words[r] ELSE cache[r]]

\* What a switch adds when it goes on: its requirements, and one of some if it has none.
Required(s, word) ==
    s.requires \cup
    {s.requiresAny[i] : i \in {j \in DOMAIN s.requiresAny :
                                  j = 1 /\ word \cap ToSet(s.requiresAny) = {}}}

\* The word to write.  Without an off-value it is int(False).
NewWord(s, value, word) ==
    IF s.bits = {} THEN UNION (IF value THEN s.on ELSE s.off)
    ELSE LET rest == IF value THEN (word \ s.conflicts) \cup Required(s, word) ELSE word
         IN  IF value # s.inverted THEN rest \cup s.bits ELSE rest \ s.bits

\* The setpoints to write again, of those whose words are known.
Companion(s, i) ==
    IF i \in DOMAIN s.companions /\ cache[s.companions[i]] # Unknown
    THEN <<Single(s.companions[i], cache[s.companions[i]])>> ELSE <<>>

KnownCompanions(s) == Companion(s, 1) \o Companion(s, 2) \o Companion(s, 3)

-----------------------------------------------------------------------------
(***************************************************************************)
(* set_register_bit.  Entities of a platform are served one at a time.     *)
(***************************************************************************)
\* Variant with a defect, to test the properties: an empty cache counts as 0.
NeverReads(control) == FALSE

NeedsRead(control) == control.bits # {} /\ cache[control.register] = Unknown

\* Variant with a defect, to test the properties: the mode bits stay.
OptionKeepingModes(o, word) == word \cup o.requires \cup o.bits

OptionWord(o, word) == (word \ o.conflicts) \cup o.requires \cup o.bits

WordFor(k, word) ==
    IF k.by = "select" THEN OptionWord(k.control, word) ELSE NewWord(k.control, k.value, word)

\* The rest of the call, once a word is known.  A timer is set, also after a failure.
Decide(k, word) ==
    LET s    == k.control
        new  == WordFor(k, IF word = Unknown THEN {} ELSE word)
        send == link /\ (k.force \/ word # new)
    IN  /\ queue' = IF ~send THEN queue
                    ELSE queue \o <<Single(s.target, new)>> \o
                         (IF k.by # "select" /\ k.value THEN KnownCompanions(s) ELSE <<>>)
        /\ cache' = LET read == IF s.bits # {} THEN Stored(Single(s.register, word)) ELSE cache
                    IN  IF send THEN [read EXCEPT ![s.target] = new] ELSE read
        /\ shown' = IF k.by = "select" THEN shown ELSE [shown EXCEPT ![s] = k.value]

Armed(k) == {s \in {k.control} : s.keepAlive /\ k.value /\ k.by # "select"}

Start(k) ==
    \/ /\ NeedsRead(k.control)
       /\ asking' = asking \cup {k}
       /\ UNCHANGED <<queue, cache, shown, timers>>
    \/ /\ ~NeedsRead(k.control)
       /\ Decide(k, cache[k.control.register])
       /\ timers' = timers \cup Armed(k)
       /\ UNCHANGED asking

\* Variant with a defect, to test the properties: calls of a platform overlap.
Unlimited(by) == TRUE

Served(by) == \A k \in asking : k.by # by

TurnOn(s) ==
    /\ calls < MaxCalls /\ Served("switch")
    /\ calls' = calls + 1
    /\ wish' = [wish EXCEPT ![s] = TRUE]
    /\ Start(Call("switch", s, TRUE, s.keepAlive \/ s.companions # <<>>))
    /\ UNCHANGED <<device, frame, link, failures, resets>>

\* Variant with a defect, to test the properties: the timer is not cancelled.
TurnOffKeepingTimer(s) ==
    /\ calls < MaxCalls /\ Served("switch")
    /\ calls' = calls + 1
    /\ wish' = [wish EXCEPT ![s] = FALSE]
    /\ Start(Call("switch", s, FALSE, FALSE))
    /\ UNCHANGED <<device, frame, link, failures, resets>>

\* The timer is cancelled first.
TurnOff(s) ==
    /\ calls < MaxCalls /\ Served("switch")
    /\ calls' = calls + 1
    /\ wish' = [wish EXCEPT ![s] = FALSE]
    /\ timers' = timers \ {s}
    /\ \/ /\ NeedsRead(s)
          /\ asking' = asking \cup {Call("switch", s, FALSE, FALSE)}
          /\ UNCHANGED <<queue, cache, shown>>
       \/ /\ ~NeedsRead(s)
          /\ Decide(Call("switch", s, FALSE, FALSE), cache[s.register])
          /\ UNCHANGED asking
    /\ UNCHANGED <<device, frame, link, failures, resets>>

\* _keep_alive_refresh: written again while the switch shows on, when its word is known.
TimerFires(s) ==
    /\ s \in timers /\ Len(queue) < MaxQueue
    /\ \/ /\ shown[s] = TRUE
          /\ Decide(Call("timer", s, TRUE, TRUE), cache[s.register])
          /\ UNCHANGED timers
       \/ /\ shown[s] # TRUE
          /\ timers' = timers \ {s}
          /\ UNCHANGED <<queue, cache, shown>>
    /\ UNCHANGED <<device, frame, link, asking, wish, countVars>>

-----------------------------------------------------------------------------
(***************************************************************************)
(* Selects.                                                                *)
(***************************************************************************)
HideTouV1 == cache[TouVersionRegister] = TouVersionV2

Offered(options) == {o \in options : HideTouV1 => ~o.touV1}

Own(o) == o.bits \cup o.requires
Fits(o, word) == IF o.bits = {} THEN word \in o.on ELSE Own(o) \subseteq word
FitsExactly(o, word) == Fits(o, word) /\ word \cap (o.conflicts \ Own(o)) = {}

MostSpecific(options) ==
    {o \in options : \A p \in options : Cardinality(p.requires) <= Cardinality(o.requires)}

\* current_option: exact ones before others, and those with more requirements first.
CurrentOption(options, cached) ==
    LET word  == IF \E o \in options : o.touV1 /\ HideTouV1 THEN cached \ {1} ELSE cached
        exact == {o \in Offered(options) : FitsExactly(o, word)}
        loose == {o \in Offered(options) : Fits(o, word)}
    IN  MostSpecific(IF exact # {} THEN exact ELSE loose)

\* A value is queued whatever the link, and not noted in the cache.
SelectOption(o) ==
    /\ calls < MaxCalls /\ Served("select")
    /\ HideTouV1 => ~o.touV1
    /\ calls' = calls + 1
    /\ \/ /\ o.bits # {}
          /\ Start(Call("select", o, TRUE, FALSE))
       \/ /\ o.bits = {}
          /\ queue' = queue \o <<Single(o.register, UNION o.on)>> \o KnownCompanions(o)
          /\ UNCHANGED <<cache, shown, asking, timers>>
    /\ UNCHANGED <<device, frame, link, wish, failures, resets>>

-----------------------------------------------------------------------------
(***************************************************************************)
(* Frames.                                                                 *)
(***************************************************************************)
Sends == frame = Idle /\ link

\* A poll reads all registers; what it read is stored when the answer is handled.
PollStarts ==
    /\ Sends
    /\ frame' = Frame("poll", device, {})
    /\ UNCHANGED <<device, cache, queue, link, entityVars, countVars>>

PollReturns ==
    /\ frame.kind = "poll" /\ frame' = Idle
    /\ cache' = frame.words
    /\ shown' = Notified(frame.words)
    /\ UNCHANGED <<device, queue, link, asking, timers, wish, countVars>>

\* Before a call can compute a word it reads the register.
LiveReadStarts ==
    /\ Sends
    /\ \E k \in asking :
          LET r == k.control.register
          IN  frame' = Frame("live", Single(r, device[r]), {k})
    /\ UNCHANGED <<device, cache, queue, link, entityVars, countVars>>

LiveReadReturns ==
    /\ frame.kind = "live" /\ frame' = Idle
    /\ \E k \in frame.waiting :
          /\ asking' = asking \ {k}
          /\ Decide(k, frame.words[k.control.register])
          /\ timers' = timers \cup Armed(k)
    /\ UNCHANGED <<device, link, wish, countVars>>

\* The word that was queued first is sent.
WriteStarts ==
    /\ Sends /\ queue # <<>>
    /\ frame' = Frame("write", Head(queue), {})
    /\ queue' = Tail(queue)
    /\ UNCHANGED <<device, cache, link, entityVars, countVars>>

Overwritten(words) ==
    [r \in Registers |-> IF r \in DOMAIN words THEN words[r] ELSE device[r]]

\* The inverter takes the words, and they are stored as its answer.
WriteReturns ==
    /\ frame.kind = "write" /\ frame' = Idle
    /\ device' = Overwritten(frame.words)
    /\ cache' = Stored(frame.words)
    /\ shown' = Notified(frame.words)
    /\ UNCHANGED <<queue, link, asking, timers, wish, countVars>>

\* No answer comes, with the link or without; a write may have arrived. A live read gives up.
FrameFails ==
    /\ frame # Idle /\ failures < MaxFailures
    /\ failures' = failures + 1
    /\ frame' = Idle /\ link' \in BOOLEAN
    /\ \/ UNCHANGED device
       \/ frame.kind = "write" /\ device' = Overwritten(frame.words)
    /\ asking' = asking \ frame.waiting
    /\ timers' = timers \cup UNION {Armed(k) : k \in frame.waiting \cap asking}
    /\ UNCHANGED <<cache, queue, shown, wish, calls, resets>>

\* A live read without a link gives up after the attempt to connect.
LiveReadGivesUp ==
    /\ frame = Idle /\ ~link
    /\ \E k \in asking :
          /\ asking' = asking \ {k}
          /\ timers' = timers \cup Armed(k)
    /\ UNCHANGED <<device, cache, queue, frame, link, shown, wish, countVars>>

LinkLost ==
    /\ frame = Idle /\ link /\ failures < MaxFailures
    /\ failures' = failures + 1 /\ link' = FALSE
    /\ UNCHANGED <<device, cache, queue, frame, entityVars, calls, resets>>

LinkBack ==
    /\ ~link /\ link' = TRUE
    /\ UNCHANGED <<device, cache, queue, frame, entityVars, countVars>>

\* The RC timeout: the whole register reverts to 0, with the bits of others in it.
Resets(r) ==
    /\ resets < MaxResets /\ resets' = resets + 1
    /\ device[r] # {}
    /\ device' = [device EXCEPT ![r] = {}]
    /\ UNCHANGED <<cache, queue, frame, link, entityVars, calls, failures>>

UserStep ==
    \/ \E s \in Switches : TurnOn(s) \/ TurnOff(s)
    \/ \E options \in Selects : \E o \in options : SelectOption(o)

CacheStep ==
    \/ UserStep
    \/ \E s \in KeptAlive : TimerFires(s)
    \/ \E r \in Reverting : Resets(r)
    \/ PollStarts \/ PollReturns
    \/ LiveReadStarts \/ LiveReadReturns \/ LiveReadGivesUp
    \/ WriteStarts \/ WriteReturns
    \/ LinkLost \/ LinkBack

CacheNext == CacheStep \/ FrameFails

\* Frames are answered or time out, the queue is served and polls go on: who waits for the
\* lock of the link gets it in turn.
CacheFairness ==
    /\ WF_cacheVars(PollReturns \/ LiveReadReturns \/ WriteReturns \/ LiveReadGivesUp)
    /\ SF_cacheVars(PollStarts) /\ SF_cacheVars(LiveReadStarts) /\ SF_cacheVars(WriteStarts)

CacheSpec == Init /\ [][CacheNext]_cacheVars

-----------------------------------------------------------------------------
(***************************************************************************)
(* Properties.                                                             *)
(***************************************************************************)
\* The bits that a switch or an option of bits may change.
Touched(c) == c.bits \cup c.conflicts \cup c.requires \cup ToSet(c.requiresAny)

OwnBits(r) == UNION {Touched(c) : c \in {d \in BitEntities : d.register = r}}

\* The registers that still hold what they held at the start in the bits of others.
Unreset == {r \in BitRegisters : r \in Reverting => resets = 0}

\* A bit that belongs to no switch or option of its register keeps its value in the
\* inverter, whatever was cached, or not yet cached, when a word was computed: in every
\* register, until the inverter itself resets one of those that revert.  (After that it is
\* not so: a word from before the reset sets the bits of the ports of 44280 again.)
OtherBitsSurvive ==
    [][\A r \in Unreset' : device'[r] \ OwnBits(r) = device[r] \ OwnBits(r)]_cacheVars

\* A switch that was put off is not written on again by its timer.
OffStaysOff == \A s \in timers : wish[s] = TRUE

\* Whatever mode bits the register holds, an option of bits that is selected now shows as
\* the current one, and as no other, as soon as its word is noted.
SelectRoundTrip ==
    \A options \in Selects : \A o \in Offered(options) :
        o.bits # {} /\ cache[o.register] # Unknown =>
            CurrentOption(options, OptionWord(o, cache[o.register])) = {o}

\* When calls, failures and resets are over and the link is up, the cache comes to hold,
\* and every switch to show, what is in the inverter: also after a write that was noted
\* and lost, or a switch that noted itself while the link was gone.
CacheConverges ==
    <>[]link => <>[](cache = device /\ \A s \in Switches : shown[s] = IsOn(s, device[s.register]))

\* A switch that nothing else touches.
Alone(s) ==
    /\ s \in BitEntities /\ ~s.keepAlive
    /\ \A c \in BitEntities \ {s} : c.target = s.register => s.bits \cap Touched(c) = {}

\* When all is written, and no frame failed, such a switch is as its last command said.
TogglesAdd ==
    queue = <<>> /\ frame = Idle /\ asking = {} /\ failures = 0 =>
        \A s \in Switches : Alone(s) /\ wish[s] # Unknown =>
            (s.bits \subseteq device[s.register]) = (wish[s] # s.inverted)
=============================================================================
