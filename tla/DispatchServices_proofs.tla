---------------------- MODULE DispatchServices_proofs -----------------------
(***************************************************************************)
(* Proofs about modules RegisterCache and DispatchServices, for any        *)
(* registers, switches, selects and dispatch calls, and any number of      *)
(* calls, failures and resets.                                             *)
(***************************************************************************)
EXTENDS DispatchServices, TLAPS, SequenceTheorems, FiniteSetTheorems

-----------------------------------------------------------------------------
(***************************************************************************)
(* Words and writes.                                                       *)
(***************************************************************************)
Writes == UNION {[D -> Words] : D \in SUBSET Registers}

LEMMA WriteFacts ==
    ASSUME NEW w \in Writes
    PROVE  DOMAIN w \subseteq Registers /\ \A r \in DOMAIN w : w[r] \in Words
BY DEF Writes

LEMMA IsWrite ==
    ASSUME NEW D \in SUBSET Registers, NEW w \in [D -> Words]
    PROVE  w \in Writes
BY DEF Writes

LEMMA SingleFacts ==
    ASSUME NEW r \in Registers, NEW word \in Words
    PROVE  /\ Single(r, word) \in Writes
           /\ DOMAIN Single(r, word) = {r} /\ Single(r, word)[r] = word
BY IsWrite DEF Single

LEMMA WithFacts ==
    ASSUME NEW w \in Writes, NEW r \in Registers, NEW word \in Words
    PROVE  /\ With(w, r, word) \in Writes
           /\ DOMAIN With(w, r, word) = DOMAIN w \cup {r}
           /\ \A q \in DOMAIN w \cup {r} :
                 With(w, r, word)[q] = IF q = r THEN word ELSE w[q]
<1>1. DOMAIN w \cup {r} \in SUBSET Registers
  BY WriteFacts
<1>2. With(w, r, word) \in [DOMAIN w \cup {r} -> Words]
  BY WriteFacts DEF With
<1>. QED BY <1>1, <1>2, IsWrite DEF With

LEMMA UnknownIsNoWord == \A word \in Words : word # Unknown
BY CacheAssumption

\* The elements of a queue.
LEMMA Concatenated ==
    ASSUME NEW S, NEW q \in Seq(S), NEW t \in Seq(S)
    PROVE  q \o t \in Seq(S) /\ ToSet(q \o t) = ToSet(q) \cup ToSet(t)
<1>1. /\ q \o t \in Seq(S) /\ Len(q \o t) = Len(q) + Len(t)
      /\ \A i \in 1..(Len(q) + Len(t)) :
            (q \o t)[i] = IF i <= Len(q) THEN q[i] ELSE t[i - Len(q)]
  BY ConcatProperties
<1>2. /\ DOMAIN q = 1..Len(q) /\ DOMAIN t = 1..Len(t) /\ DOMAIN (q \o t) = 1..(Len(q) + Len(t))
      /\ Len(q) \in Nat /\ Len(t) \in Nat
  BY <1>1
<1>3. ToSet(q \o t) \subseteq ToSet(q) \cup ToSet(t)
  <2>1. SUFFICES ASSUME NEW i \in 1..(Len(q) + Len(t))
                 PROVE  (q \o t)[i] \in ToSet(q) \cup ToSet(t)
    BY <1>2 DEF ToSet
  <2>2. CASE i <= Len(q)
    BY <1>1, <1>2, <2>1, <2>2 DEF ToSet
  <2>3. CASE i > Len(q)
    <3>1. i - Len(q) \in 1..Len(t)
      BY <1>2, <2>1, <2>3
    <3>2. (q \o t)[i] = t[i - Len(q)]
      BY <1>1, <1>2, <2>1, <2>3
    <3>. QED BY <1>2, <3>1, <3>2 DEF ToSet
  <2>. QED BY <1>2, <2>1, <2>2, <2>3
<1>4. ToSet(q) \subseteq ToSet(q \o t)
  <2>1. SUFFICES ASSUME NEW i \in 1..Len(q)
                 PROVE  q[i] \in ToSet(q \o t)
    BY <1>2 DEF ToSet
  <2>2. i \in 1..(Len(q) + Len(t)) /\ (q \o t)[i] = q[i]
    BY <1>1, <1>2, <2>1
  <2>. QED BY <1>2, <2>2 DEF ToSet
<1>5. ToSet(t) \subseteq ToSet(q \o t)
  <2>1. SUFFICES ASSUME NEW i \in 1..Len(t)
                 PROVE  t[i] \in ToSet(q \o t)
    BY <1>2 DEF ToSet
  <2>2. Len(q) + i \in 1..(Len(q) + Len(t)) /\ (q \o t)[Len(q) + i] = t[i]
    BY <1>1, <1>2, <2>1
  <2>. QED BY <1>2, <2>2 DEF ToSet
<1>. QED BY <1>1, <1>3, <1>4, <1>5

LEMMA Served1st ==
    ASSUME NEW S, NEW q \in Seq(S), q # <<>>
    PROVE  /\ Head(q) \in ToSet(q) /\ Head(q) \in S
           /\ Tail(q) \in Seq(S) /\ ToSet(Tail(q)) \subseteq ToSet(q)
<1>1. Len(q) \in Nat /\ Len(q) >= 1 /\ DOMAIN q = 1..Len(q) /\ Head(q) = q[1]
  BY EmptySeq
<1>2. /\ Tail(q) \in Seq(S) /\ Len(Tail(q)) = Len(q) - 1
      /\ \A i \in 1..Len(Tail(q)) : Tail(q)[i] = q[i + 1]
  BY HeadTailProperties
<1>3. DOMAIN Tail(q) = 1..(Len(q) - 1)
  BY <1>2
<1>4. \A i \in 1..(Len(q) - 1) : i + 1 \in 1..Len(q)
  BY <1>1
<1>. QED BY <1>1, <1>2, <1>3, <1>4 DEF ToSet

LEMMA OneElement ==
    ASSUME NEW S, NEW w \in S
    PROVE  <<w>> \in Seq(S) /\ ToSet(<<w>>) = {w}
BY DEF ToSet

LEMMA NoElement == \A S : <<>> \in Seq(S) /\ ToSet(<<>>) = {}
BY DEF ToSet

-----------------------------------------------------------------------------
(***************************************************************************)
(* The invariant.                                                          *)
(***************************************************************************)
Other(word, r) == word \ OwnBits(r)

\* A write that changes, in the registers the inverter has not reset, only the bits the
\* entities have.
Faithful(w) == \A r \in Unreset \cap DOMAIN w : Other(w[r], r) = Other(device[r], r)

\* Calls that wait for a live read.
Asks ==
    [by : {"switch"}, control : {c \in Switches : c.bits # {}}, value : BOOLEAN, force : BOOLEAN]
    \cup
    [by : {"select"}, control : {c \in UNION Selects : c.bits # {}}, value : {TRUE},
     force : {FALSE}]

FrameInv ==
    /\ frame.words \in Writes
    /\ frame.kind \in {"idle", "poll", "live", "write", "readback"}
    /\ frame.kind = "poll" => DOMAIN frame.words = Registers
    /\ frame.kind = "live" => \E k \in asking : /\ frame.waiting = {k}
                                                /\ DOMAIN frame.words = {k.control.register}
    /\ frame.kind \in {"idle", "poll", "write"} => frame.waiting = {}
    /\ frame.kind = "readback" => \E c \in Requests : /\ frame.waiting = {c} /\ phase[c] = "read"
                                                      /\ DOMAIN frame.words = Reserves(c)

TypeInv ==
    /\ device \in [Registers -> Words]
    /\ cache \in [Registers -> Words \cup {Unknown}]
    /\ queue \in Seq(Writes)
    /\ link \in BOOLEAN
    /\ shown \in [Switches -> BOOLEAN \cup {Unknown}]
    /\ phase \in [Requests -> Phases]
    /\ resets \in Nat

AskInv ==
    /\ asking \subseteq Asks
    /\ \A j, k \in asking : j.by = k.by => j = k
    /\ timers \subseteq KeptAlive
    /\ wish \in [Switches -> BOOLEAN \cup {Unknown}]

\* A switch that shows on has a word.
ShownInv == \A s \in Switches : s.bits # {} /\ shown[s] = TRUE => cache[s.register] # Unknown

\* What is cached, queued and on the link leaves the bits of others as they are, in the
\* registers that the inverter has not reset.
BitsInv ==
    /\ \A r \in Unreset : cache[r] # Unknown => Other(cache[r], r) = Other(device[r], r)
    /\ \A w \in ToSet(queue) : Faithful(w)
    /\ frame.kind \in {"poll", "live", "write"} => Faithful(frame.words)

\* A timer, or a call that will set one, belongs to a switch that was put on.
TimerInv ==
    /\ \A s \in timers : wish[s] = TRUE
    /\ \A k \in asking : k.by = "switch" /\ k.value = TRUE => wish[k.control] = TRUE

Locked(c) == phase[c] \in {"flush", "read"}

\* While a call reads its two words nobody else writes them.
LockInv ==
    /\ \A c, d \in Requests : Locked(c) /\ Locked(d) => c = d
    /\ \A c \in Requests : phase[c] = "read" =>
          /\ \A w \in ToSet(queue) : DOMAIN w \cap Reserves(c) = {}
          /\ frame.kind = "write" => DOMAIN frame.words \cap Reserves(c) = {}
          /\ frame.kind = "readback" => \A r \in Reserves(c) : frame.words[r] = device[r]

CoreInv == TypeInv /\ ShownInv /\ BitsInv /\ LockInv

IndInv == CoreInv /\ FrameInv /\ AskInv /\ TimerInv

-----------------------------------------------------------------------------
(***************************************************************************)
(* Computing a word.                                                       *)
(***************************************************************************)
LEMMA ControlTypes ==
    ASSUME NEW c \in Controls
    PROVE  /\ c.register \in Registers /\ c.target \in Registers
           /\ c.bits \in Words /\ c.conflicts \in Words /\ c.requires \in Words
           /\ c.requiresAny \in Seq(0..15) /\ ToSet(c.requiresAny) \in Words
           /\ c.on \subseteq Words /\ c.off \subseteq Words
           /\ c.bits # {} => c.target = c.register /\ c.register \in BitRegisters
           /\ c.bits = {} => c.target \notin BitRegisters /\ c.register \notin BitRegisters
<1>1. /\ c.register \in Registers /\ c.target \in Registers
      /\ c.bits \cup c.conflicts \cup c.requires \in Words
      /\ c.requiresAny \in Seq(0..15) /\ c.on \cup c.off \subseteq Words
      /\ c.bits # {} => c.target = c.register
      /\ c.bits = {} => {c.register, c.target} \cap BitRegisters = {}
  BY ControlAssumption
<1>2. ToSet(c.requiresAny) \in Words
  BY <1>1 DEF ToSet, Words
<1>3. c.bits # {} => c.register \in BitRegisters
  BY DEF BitRegisters, BitEntities
<1>4. c.bits \in Words /\ c.conflicts \in Words /\ c.requires \in Words
  BY <1>1 DEF Words
<1>. QED BY <1>1, <1>2, <1>3, <1>4

\* A switch or an option of bits changes bits of its own only.
LEMMA OwnOnly ==
    ASSUME NEW c \in BitEntities
    PROVE  Touched(c) \subseteq OwnBits(c.register)
BY DEF OwnBits

LEMMA RequiredFacts ==
    ASSUME NEW c \in Controls, NEW word \in Words
    PROVE  Required(c, word) \subseteq c.requires \cup ToSet(c.requiresAny)
BY DEF Required, ToSet

LEMMA NewWordFacts ==
    ASSUME NEW c \in Controls, NEW value \in BOOLEAN, NEW word \in Words
    PROVE  /\ NewWord(c, value, word) \in Words
           /\ c.bits # {} => Other(NewWord(c, value, word), c.register) = Other(word, c.register)
<1>1. CASE c.bits = {}
  <2>1. NewWord(c, value, word) = UNION (IF value THEN c.on ELSE c.off)
    BY <1>1 DEF NewWord
  <2>. QED BY <1>1, <2>1, ControlTypes DEF Words
<1>2. CASE c.bits # {}
  <2>1. /\ c.bits \subseteq OwnBits(c.register) /\ c.conflicts \subseteq OwnBits(c.register)
        /\ Required(c, word) \subseteq OwnBits(c.register)
    BY <1>2, OwnOnly, RequiredFacts DEF Touched, BitEntities
  <2>2. Required(c, word) \in Words
    BY RequiredFacts, ControlTypes DEF Words
  <2>3. PICK rest : /\ rest \in {word, (word \ c.conflicts) \cup Required(c, word)}
                    /\ NewWord(c, value, word) \in {rest \cup c.bits, rest \ c.bits}
    BY <1>2 DEF NewWord
  <2>4. rest \in Words /\ rest \ OwnBits(c.register) = word \ OwnBits(c.register)
    BY <2>1, <2>2, <2>3 DEF Words
  <2>5. NewWord(c, value, word) \in Words
    BY <2>3, <2>4, ControlTypes DEF Words
  <2>6. NewWord(c, value, word) \ OwnBits(c.register) = word \ OwnBits(c.register)
    BY <2>1, <2>3, <2>4
  <2>. QED BY <2>5, <2>6 DEF Other
<1>. QED BY <1>1, <1>2

LEMMA OptionWordFacts ==
    ASSUME NEW c \in BitEntities, NEW word \in Words
    PROVE  /\ OptionWord(c, word) \in Words
           /\ Other(OptionWord(c, word), c.register) = Other(word, c.register)
<1>1. /\ c.bits \subseteq OwnBits(c.register) /\ c.conflicts \subseteq OwnBits(c.register)
      /\ c.requires \subseteq OwnBits(c.register)
  BY OwnOnly DEF Touched
<1>2. c.bits \in Words /\ c.conflicts \in Words /\ c.requires \in Words
  BY ControlTypes DEF BitEntities
<1>3. OptionWord(c, word) \in Words
  BY <1>2 DEF OptionWord, Words
<1>. QED BY <1>1, <1>3 DEF OptionWord, Other

\* Calls of set_register_bit: those of the user, and those of a timer.
Calls ==
    [by : {"switch", "timer"}, control : Switches, value : BOOLEAN, force : BOOLEAN] \cup
    [by : {"select"}, control : {c \in UNION Selects : c.bits # {}}, value : {TRUE},
     force : {FALSE}]

LEMMA WordForFacts ==
    ASSUME NEW k \in Calls, NEW word \in Words
    PROVE  /\ k.control \in Controls /\ WordFor(k, word) \in Words
           /\ k.control.bits # {} =>
                 Other(WordFor(k, word), k.control.register) = Other(word, k.control.register)
<1>1. k.control \in Controls
  BY DEF Calls, Controls
<1>2. CASE k.by = "select"
  <2>1. k.control \in BitEntities
    BY <1>1, <1>2 DEF Calls, BitEntities
  <2>. QED BY <1>1, <1>2, <2>1, OptionWordFacts DEF WordFor
<1>3. CASE k.by # "select"
  <2>1. k.value \in BOOLEAN
    BY DEF Calls
  <2>. QED BY <1>1, <1>3, <2>1, NewWordFacts DEF WordFor
<1>. QED BY <1>2, <1>3

\* The setpoints that are written again are those in the cache.
CompanionWrites ==
    {w \in Writes : \E r \in DOMAIN w : DOMAIN w = {r} /\ r \notin DispatchRegisters /\ w[r] = cache[r]}

LEMMA CompanionFacts ==
    ASSUME TypeInv, NEW c \in Controls, NEW i \in 1..3
    PROVE  Companion(c, i) \in Seq(Writes) /\ ToSet(Companion(c, i)) \subseteq CompanionWrites
<1>1. CASE i \in DOMAIN c.companions /\ cache[c.companions[i]] # Unknown
  <2> DEFINE r == c.companions[i]
  <2>1. r \in Registers /\ r \in ToSet(c.companions)
    <3>1. c.companions \in Seq(Registers)
      BY ControlAssumption
    <3>. QED BY <1>1, <3>1 DEF ToSet
  <2>2. r \notin DispatchRegisters
    BY <2>1, DispatchAssumption
  <2>3. cache[r] \in Words
    BY <1>1, <2>1 DEF TypeInv
  <2>4. Single(r, cache[r]) \in CompanionWrites
    BY <2>1, <2>2, <2>3, SingleFacts DEF CompanionWrites
  <2>5. Companion(c, i) = <<Single(r, cache[r])>>
    BY <1>1 DEF Companion
  <2>. QED BY <2>4, <2>5, OneElement DEF CompanionWrites
<1>2. CASE ~(i \in DOMAIN c.companions /\ cache[c.companions[i]] # Unknown)
  <2>1. Companion(c, i) = <<>>
    BY <1>2 DEF Companion
  <2>. QED BY <2>1, NoElement
<1>. QED BY <1>1, <1>2

LEMMA KnownFacts ==
    ASSUME TypeInv, NEW c \in Controls
    PROVE  KnownCompanions(c) \in Seq(Writes) /\ ToSet(KnownCompanions(c)) \subseteq CompanionWrites
<1>1. /\ Companion(c, 1) \in Seq(Writes) /\ ToSet(Companion(c, 1)) \subseteq CompanionWrites
      /\ Companion(c, 2) \in Seq(Writes) /\ ToSet(Companion(c, 2)) \subseteq CompanionWrites
      /\ Companion(c, 3) \in Seq(Writes) /\ ToSet(Companion(c, 3)) \subseteq CompanionWrites
  BY CompanionFacts
<1>2. /\ Companion(c, 1) \o Companion(c, 2) \in Seq(Writes)
      /\ ToSet(Companion(c, 1) \o Companion(c, 2)) \subseteq CompanionWrites
  BY <1>1, Concatenated
<1> DEFINE two == Companion(c, 1) \o Companion(c, 2)
           third == Companion(c, 3)
<1>3. /\ two \in Seq(Writes) /\ ToSet(two) \subseteq CompanionWrites
      /\ third \in Seq(Writes) /\ ToSet(third) \subseteq CompanionWrites
  BY <1>1, <1>2
<1>4. KnownCompanions(c) = two \o third
  BY DEF KnownCompanions
<1> HIDE DEF two, third
<1>5. two \o third \in Seq(Writes) /\ ToSet(two \o third) = ToSet(two) \cup ToSet(third)
  BY <1>3, Concatenated
<1>. QED BY <1>3, <1>4, <1>5

LEMMA CompanionsAreFaithful ==
    ASSUME BitsInv, NEW w \in CompanionWrites
    PROVE  Faithful(w) /\ DOMAIN w \cap DispatchRegisters = {}
<1>1. PICK r \in DOMAIN w : DOMAIN w = {r} /\ r \notin DispatchRegisters /\ w[r] = cache[r]
  BY DEF CompanionWrites
<1>2. w[r] \in Words /\ w[r] # Unknown
  BY WriteFacts, UnknownIsNoWord DEF CompanionWrites
<1>. QED BY <1>1, <1>2 DEF BitsInv, Faithful, Unreset

\* A call of set_register_bit that knows the word, or needs none.
Informed(k, word) ==
    /\ k \in Calls /\ word \in Words \cup {Unknown}
    /\ k.control.bits # {} => word \in Words
    /\ k.control.bits # {} /\ k.control.register \in Unreset =>
          Other(word, k.control.register) = Other(device[k.control.register], k.control.register)

\* Nobody else's writes are in the way of a call of a dispatch.
Queued(w) == w \in Writes /\ Faithful(w) /\ DOMAIN w \cap DispatchRegisters = {}

LEMMA DecideFacts ==
    ASSUME TypeInv, ShownInv, BitsInv, NEW k, NEW word, Informed(k, word), Decide(k, word)
    PROVE  /\ queue' \in Seq(Writes)
           /\ \A w \in ToSet(queue') : w \in ToSet(queue) \/ Queued(w)
           /\ cache' \in [Registers -> Words \cup {Unknown}]
           /\ \A r \in Unreset : cache'[r] # Unknown => Other(cache'[r], r) = Other(device[r], r)
           /\ shown' \in [Switches -> BOOLEAN \cup {Unknown}]
           /\ ShownInv'
<1> DEFINE s    == k.control
           known == IF word = Unknown THEN {} ELSE word
           new  == WordFor(k, known)
           send == link /\ (k.force \/ word # new)
           more == IF k.by # "select" /\ k.value THEN KnownCompanions(s) ELSE <<>>
           read == IF s.bits # {} THEN Stored(Single(s.register, word)) ELSE cache
<1>1. /\ queue' = IF ~send THEN queue ELSE queue \o <<Single(s.target, new)>> \o more
      /\ cache' = IF send THEN [read EXCEPT ![s.target] = new] ELSE read
      /\ shown' = IF k.by = "select" THEN shown ELSE [shown EXCEPT ![s] = k.value]
  BY DEF Decide
<1>2. known \in Words
  BY DEF Informed, Words
<1>3. /\ s \in Controls /\ new \in Words
      /\ s.bits # {} => Other(new, s.register) = Other(known, s.register)
  BY <1>2, WordForFacts DEF Informed
<1>4. /\ s.register \in Registers /\ s.target \in Registers
      /\ s.bits # {} => s.target = s.register /\ s.register \in BitRegisters
      /\ s.bits = {} => s.target \notin BitRegisters /\ s.register \notin BitRegisters
  BY <1>3, ControlTypes
<1>5. s.bits # {} =>
         /\ word \in Words /\ known = word
         /\ s.register \in Unreset =>
               Other(new, s.register) = Other(device[s.register], s.register)
  BY <1>3, UnknownIsNoWord DEF Informed
<1>6. Queued(Single(s.target, new))
  <2>1. /\ Single(s.target, new) \in Writes /\ DOMAIN Single(s.target, new) = {s.target}
        /\ Single(s.target, new)[s.target] = new
    BY <1>3, <1>4, SingleFacts
  <2>2. s.target \notin DispatchRegisters
    BY <1>3, DispatchAssumption
  <2>3. Faithful(Single(s.target, new))
    BY <1>4, <1>5, <2>1 DEF Faithful, Unreset
  <2>. QED BY <2>1, <2>2, <2>3 DEF Queued
<1>7. more \in Seq(Writes) /\ \A w \in ToSet(more) : Queued(w)
  <2>1. more = KnownCompanions(s) \/ more = <<>>
    OBVIOUS
  <2>2. \A w \in CompanionWrites : Queued(w)
    BY CompanionsAreFaithful DEF Queued, CompanionWrites
  <2>. QED BY <1>3, <2>1, <2>2, KnownFacts, NoElement
<1>8. queue' \in Seq(Writes) /\ \A w \in ToSet(queue') : w \in ToSet(queue) \/ Queued(w)
  <2> DEFINE first == <<Single(s.target, new)>>
  <2>1. first \in Seq(Writes) /\ \A w \in ToSet(first) : Queued(w)
    BY <1>6, OneElement DEF Queued
  <2>2. queue \in Seq(Writes)
    BY DEF TypeInv
  <2>3. queue' = IF ~send THEN queue ELSE queue \o first \o more
    BY <1>1
  <2> HIDE DEF first, more, send
  <2>4. queue \o first \in Seq(Writes) /\ ToSet(queue \o first) = ToSet(queue) \cup ToSet(first)
    BY <2>1, <2>2, Concatenated
  <2> DEFINE longer == queue \o first
  <2>5. longer \in Seq(Writes) /\ \A w \in ToSet(longer) : w \in ToSet(queue) \/ Queued(w)
    BY <2>1, <2>4
  <2>6. queue' = queue \/ queue' = longer \o more
    BY <2>3
  <2> HIDE DEF longer
  <2>7. longer \o more \in Seq(Writes) /\ ToSet(longer \o more) = ToSet(longer) \cup ToSet(more)
    BY <1>7, <2>5, Concatenated
  <2>. QED BY <1>7, <2>2, <2>5, <2>6, <2>7
<1>9. /\ read \in [Registers -> Words \cup {Unknown}]
      /\ \A r \in Registers : cache[r] # Unknown => read[r] # Unknown
      /\ s.bits # {} => read[s.register] # Unknown
      /\ \A r \in Unreset : read[r] # Unknown => Other(read[r], r) = Other(device[r], r)
  <2>1. CASE s.bits # {}
    <3>1. word \in Words /\ word # Unknown
      BY <1>5, <2>1, UnknownIsNoWord
    <3>2. read = [r \in Registers |-> IF r = s.register THEN word ELSE cache[r]]
      <4>1. DOMAIN Single(s.register, word) = {s.register} /\ Single(s.register, word)[s.register] = word
        BY <1>4, <3>1, SingleFacts
      <4>2. read = Stored(Single(s.register, word))
        BY <2>1
      <4> HIDE DEF read, s
      <4>. QED BY <4>1, <4>2 DEF Stored
    <3>3. BitRegisters \subseteq Registers
      BY ControlTypes DEF BitRegisters, BitEntities
    <3>. QED BY <1>4, <1>5, <2>1, <3>1, <3>2, <3>3 DEF TypeInv, BitsInv, Informed, Unreset
  <2>2. CASE s.bits = {}
    <3>1. read = cache
      BY <2>2
    <3>. QED BY <2>2, <3>1 DEF TypeInv, BitsInv, Unreset
  <2>. QED BY <2>1, <2>2
<1>10. /\ cache' \in [Registers -> Words \cup {Unknown}]
       /\ \A r \in Registers : cache[r] # Unknown => cache'[r] # Unknown
       /\ s.bits # {} => cache'[s.register] # Unknown
       /\ \A r \in Unreset : cache'[r] # Unknown => Other(cache'[r], r) = Other(device[r], r)
  <2>1. CASE send
    <3>1. cache' = [read EXCEPT ![s.target] = new]
      BY <1>1, <2>1
    <3>2. new # Unknown
      BY <1>3, UnknownIsNoWord
    <3>3. BitRegisters \subseteq Registers
      BY ControlTypes DEF BitRegisters, BitEntities
    <3>4. Unreset \subseteq BitRegisters
      BY DEF Unreset
    <3> HIDE DEF new, read, s
    <3>. QED BY <1>3, <1>4, <1>5, <1>9, <3>1, <3>2, <3>3, <3>4
  <2>2. CASE ~send
    <3>1. cache' = read
      BY <1>1, <2>2
    <3> HIDE DEF new, read, s
    <3>. QED BY <1>9, <3>1
  <2>. QED BY <2>1, <2>2
<1>11. shown' \in [Switches -> BOOLEAN \cup {Unknown}] /\ ShownInv'
  <2>1. CASE k.by = "select"
    <3>1. shown' = shown
      BY <1>1, <2>1
    <3>2. \A t \in Switches : t.register \in Registers
      BY ControlTypes DEF Controls
    <3>. QED BY <1>10, <3>1, <3>2 DEF TypeInv, ShownInv
  <2>2. CASE k.by # "select"
    <3>1. s \in Switches /\ k.value \in BOOLEAN
      BY <2>2 DEF Informed, Calls
    <3>2. shown' = [shown EXCEPT ![s] = k.value]
      BY <1>1, <2>2
    <3>3. shown' \in [Switches -> BOOLEAN \cup {Unknown}]
      BY <3>1, <3>2 DEF TypeInv
    <3>4. ASSUME NEW t \in Switches, t.bits # {}, shown'[t] = TRUE
          PROVE  cache'[t.register] # Unknown
      <4>1. t.register \in Registers
        BY ControlTypes DEF Controls
      <4>2. CASE t = s
        BY <1>10, <3>4, <4>2
      <4>3. CASE t # s
        <5>1. shown[t] = TRUE
          BY <3>1, <3>2, <3>4, <4>3 DEF TypeInv
        <5>. QED BY <1>10, <3>4, <4>1, <5>1 DEF ShownInv
      <4>. QED BY <4>2, <4>3
    <3>. QED BY <3>3, <3>4 DEF ShownInv
  <2>. QED BY <2>1, <2>2
<1>. QED BY <1>8, <1>10, <1>11

-----------------------------------------------------------------------------
(***************************************************************************)
(* Steps of the entities.                                                  *)
(***************************************************************************)
LEMMA DispatchApart ==
    \A c \in Requests : Reserves(c) \subseteq DispatchRegisters
BY DEF DispatchRegisters

\* More is queued by others than a dispatch.
LEMMA QueuedByOthers ==
    ASSUME CoreInv, UNCHANGED <<device, phase, link, resets>>, frame' = frame \/ frame' = Idle,
           queue' \in Seq(Writes), \A w \in ToSet(queue') : w \in ToSet(queue) \/ Queued(w),
           cache' \in [Registers -> Words \cup {Unknown}],
           \A r \in Unreset : cache'[r] # Unknown => Other(cache'[r], r) = Other(device[r], r),
           shown' \in [Switches -> BOOLEAN \cup {Unknown}], ShownInv'
    PROVE  CoreInv'
<1>1. TypeInv'
  BY DEF CoreInv, TypeInv
<1>2. \A w \in ToSet(queue') : Faithful(w)
  BY DEF CoreInv, BitsInv, Queued, Unreset
<1>3. frame'.kind # "idle" => frame' = frame
  BY DEF Idle, Frame
<1>4. BitsInv'
  BY <1>2, <1>3 DEF CoreInv, BitsInv, Faithful, Unreset
<1>5. \A c \in Requests : \A w : Queued(w) => DOMAIN w \cap Reserves(c) = {}
  BY DispatchApart DEF Queued
<1>6. LockInv'
  BY <1>3, <1>5 DEF CoreInv, LockInv, Locked
<1>. QED BY <1>1, <1>4, <1>6 DEF CoreInv

LEMMA Decided ==
    ASSUME CoreInv, NEW k, NEW word, Informed(k, word), Decide(k, word),
           UNCHANGED <<device, phase, link, resets>>, frame' = frame \/ frame' = Idle
    PROVE  CoreInv'
BY DecideFacts, QueuedByOthers DEF CoreInv

\* What is cached for a control of bits is as in the inverter, as far as others' bits go.
LEMMA CacheInforms ==
    ASSUME CoreInv, NEW k \in Calls,
           k.control.bits # {} => cache[k.control.register] # Unknown
    PROVE  Informed(k, cache[k.control.register])
<1>1. k.control \in Controls
  BY DEF Calls, Controls
<1>2. k.control.register \in Registers
  BY <1>1, ControlTypes
<1>3. k.control.bits # {} => k.control.register \in BitRegisters
  BY <1>1, ControlTypes
<1>. QED BY <1>2, <1>3 DEF Informed, CoreInv, TypeInv, BitsInv, Unreset

LEMMA Started ==
    ASSUME CoreInv, FrameInv, NEW k \in Calls, UNCHANGED <<device, phase, link, frame, resets>>,
           \/ NeedsRead(k.control) /\ asking' = asking \cup {k} /\ UNCHANGED <<queue, cache, shown>>
           \/ ~NeedsRead(k.control) /\ Decide(k, cache[k.control.register]) /\ asking' = asking
    PROVE  CoreInv' /\ FrameInv'
<1>1. CoreInv'
  <2>1. CASE NeedsRead(k.control) /\ UNCHANGED <<queue, cache, shown>>
    BY <2>1 DEF CoreInv, TypeInv, ShownInv, BitsInv, Faithful, LockInv, Locked, Unreset
  <2>2. CASE ~NeedsRead(k.control) /\ Decide(k, cache[k.control.register])
    BY <2>2, CacheInforms, Decided DEF NeedsRead
  <2>. QED BY <2>1, <2>2
<1>2. asking \subseteq asking'
  OBVIOUS
<1>. QED BY <1>1, <1>2 DEF FrameInv

LEMMA SwitchCalls ==
    ASSUME NEW s \in Switches, NEW value \in BOOLEAN, NEW force \in BOOLEAN
    PROVE  /\ Call("switch", s, value, force) \in Calls
           /\ s.bits # {} => Call("switch", s, value, force) \in Asks
           /\ Call("timer", s, value, force) \in Calls
BY DEF Call, Calls, Asks

LEMMA ArmedFacts ==
    ASSUME NEW k
    PROVE  /\ Armed(k) \subseteq {k.control} /\ \A s \in Armed(k) : s.keepAlive
           /\ Armed(k) # {} => k.by # "select" /\ k.value
BY DEF Armed

LEMMA TurnOnIndInv ==
    ASSUME IndInv, NEW s \in Switches, TurnOn(s), UNCHANGED phase
    PROVE  IndInv'
<1> DEFINE k == Call("switch", s, TRUE, s.keepAlive \/ s.companions # <<>>)
<1>1. k \in Calls /\ (s.bits # {} => k \in Asks)
  BY SwitchCalls
<1>2. k.control = s /\ k.by = "switch" /\ k.value = TRUE
  BY DEF Call
<1>3. /\ Served("switch") /\ wish' = [wish EXCEPT ![s] = TRUE] /\ Start(k)
      /\ UNCHANGED <<device, resets, frame, link>>
  BY DEF TurnOn, countVars
<1> HIDE DEF k
<1>4. CoreInv' /\ FrameInv'
  BY <1>1, <1>3, Started DEF Start, IndInv
<1>5. \/ asking' = asking \cup {k} /\ timers' = timers /\ s.bits # {}
      \/ asking' = asking /\ timers' = timers \cup Armed(k)
  BY <1>2, <1>3 DEF Start, NeedsRead
<1>6. Armed(k) \subseteq {s} /\ Armed(k) \subseteq KeptAlive
  BY <1>2, ArmedFacts DEF KeptAlive
<1>7. wish' \in [Switches -> BOOLEAN \cup {Unknown}] /\ wish'[s] = TRUE
      /\ \A t \in Switches : wish[t] = TRUE => wish'[t] = TRUE
  BY <1>3 DEF IndInv, AskInv
<1>8. AskInv'
  <2>1. asking' \subseteq Asks /\ timers' \subseteq KeptAlive
    BY <1>1, <1>5, <1>6 DEF IndInv, AskInv
  <2>2. \A i, j \in asking' : i.by = j.by => i = j
    BY <1>2, <1>3, <1>5 DEF IndInv, AskInv, Served
  <2>. QED BY <1>7, <2>1, <2>2 DEF AskInv
<1>9. TimerInv'
  <2>1. \A t \in timers' : wish'[t] = TRUE
    BY <1>5, <1>6, <1>7 DEF IndInv, AskInv, TimerInv, KeptAlive
  <2>2. \A j \in asking' : j.by = "switch" /\ j.value = TRUE => wish'[j.control] = TRUE
    <3>1. \A j \in asking : j.by # "switch"
      BY <1>3 DEF Served
    <3>. QED BY <1>2, <1>5, <1>7, <3>1
  <2>. QED BY <2>1, <2>2 DEF TimerInv
<1>. QED BY <1>4, <1>8, <1>9 DEF IndInv

LEMMA TurnOffIndInv ==
    ASSUME IndInv, NEW s \in Switches, TurnOff(s), UNCHANGED phase
    PROVE  IndInv'
<1> DEFINE k == Call("switch", s, FALSE, FALSE)
<1>1. k \in Calls /\ (s.bits # {} => k \in Asks)
  BY SwitchCalls
<1>2. k.control = s /\ k.by = "switch" /\ k.value = FALSE
  BY DEF Call
<1>3. /\ Served("switch") /\ wish' = [wish EXCEPT ![s] = FALSE] /\ timers' = timers \ {s}
      /\ \/ NeedsRead(s) /\ asking' = asking \cup {k} /\ UNCHANGED <<queue, cache, shown>>
         \/ ~NeedsRead(s) /\ Decide(k, cache[s.register]) /\ asking' = asking
      /\ UNCHANGED <<device, resets, frame, link>>
  BY DEF TurnOff, countVars
<1> HIDE DEF k
<1>4. CoreInv' /\ FrameInv'
  BY <1>1, <1>2, <1>3, Started DEF IndInv
<1>5. \A j \in asking : j.by # "switch"
  BY <1>3 DEF Served
<1>6. AskInv'
  <2>1. asking' \subseteq Asks
    BY <1>1, <1>3 DEF IndInv, AskInv, NeedsRead
  <2>2. \A i, j \in asking' : i.by = j.by => i = j
    BY <1>2, <1>3, <1>5 DEF IndInv, AskInv
  <2>3. wish' \in [Switches -> BOOLEAN \cup {Unknown}]
    BY <1>3 DEF IndInv, AskInv
  <2>. QED BY <1>3, <2>1, <2>2, <2>3 DEF IndInv, AskInv
<1>7. TimerInv'
  <2>1. \A t \in timers' : wish'[t] = TRUE
    BY <1>3 DEF IndInv, AskInv, TimerInv, KeptAlive
  <2>2. \A j \in asking' : j.by = "switch" => j.value # TRUE
    BY <1>2, <1>3, <1>5
  <2>. QED BY <2>1, <2>2 DEF TimerInv
<1>. QED BY <1>4, <1>6, <1>7 DEF IndInv

LEMMA TimerFiresIndInv ==
    ASSUME IndInv, NEW s \in KeptAlive, TimerFires(s), UNCHANGED phase
    PROVE  IndInv'
<1> DEFINE k == Call("timer", s, TRUE, TRUE)
<1>1. k \in Calls /\ k.control = s /\ s \in Switches
  BY SwitchCalls DEF KeptAlive, Call
<1>2. /\ UNCHANGED <<device, resets, frame, link, asking, wish>>
      /\ \/ shown[s] = TRUE /\ Decide(k, cache[s.register]) /\ timers' = timers
         \/ timers' = timers \ {s} /\ UNCHANGED <<queue, cache, shown>>
  BY DEF TimerFires, countVars
<1> HIDE DEF k
<1>3. CoreInv'
  <2>1. CASE shown[s] = TRUE /\ Decide(k, cache[s.register])
    <3>1. Informed(k, cache[s.register])
      BY <1>1, <2>1, CacheInforms DEF IndInv, CoreInv, ShownInv
    <3>. QED BY <1>2, <2>1, <3>1, Decided DEF IndInv
  <2>2. CASE UNCHANGED <<queue, cache, shown>>
    BY <1>2, <2>2 DEF IndInv, CoreInv, TypeInv, ShownInv, BitsInv, Faithful, LockInv, Locked, Unreset
  <2>. QED BY <1>2, <2>1, <2>2
<1>4. FrameInv' /\ AskInv' /\ TimerInv'
  BY <1>2 DEF IndInv, FrameInv, AskInv, TimerInv
<1>. QED BY <1>3, <1>4 DEF IndInv

LEMMA SelectIndInv ==
    ASSUME IndInv, NEW options \in Selects, NEW o \in options, SelectOption(o), UNCHANGED phase
    PROVE  IndInv'
<1>0. o \in Controls
  BY DEF Controls
<1>1. Served("select") /\ UNCHANGED <<device, resets, frame, link, wish>>
  BY DEF SelectOption, countVars
<1>2. CASE o.bits # {} /\ Start(Call("select", o, TRUE, FALSE))
  <2> DEFINE k == Call("select", o, TRUE, FALSE)
  <2>1. k \in Calls /\ k \in Asks /\ k.control = o /\ k.by = "select"
    BY <1>2 DEF Call, Calls, Asks
  <2>2. Start(k)
    BY <1>2
  <2> HIDE DEF k
  <2>3. CoreInv' /\ FrameInv'
    BY <1>1, <2>1, <2>2, Started DEF Start, IndInv
  <2>4. timers' = timers /\ asking' \in {asking, asking \cup {k}}
    BY <2>1, <2>2, ArmedFacts DEF Start
  <2>5. AskInv'
    BY <1>1, <2>1, <2>4 DEF IndInv, AskInv, Served
  <2>6. TimerInv'
    BY <1>1, <2>1, <2>4 DEF IndInv, TimerInv
  <2>. QED BY <2>3, <2>5, <2>6 DEF IndInv
<1>3. CASE /\ o.bits = {} /\ UNCHANGED <<cache, shown, asking, timers>>
           /\ queue' = queue \o <<Single(o.register, UNION o.on)>> \o KnownCompanions(o)
  <2>1. UNION o.on \in Words /\ o.register \in Registers /\ o.register \notin BitRegisters
    BY <1>0, <1>3, ControlTypes DEF Words
  <2>2. o.register \notin DispatchRegisters
    BY <1>0, DispatchAssumption
  <2> DEFINE setting == Single(o.register, UNION o.on)
  <2>3. Queued(setting)
    <3>1. setting \in Writes /\ DOMAIN setting = {o.register}
      BY <2>1, SingleFacts
    <3> HIDE DEF setting
    <3>. QED BY <2>1, <2>2, <3>1 DEF Queued, Faithful, Unreset
  <2> DEFINE first == <<setting>>
             longer == queue \o first
             more == KnownCompanions(o)
  <2>4. first \in Seq(Writes) /\ \A w \in ToSet(first) : Queued(w)
    <3> HIDE DEF setting
    <3>. QED BY <2>3, OneElement DEF Queued
  <2>5. more \in Seq(Writes) /\ \A w \in ToSet(more) : Queued(w)
    <3>1. \A w \in CompanionWrites : Queued(w)
      BY CompanionsAreFaithful DEF Queued, CompanionWrites, IndInv, CoreInv
    <3>. QED BY <1>0, <3>1, KnownFacts DEF IndInv, CoreInv
  <2>6. queue' = longer \o more /\ queue \in Seq(Writes)
    BY <1>3 DEF IndInv, CoreInv, TypeInv
  <2> HIDE DEF first, more
  <2>7. longer \in Seq(Writes) /\ ToSet(longer) = ToSet(queue) \cup ToSet(first)
    BY <2>4, <2>6, Concatenated
  <2> HIDE DEF longer
  <2>8. queue' \in Seq(Writes) /\ ToSet(queue') = ToSet(longer) \cup ToSet(more)
    BY <2>5, <2>6, <2>7, Concatenated
  <2>9. CoreInv'
    <3>1. \A w \in ToSet(queue') : w \in ToSet(queue) \/ Queued(w)
      BY <2>4, <2>5, <2>7, <2>8
    <3>2. cache' = cache /\ shown' = shown
      BY <1>3
    <3>. QED BY <1>1, <2>8, <3>1, <3>2, QueuedByOthers
         DEF IndInv, CoreInv, TypeInv, BitsInv, ShownInv, Unreset
  <2>10. FrameInv' /\ AskInv' /\ TimerInv'
    BY <1>1, <1>3 DEF IndInv, FrameInv, AskInv, TimerInv
  <2>. QED BY <2>9, <2>10 DEF IndInv
<1>. QED BY <1>2, <1>3 DEF SelectOption, countVars

-----------------------------------------------------------------------------
(***************************************************************************)
(* Steps of frames, link and inverter.                                     *)
(***************************************************************************)
LEMMA BitRegistersExist == BitRegisters \subseteq Registers
BY ControlTypes DEF BitRegisters, BitEntities

\* Storing the words of a frame.
LEMMA StoreFacts ==
    ASSUME TypeInv, ShownInv, NEW words \in Writes
    PROVE  /\ Stored(words) \in [Registers -> Words \cup {Unknown}]
           /\ DOMAIN words = Registers => Stored(words) = words
           /\ Notified(words) \in [Switches -> BOOLEAN \cup {Unknown}]
           /\ \A s \in Switches : s.bits # {} /\ Notified(words)[s] = TRUE =>
                 Stored(words)[s.register] # Unknown
<1>1. DOMAIN words \subseteq Registers /\ \A r \in DOMAIN words : words[r] \in Words
  BY WriteFacts
<1>2. Stored(words) \in [Registers -> Words \cup {Unknown}]
  BY <1>1 DEF Stored, TypeInv
<1>3. ASSUME DOMAIN words = Registers
      PROVE  Stored(words) = words
  <2>1. words = [r \in Registers |-> words[r]]
    BY <1>3 DEF Writes
  <2>2. Stored(words) = [r \in Registers |-> words[r]]
    BY <1>3 DEF Stored
  <2>. QED BY <2>1, <2>2
<1>4. \A s, word : IsOn(s, word) \in BOOLEAN
  <2>1. SUFFICES ASSUME NEW s, NEW word
                 PROVE  IsOn(s, word) \in BOOLEAN
    OBVIOUS
  <2>2. CASE s.bits # {}
    <3>1. IsOn(s, word) = ((s.bits \subseteq word) # s.inverted)
      BY <2>2 DEF IsOn
    <3>. QED BY <3>1
  <2>3. CASE s.bits = {}
    <3>1. IsOn(s, word) = (word \in s.on)
      BY <2>3 DEF IsOn
    <3>. QED BY <3>1
  <2>. QED BY <2>2, <2>3
<1>5. Notified(words) \in [Switches -> BOOLEAN \cup {Unknown}]
  BY <1>4 DEF Notified, TypeInv
<1>6. ASSUME NEW s \in Switches, s.bits # {}, Notified(words)[s] = TRUE
      PROVE  Stored(words)[s.register] # Unknown
  <2>1. s.register \in Registers
    BY ControlTypes DEF Controls
  <2>2. CASE s.register \in DOMAIN words
    BY <1>1, <2>1, <2>2, UnknownIsNoWord DEF Stored
  <2>3. CASE s.register \notin DOMAIN words
    <3>1. shown[s] = TRUE
      BY <1>6, <2>3 DEF Notified
    <3>. QED BY <1>6, <2>1, <2>3, <3>1 DEF Stored, ShownInv
  <2>. QED BY <2>2, <2>3
<1>. QED BY <1>2, <1>3, <1>5, <1>6

\* Taking the words of a write.
LEMMA OverwriteFacts ==
    ASSUME TypeInv, NEW words \in Writes, Faithful(words)
    PROVE  /\ Overwritten(words) \in [Registers -> Words]
           /\ \A r \in Unreset : Other(Overwritten(words)[r], r) = Other(device[r], r)
<1>1. DOMAIN words \subseteq Registers /\ \A r \in DOMAIN words : words[r] \in Words
  BY WriteFacts
<1>. QED BY <1>1, BitRegistersExist DEF Overwritten, TypeInv, Faithful, Unreset

\* No step but a reset, and that only of its register, changes bits of others.
KeepsOthers ==
    /\ Unreset' \subseteq Unreset
    /\ \A r \in Unreset' : Other(device'[r], r) = Other(device[r], r)

\* A write of others leaves the two words of a call alone.
KeepsReserves ==
    \A c \in Requests : phase[c] = "read" => \A r \in Reserves(c) : device'[r] = device[r]

LEMMA FaithfulStays ==
    ASSUME KeepsOthers, NEW w, Faithful(w)
    PROVE  Faithful(w)'
BY DEF KeepsOthers, Faithful, Unreset

\* A step that changes the inverter, and the frame to none.
LEMMA DeviceChanged ==
    ASSUME CoreInv, KeepsOthers, KeepsReserves, device' \in [Registers -> Words],
           UNCHANGED <<cache, queue, shown, phase>>, link' \in BOOLEAN, resets' \in Nat,
           frame' = frame \/ frame' = Idle
    PROVE  CoreInv'
<1>1. TypeInv' /\ ShownInv'
  BY DEF CoreInv, TypeInv, ShownInv
<1>2. frame'.kind # "idle" => frame' = frame
  BY DEF Idle, Frame
<1>3. BitsInv'
  BY <1>2, FaithfulStays DEF CoreInv, BitsInv, KeepsOthers, Unreset
<1>4. LockInv'
  BY <1>2 DEF CoreInv, LockInv, Locked, KeepsReserves
<1>. QED BY <1>1, <1>3, <1>4 DEF CoreInv

\* A step that stores what a frame brought.
LEMMA CacheStored ==
    ASSUME CoreInv, NEW words \in Writes, Faithful(words),
           UNCHANGED <<device, queue, link, phase, resets>>, frame' = Idle,
           cache' = Stored(words), shown' = Notified(words)
    PROVE  CoreInv'
<1>1. TypeInv' /\ ShownInv'
  BY StoreFacts DEF CoreInv, TypeInv, ShownInv
<1>2. frame'.kind = "idle"
  BY DEF Idle, Frame
<1>3. \A r \in Unreset : cache'[r] # Unknown => Other(cache'[r], r) = Other(device[r], r)
  <2>1. ASSUME NEW r \in Unreset, cache'[r] # Unknown
        PROVE  Other(cache'[r], r) = Other(device[r], r)
    <3>1. cache'[r] = IF r \in DOMAIN words THEN words[r] ELSE cache[r]
      BY <2>1, BitRegistersExist DEF Stored, Unreset
    <3>. QED BY <2>1, <3>1 DEF CoreInv, BitsInv, Faithful, Unreset
  <2>. QED BY <2>1
<1>4. BitsInv'
  BY <1>2, <1>3 DEF CoreInv, BitsInv, Faithful, Unreset
<1>5. LockInv'
  BY <1>2 DEF CoreInv, LockInv, Locked
<1>. QED BY <1>1, <1>4, <1>5 DEF CoreInv

\* A step that only puts a frame on the link, or takes it off.
LEMMA FrameChanged ==
    ASSUME CoreInv, UNCHANGED <<device, cache, queue, shown, phase, resets>>, link' \in BOOLEAN,
           frame'.kind \in {"poll", "live"} => Faithful(frame'.words),
           frame' = frame \/ frame'.kind \notin {"write", "readback"}
    PROVE  CoreInv'
<1>1. TypeInv' /\ ShownInv'
  BY DEF CoreInv, TypeInv, ShownInv
<1>2. BitsInv' /\ LockInv'
  BY DEF CoreInv, BitsInv, LockInv, Locked, Faithful, Unreset
<1>. QED BY <1>1, <1>2 DEF CoreInv

LEMMA SameAsks ==
    ASSUME AskInv, TimerInv, UNCHANGED <<asking, timers, wish>>
    PROVE  AskInv' /\ TimerInv'
BY DEF AskInv, TimerInv

LEMMA IdleFrame ==
    ASSUME frame' = Idle
    PROVE  FrameInv' /\ frame'.kind = "idle" /\ frame'.waiting = {}
<1>1. <<>> \in Writes
  <2>1. <<>> = [r \in {} |-> r]
    BY SMT
  <2>2. [r \in {} |-> r] \in [{} -> Words]
    OBVIOUS
  <2>. QED BY <2>1, <2>2, IsWrite
<1>. QED BY <1>1 DEF FrameInv, Idle, Frame

LEMMA PollStartsIndInv ==
    ASSUME IndInv, PollStarts, UNCHANGED phase
    PROVE  IndInv'
<1>1. /\ frame' = Frame("poll", device, {})
      /\ UNCHANGED <<device, resets, cache, queue, link, shown, asking, timers, wish>>
  BY DEF PollStarts, entityVars, countVars
<1>2. /\ frame'.kind = "poll" /\ frame'.words = device /\ frame'.waiting = {}
  BY <1>1 DEF Frame
<1>3. device \in Writes /\ DOMAIN device = Registers
  BY IsWrite DEF IndInv, CoreInv, TypeInv
<1>4. CoreInv'
  BY <1>1, <1>2, FrameChanged DEF Faithful, IndInv, CoreInv, TypeInv, Unreset
<1>5. FrameInv'
  BY <1>1, <1>2, <1>3 DEF FrameInv
<1>. QED BY <1>1, <1>4, <1>5, SameAsks DEF IndInv

LEMMA PollReturnsIndInv ==
    ASSUME IndInv, PollReturns, UNCHANGED phase
    PROVE  IndInv'
<1>1. /\ frame.kind = "poll" /\ frame' = Idle
      /\ cache' = frame.words /\ shown' = Notified(frame.words)
      /\ UNCHANGED <<device, resets, queue, link, asking, timers, wish>>
  BY DEF PollReturns, countVars
<1>2. frame.words \in Writes /\ DOMAIN frame.words = Registers /\ Faithful(frame.words)
  BY <1>1 DEF IndInv, CoreInv, FrameInv, BitsInv, Unreset
<1>3. cache' = Stored(frame.words)
  BY <1>1, <1>2, StoreFacts DEF IndInv, CoreInv
<1>4. CoreInv'
  BY <1>1, <1>2, <1>3, CacheStored DEF IndInv
<1>. QED BY <1>1, <1>4, IdleFrame, SameAsks DEF IndInv

LEMMA LiveReadStartsIndInv ==
    ASSUME IndInv, LiveReadStarts, UNCHANGED phase
    PROVE  IndInv'
<1>1. PICK k \in asking :
        /\ frame' = Frame("live", Single(k.control.register, device[k.control.register]), {k})
        /\ UNCHANGED <<device, resets, cache, queue, link, shown, asking, timers, wish>>
  BY DEF LiveReadStarts, entityVars, countVars
<1> DEFINE r == k.control.register
<1>2. /\ frame'.kind = "live" /\ frame'.words = Single(r, device[r])
      /\ frame'.waiting = {k}
  BY <1>1 DEF Frame
<1>3. r \in Registers
  BY ControlTypes DEF IndInv, AskInv, Asks, Controls
<1>4. /\ Single(r, device[r]) \in Writes /\ DOMAIN Single(r, device[r]) = {r}
      /\ Single(r, device[r])[r] = device[r]
  BY <1>3, SingleFacts DEF IndInv, CoreInv, TypeInv
<1> HIDE DEF r
<1>5. Faithful(frame'.words)
  BY <1>2, <1>4 DEF Faithful, Unreset
<1>6. CoreInv'
  BY <1>1, <1>2, <1>5, FrameChanged DEF IndInv, CoreInv, TypeInv
<1>7. FrameInv'
  BY <1>1, <1>2, <1>4 DEF FrameInv, r
<1>. QED BY <1>1, <1>6, <1>7, SameAsks DEF IndInv

\* A call that ends its wait sets its timer.
LEMMA AskEnds ==
    ASSUME AskInv, TimerInv, NEW done \in SUBSET asking, asking' = asking \ done,
           timers' = timers \cup UNION {Armed(k) : k \in done}, wish' = wish
    PROVE  AskInv' /\ TimerInv'
<1>1. \A k \in done : Armed(k) \subseteq KeptAlive /\ \A s \in Armed(k) : wish[s] = TRUE
  <2>1. SUFFICES ASSUME NEW k \in done, NEW s \in Armed(k)
                 PROVE  s \in KeptAlive /\ wish[s] = TRUE
    OBVIOUS
  <2>2. k \in asking /\ k \in Asks
    BY DEF AskInv
  <2>3. s = k.control /\ s.keepAlive /\ k.by # "select" /\ k.value
    BY <2>1, ArmedFacts
  <2>4. k.by = "switch" /\ k.control \in Switches /\ k.value = TRUE
    BY <2>2, <2>3 DEF Asks
  <2>. QED BY <2>2, <2>3, <2>4 DEF KeptAlive, TimerInv
<1>2. timers' \subseteq KeptAlive /\ \A s \in timers' : wish[s] = TRUE
  BY <1>1 DEF AskInv, TimerInv
<1>3. asking' \subseteq asking
  OBVIOUS
<1>. QED BY <1>2, <1>3 DEF AskInv, TimerInv

LEMMA LiveReadReturnsIndInv ==
    ASSUME IndInv, LiveReadReturns, UNCHANGED phase
    PROVE  IndInv'
<1>1. PICK k \in frame.waiting :
        /\ asking' = asking \ {k} /\ timers' = timers \cup Armed(k)
        /\ Decide(k, frame.words[k.control.register])
        /\ frame.kind = "live" /\ frame' = Idle
        /\ UNCHANGED <<device, resets, link, wish>>
  BY DEF LiveReadReturns, countVars
<1>2. k \in asking /\ k \in Asks /\ DOMAIN frame.words = {k.control.register}
  BY <1>1 DEF IndInv, FrameInv, AskInv
<1>3. k \in Calls /\ k.control \in Controls /\ k.control.bits # {}
  BY <1>2 DEF Asks, Calls, Controls
<1>4. Informed(k, frame.words[k.control.register])
  <2>1. frame.words[k.control.register] \in Words
    BY <1>2, WriteFacts DEF IndInv, FrameInv
  <2>2. Faithful(frame.words)
    BY <1>1 DEF IndInv, CoreInv, BitsInv, Unreset
  <2>3. k.control.register \in BitRegisters
    BY <1>3, ControlTypes
  <2>. QED BY <1>2, <1>3, <2>1, <2>2, <2>3 DEF Informed, Faithful, Unreset
<1>5. CoreInv'
  BY <1>1, <1>4, Decided DEF IndInv
<1>6. AskInv' /\ TimerInv'
  <2>1. UNION {Armed(j) : j \in {k}} = Armed(k)
    OBVIOUS
  <2>. QED BY <1>1, <1>2, <2>1, AskEnds DEF IndInv
<1>. QED BY <1>1, <1>5, <1>6, IdleFrame DEF IndInv

LEMMA LiveReadGivesUpIndInv ==
    ASSUME IndInv, LiveReadGivesUp, UNCHANGED phase
    PROVE  IndInv'
<1>1. PICK k \in asking : asking' = asking \ {k} /\ timers' = timers \cup Armed(k)
  BY DEF LiveReadGivesUp, countVars
<1>2. frame = Idle /\ frame' = Idle /\ UNCHANGED <<device, resets, cache, queue, link, shown, wish>>
  BY DEF LiveReadGivesUp, countVars
<1>3. CoreInv'
  BY <1>2, FrameChanged, IdleFrame DEF IndInv, CoreInv, TypeInv
<1>4. AskInv' /\ TimerInv'
  <2>1. UNION {Armed(j) : j \in {k}} = Armed(k)
    OBVIOUS
  <2>. QED BY <1>1, <1>2, <2>1, AskEnds DEF IndInv
<1>. QED BY <1>2, <1>3, <1>4, IdleFrame DEF IndInv

LEMMA WriteStartsIndInv ==
    ASSUME IndInv, WriteStarts, UNCHANGED phase
    PROVE  IndInv'
<1>1. /\ frame' = Frame("write", Head(queue), {}) /\ queue' = Tail(queue) /\ queue # <<>>
      /\ UNCHANGED <<device, resets, cache, link, shown, asking, timers, wish>>
  BY DEF WriteStarts, entityVars, countVars
<1>2. /\ frame'.kind = "write" /\ frame'.words = Head(queue) /\ frame'.waiting = {}
  BY <1>1 DEF Frame
<1>3. /\ Head(queue) \in ToSet(queue) /\ Head(queue) \in Writes
      /\ queue' \in Seq(Writes) /\ ToSet(queue') \subseteq ToSet(queue)
  BY <1>1, Served1st DEF IndInv, CoreInv, TypeInv
<1>4. TypeInv' /\ ShownInv'
  BY <1>1, <1>3 DEF IndInv, CoreInv, TypeInv, ShownInv
<1>5. BitsInv'
  BY <1>1, <1>2, <1>3 DEF IndInv, CoreInv, BitsInv, Faithful, Unreset
<1>6. LockInv'
  BY <1>1, <1>2, <1>3 DEF IndInv, CoreInv, LockInv, Locked
<1>7. FrameInv'
  BY <1>2, <1>3 DEF FrameInv
<1>. QED BY <1>1, <1>4, <1>5, <1>6, <1>7, SameAsks DEF IndInv, CoreInv

\* A write that reaches the inverter.
LEMMA Written ==
    ASSUME IndInv, frame.kind = "write", device' = Overwritten(frame.words), UNCHANGED resets
    PROVE  /\ frame.words \in Writes /\ Faithful(frame.words)
           /\ device' \in [Registers -> Words] /\ KeepsOthers /\ KeepsReserves
<1>1. frame.words \in Writes /\ Faithful(frame.words)
  BY DEF IndInv, CoreInv, FrameInv, BitsInv, Unreset
<1>2. device' \in [Registers -> Words] /\ KeepsOthers
  BY <1>1, OverwriteFacts DEF KeepsOthers, IndInv, CoreInv, TypeInv, Unreset
<1>3. KeepsReserves
  <2>1. SUFFICES ASSUME NEW c \in Requests, phase[c] = "read", NEW r \in Reserves(c)
                 PROVE  device'[r] = device[r]
    BY DEF KeepsReserves
  <2>2. r \in Registers
    BY DispatchAssumption
  <2>3. r \notin DOMAIN frame.words
    BY <2>1 DEF IndInv, CoreInv, LockInv
  <2>. QED BY <2>2, <2>3 DEF Overwritten
<1>. QED BY <1>1, <1>2, <1>3

LEMMA WriteReturnsIndInv ==
    ASSUME IndInv, WriteReturns, UNCHANGED phase
    PROVE  IndInv'
<1>1. /\ frame.kind = "write" /\ frame' = Idle /\ device' = Overwritten(frame.words)
      /\ cache' = Stored(frame.words) /\ shown' = Notified(frame.words)
      /\ UNCHANGED <<queue, link, asking, timers, wish, resets>>
  BY DEF WriteReturns, countVars
<1>2. /\ frame.words \in Writes /\ Faithful(frame.words)
      /\ device' \in [Registers -> Words] /\ KeepsOthers /\ KeepsReserves
  BY <1>1, Written
<1>3. TypeInv' /\ ShownInv'
  BY <1>1, <1>2, StoreFacts DEF IndInv, CoreInv, TypeInv, ShownInv
<1>4. frame'.kind = "idle"
  BY <1>1, IdleFrame
<1>5. \A r \in Unreset : cache'[r] # Unknown => Other(cache'[r], r) = Other(device'[r], r)
  <2>1. SUFFICES ASSUME NEW r \in Unreset, cache'[r] # Unknown
                 PROVE  Other(cache'[r], r) = Other(device[r], r)
    BY <1>1, <1>2 DEF KeepsOthers, Unreset
  <2>2. cache'[r] = IF r \in DOMAIN frame.words THEN frame.words[r] ELSE cache[r]
    BY <1>1, <2>1, BitRegistersExist DEF Stored, Unreset
  <2>. QED BY <1>2, <2>1, <2>2 DEF IndInv, CoreInv, BitsInv, Faithful, Unreset
<1>6. BitsInv'
  BY <1>1, <1>2, <1>4, <1>5, FaithfulStays DEF IndInv, CoreInv, BitsInv, Unreset
<1>7. LockInv'
  BY <1>1, <1>4 DEF IndInv, CoreInv, LockInv, Locked
<1>. QED BY <1>1, <1>3, <1>6, <1>7, IdleFrame, SameAsks DEF IndInv, CoreInv

LEMMA ResetsIndInv ==
    ASSUME IndInv, NEW r \in Reverting, Resets(r), UNCHANGED phase
    PROVE  IndInv' /\ KeepsOthers
<1>1. /\ device' = [device EXCEPT ![r] = {}] /\ resets' = resets + 1
      /\ UNCHANGED <<cache, queue, frame, link, shown, asking, timers, wish>>
  BY DEF Resets, entityVars, countVars
<1>2. r \in Registers /\ r \notin DispatchRegisters
  BY ControlTypes, DispatchAssumption DEF Reverting, KeptAlive, Controls
<1>3. device \in [Registers -> Words] /\ resets \in Nat /\ {} \in Words
  BY DEF IndInv, CoreInv, TypeInv, Words
<1>4. /\ device' \in [Registers -> Words] /\ \A q \in Registers : q # r => device'[q] = device[q]
      /\ resets' \in Nat /\ resets' # 0
  <2>1. resets' \in Nat /\ resets' # 0
    BY <1>1, <1>3
  <2>. QED BY <1>1, <1>3, <2>1
<1>5. Unreset' \subseteq Unreset /\ r \notin Unreset'
  BY <1>4 DEF Unreset
<1>6. KeepsOthers
  <2>1. \A q \in Unreset' : q \in Registers /\ q # r
    BY <1>5, BitRegistersExist DEF Unreset
  <2>. QED BY <1>4, <1>5, <2>1 DEF KeepsOthers, Unreset
<1>7. KeepsReserves
  <2>1. \A c \in Requests : Reserves(c) \subseteq Registers /\ r \notin Reserves(c)
    BY <1>2, DispatchAssumption, DispatchApart
  <2>. QED BY <1>4, <2>1 DEF KeepsReserves
<1>8. CoreInv'
  BY <1>1, <1>4, <1>6, <1>7, DeviceChanged DEF IndInv, CoreInv, TypeInv
<1>9. FrameInv'
  BY <1>1 DEF IndInv, FrameInv
<1>. QED BY <1>1, <1>6, <1>8, <1>9, SameAsks DEF IndInv

LEMMA LinkIndInv ==
    ASSUME IndInv, LinkLost \/ LinkBack, UNCHANGED phase
    PROVE  IndInv'
<1>1. /\ link' \in BOOLEAN
      /\ UNCHANGED <<device, resets, cache, queue, frame, shown, asking, timers, wish>>
  BY DEF LinkLost, LinkBack, entityVars, countVars
<1>2. CoreInv'
  BY <1>1 DEF IndInv, CoreInv, TypeInv, ShownInv, BitsInv, Faithful, LockInv, Locked, Unreset
<1>3. FrameInv'
  BY <1>1 DEF IndInv, FrameInv
<1>. QED BY <1>1, <1>2, <1>3, SameAsks DEF IndInv

-----------------------------------------------------------------------------
(***************************************************************************)
(* Steps of the dispatch services.                                         *)
(***************************************************************************)
LEMMA OthersAvoidDispatch == BitRegisters \cap DispatchRegisters = {}
BY DispatchAssumption DEF BitRegisters, BitEntities

LEMMA DispatchIsFaithful ==
    ASSUME NEW w \in Writes, DOMAIN w \subseteq DispatchRegisters
    PROVE  Faithful(w)
BY OthersAvoidDispatch DEF Faithful, Unreset

LEMMA ReserveFacts ==
    ASSUME NEW c \in Requests
    PROVE  /\ Reserves(c) \subseteq Registers /\ Reserves(c) \subseteq DispatchRegisters
           /\ ReserveOf(c) \in Nat /\ Reserves(c) = {ReserveOf(c), ReserveOf(c) + 1}
           /\ {Master, Failsafe, Mode, Function, ScheduleBase} \cap Reserves(c) = {}
<1>1. ReserveOf(c) \in {44125, 44111}
  BY DEF ReserveOf, ScheduleBase
<1>2. Reserves(c) = {ReserveOf(c), ReserveOf(c) + 1}
  BY DEF Reserves
<1>3. {Master, Failsafe, Mode, Function, ScheduleBase} \cap Reserves(c) = {}
  BY <1>1, <1>2 DEF Master, Failsafe, Mode, Function, ScheduleBase
<1>. QED BY <1>1, <1>2, <1>3, DispatchAssumption, DispatchApart

LEMMA FixedRegisters ==
    /\ {Master, Failsafe, Mode, Function, ScheduleBase} \subseteq Registers
    /\ {Master, Failsafe, Mode, Function, ScheduleBase} \subseteq DispatchRegisters
BY DispatchAssumption DEF DispatchRegisters

\* The block of the two words: given, or as they are now.
LEMMA ReserveWordsFacts ==
    ASSUME NEW c \in Requests, NEW current, \A r \in Reserves(c) : current[r] \in Words
    PROVE  /\ ReserveWords(c, current) \in Writes
           /\ DOMAIN ReserveWords(c, current) = Reserves(c)
           /\ \A n \in {0, 1} : ReserveWords(c, current)[ReserveOf(c) + n] = Given(c, n, current)
<1> DEFINE base == ReserveOf(c)
<1>1. base \in Nat /\ Reserves(c) = {base, base + 1} /\ Reserves(c) \subseteq Registers
  BY ReserveFacts
<1>2. \A n \in {0, 1} : base + n \in Reserves(c) /\ (base + n) - base = n
  BY <1>1
<1>3. \A n \in {0, 1} : Given(c, n, current) \in Words
  <2>1. SUFFICES ASSUME NEW n \in {0, 1}
                 PROVE  Given(c, n, current) \in Words
    OBVIOUS
  <2>2. c.given[n] \in Words \cup {Unknown}
    BY DispatchAssumption
  <2>3. CASE c.given[n] = Unknown
    BY <1>2, <2>3 DEF Given
  <2>4. CASE c.given[n] # Unknown
    BY <2>2, <2>4 DEF Given
  <2>. QED BY <2>3, <2>4
<1>4. \A r \in Reserves(c) : r - base \in {0, 1}
  BY <1>1
<1>5. ReserveWords(c, current) = [r \in Reserves(c) |-> Given(c, r - base, current)]
  BY DEF ReserveWords
<1> HIDE DEF base
<1>6. ReserveWords(c, current) \in [Reserves(c) -> Words]
  BY <1>3, <1>4, <1>5
<1>7. \A n \in {0, 1} : ReserveWords(c, current)[base + n] = Given(c, n, current)
  BY <1>2, <1>5
<1>8. ReserveWords(c, current) \in Writes
  BY <1>1, <1>6, IsWrite
<1>. QED BY <1>6, <1>7, <1>8 DEF base

\* Bits that a dispatch writes as they are.
LEMMA SmallWords == {} \in Words /\ {0} \in Words
BY DEF Words

LEMMA RealtimeBlocks ==
    ASSUME NEW c \in Requests, ~c.schedule, NEW current,
           \A r \in Reserves(c) : current[r] \in Words
    PROVE  \E a \in Writes, b \in Writes :
              /\ Blocks(c, current) = <<a, b>>
              /\ DOMAIN a = {Master, Failsafe}
              /\ DOMAIN b = Reserves(c) \cup {Mode, Function}
              /\ \A n \in {0, 1} : b[ReserveOf(c) + n] = Given(c, n, current)
<1> DEFINE words == ReserveWords(c, current)
           base  == ReserveOf(c)
           on    == Single(Master, {0})
           a     == With(on, Failsafe, {0})
           half  == With(words, Mode, c.mode)
           b     == With(half, Function, {0})
<1>1. /\ words \in Writes /\ DOMAIN words = Reserves(c)
      /\ \A n \in {0, 1} : words[base + n] = Given(c, n, current)
  BY ReserveWordsFacts
<1>2. c.mode \in Words
  BY DispatchAssumption
<1>3. on \in Writes /\ DOMAIN on = {Master}
  BY FixedRegisters, SmallWords, SingleFacts
<1>4. base \in Nat /\ \A n \in {0, 1} : base + n \in Reserves(c) /\ base + n \notin {Mode, Function}
  BY ReserveFacts
<1>5. Blocks(c, current) = <<a, b>>
  BY DEF Blocks
<1> HIDE DEF words, on, base
<1>0. Failsafe \in Registers /\ Mode \in Registers /\ Function \in Registers
  BY FixedRegisters
<1>6. a \in Writes /\ DOMAIN a = {Master, Failsafe}
  <2>1. a \in Writes /\ DOMAIN a = DOMAIN on \cup {Failsafe}
    BY <1>0, <1>3, SmallWords, WithFacts
  <2>. QED BY <1>3, <2>1
<1>7. /\ half \in Writes /\ DOMAIN half = Reserves(c) \cup {Mode}
      /\ \A n \in {0, 1} : half[base + n] = Given(c, n, current)
  <2>1. /\ half \in Writes /\ DOMAIN half = DOMAIN words \cup {Mode}
        /\ \A q \in DOMAIN words \cup {Mode} : half[q] = IF q = Mode THEN c.mode ELSE words[q]
    <3>1. words \in Writes
      BY <1>1
    <3>. QED BY <1>0, <1>2, <3>1, WithFacts
  <2>. QED BY <1>1, <1>4, <2>1
<1> HIDE DEF half
<1>8. /\ b \in Writes /\ DOMAIN b = Reserves(c) \cup {Mode, Function}
      /\ \A n \in {0, 1} : b[base + n] = Given(c, n, current)
  <2> DEFINE D == DOMAIN half \cup {Function}
  <2>1. b = [q \in D |-> IF q = Function THEN {0} ELSE half[q]]
    BY DEF With
  <2>2. half \in Writes /\ {0} \in Words
    BY <1>7, SmallWords
  <2>3. D \in SUBSET Registers
    BY <1>0, <2>2, WriteFacts
  <2> HIDE DEF b
  <2>4. b \in [D -> Words]
    BY <2>1, <2>2, WriteFacts
  <2>5. b \in Writes
    BY <2>3, <2>4, IsWrite
  <2>. QED BY <1>4, <1>7, <2>1, <2>5
<1> HIDE DEF a, b
<1>. QED BY <1>5, <1>6, <1>8 DEF base

LEMMA PeriodFacts ==
    ASSUME NEW c \in Requests, NEW current, \A r \in Reserves(c) : current[r] \in Words
    PROVE  LET a == With(ReserveWords(c, current), ScheduleBase, c.mode)
           IN  /\ a \in Writes /\ DOMAIN a = Reserves(c) \cup {ScheduleBase}
               /\ \A n \in {0, 1} : a[ReserveOf(c) + n] = Given(c, n, current)
<1> DEFINE words == ReserveWords(c, current)
           base  == ReserveOf(c)
           a     == With(words, ScheduleBase, c.mode)
<1>1. /\ words \in Writes /\ DOMAIN words = Reserves(c)
      /\ \A n \in {0, 1} : words[base + n] = Given(c, n, current)
  BY ReserveWordsFacts
<1>2. c.mode \in Words
  BY DispatchAssumption
<1>3. \A n \in {0, 1} : base + n \in Reserves(c) /\ base + n # ScheduleBase
  BY ReserveFacts
<1>4. ScheduleBase \in Registers
  BY FixedRegisters
<1> HIDE DEF words, base
<1>5. /\ a \in Writes /\ DOMAIN a = DOMAIN words \cup {ScheduleBase}
      /\ \A q \in DOMAIN words \cup {ScheduleBase} :
            a[q] = IF q = ScheduleBase THEN c.mode ELSE words[q]
  BY <1>1, <1>2, <1>4, WithFacts
<1>. QED BY <1>1, <1>3, <1>5 DEF words, base

LEMMA PausedBlocks ==
    ASSUME NEW c \in Requests, c.schedule, c.mode = {}, NEW current,
           \A r \in Reserves(c) : current[r] \in Words
    PROVE  \E a \in Writes :
              /\ Blocks(c, current) = <<a>>
              /\ DOMAIN a = Reserves(c) \cup {ScheduleBase}
              /\ \A n \in {0, 1} : a[ReserveOf(c) + n] = Given(c, n, current)
BY PeriodFacts DEF Blocks

LEMMA ScheduleBlocks ==
    ASSUME NEW c \in Requests, c.schedule, c.mode # {}, NEW current,
           \A r \in Reserves(c) : current[r] \in Words
    PROVE  \E a \in Writes, b \in Writes, m \in Writes :
              /\ Blocks(c, current) = <<a, b, m>>
              /\ DOMAIN a = Reserves(c) \cup {ScheduleBase}
              /\ DOMAIN b = {Failsafe} /\ DOMAIN m = {Master}
              /\ \A n \in {0, 1} : a[ReserveOf(c) + n] = Given(c, n, current)
<1> DEFINE a == With(ReserveWords(c, current), ScheduleBase, c.mode)
           b == Single(Failsafe, {})
           m == Single(Master, {0})
<1>1. /\ a \in Writes /\ DOMAIN a = Reserves(c) \cup {ScheduleBase}
      /\ \A n \in {0, 1} : a[ReserveOf(c) + n] = Given(c, n, current)
  BY PeriodFacts
<1>2. /\ b \in Writes /\ DOMAIN b = {Failsafe}
      /\ m \in Writes /\ DOMAIN m = {Master}
  BY FixedRegisters, SmallWords, SingleFacts
<1>3. Blocks(c, current) = <<a, b, m>>
  BY DEF Blocks
<1> HIDE DEF a, b, m
<1>. QED BY <1>1, <1>2, <1>3

LEMMA BlocksFacts ==
    ASSUME NEW c \in Requests, NEW current, \A r \in Reserves(c) : current[r] \in Words
    PROVE  /\ Blocks(c, current) \in Seq(Writes)
           /\ \A w \in ToSet(Blocks(c, current)) : Faithful(w)
<1>1. CASE ~c.schedule
  <2>1. PICK a \in Writes, b \in Writes :
           /\ Blocks(c, current) = <<a, b>>
           /\ DOMAIN a = {Master, Failsafe} /\ DOMAIN b = Reserves(c) \cup {Mode, Function}
    BY <1>1, RealtimeBlocks
  <2>2. Faithful(a) /\ Faithful(b)
    BY <2>1, FixedRegisters, ReserveFacts, DispatchIsFaithful
  <2>3. ToSet(<<a, b>>) = {a, b} /\ <<a, b>> \in Seq(Writes)
    BY DEF ToSet
  <2>. QED BY <2>1, <2>2, <2>3
<1>2. CASE c.schedule /\ c.mode # {}
  <2>1. PICK a \in Writes, b \in Writes, m \in Writes :
           /\ Blocks(c, current) = <<a, b, m>>
           /\ DOMAIN a = Reserves(c) \cup {ScheduleBase}
           /\ DOMAIN b = {Failsafe} /\ DOMAIN m = {Master}
           /\ \A i \in {0, 1} : a[ReserveOf(c) + i] = Given(c, i, current)
    BY <1>2, ScheduleBlocks
  <2>2. Faithful(a) /\ Faithful(b) /\ Faithful(m)
    BY <2>1, FixedRegisters, ReserveFacts, DispatchIsFaithful
  <2>3. ToSet(<<a, b, m>>) = {a, b, m} /\ <<a, b, m>> \in Seq(Writes)
    BY DEF ToSet
  <2>. QED BY <2>1, <2>2, <2>3
<1>3. CASE c.schedule /\ c.mode = {}
  <2>1. PICK a \in Writes :
           /\ Blocks(c, current) = <<a>> /\ DOMAIN a = Reserves(c) \cup {ScheduleBase}
    BY <1>3, PausedBlocks
  <2>2. Faithful(a)
    BY <2>1, FixedRegisters, ReserveFacts, DispatchIsFaithful
  <2>. QED BY <2>1, <2>2, OneElement
<1>. QED BY <1>1, <1>2, <1>3

\* The phase of a call.
LEMMA GoesFacts ==
    ASSUME TypeInv, NEW c \in Requests, NEW p \in Phases, Goes(c, p)
    PROVE  /\ phase' \in [Requests -> Phases] /\ phase'[c] = p
           /\ \A d \in Requests \ {c} : phase'[d] = phase[d]
BY DEF Goes, TypeInv

\* A call that leaves the dispatch lock, or never had it.
LEMMA CallEnds ==
    ASSUME CoreInv, NEW c \in Requests, NEW p \in Phases \ {"flush", "read"}, Goes(c, p),
           UNCHANGED <<device, resets, cache, queue, shown>>, link' \in BOOLEAN,
           frame' = frame \/ frame' = Idle
    PROVE  CoreInv'
<1>1. /\ phase' \in [Requests -> Phases] /\ phase'[c] = p
      /\ \A d \in Requests \ {c} : phase'[d] = phase[d]
  BY GoesFacts DEF CoreInv
<1>2. \A d \in Requests : Locked(d)' => Locked(d) /\ phase'[d] = phase[d]
  BY <1>1 DEF Locked
<1>3. frame'.kind # "idle" => frame' = frame
  BY DEF Idle, Frame
<1>4. TypeInv' /\ ShownInv'
  BY <1>1 DEF CoreInv, TypeInv, ShownInv
<1>5. BitsInv'
  BY <1>3 DEF CoreInv, BitsInv, Faithful, Unreset
<1>6. LockInv'
  BY <1>2, <1>3 DEF CoreInv, LockInv, Locked
<1>. QED BY <1>4, <1>5, <1>6 DEF CoreInv

\* A call that waits in another phase than "read" has no frame.
LEMMA FrameStays ==
    ASSUME FrameInv, NEW c \in Requests, phase[c] # "read", frame' = frame, asking' = asking,
           \A d \in Requests \ {c} : phase'[d] = phase[d]
    PROVE  FrameInv'
BY DEF FrameInv

LEMMA BeginIndInv ==
    ASSUME IndInv, NEW c \in Requests, Begin(c)
    PROVE  IndInv'
<1>1. /\ phase[c] = "new" /\ (Goes(c, "lock") \/ Goes(c, "failed"))
      /\ UNCHANGED <<device, resets, cache, queue, frame, link, shown, asking, timers, wish>>
  BY DEF Begin, entityVars, countVars
<1>2. PICK p \in Phases \ {"flush", "read"} : Goes(c, p)
  BY <1>1 DEF Begin, Phases
<1>3. \A d \in Requests \ {c} : phase'[d] = phase[d]
  BY <1>2, GoesFacts DEF IndInv, CoreInv
<1>4. CoreInv'
  BY <1>1, <1>2, CallEnds DEF IndInv, CoreInv, TypeInv
<1>5. FrameInv'
  BY <1>1, <1>3, FrameStays DEF IndInv, Begin
<1>. QED BY <1>1, <1>4, <1>5, SameAsks DEF IndInv

\* A call that queues its blocks ends: no call holds the lock then.
LEMMA BlocksQueued ==
    ASSUME CoreInv, NEW c \in Requests, NEW current,
           \A r \in Reserves(c) : current[r] \in Words,
           Goes(c, "done"), queue' = queue \o Blocks(c, current),
           \A d \in Requests : Locked(d) => d = c,
           UNCHANGED <<device, resets, cache, shown, link>>, frame' = frame \/ frame' = Idle
    PROVE  CoreInv' /\ \A d \in Requests : ~Locked(d)'
<1> DEFINE blocks == Blocks(c, current)
<1>1. /\ phase' \in [Requests -> Phases] /\ phase'[c] = "done"
      /\ \A d \in Requests \ {c} : phase'[d] = phase[d]
  BY GoesFacts DEF CoreInv, Phases
<1>2. \A d \in Requests : ~Locked(d)'
  BY <1>1 DEF Locked
<1>3. blocks \in Seq(Writes) /\ \A w \in ToSet(blocks) : Faithful(w)
  BY BlocksFacts
<1>4. queue \in Seq(Writes) /\ queue' = queue \o blocks
  BY DEF CoreInv, TypeInv
<1> HIDE DEF blocks
<1>5. queue' \in Seq(Writes) /\ ToSet(queue') = ToSet(queue) \cup ToSet(blocks)
  BY <1>3, <1>4, Concatenated
<1>6. frame'.kind # "idle" => frame' = frame
  BY DEF Idle, Frame
<1>7. TypeInv' /\ ShownInv'
  BY <1>1, <1>5 DEF CoreInv, TypeInv, ShownInv
<1>8. BitsInv'
  BY <1>3, <1>5, <1>6 DEF CoreInv, BitsInv, Faithful, Unreset
<1>9. LockInv'
  BY <1>2 DEF LockInv, Locked
<1>. QED BY <1>2, <1>7, <1>8, <1>9 DEF CoreInv

LEMMA TakeLockIndInv ==
    ASSUME IndInv, NEW c \in Requests, TakeLock(c)
    PROVE  IndInv'
<1>1. /\ phase[c] = "lock" /\ LockFree
      /\ UNCHANGED <<device, resets, cache, frame, link, shown, asking, timers, wish>>
      /\ \/ Goes(c, "flush") /\ queue' = queue
         \/ Goes(c, "done") /\ queue' = queue \o Blocks(c, device)
  BY DEF TakeLock, entityVars, countVars
<1>2. \A d \in Requests : ~Locked(d)
  BY <1>1 DEF LockFree, Locked
<1>3. CoreInv' /\ \A d \in Requests \ {c} : phase'[d] = phase[d]
  <2>1. CASE Goes(c, "flush") /\ queue' = queue
    <3>1. /\ phase' \in [Requests -> Phases] /\ phase'[c] = "flush"
          /\ \A d \in Requests \ {c} : phase'[d] = phase[d]
      BY <2>1, GoesFacts DEF IndInv, CoreInv, Phases
    <3>2. \A d \in Requests : Locked(d)' => d = c
      BY <1>2, <3>1 DEF Locked
    <3>3. TypeInv' /\ ShownInv' /\ BitsInv'
      BY <1>1, <2>1, <3>1 DEF IndInv, CoreInv, TypeInv, ShownInv, BitsInv, Faithful, Unreset
    <3>4. LockInv'
      BY <3>1, <3>2 DEF LockInv, Locked
    <3>. QED BY <3>1, <3>3, <3>4 DEF CoreInv
  <2>2. CASE Goes(c, "done") /\ queue' = queue \o Blocks(c, device)
    <3>1. \A r \in Reserves(c) : device[r] \in Words
      BY ReserveFacts DEF IndInv, CoreInv, TypeInv
    <3>2. \A d \in Requests \ {c} : phase'[d] = phase[d]
      BY <2>2, GoesFacts DEF IndInv, CoreInv, Phases
    <3>. QED BY <1>1, <1>2, <2>2, <3>1, <3>2, BlocksQueued DEF IndInv
  <2>. QED BY <1>1, <2>1, <2>2
<1>4. FrameInv'
  BY <1>1, <1>3, FrameStays DEF IndInv
<1>. QED BY <1>1, <1>3, <1>4, SameAsks DEF IndInv

LEMMA FlushEndsIndInv ==
    ASSUME IndInv, NEW c \in Requests, FlushEnds(c)
    PROVE  IndInv'
<1>1. /\ phase[c] = "flush" /\ queue = <<>> /\ frame.kind # "write" /\ Goes(c, "read")
      /\ UNCHANGED <<device, resets, cache, queue, frame, link, shown, asking, timers, wish>>
  BY DEF FlushEnds, Flushed, cacheVars, entityVars, countVars
<1>2. /\ phase' \in [Requests -> Phases] /\ phase'[c] = "read"
      /\ \A d \in Requests \ {c} : phase'[d] = phase[d]
  BY <1>1, GoesFacts DEF IndInv, CoreInv, Phases
<1>3. \A d \in Requests : Locked(d)' => d = c
  BY <1>1, <1>2 DEF IndInv, CoreInv, LockInv, Locked
<1>4. frame.kind # "readback"
  BY <1>1 DEF IndInv, CoreInv, LockInv, Locked, FrameInv
<1>5. TypeInv' /\ ShownInv' /\ BitsInv'
  BY <1>1, <1>2 DEF IndInv, CoreInv, TypeInv, ShownInv, BitsInv, Faithful, Unreset
<1>6. LockInv'
  <2>1. ToSet(queue') = {}
    BY <1>1 DEF ToSet
  <2>. QED BY <1>1, <1>2, <1>3, <1>4, <2>1 DEF LockInv, Locked
<1>7. FrameInv'
  BY <1>1, <1>2, FrameStays DEF IndInv
<1>. QED BY <1>1, <1>5, <1>6, <1>7, SameAsks DEF IndInv, CoreInv

LEMMA FlushTimesOutIndInv ==
    ASSUME IndInv, NEW c \in Requests, FlushTimesOut(c)
    PROVE  IndInv'
<1>1. /\ phase[c] = "flush" /\ Goes(c, "failed")
      /\ UNCHANGED <<device, resets, cache, queue, frame, link, shown, asking, timers, wish>>
  BY DEF FlushTimesOut, cacheVars, entityVars, countVars
<1>2. "failed" \in Phases \ {"flush", "read"}
  BY DEF Phases
<1>3. \A d \in Requests \ {c} : phase'[d] = phase[d]
  BY <1>1, <1>2, GoesFacts DEF IndInv, CoreInv
<1>4. CoreInv'
  BY <1>1, <1>2, CallEnds DEF IndInv, CoreInv, TypeInv
<1>5. FrameInv'
  BY <1>1, <1>3, FrameStays DEF IndInv
<1>. QED BY <1>1, <1>4, <1>5, SameAsks DEF IndInv

LEMMA ReadBackStartsIndInv ==
    ASSUME IndInv, NEW c \in Requests, ReadBackStarts(c)
    PROVE  IndInv'
<1> DEFINE words == [r \in Reserves(c) |-> device[r]]
<1>1. /\ phase[c] = "read" /\ frame' = Frame("readback", words, {c})
      /\ UNCHANGED <<device, resets, cache, queue, link, shown, asking, timers, wish, phase>>
  BY DEF ReadBackStarts, entityVars, countVars
<1>2. frame'.kind = "readback" /\ frame'.words = words /\ frame'.waiting = {c}
  BY <1>1 DEF Frame
<1>3. Reserves(c) \subseteq Registers
  BY ReserveFacts
<1>4. words \in Writes /\ DOMAIN words = Reserves(c) /\ \A r \in Reserves(c) : words[r] = device[r]
  <2>1. words \in [Reserves(c) -> Words]
    BY <1>3 DEF IndInv, CoreInv, TypeInv
  <2>. QED BY <1>3, <2>1, IsWrite
<1> HIDE DEF words
<1>5. TypeInv' /\ ShownInv' /\ BitsInv'
  BY <1>1, <1>2 DEF IndInv, CoreInv, TypeInv, ShownInv, BitsInv, Faithful, Unreset
<1>6. LockInv'
  <2>1. \A d \in Requests : phase[d] = "read" => d = c
    BY <1>1 DEF IndInv, CoreInv, LockInv, Locked
  <2>. QED BY <1>1, <1>2, <1>4, <2>1 DEF IndInv, CoreInv, LockInv, Locked
<1>7. FrameInv'
  BY <1>1, <1>2, <1>4 DEF FrameInv
<1>. QED BY <1>1, <1>5, <1>6, <1>7, SameAsks DEF IndInv, CoreInv

LEMMA ReadBackGivesUpIndInv ==
    ASSUME IndInv, NEW c \in Requests, ReadBackGivesUp(c)
    PROVE  IndInv'
<1>1. /\ frame = Idle /\ frame' = Idle /\ Goes(c, "failed")
      /\ UNCHANGED <<device, resets, cache, queue, link, shown, asking, timers, wish>>
  BY DEF ReadBackGivesUp, cacheVars, entityVars, countVars
<1>2. "failed" \in Phases \ {"flush", "read"}
  BY DEF Phases
<1>3. CoreInv'
  BY <1>1, <1>2, CallEnds DEF IndInv, CoreInv, TypeInv
<1>. QED BY <1>1, <1>3, IdleFrame, SameAsks DEF IndInv

\* The read-back of a call: the words it brought are those of the inverter.
LEMMA ReadBackFacts ==
    ASSUME IndInv, NEW c \in Requests, frame.kind = "readback", c \in frame.waiting
    PROVE  /\ phase[c] = "read" /\ frame.waiting = {c}
           /\ \A d \in Requests : Locked(d) => d = c
           /\ \A r \in Reserves(c) : frame.words[r] = device[r] /\ device[r] \in Words
           /\ \A w \in ToSet(queue) : DOMAIN w \cap Reserves(c) = {}
<1>1. phase[c] = "read" /\ frame.waiting = {c}
  BY DEF IndInv, FrameInv
<1>2. \A r \in Reserves(c) : r \in Registers
  BY ReserveFacts
<1>. QED BY <1>1, <1>2 DEF IndInv, CoreInv, LockInv, Locked, TypeInv

LEMMA ReadBackReturnsIndInv ==
    ASSUME IndInv, NEW c \in Requests, ReadBackReturns(c)
    PROVE  IndInv'
<1>1. /\ frame.kind = "readback" /\ c \in frame.waiting /\ frame' = Idle
      /\ queue' = queue \o Blocks(c, frame.words) /\ Goes(c, "done")
      /\ UNCHANGED <<device, resets, cache, link, shown, asking, timers, wish>>
  BY DEF ReadBackReturns, entityVars, countVars
<1>2. /\ \A d \in Requests : Locked(d) => d = c
      /\ \A r \in Reserves(c) : frame.words[r] \in Words
  BY <1>1, ReadBackFacts
<1>3. CoreInv'
  BY <1>1, <1>2, BlocksQueued DEF IndInv
<1>. QED BY <1>1, <1>3, IdleFrame, SameAsks DEF IndInv

LEMMA DispatchStopIndInv ==
    ASSUME IndInv, DispatchStop
    PROVE  IndInv'
<1> DEFINE a == Single(Mode, {0})
           b == Single(Function, {0})
           m == Single(Master, {})
           more == <<a, b, m>>
<1>1. /\ queue' = queue \o more
      /\ UNCHANGED <<device, resets, cache, frame, link, shown, asking, timers, wish, phase>>
  BY DEF DispatchStop, entityVars, countVars
<1>2. /\ a \in Writes /\ DOMAIN a = {Mode} /\ b \in Writes /\ DOMAIN b = {Function}
      /\ m \in Writes /\ DOMAIN m = {Master}
  BY FixedRegisters, SmallWords, SingleFacts
<1> HIDE DEF a, b, m
<1>3. Faithful(a) /\ Faithful(b) /\ Faithful(m)
  BY <1>2, FixedRegisters, DispatchIsFaithful
<1>4. \A c \in Requests : /\ DOMAIN a \cap Reserves(c) = {} /\ DOMAIN b \cap Reserves(c) = {}
                          /\ DOMAIN m \cap Reserves(c) = {}
  BY <1>2, ReserveFacts
<1>5. more \in Seq(Writes) /\ ToSet(more) = {a, b, m}
  BY <1>2 DEF ToSet
<1>6. queue \in Seq(Writes)
  BY DEF IndInv, CoreInv, TypeInv
<1> HIDE DEF more
<1>7. queue' \in Seq(Writes) /\ ToSet(queue') = ToSet(queue) \cup ToSet(more)
  BY <1>1, <1>5, <1>6, Concatenated
<1>8. TypeInv' /\ ShownInv'
  BY <1>1, <1>7 DEF IndInv, CoreInv, TypeInv, ShownInv
<1>9. BitsInv'
  BY <1>1, <1>3, <1>5, <1>7 DEF IndInv, CoreInv, BitsInv, Faithful, Unreset
<1>10. LockInv'
  BY <1>1, <1>4, <1>5, <1>7 DEF IndInv, CoreInv, LockInv, Locked
<1>11. FrameInv'
  BY <1>1 DEF IndInv, FrameInv
<1>. QED BY <1>1, <1>8, <1>9, <1>10, <1>11, SameAsks DEF IndInv, CoreInv

LEMMA AnyFrameFailsIndInv ==
    ASSUME IndInv, AnyFrameFails
    PROVE  IndInv' /\ KeepsOthers
<1>1. /\ frame' = Idle /\ link' \in BOOLEAN
      /\ device' = device \/ (frame.kind = "write" /\ device' = Overwritten(frame.words))
      /\ asking' = asking \ frame.waiting
      /\ timers' = timers \cup UNION {Armed(k) : k \in frame.waiting \cap asking}
      /\ UNCHANGED <<cache, queue, shown, wish, resets>>
  BY DEF AnyFrameFails, FrameFails, countVars
<1>2. AskInv' /\ TimerInv'
  <2> DEFINE done == frame.waiting \cap asking
  <2>1. done \in SUBSET asking /\ asking' = asking \ done
    BY <1>1
  <2>2. timers' = timers \cup UNION {Armed(k) : k \in done} /\ wish' = wish
    BY <1>1
  <2> HIDE DEF done
  <2>. QED BY <2>1, <2>2, AskEnds DEF IndInv
<1>3. CASE frame.kind = "readback"
  <2>1. PICK c \in Requests : frame.waiting = {c} /\ phase[c] = "read"
    BY <1>3 DEF IndInv, FrameInv
  <2>2. Goes(c, "failed") /\ "failed" \in Phases \ {"flush", "read"}
    BY <1>3, <2>1 DEF AnyFrameFails, Phases, countVars
  <2>3. device' = device
    BY <1>1, <1>3
  <2>4. CoreInv'
    BY <1>1, <2>2, <2>3, CallEnds DEF IndInv
  <2>. QED BY <1>1, <1>2, <2>3, <2>4, IdleFrame DEF IndInv, KeepsOthers, Unreset
<1>4. CASE frame.kind # "readback"
  <2>1. phase' = phase
    BY <1>4 DEF AnyFrameFails, countVars
  <2>2. device' \in [Registers -> Words] /\ KeepsOthers /\ KeepsReserves
    <3>1. CASE device' = device
      BY <1>1, <3>1 DEF KeepsOthers, KeepsReserves, IndInv, CoreInv, TypeInv, Unreset
    <3>2. CASE frame.kind = "write" /\ device' = Overwritten(frame.words)
      BY <1>1, <3>2, Written
    <3>. QED BY <1>1, <3>1, <3>2
  <2>3. CoreInv'
    BY <1>1, <2>1, <2>2, DeviceChanged DEF IndInv, CoreInv, TypeInv
  <2>. QED BY <1>1, <1>2, <2>2, <2>3, IdleFrame DEF IndInv
<1>. QED BY <1>3, <1>4

-----------------------------------------------------------------------------
(***************************************************************************)
(* The theorems.                                                           *)
(***************************************************************************)
LEMMA InitIndInv == DispatchInit => IndInv
<1> SUFFICES ASSUME DispatchInit PROVE IndInv
  OBVIOUS
<1>1. /\ device \in [Registers -> Words] /\ cache = [r \in Registers |-> Unknown]
      /\ queue = <<>> /\ frame = Idle /\ link = TRUE /\ asking = {} /\ timers = {}
      /\ shown = [s \in Switches |-> Unknown] /\ wish = [s \in Switches |-> Unknown]
      /\ phase = [c \in Requests |-> "new"] /\ resets = 0
  BY CacheAssumption DEF DispatchInit, Init
<1>2. frame.kind = "idle" /\ frame.words = <<>> /\ frame.waiting = {}
  BY <1>1 DEF Idle, Frame
<1>3. queue \in Seq(Writes) /\ ToSet(queue) = {}
  BY <1>1, NoElement
<1>4. TypeInv
  BY <1>1, <1>3 DEF TypeInv, Phases
<1>5. ShownInv
  <2>1. \A s \in Switches : shown[s] # TRUE
    BY <1>1, CacheAssumption
  <2>. QED BY <2>1 DEF ShownInv
<1>6. BitsInv
  BY <1>1, <1>2, <1>3, BitRegistersExist DEF BitsInv, Unreset
<1>7. LockInv
  BY <1>1 DEF LockInv, Locked
<1>8. FrameInv
  <2>1. <<>> \in Writes
    <3>1. <<>> = [r \in {} |-> r]
      BY SMT
    <3>2. [r \in {} |-> r] \in [{} -> Words]
      OBVIOUS
    <3>. QED BY <3>1, <3>2, IsWrite
  <2>. QED BY <1>2, <2>1 DEF FrameInv
<1>9. AskInv /\ TimerInv
  BY <1>1 DEF AskInv, TimerInv
<1>. QED BY <1>4, <1>5, <1>6, <1>7, <1>8, <1>9 DEF IndInv, CoreInv

LEMMA CacheStepIndInv ==
    ASSUME IndInv, CacheStep, UNCHANGED phase
    PROVE  IndInv' /\ KeepsOthers
<1>1. CASE UserStep
  <2>1. device' = device /\ resets' = resets
    BY <1>1 DEF UserStep, TurnOn, TurnOff, SelectOption, countVars
  <2>2. IndInv'
    BY <1>1, TurnOnIndInv, TurnOffIndInv, SelectIndInv DEF UserStep
  <2>. QED BY <2>1, <2>2 DEF KeepsOthers, Unreset
<1>2. ASSUME NEW s \in KeptAlive, TimerFires(s)
      PROVE  IndInv' /\ KeepsOthers
  BY <1>2, TimerFiresIndInv DEF TimerFires, KeepsOthers, Unreset, countVars
<1>3. ASSUME NEW r \in Reverting, Resets(r)
      PROVE  IndInv' /\ KeepsOthers
  BY <1>3, ResetsIndInv
<1>4. CASE PollStarts
  BY <1>4, PollStartsIndInv DEF PollStarts, KeepsOthers, Unreset, countVars
<1>5. CASE PollReturns
  BY <1>5, PollReturnsIndInv DEF PollReturns, KeepsOthers, Unreset, countVars
<1>6. CASE LiveReadStarts
  BY <1>6, LiveReadStartsIndInv DEF LiveReadStarts, KeepsOthers, Unreset, countVars
<1>7. CASE LiveReadReturns
  BY <1>7, LiveReadReturnsIndInv DEF LiveReadReturns, KeepsOthers, Unreset, countVars
<1>8. CASE LiveReadGivesUp
  BY <1>8, LiveReadGivesUpIndInv DEF LiveReadGivesUp, KeepsOthers, Unreset, countVars
<1>9. CASE WriteStarts
  BY <1>9, WriteStartsIndInv DEF WriteStarts, KeepsOthers, Unreset, countVars
<1>10. CASE WriteReturns
  BY <1>10, WriteReturnsIndInv, Written DEF WriteReturns, countVars
<1>11. CASE LinkLost \/ LinkBack
  BY <1>11, LinkIndInv DEF LinkLost, LinkBack, KeepsOthers, Unreset, countVars
<1>. QED BY <1>1, <1>2, <1>3, <1>4, <1>5, <1>6, <1>7, <1>8, <1>9, <1>10, <1>11 DEF CacheStep

LEMMA CallStepIndInv ==
    ASSUME IndInv, NEW c \in Requests, CallStep(c)
    PROVE  IndInv' /\ KeepsOthers
<1>1. device' = device /\ resets' = resets
  BY DEF CallStep, Begin, TakeLock, FlushEnds, FlushTimesOut, ReadBackStarts, ReadBackGivesUp,
         ReadBackReturns, cacheVars, countVars
<1>2. IndInv'
  BY BeginIndInv, TakeLockIndInv, FlushEndsIndInv, FlushTimesOutIndInv, ReadBackStartsIndInv,
     ReadBackGivesUpIndInv, ReadBackReturnsIndInv DEF CallStep
<1>. QED BY <1>1, <1>2 DEF KeepsOthers, Unreset

LEMMA NextIndInv ==
    ASSUME IndInv, [DispatchNext]_vars
    PROVE  IndInv' /\ KeepsOthers
<1>1. CASE CacheStep /\ UNCHANGED phase
  BY <1>1, CacheStepIndInv
<1>2. CASE AnyFrameFails
  BY <1>2, AnyFrameFailsIndInv
<1>3. ASSUME NEW c \in Requests, CallStep(c)
      PROVE  IndInv' /\ KeepsOthers
  BY <1>3, CallStepIndInv
<1>4. CASE DispatchStop
  BY <1>4, DispatchStopIndInv DEF DispatchStop, KeepsOthers, Unreset
<1>5. CASE UNCHANGED vars
  <2>1. /\ UNCHANGED <<device, resets, cache, queue, frame, link, shown, phase>>
        /\ UNCHANGED <<asking, timers, wish>>
    BY <1>5 DEF vars, cacheVars, entityVars, countVars
  <2>2. TypeInv' /\ ShownInv'
    BY <2>1 DEF IndInv, CoreInv, TypeInv, ShownInv
  <2>3. BitsInv' /\ LockInv'
    BY <2>1 DEF IndInv, CoreInv, BitsInv, LockInv, Locked, Faithful, Unreset
  <2>4. FrameInv'
    BY <2>1 DEF IndInv, FrameInv
  <2>. QED BY <2>1, <2>2, <2>3, <2>4, SameAsks DEF IndInv, CoreInv, KeepsOthers, Unreset
<1>. QED BY <1>1, <1>2, <1>3, <1>4, <1>5 DEF DispatchNext

\* The invariant: what is cached, queued and on the link agrees with the inverter in the
\* bits of others of every register it has not reset, and a call that reads its two words
\* has them to itself.
THEOREM DispatchInvariant == DispatchSpec => []IndInv
<1>1. IndInv /\ [DispatchNext]_vars => IndInv'
  BY NextIndInv
<1>. QED BY <1>1, InitIndInv, PTL DEF DispatchSpec

\* Every variable has its type, and of each platform one call at most waits for a read.
THEOREM DispatchTypes == DispatchSpec => []DispatchTypeOK
<1>1. ASSUME IndInv PROVE DispatchTypeOK
  <2>1. \A i \in DOMAIN queue : DOMAIN queue[i] \subseteq Registers
    BY <1>1, WriteFacts DEF IndInv, CoreInv, TypeInv
  <2>2. \A k \in asking : k.by \in Callers /\ \A j \in asking : j.by = k.by => j = k
    BY <1>1 DEF IndInv, AskInv, Asks, Callers
  <2>3. frame.kind \in {"idle", "poll", "live", "write", "readback"}
    BY <1>1 DEF IndInv, FrameInv
  <2>. QED BY <1>1, <2>1, <2>2, <2>3 DEF DispatchTypeOK, TypeOK, IndInv, CoreInv, TypeInv, AskInv
<1>. QED BY <1>1, DispatchInvariant, PTL

\* The keep-alive timer of a switch that was put off is cancelled, also when an earlier
\* call to put it on ends after that.
THEOREM OffStays == DispatchSpec => []OffStaysOff
<1>1. IndInv => OffStaysOff
  BY DEF IndInv, TimerInv, OffStaysOff
<1>. QED BY <1>1, DispatchInvariant, PTL

\* Read-modify-write changes no bit that belongs to no entity: for good in the registers
\* that do not revert, and in the others until the inverter resets one.
THEOREM OthersSurvive == DispatchSpec => OtherBitsSurvive
<1> DEFINE Keeps == \A r \in Unreset' : device'[r] \ OwnBits(r) = device[r] \ OwnBits(r)
<1>1. IndInv /\ [DispatchNext]_vars => [Keeps]_cacheVars
  BY NextIndInv DEF KeepsOthers, Other, Unreset
<1>2. OtherBitsSurvive <=> [][Keeps]_cacheVars
  BY DEF OtherBitsSurvive
<1> HIDE DEF Keeps
<1>. QED BY <1>1, <1>2, DispatchInvariant, PTL DEF DispatchSpec

\* Of the blocks of a call one writes the two words.
LEMMA OneBlockWrites ==
    ASSUME NEW c \in Requests, NEW current, \A r \in Reserves(c) : current[r] \in Words,
           NEW n \in {0, 1}
    PROVE  \E k \in 1..Len(Blocks(c, current)) :
              \A j \in 1..Len(Blocks(c, current)) :
                 /\ ReserveOf(c) + n \in DOMAIN Blocks(c, current)[j] => j = k
                 /\ j = k => /\ ReserveOf(c) + n \in DOMAIN Blocks(c, current)[j]
                             /\ Blocks(c, current)[j][ReserveOf(c) + n] = Given(c, n, current)
<1> DEFINE r == ReserveOf(c) + n
<1>1. r \in Reserves(c) /\ r \notin {Master, Failsafe, Mode, Function, ScheduleBase}
  BY ReserveFacts
<1>2. CASE ~c.schedule
  <2>1. PICK a \in Writes, b \in Writes :
           /\ Blocks(c, current) = <<a, b>>
           /\ DOMAIN a = {Master, Failsafe} /\ DOMAIN b = Reserves(c) \cup {Mode, Function}
           /\ \A i \in {0, 1} : b[ReserveOf(c) + i] = Given(c, i, current)
    BY <1>2, RealtimeBlocks
  <2>2. r \notin DOMAIN a /\ r \in DOMAIN b /\ b[r] = Given(c, n, current)
    BY <1>1, <2>1
  <2>3. Len(<<a, b>>) = 2 /\ <<a, b>>[1] = a /\ <<a, b>>[2] = b
    OBVIOUS
  <2> HIDE DEF r
  <2>4. \A j \in 1..2 : /\ r \in DOMAIN <<a, b>>[j] => j = 2
                        /\ j = 2 => r \in DOMAIN <<a, b>>[j] /\ <<a, b>>[j][r] = Given(c, n, current)
    BY <2>2, <2>3
  <2>. QED BY <2>1, <2>3, <2>4 DEF r
<1>3. CASE c.schedule /\ c.mode # {}
  <2>1. PICK a \in Writes, b \in Writes, m \in Writes :
           /\ Blocks(c, current) = <<a, b, m>>
           /\ DOMAIN a = Reserves(c) \cup {ScheduleBase}
           /\ DOMAIN b = {Failsafe} /\ DOMAIN m = {Master}
           /\ \A i \in {0, 1} : a[ReserveOf(c) + i] = Given(c, i, current)
    BY <1>3, ScheduleBlocks
  <2>2. r \in DOMAIN a /\ r \notin DOMAIN b /\ r \notin DOMAIN m /\ a[r] = Given(c, n, current)
    BY <1>1, <2>1
  <2>3. Len(<<a, b, m>>) = 3 /\ <<a, b, m>>[1] = a /\ <<a, b, m>>[2] = b /\ <<a, b, m>>[3] = m
    OBVIOUS
  <2> HIDE DEF r
  <2>4. \A j \in 1..3 :
           /\ r \in DOMAIN <<a, b, m>>[j] => j = 1
           /\ j = 1 => r \in DOMAIN <<a, b, m>>[j] /\ <<a, b, m>>[j][r] = Given(c, n, current)
    BY <2>2, <2>3
  <2>. QED BY <2>1, <2>3, <2>4 DEF r
<1>4. CASE c.schedule /\ c.mode = {}
  <2>1. PICK a \in Writes :
           /\ Blocks(c, current) = <<a>> /\ DOMAIN a = Reserves(c) \cup {ScheduleBase}
           /\ \A i \in {0, 1} : a[ReserveOf(c) + i] = Given(c, i, current)
    BY <1>4, PausedBlocks
  <2>2. r \in DOMAIN a /\ a[r] = Given(c, n, current) /\ Len(<<a>>) = 1 /\ <<a>>[1] = a
    BY <1>1, <2>1
  <2> HIDE DEF r
  <2>3. \A j \in 1..1 :
           /\ r \in DOMAIN <<a>>[j] => j = 1
           /\ j = 1 => r \in DOMAIN <<a>>[j] /\ <<a>>[j][r] = Given(c, n, current)
    BY <2>2
  <2>. QED BY <2>1, <2>2, <2>3 DEF r
<1>. QED BY <1>2, <1>3, <1>4

LEMMA OnlyWriter ==
    ASSUME NEW q, NEW r, NEW i \in DOMAIN q, i \in Nat,
           \A j \in DOMAIN q : r \in DOMAIN q[j] <=> j = i
    PROVE  {j \in DOMAIN q : r \in DOMAIN q[j]} # {}
           /\ Max({j \in DOMAIN q : r \in DOMAIN q[j]}) = i
<1>1. {j \in DOMAIN q : r \in DOMAIN q[j]} = {i}
  OBVIOUS
<1>2. Max({i}) = i
  <2>1. \A x : x \in {i} /\ (\A y \in {i} : x >= y) <=> x = i
    OBVIOUS
  <2>. QED BY <2>1 DEF Max
<1>. QED BY <1>1, <1>2

\* A call that ends after its read-back queues the words it omitted as they will be then.
LEMMA ReadBackKeeps ==
    ASSUME IndInv, NEW c \in Requests, ReadBackReturns(c), NEW n \in {0, 1}, c.given[n] = Unknown
    PROVE  Upcoming(ReserveOf(c) + n)' = Upcoming(ReserveOf(c) + n)
<1> DEFINE r == ReserveOf(c) + n
           blocks == Blocks(c, frame.words)
<1>1. /\ frame.kind = "readback" /\ c \in frame.waiting
      /\ queue' = queue \o blocks /\ frame' = Idle
  BY DEF ReadBackReturns
<1>2. r \in Reserves(c)
  BY ReserveFacts
<1>3. /\ \A q \in Reserves(c) : frame.words[q] = device[q] /\ frame.words[q] \in Words
      /\ \A w \in ToSet(queue) : r \notin DOMAIN w
  BY <1>1, <1>2, ReadBackFacts
<1>4. blocks \in Seq(Writes) /\ queue \in Seq(Writes)
  BY <1>3, BlocksFacts DEF IndInv, CoreInv, TypeInv
<1>5. Given(c, n, frame.words) = device[r]
  BY <1>2, <1>3 DEF Given
<1>6. PICK k \in 1..Len(blocks) : \A j \in 1..Len(blocks) :
         /\ r \in DOMAIN blocks[j] => j = k
         /\ j = k => r \in DOMAIN blocks[j] /\ blocks[j][r] = device[r]
  <2> HIDE DEF r
  <2> DEFINE words == frame.words
  <2>1. \A q \in Reserves(c) : words[q] \in Words
    BY <1>3
  <2> HIDE DEF words
  <2>2. PICK k \in 1..Len(Blocks(c, words)) : \A j \in 1..Len(Blocks(c, words)) :
           /\ ReserveOf(c) + n \in DOMAIN Blocks(c, words)[j] => j = k
           /\ j = k => /\ ReserveOf(c) + n \in DOMAIN Blocks(c, words)[j]
                       /\ Blocks(c, words)[j][ReserveOf(c) + n] = Given(c, n, words)
    BY <2>1, OneBlockWrites
  <2>. QED BY <1>5, <2>2 DEF words, r
<1> HIDE DEF blocks, r
<1>7. Upcoming(r) = device[r]
  <2>1. {i \in DOMAIN queue : r \in DOMAIN queue[i]} = {}
    BY <1>3 DEF ToSet
  <2>. QED BY <1>1, <2>1 DEF Upcoming
<1>8. Upcoming(r)' = device[r]
  <2>1. /\ queue' \in Seq(Writes) /\ Len(queue') = Len(queue) + Len(blocks)
        /\ \A i \in 1..(Len(queue) + Len(blocks)) :
              queue'[i] = IF i <= Len(queue) THEN queue[i] ELSE blocks[i - Len(queue)]
    BY <1>1, <1>4, ConcatProperties
  <2>2. /\ Len(queue) \in Nat /\ Len(blocks) \in Nat
        /\ DOMAIN queue = 1..Len(queue) /\ DOMAIN queue' = 1..(Len(queue) + Len(blocks))
    BY <1>4, <2>1
  <2>3. \A j \in 1..Len(queue) : r \notin DOMAIN queue[j]
    BY <1>3, <2>2 DEF ToSet
  <2> DEFINE last == Len(queue) + k
  <2>4. last \in DOMAIN queue' /\ last \in Nat /\ queue'[last] = blocks[k]
    <3>1. k \in Nat /\ k >= 1 /\ k <= Len(blocks)
      BY <1>6, <2>2
    <3>2. last \in 1..(Len(queue) + Len(blocks)) /\ ~(last <= Len(queue)) /\ last - Len(queue) = k
      BY <2>2, <3>1
    <3> HIDE DEF last
    <3>. QED BY <2>1, <2>2, <3>2
  <2>5. ASSUME NEW j \in DOMAIN queue'
        PROVE  r \in DOMAIN queue'[j] <=> j = last
    <3>1. CASE j <= Len(queue)
      BY <2>1, <2>2, <2>3, <3>1
    <3>2. CASE j > Len(queue)
      <4>1. j - Len(queue) \in 1..Len(blocks) /\ queue'[j] = blocks[j - Len(queue)]
        BY <2>1, <2>2, <3>2
      <4>2. r \in DOMAIN blocks[j - Len(queue)] <=> j - Len(queue) = k
        BY <1>6, <4>1
      <4>3. j - Len(queue) = k <=> j = last
        <5>1. k \in Nat /\ j \in Nat /\ Len(queue) \in Nat
          BY <1>6, <2>2
        <5>. QED BY <5>1
      <4>. QED BY <4>1, <4>2, <4>3
    <3>. QED BY <2>2, <3>1, <3>2
  <2> HIDE DEF last
  <2> DEFINE writers == {i \in DOMAIN queue : r \in DOMAIN queue[i]}
  <2>6. writers' # {} /\ Max(writers') = last
    BY <2>4, <2>5, OnlyWriter
  <2>7. Upcoming(r)' = queue'[Max(writers')][r]
    BY <2>6 DEF Upcoming
  <2>. QED BY <1>6, <2>4, <2>6, <2>7
<1>. QED BY <1>7, <1>8 DEF r

\* The step of a call that ends keeps the words it omitted.
OmittedStep ==
    \A c \in Requests : phase[c] # "done" /\ phase'[c] = "done" =>
        \A n \in {0, 1} : c.given[n] = Unknown =>
            LET r == ReserveOf(c) + n IN Upcoming(r)' = Upcoming(r)

LEMMA CallStepKeepsOmitted ==
    ASSUME IndInv, NEW d \in Requests, CallStep(d)
    PROVE  OmittedStep
<1> SUFFICES ASSUME NEW c \in Requests, phase[c] # "done", phase'[c] = "done",
                    NEW n \in {0, 1}, c.given[n] = Unknown
             PROVE  Upcoming(ReserveOf(c) + n)' = Upcoming(ReserveOf(c) + n)
  BY DEF OmittedStep
<1>1. /\ TypeInv /\ \A p \in Phases : Goes(d, p) => p = "done" /\ c = d
  BY GoesFacts DEF IndInv, CoreInv
<1>2. {"lock", "flush", "read", "failed"} \subseteq Phases
  BY DEF Phases
<1>3. CASE TakeLock(d)
  <2>1. ~Omits(d)
    BY <1>1, <1>2, <1>3 DEF TakeLock
  <2>2. c = d
    BY <1>1, <1>2, <1>3 DEF TakeLock, Phases
  <2>. QED BY <2>1, <2>2 DEF Omits
<1>4. CASE ReadBackReturns(d)
  <2>1. c = d
    BY <1>1, <1>4 DEF ReadBackReturns, Phases
  <2>. QED BY <1>4, <2>1, ReadBackKeeps
<1>5. CASE Begin(d) \/ FlushEnds(d) \/ FlushTimesOut(d) \/ ReadBackGivesUp(d)
  BY <1>1, <1>2, <1>5 DEF Begin, FlushEnds, FlushTimesOut, ReadBackGivesUp
<1>6. CASE ReadBackStarts(d)
  BY <1>6 DEF ReadBackStarts
<1>. QED BY <1>3, <1>4, <1>5, <1>6 DEF CallStep

\* A reserve or limit that a dispatch omits is queued as it will be when its turn comes:
\* no call of a dispatch undoes another's.
THEOREM OmittedAreKept == DispatchSpec => OmittedIsKept
<1>1. IndInv /\ [DispatchNext]_vars => [OmittedStep]_vars
  <2> SUFFICES ASSUME IndInv, DispatchNext PROVE OmittedStep
    OBVIOUS
  <2>1. CASE phase' = phase
    BY <2>1 DEF OmittedStep
  <2>2. CASE AnyFrameFails
    <3>1. CASE frame.kind = "readback"
      <4>1. PICK d \in Requests : frame.waiting = {d}
        BY <3>1 DEF IndInv, FrameInv
      <4>2. Goes(d, "failed") /\ "failed" \in Phases
        BY <2>2, <3>1, <4>1 DEF AnyFrameFails, Phases, countVars
      <4>3. \A c \in Requests : phase'[c] \in {phase[c], "failed"}
        BY <4>2, GoesFacts DEF IndInv, CoreInv
      <4>. QED BY <4>3 DEF OmittedStep
    <3>2. CASE frame.kind # "readback"
      BY <2>1, <2>2, <3>2 DEF AnyFrameFails, countVars
    <3>. QED BY <3>1, <3>2
  <2>3. ASSUME NEW d \in Requests, CallStep(d)
        PROVE  OmittedStep
    BY <2>3, CallStepKeepsOmitted
  <2>. QED BY <2>1, <2>2, <2>3 DEF DispatchNext, DispatchStop
<1>2. OmittedIsKept <=> [][OmittedStep]_vars
  BY DEF OmittedIsKept, OmittedStep
<1>. QED BY <1>1, <1>2, DispatchInvariant, PTL DEF DispatchSpec
-----------------------------------------------------------------------------
(***************************************************************************)
(* Selects.  The options are those of the code's tables, and the word in   *)
(* the cache is any: CurrentOption undoes OptionWord.                      *)
(***************************************************************************)
\* A select of bits chooses among the storage modes; the others choose a value.
ModesOrValues(options) ==
    \/ options \subseteq StorageModes
    \/ \A o \in options : o.bits = {}

\* A storage mode clears all the bits of the modes and sets its own, which tell it from the others.
\* The selects of every inverter are such.
LEMMA SelectsOfTables ==
    ASSUME NEW type, NEW features
    PROVE  \A options \in GetSelectSensors(type, features) : ModesOrValues(options)
<1>1. \A register, on, off : ValueControl(register, on, off).bits = {}
  BY DEF ValueControl, BitControl
<1>2. \A o \in ForceModes : o.bits = {}
  <2>. SUFFICES ASSUME NEW o \in ForceModes
                PROVE  o.bits = {}
    OBVIOUS
  <2>1. PICK on \in 0..2 : o = [ValueControl(43135, on, {}) EXCEPT !.companions = ForceCompanions]
    BY DEF ForceModes
  <2>2. o = [BitControl(43135, 0) EXCEPT !.bits = {}, !.on = {BitsOf(on)},
                !.off = {BitsOf(n) : n \in {}}, !.companions = ForceCompanions]
    BY <2>1 DEF ValueControl, BitControl
  <2>. HIDE DEF BitsOf, ForceCompanions
  <2>. QED BY <2>2 DEF BitControl
<1>. QED BY <1>1, <1>2 DEF GetSelectSensors, ModesOrValues, BatteryModels

LEMMA ModeIs ==
    ASSUME NEW o \in StorageModes
    PROVE  \E bit \in {0, 2, 6, 11}, requires \in SUBSET {1, 4} : o = ModeOption(bit, requires)
BY DEF StorageModes

LEMMA ModeFields ==
    ASSUME NEW bit \in {0, 2, 6, 11}, NEW requires \in SUBSET {1, 4}
    PROVE  LET o == ModeOption(bit, requires)
           IN  /\ o.bits = {bit} /\ o.requires = requires
               /\ o.conflicts = StorageModeBits
               /\ o.touV1 = (1 \in requires)
BY DEF ModeOption, BitControl

LEMMA ModeFacts ==
    ASSUME NEW o \in StorageModes
    PROVE  /\ o.bits # {} /\ o.conflicts = StorageModeBits
           /\ Own(o) \subseteq StorageModeBits
           /\ ~o.touV1 => 1 \notin Own(o)
           /\ o.requires \in SUBSET {1, 4}
<1>1. PICK bit \in {0, 2, 6, 11}, requires \in SUBSET {1, 4} : o = ModeOption(bit, requires)
  BY ModeIs
<1>2. /\ o.bits = {bit} /\ o.requires = requires /\ o.conflicts = StorageModeBits
      /\ o.touV1 = (1 \in requires)
  BY <1>1, ModeFields
<1>3. Own(o) = {bit} \cup requires
  BY <1>2 DEF Own
<1>4. Own(o) \subseteq StorageModeBits
  BY <1>3 DEF StorageModeBits
<1>5. 1 \in Own(o) => o.touV1
  <2>1. ASSUME 1 \in Own(o) PROVE 1 \in requires
    BY <1>3, <2>1
  <2>. QED BY <1>2, <2>1
<1>. QED BY <1>2, <1>4, <1>5

LEMMA ModesDiffer ==
    ASSUME NEW o \in StorageModes, NEW p \in StorageModes, Own(o) = Own(p)
    PROVE  o = p
<1>1. PICK b \in {0, 2, 6, 11}, req \in SUBSET {1, 4} : o = ModeOption(b, req)
  BY ModeIs
<1>2. PICK c \in {0, 2, 6, 11}, reqP \in SUBSET {1, 4} : p = ModeOption(c, reqP)
  BY ModeIs
<1>3. {b} \cup req = {c} \cup reqP
  BY <1>1, <1>2, ModeFields DEF Own
<1>4. b = c /\ req = reqP
  BY <1>3
<1>. QED BY <1>1, <1>2, <1>4

\* The most specific of one option.
LEMMA MostSpecificOfOne ==
    ASSUME NEW o, IsFiniteSet(o.requires)
    PROVE  MostSpecific({o}) = {o}
<1>1. Cardinality(o.requires) \in Nat
  BY FS_CardinalityType
<1>. QED BY <1>1 DEF MostSpecific

\* current_option reads from the word that an option leads to the option, whatever was cached.
LEMMA RoundTrip ==
    ASSUME NEW options, ModesOrValues(options), NEW o \in Offered(options), o.bits # {},
           NEW cached
    PROVE  CurrentOption(options, OptionWord(o, cached)) = {o}
<1>. DEFINE whole == OptionWord(o, cached)
            word  == IF \E p \in options : p.touV1 /\ HideTouV1 THEN whole \ {1} ELSE whole
            exact == {p \in Offered(options) : FitsExactly(p, word)}
<1>1. options \subseteq StorageModes /\ o \in options /\ (HideTouV1 => ~o.touV1)
  BY DEF Offered, ModesOrValues
<1>2. whole = (cached \ StorageModeBits) \cup Own(o)
  BY <1>1, ModeFacts DEF OptionWord, Own
<1>3. word \cap StorageModeBits = Own(o)
  <2>1. Own(o) \subseteq StorageModeBits
    BY <1>1, ModeFacts
  <2>2. HideTouV1 => 1 \notin Own(o)
    BY <1>1, ModeFacts
  <2>. QED BY <1>2, <2>1, <2>2
<1>. HIDE DEF word
<1>4. exact = {o}
  <2>1. FitsExactly(o, word)
    BY <1>1, <1>3, ModeFacts DEF FitsExactly, Fits
  <2>2. ASSUME NEW p \in Offered(options), FitsExactly(p, word)
        PROVE  p = o
    <3>1. p \in StorageModes
      BY <1>1 DEF Offered
    <3>2. /\ p.bits # {} /\ p.conflicts = StorageModeBits
          /\ Own(p) \subseteq StorageModeBits
      BY <3>1, ModeFacts
    <3>3. Own(p) \subseteq word /\ word \cap (StorageModeBits \ Own(p)) = {}
      BY <2>2, <3>2 DEF FitsExactly, Fits
    <3>4. Own(p) = Own(o)
      BY <1>3, <3>2, <3>3
    <3>. QED BY <1>1, <3>1, <3>4, ModesDiffer
  <2>. QED BY <2>1, <2>2
<1>5. MostSpecific({o}) = {o}
  <2>1. o.requires \in SUBSET {1, 4}
    BY <1>1, ModeFacts
  <2>2. IsFiniteSet({1, 4})
    <3>1. IsFiniteSet({4}) /\ {1, 4} = {4} \cup {1}
      BY FS_Singleton
    <3>. QED BY <3>1, FS_AddElement
  <2>3. IsFiniteSet(o.requires)
    BY <2>1, <2>2, FS_Subset
  <2>. QED BY <2>3, MostSpecificOfOne
<1>6. CurrentOption(options, whole) = MostSpecific(exact)
  <2>1. exact # {}
    BY <1>4
  <2>. QED BY <2>1 DEF CurrentOption, word
<1>. QED BY <1>4, <1>5, <1>6

\* An option of a storage mode that is selected shows as the current one and as no other, for
\* any cached word, any subset of the modes as options, and TOU version 1 hidden or not.
THEOREM SelectsShow ==
    ASSUME \A options \in Selects : ModesOrValues(options)
    PROVE  DispatchSpec => []SelectRoundTrip
<1>1. SelectRoundTrip
  BY RoundTrip DEF SelectRoundTrip
<1>. QED BY <1>1, PTL
=============================================================================
