----------------------------- MODULE DeskProofs -----------------------------
(***************************************************************************)
(* TLAPS proofs about SamplerDesk, for every number of keys, pads, notes,  *)
(* banks and mappings and every capacity of the queues: no gate of a key   *)
(* or a pad stays open without a hand on it, unless a full queue refused   *)
(* its release, a note-off that is answered ends its note, and MIDI        *)
(* commands reach the engine once and in order.  For every trim, count,    *)
(* length and grid: the slices of a session fit the trim it was begun on,  *)
(* and undo and redo walk one line of them.  For every signal: what an     *)
(* analysis finds meets its reference.                                     *)
(***************************************************************************)
EXTENDS SamplerDesk, SequenceFacts

-----------------------------------------------------------------------------
(* What a queue of commands leaves open.                                   *)

Sources ==
  {Key(k) : k \in Keys} \cup {Mouse(p) : p \in MousePads} \cup NoteSources \cup {LayerAudition}

Commands == [type : {"trigger", "release", "panic"}, source : Sources \cup {<<>>}]

\* h tells, for every length of a beginning of q, what is open after it.
IsRun(h, open, q) ==
  /\ h[0] = open
  /\ \A m \in 1 .. Len(q) : h[m] = Effect(h[m - 1], q[m])

\* The library's fold of a queue, as a function of the commands' positions.
IsOpening(g, open, q) ==
  g = [s \in SUBSET DOMAIN q |->
         IF s = {} THEN open ELSE Effect(g[s \ {Max(s)}], q[Max(s)])]

\* The last of some positions is one of them, and that of a beginning its length.
LEMMA LastOfPositions ==
  ASSUME NEW n \in Nat
  PROVE  /\ \A s \in SUBSET (1 .. n) : s # {} => Max(s) \in s
         /\ n # 0 => Max(1 .. n) = n
<1>1. ASSUME NEW s \in SUBSET (1 .. n), s # {} PROVE Max(s) \in s
  <2> DEFINE above == {m \in Nat : \A x \in s : x <= m}
  <2>1. n \in above /\ above \in SUBSET Nat
    OBVIOUS
  <2> HIDE DEF above
  <2>2. PICK m \in above : \A k \in above : m <= k
    BY <2>1, LeastNumber
  <2>3. m \in Nat /\ \A x \in s : x <= m
    BY <2>2 DEF above
  <2>4. m \in s
    <3> SUFFICES ASSUME m \notin s PROVE FALSE
      OBVIOUS
    <3>1. PICK x \in s : TRUE
      BY <1>1
    <3>2. x \in Nat /\ x >= 1 /\ x <= m /\ x # m
      BY <2>3, <3>1
    <3>3. m - 1 \in Nat /\ \A y \in s : y <= m - 1
      BY <2>3, <3>2
    <3>4. m - 1 \in above
      BY <3>3 DEF above
    <3> QED BY <2>2, <2>3, <3>4
  <2>5. \A y \in s : m >= y
    BY <2>3
  <2> QED BY <2>4, <2>5 DEF Max
<1>2. n # 0 => Max(1 .. n) = n
  <2> SUFFICES ASSUME n # 0 PROVE Max(1 .. n) = n
    OBVIOUS
  <2>1. n \in 1 .. n /\ \A y \in 1 .. n : n >= y
    OBVIOUS
  <2>2. \A m \in 1 .. n : (\A y \in 1 .. n : m >= y) => m = n
    BY <2>1
  <2> QED BY <2>1, <2>2 DEF Max
<1> QED BY <1>1, <1>2

\* A command leaves sources open and nothing else.
LEMMA EffectTyped ==
  ASSUME NEW U, Sources \cup {<<>>} \subseteq U, NEW open \in SUBSET U, NEW c \in Commands
  PROVE  Effect(open, c) \in SUBSET U
  BY DEF Effect, Commands

\* The fold exists, and is the one After() takes.
LEMMA AfterIsOpening ==
  ASSUME NEW q \in Seq(Commands), NEW open
  PROVE  \E g : IsOpening(g, open, q) /\ After(open, q) = g[DOMAIN q]
<1> DEFINE n == Len(q)
           U == open \cup Sources \cup {<<>>}
           V == SUBSET U
           c == [s \in SUBSET (1 .. n) |-> Max(s)]
           F == [iv \in (1 .. n) \X V |-> Effect(iv[2], q[iv[1]])]
<1>1. n \in Nat /\ DOMAIN q = 1 .. n /\ IsFiniteSet(1 .. n) /\ \A i \in 1 .. n : q[i] \in Commands
  BY LenProperties, ElementOfSeq, FS_Interval
<1> HIDE DEF n
<1>2. \A s \in SUBSET (1 .. n) : s # {} => Max(s) \in s /\ c[s] = Max(s)
  BY <1>1, LastOfPositions
<1>3. F \in [(1 .. n) \X V -> V]
  <2>1. \A iv \in (1 .. n) \X V : Effect(iv[2], q[iv[1]]) \in V
    <3> TAKE iv \in (1 .. n) \X V
    <3>1. q[iv[1]] \in Commands /\ iv[2] \in SUBSET U /\ Sources \cup {<<>>} \subseteq U
      BY <1>1
    <3> HIDE DEF U
    <3> QED BY <3>1, EffectTyped
  <2> HIDE DEF V
  <2> QED BY <2>1
<1>4. open \in V
  OBVIOUS
<1> HIDE DEF U, V, c, F
<1>5. PICK g : IsFold(g, 1 .. n, V, open, F, c)
  <2>1. \A s \in SUBSET (1 .. n) : s # {} => c[s] \in s
    BY <1>2
  <2> QED BY <1>1, <1>3, <1>4, <2>1, FoldExists
<1>6. ASSUME NEW s \in SUBSET (1 .. n)
      PROVE  g[s] = IF s = {} THEN open ELSE Effect(g[s \ {Max(s)}], q[Max(s)])
  <2>1. CASE s = {}
    BY <1>5, <2>1 DEF IsFold
  <2>2. CASE s # {}
    <3>1. /\ Max(s) \in 1 .. n /\ s \ {Max(s)} \in SUBSET (1 .. n) /\ c[s] = Max(s)
          /\ g \in [SUBSET (1 .. n) -> V]
      BY <1>2, <1>5, <2>2 DEF IsFold
    <3>2. g[s] = F[<<Max(s), g[s \ {Max(s)}]>>]
      BY <1>5, <2>2, <3>1 DEF IsFold
    <3>3. PICK i, rest : i = Max(s) /\ rest = g[s \ {Max(s)}]
      OBVIOUS
    <3>4. i \in 1 .. n /\ rest \in V
      BY <3>1, <3>3
    <3>5. F[<<i, rest>>] = Effect(rest, q[i])
      BY <3>4 DEF F
    <3> QED BY <2>2, <3>2, <3>3, <3>5
  <2> QED BY <2>1, <2>2
<1>7. IsOpening(g, open, q)
  <2>1. DOMAIN g = SUBSET (1 .. n) /\ g = [s \in DOMAIN g |-> g[s]]
    BY <1>5 DEF IsFold
  <2> QED BY <1>1, <1>6, <2>1 DEF IsOpening
<1>8. After(open, q) = (CHOOSE h : IsOpening(h, open, q))[DOMAIN q]
  BY DEF After, FoldLeft, MapThenFoldSet, IsOpening
<1> QED BY <1>7, <1>8

\* A queue opens and closes one command after the other.
LEMMA AfterIsRun ==
  ASSUME NEW q \in Seq(Commands), NEW open
  PROVE  \E h : IsRun(h, open, q) /\ After(open, q) = h[Len(q)]
<1>1. Len(q) \in Nat /\ DOMAIN q = 1 .. Len(q)
  BY LenProperties
<1>2. PICK g : IsOpening(g, open, q) /\ After(open, q) = g[DOMAIN q]
  BY AfterIsOpening
<1>3. ASSUME NEW s \in SUBSET DOMAIN q
      PROVE  g[s] = IF s = {} THEN open ELSE Effect(g[s \ {Max(s)}], q[Max(s)])
  <2>1. \A x : g = x => g[s] = x[s]
    OBVIOUS
  <2> QED BY <1>2, <2>1 DEF IsOpening
<1> DEFINE h == [m \in 0 .. Len(q) |-> g[1 .. m]]
<1>4. h[0] = open
  <2>1. 0 \in 0 .. Len(q) /\ 1 .. 0 = {}
    BY <1>1
  <2>2. g[{}] = open
    BY <1>3
  <2> QED BY <2>1, <2>2
<1>5. ASSUME NEW m \in 1 .. Len(q) PROVE h[m] = Effect(h[m - 1], q[m])
  <2>1. /\ m \in Nat /\ m # 0 /\ m \in 0 .. Len(q) /\ m - 1 \in 0 .. Len(q)
        /\ 1 .. m \in SUBSET DOMAIN q /\ 1 .. m # {} /\ (1 .. m) \ {m} = 1 .. m - 1
    <3>1. m \in Nat /\ m # 0 /\ m \in 0 .. Len(q) /\ m - 1 \in 0 .. Len(q)
      BY <1>1
    <3>2. m \in 1 .. m /\ 1 .. m \subseteq 1 .. Len(q)
      BY <1>1, <3>1
    <3>3. \A i \in Int : i \in (1 .. m) \ {m} <=> i \in 1 .. m - 1
      BY <3>1
    <3>4. (1 .. m) \ {m} = 1 .. m - 1
      BY <3>3
    <3> QED BY <1>1, <3>1, <3>2, <3>4
  <2>2. Max(1 .. m) = m
    BY <2>1, LastOfPositions
  <2>3. g[1 .. m] = Effect(g[1 .. m - 1], q[m])
    BY <1>3, <2>1, <2>2
  <2> QED BY <2>1, <2>3
<1>6. h[Len(q)] = After(open, q)
  BY <1>1, <1>2
<1> HIDE DEF h
<1> QED BY <1>4, <1>5, <1>6 DEF IsRun

\* One command changes what it names alone, and less of more.
LEMMA EffectBounds ==
  ASSUME NEW c \in Commands, NEW open, NEW more, NEW X, open \subseteq more \cup X
  PROVE  Effect(open, c) \subseteq Effect(more, c) \cup X
<1>1. c.type \in {"trigger", "release", "panic"}
  BY DEF Commands
<1>2. CASE c.type = "trigger"
  BY <1>2 DEF Effect
<1>3. CASE c.type = "release"
  BY <1>3 DEF Effect
<1>4. CASE c.type = "panic"
  BY <1>4 DEF Effect
<1> QED BY <1>1, <1>2, <1>3, <1>4

\* Two runs that read the same commands from what the other contains, X apart, stay so.
LEMMA RunsBounded ==
  ASSUME NEW q \in Seq(Commands), NEW r \in Seq(Commands), NEW open, NEW more, NEW X,
         NEW h, IsRun(h, open, q), NEW g, IsRun(g, more, r), open \subseteq more \cup X,
         NEW n \in Nat, n <= Len(q), n <= Len(r), \A i \in 1 .. n : q[i] = r[i]
  PROVE  h[n] \subseteq g[n] \cup X
<1> DEFINE Bad == {m \in Nat : m <= n /\ ~(h[m] \subseteq g[m] \cup X)}
<1> SUFFICES ASSUME ~(h[n] \subseteq g[n] \cup X) PROVE FALSE
  OBVIOUS
<1>1. n \in Bad /\ Bad \in SUBSET Nat
  OBVIOUS
<1> HIDE DEF Bad
<1>2. PICK m \in Bad : \A k \in Bad : m <= k
  BY <1>1, LeastNumber
<1>3. m \in Nat /\ m <= n /\ ~(h[m] \subseteq g[m] \cup X)
  BY <1>2 DEF Bad
<1>4. h[0] = open /\ g[0] = more
  BY DEF IsRun
<1>5. m # 0
  BY <1>3, <1>4
<1>6. Len(q) \in Nat /\ Len(r) \in Nat
  BY LenProperties
<1>7. m \in 1 .. n /\ m \in 1 .. Len(q) /\ m \in 1 .. Len(r) /\ m - 1 \in Nat /\ m - 1 < m
  BY <1>3, <1>5, <1>6
<1>8. h[m - 1] \subseteq g[m - 1] \cup X
  <2>1. m - 1 \notin Bad /\ m - 1 <= n
    BY <1>2, <1>3, <1>7
  <2> QED BY <1>7, <2>1 DEF Bad
<1>9. /\ h[m] = Effect(h[m - 1], q[m]) /\ g[m] = Effect(g[m - 1], q[m])
      /\ q[m] \in Commands
  BY <1>7, ElementOfSeq DEF IsRun
<1> QED BY <1>3, <1>8, <1>9, EffectBounds

\* The same commands from the same sources leave the same open.
LEMMA RunsAgree ==
  ASSUME NEW q \in Seq(Commands), NEW r \in Seq(Commands), NEW open,
         NEW h, IsRun(h, open, q), NEW g, IsRun(g, open, r),
         NEW n \in Nat, n <= Len(q), n <= Len(r), \A i \in 1 .. n : q[i] = r[i]
  PROVE  h[n] = g[n]
<1>1. open \subseteq open \cup {}
  OBVIOUS
<1>2. h[n] \subseteq g[n] \cup {}
  BY <1>1, RunsBounded
<1>3. \A i \in 1 .. n : r[i] = q[i]
  OBVIOUS
<1>4. g[n] \subseteq h[n] \cup {}
  BY <1>1, <1>3, RunsBounded
<1> QED BY <1>2, <1>4

\* An empty queue leaves open what is.
LEMMA AfterNothing == ASSUME NEW open PROVE After(open, <<>>) = open
<1>1. <<>> \in Seq(Commands) /\ Len(<<>>) = 0
  BY EmptySeq
<1>2. PICK h : IsRun(h, open, <<>>) /\ After(open, <<>>) = h[Len(<<>>)]
  BY <1>1, AfterIsRun
<1> QED BY <1>1, <1>2 DEF IsRun

\* A queue that another one begins leaves open what that run has at its length.
LEMMA RunsBegin ==
  ASSUME NEW q \in Seq(Commands), NEW whole \in Seq(Commands), NEW open,
         NEW h, IsRun(h, open, whole), Len(q) <= Len(whole),
         \A i \in 1 .. Len(q) : whole[i] = q[i]
  PROVE  After(open, q) = h[Len(q)]
<1>1. PICK g : IsRun(g, open, q) /\ After(open, q) = g[Len(q)]
  BY AfterIsRun
<1>2. Len(q) \in Nat /\ Len(q) <= Len(q)
  BY LenProperties
<1>3. PICK n : n = Len(q)
  OBVIOUS
<1>4. n \in Nat /\ n <= Len(whole) /\ n <= Len(q) /\ \A i \in 1 .. n : whole[i] = q[i]
  BY <1>2, <1>3
<1>5. h[n] = g[n]
  BY <1>1, <1>4, RunsAgree
<1> QED BY <1>1, <1>3, <1>5

\* The second part of a queue works on what the first leaves.
LEMMA AfterBoth ==
  ASSUME NEW q \in Seq(Commands), NEW r \in Seq(Commands), NEW open
  PROVE  After(open, q \o r) = After(After(open, q), r)
<1>1. PICK whole : whole = q \o r
  OBVIOUS
<1>2. /\ whole \in Seq(Commands) /\ Len(q) \in Nat /\ Len(r) \in Nat
      /\ Len(whole) = Len(q) + Len(r)
      /\ \A i \in 1 .. Len(q) + Len(r) : whole[i] = IF i <= Len(q) THEN q[i] ELSE r[i - Len(q)]
  BY <1>1, ConcatProperties, LenProperties
<1>3. PICK h : IsRun(h, open, whole) /\ After(open, whole) = h[Len(whole)]
  BY <1>2, AfterIsRun
<1>4. h[Len(q)] = After(open, q)
  <2>1. Len(q) <= Len(whole) /\ \A i \in 1 .. Len(q) : whole[i] = q[i]
    BY <1>2
  <2> QED BY <1>2, <1>3, <2>1, RunsBegin
<1> DEFINE k == [m \in 0 .. Len(r) |-> h[Len(q) + m]]
<1>5. IsRun(k, After(open, q), r)
  <2>1. k[0] = After(open, q)
    BY <1>2, <1>4
  <2>2. ASSUME NEW m \in 1 .. Len(r) PROVE k[m] = Effect(k[m - 1], r[m])
    <3>1. /\ Len(q) + m \in 1 .. Len(q) + Len(r) /\ ~(Len(q) + m <= Len(q))
          /\ Len(q) + m - Len(q) = m /\ Len(q) + m - 1 = Len(q) + (m - 1)
          /\ m \in 0 .. Len(r) /\ m - 1 \in 0 .. Len(r)
      BY <1>2
    <3>2. h[Len(q) + m] = Effect(h[Len(q) + m - 1], r[m])
      BY <1>2, <1>3, <3>1 DEF IsRun
    <3> QED BY <3>1, <3>2
  <2> HIDE DEF k
  <2> QED BY <2>1, <2>2 DEF IsRun
<1>6. k[Len(r)] = After(open, whole)
  BY <1>2, <1>3
<1> HIDE DEF k
<1>7. After(After(open, q), r) = k[Len(r)]
  <2>1. Len(r) <= Len(r) /\ \A i \in 1 .. Len(r) : r[i] = r[i]
    BY <1>2
  <2>2. PICK open2 : open2 = After(open, q)
    OBVIOUS
  <2>3. IsRun(k, open2, r)
    BY <1>5, <2>2
  <2>4. After(open2, r) = k[Len(r)]
    BY <2>1, <2>3, RunsBegin
  <2> QED BY <2>2, <2>4
<1> QED BY <1>1, <1>6, <1>7

\* One command more.
LEMMA AfterOneMore ==
  ASSUME NEW q \in Seq(Commands), NEW c \in Commands, NEW open
  PROVE  After(open, Append(q, c)) = Effect(After(open, q), c)
<1>1. PICK whole : whole = Append(q, c)
  OBVIOUS
<1>2. /\ whole \in Seq(Commands) /\ Len(q) \in Nat /\ Len(whole) = Len(q) + 1
      /\ \A i \in 1 .. Len(q) : whole[i] = q[i]
      /\ whole[Len(q) + 1] = c
  BY <1>1, AppendProperties, LenProperties
<1>3. PICK h : IsRun(h, open, whole) /\ After(open, whole) = h[Len(whole)]
  BY <1>2, AfterIsRun
<1>4. After(open, q) = h[Len(q)]
  <2>1. Len(q) <= Len(whole)
    BY <1>2
  <2> QED BY <1>2, <1>3, <2>1, RunsBegin
<1>5. Len(q) + 1 \in 1 .. Len(whole) /\ Len(q) + 1 - 1 = Len(q)
  BY <1>2
<1>6. h[Len(q) + 1] = Effect(h[Len(q)], c)
  BY <1>2, <1>3, <1>5 DEF IsRun
<1> QED BY <1>1, <1>2, <1>3, <1>4, <1>6

\* What is open beforehand stays open at most.
LEMMA AfterMonotone ==
  ASSUME NEW q \in Seq(Commands), NEW open, NEW more, NEW X, open \subseteq more \cup X
  PROVE  After(open, q) \subseteq After(more, q) \cup X
<1>1. PICK h : IsRun(h, open, q) /\ After(open, q) = h[Len(q)]
  BY AfterIsRun
<1>2. PICK g : IsRun(g, more, q) /\ After(more, q) = g[Len(q)]
  BY AfterIsRun
<1>3. Len(q) \in Nat /\ Len(q) <= Len(q)
  BY LenProperties
<1> QED BY <1>1, <1>2, <1>3, RunsBounded

\* What is open afterwards was open, or a command triggers it.
LEMMA AfterComesFrom ==
  ASSUME NEW q \in Seq(Commands), NEW open, NEW x \in After(open, q), x \notin open
  PROVE  \E i \in 1 .. Len(q) : q[i].type = "trigger" /\ q[i].source = x
<1>1. PICK h : IsRun(h, open, q) /\ After(open, q) = h[Len(q)]
  BY AfterIsRun
<1>2. Len(q) \in Nat
  BY LenProperties
<1> DEFINE Bad == {m \in Nat : m <= Len(q) /\ x \in h[m]}
<1>3. Len(q) \in Bad /\ Bad \in SUBSET Nat
  BY <1>1, <1>2
<1> HIDE DEF Bad
<1>4. PICK m \in Bad : \A k \in Bad : m <= k
  BY <1>3, LeastNumber
<1>5. m \in Nat /\ m <= Len(q) /\ x \in h[m]
  BY <1>4 DEF Bad
<1>6. m # 0
  BY <1>1, <1>5 DEF IsRun
<1>7. m \in 1 .. Len(q) /\ m - 1 \in Nat /\ m - 1 < m /\ m - 1 <= Len(q)
  BY <1>2, <1>5, <1>6
<1>8. x \notin h[m - 1]
  <2>1. m - 1 \notin Bad
    BY <1>4, <1>5, <1>7
  <2> QED BY <1>7, <2>1 DEF Bad
<1>9. h[m] = Effect(h[m - 1], q[m]) /\ q[m] \in Commands
  BY <1>1, <1>7, ElementOfSeq DEF IsRun
<1>10. q[m].type = "trigger" /\ q[m].source = x
  <2>1. q[m].type \in {"trigger", "release", "panic"}
    BY <1>9 DEF Commands
  <2> QED BY <1>5, <1>8, <1>9, <2>1 DEF Effect
<1> QED BY <1>7, <1>10

-----------------------------------------------------------------------------
(***************************************************************************)
(* The invariant.  A key or a pad that sounds once the engine's queue is   *)
(* played is held by the record of whoever releases it: heldKeys and heldUi *)
(* for a key, heldMouse for a pad.  The MIDI commands that wait open notes  *)
(* alone.                                                                  *)
(***************************************************************************)

MidiCommands == [type : {"trigger", "release"}, source : NoteSources]

QueuesTyped ==
  /\ engineQueue \in Seq(Commands) /\ Len(engineQueue) <= EngineCapacity
  /\ midiCommands \in Seq(MidiCommands)
  /\ deferred \in Seq(MidiCommands)

KeysHeld ==
  \A k \in Keys : Key(k) \in Played =>
     \/ Key(k) \in refused
     \/ k \in heldUi /\ k \in heldKeys /\ Key(k) \in hands

MouseHeld ==
  \A p \in MousePads : Mouse(p) \in Played =>
     \/ Mouse(p) \in refused
     \/ p \in heldMouse /\ Mouse(p) \in hands

GateInv == QueuesTyped /\ KeysHeld /\ MouseHeld

\* Sources of different kinds, or of different members of one, differ.
LEMMA SourcesDiffer ==
  /\ \A k, j \in Keys : Key(k) = Key(j) => k = j
  /\ \A p, q \in MousePads : Mouse(p) = Mouse(q) => p = q
  /\ \A n, m \in Notes : Midi(n) = Midi(m) => n = m
  /\ \A k, p : Key(k) # Mouse(p)
  /\ \A k, n : Key(k) # Midi(n)
  /\ \A p, n : Mouse(p) # Midi(n)
  /\ \A k : Key(k) # LayerAudition
  /\ \A p : Mouse(p) # LayerAudition
  /\ \A k : Key(k) \notin NoteSources
  /\ \A p : Mouse(p) \notin NoteSources
<1>1. /\ \A k, j \in Keys : Key(k) = Key(j) => k = j
      /\ \A p, q \in MousePads : Mouse(p) = Mouse(q) => p = q
      /\ \A n, m \in Notes : Midi(n) = Midi(m) => n = m
  BY DEF Key, Mouse, Midi
<1>2. /\ \A k, p : Key(k) # Mouse(p)
      /\ \A k, n : Key(k) # Midi(n)
      /\ \A p, n : Mouse(p) # Midi(n)
  BY DEF Key, Mouse, Midi
<1>3. \A k, p : Key(k) # LayerAudition /\ Mouse(p) # LayerAudition
  <2>1. \A k, p : Len(Key(k)) = 2 /\ Len(Mouse(p)) = 2
    BY DEF Key, Mouse
  <2>2. Len(LayerAudition) = 1
    BY DEF LayerAudition
  <2> QED BY <2>1, <2>2
<1>4. \A k, p : Key(k) \notin NoteSources /\ Mouse(p) \notin NoteSources
  BY <1>2 DEF NoteSources
<1> QED BY <1>1, <1>2, <1>3, <1>4

\* A queue of MIDI commands is one of commands.
LEMMA MidiAreCommands ==
  /\ MidiCommands \subseteq Commands
  /\ \A q \in Seq(MidiCommands) : q \in Seq(Commands)
<1>1. MidiCommands \subseteq Commands
  BY DEF MidiCommands, Commands, Sources
<1> HIDE DEF MidiCommands, Commands
<1> QED BY <1>1, SeqMonotonic

\* The MIDI commands that wait are one queue.
LEMMA WaitingTyped ==
  ASSUME QueuesTyped
  PROVE  Waiting \in Seq(MidiCommands) /\ Waiting \in Seq(Commands)
<1>1. Waiting \in Seq(MidiCommands)
  BY ConcatProperties DEF QueuesTyped, Waiting
<1> QED BY <1>1, MidiAreCommands

\* Each command a source of its kind.
LEMMA CommandsTyped ==
  /\ Panic \in Commands
  /\ \A k \in Keys : Trigger(Key(k)) \in Commands /\ Release(Key(k)) \in Commands
  /\ \A p \in MousePads : Trigger(Mouse(p)) \in Commands /\ Release(Mouse(p)) \in Commands
  /\ \A n \in Notes : Trigger(Midi(n)) \in MidiCommands /\ Release(Midi(n)) \in MidiCommands
  /\ Trigger(LayerAudition) \in Commands
  BY DEF Commands, MidiCommands, Sources, NoteSources, Panic, Trigger, Release

\* What each command does.
LEMMA Effects ==
  /\ \A open, x : Effect(open, Trigger(x)) = open \cup {x}
  /\ \A open, x : Effect(open, Release(x)) = open \ {x}
  /\ \A open : Effect(open, Panic) = {}
  BY DEF Effect, Trigger, Release, Panic

\* MIDI commands alone open notes alone.
LEMMA NotesOnly ==
  ASSUME NEW q \in Seq(MidiCommands), NEW open, NEW x \in After(open, q), x \notin open
  PROVE  x \in NoteSources
<1>1. q \in Seq(Commands)
  BY MidiAreCommands
<1>2. PICK i \in 1 .. Len(q) : q[i].type = "trigger" /\ q[i].source = x
  BY <1>1, AfterComesFrom
<1>3. q[i] \in MidiCommands
  BY ElementOfSeq
<1> QED BY <1>2, <1>3 DEF MidiCommands

\* What the invariant says of the gates.
LEMMA InvHoldsGates ==
  ASSUME GateInv
  PROVE  GatesAreHeld
<1>1. Waiting \in Seq(Commands) /\ Waiting \in Seq(MidiCommands) /\ engineQueue \in Seq(Commands)
  BY WaitingTyped DEF GateInv, QueuesTyped
<1>2. Sounding = After(Played, Waiting)
  BY <1>1, AfterBoth DEF Played, Sounding
<1>3. ASSUME NEW x \in Sounding, x \notin NoteSources PROVE x \in Played
  <2>1. PICK now, w : now = Played /\ w = Waiting
    OBVIOUS
  <2>2. x \in After(now, w) /\ w \in Seq(MidiCommands)
    BY <1>1, <1>2, <1>3, <2>1
  <2> QED BY <1>3, <2>1, <2>2, NotesOnly
<1>4. \A k \in Keys : Key(k) \in Sounding => Key(k) \in hands \cup refused
  BY <1>3, SourcesDiffer DEF GateInv, KeysHeld
<1>5. \A p \in MousePads : Mouse(p) \in Sounding => Mouse(p) \in hands \cup refused
  BY <1>3, SourcesDiffer DEF GateInv, MouseHeld
<1> QED BY <1>4, <1>5 DEF GatesAreHeld

-----------------------------------------------------------------------------
(* What the steps do to the queues.                                        *)

\* enqueue() adds the command's effect, unless the queue is full.
LEMMA Enqueued ==
  ASSUME QueuesTyped, NEW c \in Commands, Enqueue(c), gates' = gates, Waiting' = Waiting,
         midiCommands' = midiCommands, deferred' = deferred
  PROVE  /\ QueuesTyped'
         /\ Played' = IF EngineFull THEN Played ELSE Effect(Played, c)
<1>1. CASE EngineFull
  BY <1>1 DEF Enqueue, QueuesTyped, Played
<1>2. CASE ~EngineFull
  <2>1. engineQueue' = Append(engineQueue, c)
    BY <1>2 DEF Enqueue
  <2>2. /\ engineQueue \in Seq(Commands) /\ Len(engineQueue) \in Nat
        /\ Append(engineQueue, c) \in Seq(Commands)
        /\ Len(Append(engineQueue, c)) = Len(engineQueue) + 1
    BY AppendProperties, LenProperties DEF QueuesTyped
  <2>3. Len(engineQueue) + 1 <= EngineCapacity
    BY <1>2, <2>2, RouterAssumption DEF EngineFull
  <2>4. After(gates, Append(engineQueue, c)) = Effect(After(gates, engineQueue), c)
    BY <2>2, AfterOneMore
  <2>5. Played' = Effect(Played, c)
    BY <2>1, <2>4 DEF Played
  <2> QED BY <1>2, <2>1, <2>2, <2>3, <2>5 DEF QueuesTyped
<1> QED BY <1>1, <1>2

\* A MIDI command is taken behind those that wait, unless the queue is full.
LEMMA MidiTaken ==
  ASSUME QueuesTyped, NEW c \in MidiCommands, MidiQueued(c), UNCHANGED <<deferred, engineQueue, gates>>
  PROVE  /\ QueuesTyped' /\ Played' = Played
         /\ Waiting' = IF Len(midiCommands) < MidiCapacity THEN Append(Waiting, c) ELSE Waiting
<1>1. Played' = Played
  BY DEF Played
<1>2. CASE Len(midiCommands) < MidiCapacity
  <2>1. /\ midiCommands' = Append(midiCommands, c) /\ Append(midiCommands, c) \in Seq(MidiCommands)
        /\ midiCommands \in Seq(MidiCommands) /\ deferred \in Seq(MidiCommands)
        /\ <<c>> \in Seq(MidiCommands)
    BY <1>2, AppendProperties DEF MidiQueued, QueuesTyped
  <2>2. PICK w : w = deferred \o midiCommands
    OBVIOUS
  <2>3. w \in Seq(MidiCommands)
    BY <2>1, <2>2, ConcatProperties
  <2>4. Append(midiCommands, c) = midiCommands \o <<c>> /\ Append(w, c) = w \o <<c>>
    BY <2>1, <2>3, AppendIsConcat
  <2>5. deferred \o (midiCommands \o <<c>>) = (deferred \o midiCommands) \o <<c>>
    BY <2>1, ConcatAssociative
  <2>6. Waiting' = Append(Waiting, c)
    BY <2>1, <2>2, <2>4, <2>5 DEF Waiting
  <2>7. QueuesTyped'
    BY <2>1 DEF QueuesTyped
  <2> QED BY <1>1, <1>2, <2>6, <2>7
<1>3. CASE ~(Len(midiCommands) < MidiCapacity)
  BY <1>1, <1>3 DEF MidiQueued, QueuesTyped, Waiting
<1> QED BY <1>2, <1>3

\* The engine's queue takes the first of the commands that wait.
Moves(taken) ==
  LET first == SubSeq(Waiting, 1, taken)
  IN /\ engineQueue' = engineQueue \o first
     /\ first \in Seq(MidiCommands)
     /\ Waiting' = SubSeq(Waiting, taken + 1, Len(Waiting))
     /\ Waiting = first \o Waiting'
     /\ Played' = After(Played, first)

\* The timer moves the first of them into the engine's queue.
LEMMA Flushed ==
  ASSUME QueuesTyped, FlushMidiCommands, gates' = gates
  PROVE  QueuesTyped' /\ \E taken \in 0 .. Len(Waiting) : Moves(taken)
<1> DEFINE room == EngineCapacity - Len(engineQueue)
           taken == IF room < Len(Waiting) THEN room ELSE Len(Waiting)
           first == SubSeq(Waiting, 1, taken)
           rest == SubSeq(Waiting, taken + 1, Len(Waiting))
<1>1. Waiting \in Seq(MidiCommands) /\ Len(Waiting) \in Nat
  BY WaitingTyped, LenProperties
<1>2. /\ engineQueue \in Seq(Commands) /\ Len(engineQueue) \in Nat
      /\ EngineCapacity \in Nat /\ Len(engineQueue) <= EngineCapacity
  BY RouterAssumption, LenProperties DEF QueuesTyped
<1>3. taken \in 0 .. Len(Waiting) /\ taken <= room
  BY <1>1, <1>2
<1>4. /\ engineQueue' = engineQueue \o first
      /\ deferred' = IF rest = <<>> THEN <<>> ELSE <<rest[1]>>
      /\ midiCommands' = IF rest = <<>> THEN <<>> ELSE Tail(rest)
  BY DEF FlushMidiCommands
<1> HIDE DEF taken
<1>5. taken \in Nat /\ taken \in Int /\ taken + 1 \in Int /\ taken <= Len(Waiting)
  BY <1>1, <1>3
<1>6. \A i \in 1 .. Len(Waiting) : Waiting[i] \in MidiCommands
  BY <1>1, ElementOfSeq
<1>7. first \in Seq(MidiCommands) /\ Len(first) = taken
  <2>1. \A i \in 1 .. taken : Waiting[i] \in MidiCommands
    BY <1>1, <1>5, <1>6
  <2>2. /\ SubSeq(Waiting, 1, taken) \in Seq(MidiCommands)
        /\ Len(SubSeq(Waiting, 1, taken)) = IF 1 <= taken THEN taken - 1 + 1 ELSE 0
    BY <1>5, <2>1, SubSeqProperties
  <2> QED BY <1>5, <2>2
<1>8. rest \in Seq(MidiCommands)
  <2>1. \A i \in taken + 1 .. Len(Waiting) : Waiting[i] \in MidiCommands
    BY <1>1, <1>5, <1>6
  <2> QED BY <1>1, <1>5, <2>1, SubSeqProperties
<1>9. Waiting = first \o rest
  <2>1. /\ 1 \in 1 .. Len(Waiting) + 1 /\ taken \in 1 - 1 .. Len(Waiting)
        /\ Len(Waiting) \in taken .. Len(Waiting)
    BY <1>1, <1>5
  <2>2. PICK w, n : w = Waiting /\ n = taken
    OBVIOUS
  <2>3. SubSeq(w, 1, n) \o SubSeq(w, n + 1, Len(w)) = SubSeq(w, 1, Len(w))
    BY <1>1, <2>1, <2>2, ConcatAdjacentSubSeq
  <2>4. SubSeq(w, 1, Len(w)) = w
    BY <1>1, <2>2, SubSeqFull
  <2> QED BY <2>2, <2>3, <2>4
<1>10. QueuesTyped' /\ Waiting' = rest
  <2>1. PICK r : r = rest
    OBVIOUS
  <2>2. PICK d, m : d = deferred' /\ m = midiCommands'
    OBVIOUS
  <2>3. r \in Seq(MidiCommands)
    BY <1>8, <2>1
  <2>4. d \in Seq(MidiCommands) /\ m \in Seq(MidiCommands) /\ d \o m = r
    <3>1. CASE r = <<>>
      <4>1. d = <<>> /\ m = <<>>
        BY <1>4, <2>1, <2>2, <3>1
      <4> QED BY <3>1, <4>1, EmptySeq, ConcatEmptySeq
    <3>2. CASE r # <<>>
      <4>1. d = <<r[1]>> /\ m = Tail(r)
        BY <1>4, <2>1, <2>2, <3>2
      <4>2. Len(r) \in Nat \ {0}
        BY <2>3, <3>2, EmptySeq
      <4>3. r[1] \in MidiCommands /\ d \in Seq(MidiCommands) /\ m \in Seq(MidiCommands)
        BY <2>3, <3>2, <4>1, <4>2, HeadTailProperties, ElementOfSeq
      <4>4. r = <<r[1]>> \o Tail(r)
        <5>1. SubSeq(r, 1, Len(r)) = r /\ Tail(r) = SubSeq(r, 2, Len(r))
          BY <2>3, <3>2, SubSeqFull, TailIsSubSeq
        <5>2. 1 \in 1 .. Len(r) /\ Len(r) \in 1 .. Len(r)
          BY <4>2
        <5>3. SubSeq(r, 1, Len(r)) = <<r[1]>> \o SubSeq(r, 1 + 1, Len(r))
          BY <2>3, <5>2, SubSeqRecursiveFirst
        <5> QED BY <5>1, <5>3
      <4> QED BY <4>1, <4>3, <4>4
    <3> QED BY <3>1, <3>2
  <2>5. engineQueue \o first \in Seq(Commands) /\ Len(engineQueue \o first) <= EngineCapacity
    <3>1. first \in Seq(Commands)
      BY <1>7, MidiAreCommands
    <3>2. /\ engineQueue \o first \in Seq(Commands)
          /\ Len(engineQueue \o first) = Len(engineQueue) + Len(first)
      BY <1>2, <3>1, ConcatProperties
    <3>3. Len(engineQueue) + taken <= EngineCapacity
      BY <1>2, <1>3, <1>5
    <3> QED BY <1>7, <3>2, <3>3
  <2>6. QueuesTyped'
    BY <1>4, <2>2, <2>4, <2>5 DEF QueuesTyped
  <2>7. Waiting' = rest
    BY <2>1, <2>2, <2>4 DEF Waiting
  <2> QED BY <2>6, <2>7
<1>11. Played' = After(Played, first)
  <2>1. first \in Seq(Commands)
    BY <1>7, MidiAreCommands
  <2>2. After(gates, engineQueue \o first) = After(After(gates, engineQueue), first)
    BY <1>2, <2>1, AfterBoth
  <2> QED BY <1>4, <2>2 DEF Played
<1>12. Moves(taken)
  BY <1>4, <1>7, <1>9, <1>10, <1>11 DEF Moves
<1> QED BY <1>3, <1>10, <1>12

-----------------------------------------------------------------------------
(* Each step keeps the invariant.                                          *)

\* A step that leaves the queues alone leaves alone what they say.
LEMMA QuietQueues ==
  ASSUME QueuesTyped, UNCHANGED <<midiCommands, deferred, engineQueue, gates>>
  PROVE  QueuesTyped' /\ Played' = Played /\ Waiting' = Waiting
  BY DEF QueuesTyped, Played, Waiting

\* A step that lets no key or pad sound besides, and takes no hand or record from one,
\* keeps the invariant.
LEMMA RecordsKept ==
  ASSUME GateInv, QueuesTyped', UNCHANGED <<heldKeys, heldMouse, heldUi>>,
         \A k \in Keys : Key(k) \in Played' => Key(k) \in Played,
         \A p \in MousePads : Mouse(p) \in Played' => Mouse(p) \in Played,
         \A k \in Keys : Key(k) \in hands => Key(k) \in hands',
         \A p \in MousePads : Mouse(p) \in hands => Mouse(p) \in hands',
         refused \subseteq refused'
  PROVE  GateInv'
<1>1. KeysHeld'
  BY DEF GateInv, KeysHeld
<1>2. MouseHeld'
  BY DEF GateInv, MouseHeld
<1> QED BY <1>1, <1>2 DEF GateInv

\* The same where no command is played or queued.
LEMMA QuietStep ==
  ASSUME GateInv, UNCHANGED <<midiCommands, deferred, engineQueue, gates>>,
         UNCHANGED <<heldKeys, heldMouse, heldUi>>, refused \subseteq refused',
         \A k \in Keys : Key(k) \in hands => Key(k) \in hands',
         \A p \in MousePads : Mouse(p) \in hands => Mouse(p) \in hands'
  PROVE  GateInv'
<1>1. QueuesTyped' /\ Played' = Played
  BY QuietQueues DEF GateInv
<1> QED BY <1>1, RecordsKept

\* A key that plays is held from then on.
LEMMA KeyDownKeeps ==
  ASSUME GateInv, NEW k \in Keys, KeyDown(k), hands' = hands \cup {Key(k)},
         UNCHANGED <<midiCommands, deferred, gates, heldMouse>>
  PROVE  GateInv'
<1>1. CASE ~(k \in project.mapping[project.bank] /\ k \notin heldKeys)
  <2>1. UNCHANGED <<heldKeys, engineQueue, heldUi, refused>>
    BY <1>1 DEF KeyDown
  <2> QED BY <2>1, QuietStep
<1>2. CASE k \in project.mapping[project.bank] /\ k \notin heldKeys
  <2>1. /\ heldKeys' = heldKeys \cup {k}
        /\ Enqueue(Trigger(Key(k)))
        /\ heldUi' = IF EngineFull THEN heldUi ELSE heldUi \cup {k}
        /\ refused' = refused
    BY <1>2 DEF KeyDown
  <2>2. Waiting' = Waiting
    BY DEF Waiting
  <2>3. QueuesTyped' /\ Played' = IF EngineFull THEN Played ELSE Effect(Played, Trigger(Key(k)))
    BY <2>1, <2>2, CommandsTyped, Enqueued DEF GateInv
  <2>4. Played' = IF EngineFull THEN Played ELSE Played \cup {Key(k)}
    BY <2>3, Effects
  <2>5. KeysHeld'
    <3>1. ASSUME NEW j \in Keys, Key(j) \in Played'
          PROVE  Key(j) \in refused' \/ (j \in heldUi' /\ j \in heldKeys' /\ Key(j) \in hands')
      <4>1. CASE Key(j) \in Played
        BY <2>1, <4>1 DEF GateInv, KeysHeld
      <4>2. CASE Key(j) \notin Played
        <5>1. ~EngineFull /\ j = k
          BY <2>4, <3>1, <4>2, SourcesDiffer
        <5> QED BY <2>1, <5>1
      <4> QED BY <4>1, <4>2
    <3> QED BY <3>1 DEF KeysHeld
  <2>6. MouseHeld'
    <3>1. \A p \in MousePads : Mouse(p) \in Played' => Mouse(p) \in Played
      BY <2>4, SourcesDiffer
    <3> QED BY <2>1, <3>1 DEF GateInv, MouseHeld
  <2> QED BY <2>3, <2>5, <2>6 DEF GateInv
<1> QED BY <1>1, <1>2

\* A pad the user clicks is held from then on.
LEMMA MouseDownKeeps ==
  ASSUME GateInv, NEW p \in MousePads, MouseDown(p)
  PROVE  GateInv'
<1>1. /\ hands' = hands \cup {Mouse(p)}
      /\ heldMouse' = heldMouse \cup {p}
      /\ Enqueue(Trigger(Mouse(p)))
      /\ UNCHANGED <<heldKeys, midiCommands, deferred, gates, heldUi, refused>>
  BY DEF MouseDown
<1>2. Waiting' = Waiting
  BY <1>1 DEF Waiting
<1>3. QueuesTyped' /\ Played' = IF EngineFull THEN Played ELSE Effect(Played, Trigger(Mouse(p)))
  BY <1>1, <1>2, CommandsTyped, Enqueued DEF GateInv
<1>4. Played' = IF EngineFull THEN Played ELSE Played \cup {Mouse(p)}
  BY <1>3, Effects
<1>5. KeysHeld'
  <2>1. \A k \in Keys : Key(k) \in Played' => Key(k) \in Played
    BY <1>4, SourcesDiffer
  <2> QED BY <1>1, <2>1 DEF GateInv, KeysHeld
<1>6. MouseHeld'
  <2>1. ASSUME NEW q \in MousePads, Mouse(q) \in Played'
        PROVE  Mouse(q) \in refused' \/ (q \in heldMouse' /\ Mouse(q) \in hands')
    <3>1. CASE Mouse(q) \in Played
      BY <1>1, <3>1 DEF GateInv, MouseHeld
    <3>2. CASE Mouse(q) \notin Played
      <4>1. q = p
        BY <1>4, <2>1, <3>2, SourcesDiffer
      <4> QED BY <1>1, <4>1
    <3> QED BY <3>1, <3>2
  <2> QED BY <2>1 DEF MouseHeld
<1> QED BY <1>3, <1>5, <1>6 DEF GateInv

\* A source is released, or refused by a full queue.
LEMMA Released ==
  ASSUME GateInv, NEW source, Release(source) \in Commands,
         ReleaseSource(source), UNCHANGED <<midiCommands, deferred, gates>>
  PROVE  /\ QueuesTyped' /\ Played' \subseteq Played
         /\ \A x : x \in Played' /\ (x = source \/ x \in refused) => x \in refused'
<1>1. /\ Enqueue(Release(source))
      /\ refused' = IF EngineFull THEN refused \cup {source} ELSE refused \ {source}
  BY DEF ReleaseSource
<1>2. Waiting' = Waiting
  BY DEF Waiting
<1>3. QueuesTyped' /\ Played' = IF EngineFull THEN Played ELSE Effect(Played, Release(source))
  BY <1>1, <1>2, Enqueued DEF GateInv
<1>4. Played' = IF EngineFull THEN Played ELSE Played \ {source}
  BY <1>3, Effects
<1>5. \A x : x \in Played' /\ (x = source \/ x \in refused) => x \in refused'
  BY <1>1, <1>4
<1> QED BY <1>3, <1>4, <1>5

\* A key let go of is released if it played.
LEMMA KeyUpKeeps ==
  ASSUME GateInv, NEW k \in Keys, KeyUp(k)
  PROVE  GateInv'
<1>1. hands' = hands \ {Key(k)} /\ UNCHANGED <<heldMouse, midiCommands, deferred, gates>>
  BY DEF KeyUp
<1>2. \A j \in Keys : j # k => (Key(j) \in hands => Key(j) \in hands')
  BY <1>1, SourcesDiffer
<1>3. \A p \in MousePads : Mouse(p) \in hands => Mouse(p) \in hands'
  BY <1>1, SourcesDiffer
<1>4. CASE k \in heldUi /\ k \in heldKeys
  <2>1. /\ heldUi' = heldUi \ {k} /\ heldKeys' = heldKeys \ {k} /\ ReleaseSource(Key(k))
    BY <1>4 DEF KeyUp
  <2>2. Release(Key(k)) \in Commands
    BY CommandsTyped
  <2>3. /\ QueuesTyped' /\ Played' \subseteq Played
        /\ \A x : x \in Played' /\ (x = Key(k) \/ x \in refused) => x \in refused'
    BY <1>1, <2>1, <2>2, Released
  <2>4. KeysHeld'
    BY <1>2, <2>1, <2>3 DEF GateInv, KeysHeld
  <2>5. MouseHeld'
    BY <1>1, <1>3, <2>3 DEF GateInv, MouseHeld
  <2> QED BY <2>3, <2>4, <2>5 DEF GateInv
<1>5. CASE ~(k \in heldUi /\ k \in heldKeys)
  <2>1. /\ UNCHANGED <<engineQueue, refused>>
        /\ \A j \in Keys : j # k => (j \in heldUi => j \in heldUi')
        /\ \A j \in Keys : j # k => (j \in heldKeys => j \in heldKeys')
    BY <1>5 DEF KeyUp
  <2>2. QueuesTyped' /\ Played' = Played /\ Waiting' = Waiting
    BY <1>1, <2>1, QuietQueues DEF GateInv
  <2>3. KeysHeld'
    BY <1>2, <1>5, <2>1, <2>2 DEF GateInv, KeysHeld
  <2>4. MouseHeld'
    BY <1>1, <1>3, <2>1, <2>2 DEF GateInv, MouseHeld
  <2> QED BY <2>2, <2>3, <2>4 DEF GateInv
<1> QED BY <1>4, <1>5

\* A pad let go of is released if it is held.
LEMMA MouseUpKeeps ==
  ASSUME GateInv, NEW p \in MousePads, MouseUp(p)
  PROVE  GateInv'
<1>1. /\ hands' = hands \ {Mouse(p)} /\ heldMouse' = heldMouse \ {p}
      /\ UNCHANGED <<heldKeys, midiCommands, deferred, gates, heldUi>>
  BY DEF MouseUp
<1>2. \A k \in Keys : Key(k) \in hands => Key(k) \in hands'
  BY <1>1, SourcesDiffer
<1>3. \A q \in MousePads : q # p => (Mouse(q) \in hands => Mouse(q) \in hands')
  BY <1>1, SourcesDiffer
<1>4. CASE p \in heldMouse
  <2>1. ReleaseSource(Mouse(p))
    BY <1>4 DEF MouseUp
  <2>2. Release(Mouse(p)) \in Commands
    BY CommandsTyped
  <2>3. /\ QueuesTyped' /\ Played' \subseteq Played
        /\ \A x : x \in Played' /\ (x = Mouse(p) \/ x \in refused) => x \in refused'
    BY <1>1, <2>1, <2>2, Released
  <2>4. KeysHeld'
    BY <1>1, <1>2, <2>3 DEF GateInv, KeysHeld
  <2>5. MouseHeld'
    BY <1>1, <1>3, <2>3 DEF GateInv, MouseHeld
  <2> QED BY <2>3, <2>4, <2>5 DEF GateInv
<1>5. CASE p \notin heldMouse
  <2>1. UNCHANGED <<engineQueue, refused>>
    BY <1>5 DEF MouseUp
  <2>2. QueuesTyped' /\ Played' = Played /\ Waiting' = Waiting
    BY <1>1, <2>1, QuietQueues DEF GateInv
  <2>3. KeysHeld'
    BY <1>1, <1>2, <2>1, <2>2 DEF GateInv, KeysHeld
  <2>4. MouseHeld'
    BY <1>1, <1>3, <1>5, <2>1, <2>2 DEF GateInv, MouseHeld
  <2> QED BY <2>2, <2>3, <2>4 DEF GateInv
<1> QED BY <1>4, <1>5

\* A note message only adds to the commands that wait.
LEMMA NoteKeeps ==
  ASSUME GateInv, NEW c \in MidiCommands, MidiQueued(c) \/ UNCHANGED midiCommands,
         UNCHANGED <<heldKeys, heldMouse, deferred, engineQueue, gates, heldUi, refused>>,
         \A k \in Keys : Key(k) \in hands => Key(k) \in hands',
         \A p \in MousePads : Mouse(p) \in hands => Mouse(p) \in hands'
  PROVE  GateInv'
<1>1. CASE UNCHANGED midiCommands
  BY <1>1, QuietStep
<1>2. CASE MidiQueued(c)
  <2>1. QueuesTyped' /\ Played' = Played
    BY <1>2, MidiTaken DEF GateInv
  <2> QED BY <2>1, RecordsKept
<1> QED BY <1>1, <1>2

\* The audition of a layer opens a source that is neither a key nor a pad.
LEMMA AuditionKeeps ==
  ASSUME GateInv, Enqueue(Trigger(LayerAudition)),
         UNCHANGED <<heldKeys, heldMouse, midiCommands, deferred, gates, heldUi, hands, refused>>
  PROVE  GateInv'
<1>1. Waiting' = Waiting
  BY DEF Waiting
<1>2. /\ QueuesTyped'
      /\ Played' = IF EngineFull THEN Played ELSE Effect(Played, Trigger(LayerAudition))
  BY <1>1, CommandsTyped, Enqueued DEF GateInv
<1>3. Played' \subseteq Played \cup {LayerAudition}
  BY <1>2, Effects
<1> QED BY <1>2, <1>3, SourcesDiffer, RecordsKept

\* The timer only moves commands from the router's queues to the engine's.
LEMMA FlushKeeps ==
  ASSUME GateInv, FlushMidiCommands,
         UNCHANGED <<heldKeys, heldMouse, gates, heldUi, hands, refused>>
  PROVE  GateInv'
<1>1. PICK taken \in 0 .. Len(Waiting) : QueuesTyped' /\ Moves(taken)
  BY Flushed DEF GateInv
<1>2. PICK first, now, later :
        first = SubSeq(Waiting, 1, taken) /\ now = Played /\ later = Played'
  OBVIOUS
<1>3. first \in Seq(MidiCommands) /\ later = After(now, first)
  BY <1>1, <1>2 DEF Moves
<1>4. \A x \in later : x \in now \/ x \in NoteSources
  BY <1>3, NotesOnly
<1> QED BY <1>1, <1>2, <1>4, SourcesDiffer, RecordsKept

\* The engine plays what is queued.
LEMMA BlockKeeps ==
  ASSUME GateInv, AudioBlock
  PROVE  GateInv'
<1>1. /\ gates' = Played /\ engineQueue' = <<>>
      /\ UNCHANGED <<heldKeys, heldMouse, midiCommands, deferred, heldUi, hands, refused>>
  BY DEF AudioBlock
<1>2. Played' = Played
  BY <1>1, AfterNothing DEF Played
<1>3. QueuesTyped'
  <2>1. <<>> \in Seq(Commands) /\ Len(<<>>) = 0 /\ 0 <= EngineCapacity
    BY EmptySeq, RouterAssumption
  <2> QED BY <1>1, <2>1 DEF GateInv, QueuesTyped
<1> QED BY <1>1, <1>2, <1>3, RecordsKept

\* A device that stops silences what sounds, one that starts the queue as well.
LEMMA StopKeeps ==
  ASSUME GateInv, DeviceStops
  PROVE  GateInv'
<1>1. /\ gates' = {} /\ engineQueue' = engineQueue
      /\ UNCHANGED <<heldKeys, heldMouse, midiCommands, deferred, heldUi, hands, refused>>
  BY DEF DeviceStops
<1>2. engineQueue \in Seq(Commands) /\ {} \subseteq gates \cup {}
  BY DEF GateInv, QueuesTyped
<1>3. After({}, engineQueue) \subseteq After(gates, engineQueue) \cup {}
  BY <1>2, AfterMonotone
<1>4. Played' \subseteq Played
  BY <1>1, <1>3 DEF Played
<1>5. QueuesTyped'
  BY <1>1 DEF GateInv, QueuesTyped
<1> QED BY <1>1, <1>4, <1>5, RecordsKept

LEMMA StartKeeps ==
  ASSUME GateInv, DeviceStarts
  PROVE  GateInv'
<1>1. gates' = {} /\ engineQueue' = <<>> /\ UNCHANGED <<midiCommands, deferred>>
  BY DEF DeviceStarts
<1>2. Played' = {}
  BY <1>1, AfterNothing DEF Played
<1>3. QueuesTyped'
  <2>1. <<>> \in Seq(Commands) /\ Len(<<>>) = 0 /\ 0 <= EngineCapacity
    BY EmptySeq, RouterAssumption
  <2> QED BY <1>1, <2>1 DEF GateInv, QueuesTyped
<1> QED BY <1>2, <1>3 DEF GateInv, KeysHeld, MouseHeld

\* A panic silences everything, or is refused with everything it should silence.
LEMMA PanicKeeps ==
  ASSUME GateInv, PanicCommand, UNCHANGED <<midiCommands, deferred, gates, heldUi, hands>>
  PROVE  GateInv'
<1>1. /\ Enqueue(Panic)
      /\ refused' = IF EngineFull THEN refused \cup Played ELSE {}
  BY DEF PanicCommand
<1>2. Waiting' = Waiting
  BY DEF Waiting
<1>3. QueuesTyped' /\ Played' = IF EngineFull THEN Played ELSE Effect(Played, Panic)
  BY <1>1, <1>2, CommandsTyped, Enqueued DEF GateInv
<1>4. Played' = IF EngineFull THEN Played ELSE {}
  BY <1>3, Effects
<1>5. KeysHeld' /\ MouseHeld'
  BY <1>1, <1>4 DEF KeysHeld, MouseHeld
<1> QED BY <1>3, <1>5 DEF GateInv

\* Nothing sounds at first.
LEMMA InitHolds ==
  ASSUME Init
  PROVE  GateInv
<1>1. midiCommands = <<>> /\ deferred = <<>> /\ engineQueue = <<>> /\ gates = {}
  BY DEF Init, RouterInit
<1>2. QueuesTyped
  <2>1. /\ <<>> \in Seq(Commands) /\ <<>> \in Seq(MidiCommands) /\ Len(<<>>) = 0
        /\ 0 <= EngineCapacity
    BY EmptySeq, RouterAssumption
  <2> QED BY <1>1, <2>1 DEF QueuesTyped
<1>3. Played = {}
  BY <1>1, AfterNothing DEF Played
<1> QED BY <1>2, <1>3 DEF GateInv, KeysHeld, MouseHeld

\* Every step keeps the invariant.
LEMMA NextKeeps ==
  ASSUME GateInv, [Next]_vars
  PROVE  GateInv'
<1>1. ASSUME NEW k \in Keys, KeyPressed(k) PROVE GateInv'
  <2>1. /\ hands' = hands \cup {Key(k)}
        /\ UNCHANGED <<midiCommands, deferred, gates, heldMouse>>
        /\ KeyDown(k) \/ UNCHANGED <<heldKeys, engineQueue, heldUi, refused>>
    BY <1>1 DEF KeyPressed
  <2>2. CASE KeyDown(k)
    BY <2>1, <2>2, KeyDownKeeps
  <2>3. CASE UNCHANGED <<heldKeys, engineQueue, heldUi, refused>>
    BY <2>1, <2>3, QuietStep
  <2> QED BY <2>1, <2>2, <2>3
<1>2. ASSUME NEW k \in Keys, KeyReleased(k) PROVE GateInv'
  BY <1>2, KeyUpKeeps DEF KeyReleased
<1>3. ASSUME NEW p \in MousePads, PadMouseDown(p) PROVE GateInv'
  BY <1>3, MouseDownKeeps DEF PadMouseDown
<1>4. ASSUME NEW p \in MousePads, PadMouseUp(p) PROVE GateInv'
  BY <1>4, MouseUpKeeps DEF PadMouseUp
<1>5. ASSUME NEW n \in Notes, MidiNoteOn(n) \/ MidiNoteOff(n) PROVE GateInv'
  <2>1. /\ UNCHANGED <<heldKeys, heldMouse, deferred, engineQueue, gates, heldUi, refused>>
        /\ \/ UNCHANGED midiCommands
           \/ MidiQueued(Trigger(Midi(n)))
           \/ MidiQueued(Release(Midi(n)))
        /\ hands' = hands \cup {Midi(n)} \/ hands' = hands \ {Midi(n)}
    BY <1>5 DEF MidiNoteOn, MidiNoteOff, NoteOn, NoteOff
  <2>2. /\ \A k \in Keys : Key(k) \in hands => Key(k) \in hands'
        /\ \A p \in MousePads : Mouse(p) \in hands => Mouse(p) \in hands'
    BY <2>1, SourcesDiffer
  <2>3. Trigger(Midi(n)) \in MidiCommands /\ Release(Midi(n)) \in MidiCommands
    BY CommandsTyped
  <2> QED BY <2>1, <2>2, <2>3, NoteKeeps
<1>6. CASE TimerCallback
  BY <1>6, FlushKeeps DEF TimerCallback
<1>7. CASE ProcessBlock
  BY <1>7, BlockKeeps DEF ProcessBlock
<1>8. ASSUME UNCHANGED unplayed PROVE GateInv'
  BY <1>8, QuietStep DEF unplayed
<1>9. CASE Worker \/ OpenWorkspace \/ CloseWorkspace \/ WorkspaceStep
  BY <1>8, <1>9 DEF Worker, OpenWorkspace, CloseWorkspace, WorkspaceStep, routerVars, unplayed
<1>10. CASE CommitAssignment \/ EditProject \/ \E bank \in Banks : SelectBank(bank)
  BY <1>8, <1>10 DEF CommitAssignment, EditProject, SelectBank, unplayed
<1>11. CASE ApplyMidiSettings \/ MidiUnplugged
  <2>1. /\ hands' = hands \/ hands' = hands \ NoteSources
        /\ UNCHANGED <<heldKeys, heldMouse, midiCommands, deferred, engineQueue, gates, heldUi,
                       refused>>
    BY <1>11 DEF ApplyMidiSettings, MidiUnplugged
  <2>2. /\ \A k \in Keys : Key(k) \in hands => Key(k) \in hands'
        /\ \A p \in MousePads : Mouse(p) \in hands => Mouse(p) \in hands'
    BY <2>1, SourcesDiffer
  <2> QED BY <2>1, <2>2, QuietStep
<1>12. CASE AllNotesOff \/ StartOver
  BY <1>12, PanicKeeps DEF AllNotesOff, StartOver
<1>13. CASE AuditionSelectedLayer
  <2>1. /\ UNCHANGED <<heldKeys, heldMouse, midiCommands, deferred, gates, heldUi, hands, refused>>
        /\ Enqueue(Trigger(LayerAudition)) \/ UNCHANGED engineQueue
    BY <1>13 DEF AuditionSelectedLayer
  <2> QED BY <2>1, AuditionKeeps, QuietStep
<1>14. CASE Devices
  BY <1>11, <1>14, StopKeeps, StartKeeps DEF Devices
<1>15. CASE UNCHANGED vars
  BY <1>8, <1>15 DEF vars, unplayed
<1> QED BY <1>1, <1>2, <1>3, <1>4, <1>5, <1>6, <1>7, <1>9, <1>10, <1>11, <1>12, <1>13, <1>14,
           <1>15 DEF Next

\* The invariant holds of every behaviour.
LEMMA GateInvAlways == Spec => []GateInv
<1>1. Init => GateInv
  BY InitHolds
<1>2. GateInv /\ [Next]_vars => GateInv'
  BY NextKeeps
<1> QED BY <1>1, <1>2, PTL DEF Spec

\* Once every queued command is played, a key or a pad still sounds only while a hand
\* is on it, or if a full queue refused its release, or a panic and every later one.
THEOREM NoGateStaysOpen == Spec => []GatesAreHeld
<1>1. GateInv => GatesAreHeld
  BY InvHoldsGates
<1> QED BY <1>1, GateInvAlways, PTL

-----------------------------------------------------------------------------
(* MIDI commands in order.                                                 *)

\* What a step may do to the commands that wait: hand the first of them to the
\* engine, and take more behind the rest.
InOrder ==
  \E taken \in 0 .. Len(Waiting) :
    LET rest == SubSeq(Waiting, taken + 1, Len(Waiting))
    IN /\ taken > 0 => engineQueue' = engineQueue \o SubSeq(Waiting, 1, taken)
       /\ Len(rest) <= Len(Waiting')
       /\ SubSeq(Waiting', 1, Len(rest)) = rest

\* A step that hands none over keeps the queue a beginning of the next.
LEMMA BeginningIsInOrder ==
  ASSUME QueuesTyped, Len(Waiting) <= Len(Waiting'), SubSeq(Waiting', 1, Len(Waiting)) = Waiting
  PROVE  InOrder
<1>1. Waiting \in Seq(Commands) /\ Len(Waiting) \in Nat
  BY WaitingTyped, LenProperties
<1>2. SubSeq(Waiting, 0 + 1, Len(Waiting)) = Waiting
  BY <1>1, SubSeqFull
<1>3. 0 \in 0 .. Len(Waiting) /\ ~(0 > 0)
  BY <1>1
<1> QED BY <1>2, <1>3 DEF InOrder

\* Steps that leave the waiting commands alone are in order.
LEMMA SameIsInOrder ==
  ASSUME QueuesTyped, UNCHANGED <<midiCommands, deferred>>
  PROVE  InOrder
<1>1. Waiting' = Waiting
  BY DEF Waiting
<1>2. Waiting \in Seq(Commands) /\ Len(Waiting) \in Nat
  BY WaitingTyped, LenProperties
<1>3. Len(Waiting) <= Len(Waiting') /\ SubSeq(Waiting', 1, Len(Waiting)) = Waiting
  BY <1>1, <1>2, SubSeqFull
<1> QED BY <1>3, BeginningIsInOrder

\* A MIDI message goes behind the commands that wait.
LEMMA QueuedIsInOrder ==
  ASSUME QueuesTyped, NEW c \in MidiCommands, MidiQueued(c),
         UNCHANGED <<deferred, engineQueue, gates>>
  PROVE  InOrder
<1>1. Waiting' = IF Len(midiCommands) < MidiCapacity THEN Append(Waiting, c) ELSE Waiting
  BY MidiTaken
<1>2. PICK w : w = Waiting
  OBVIOUS
<1>3. w \in Seq(Commands) /\ Len(w) \in Nat /\ c \in Commands
  BY <1>2, WaitingTyped, LenProperties, MidiAreCommands
<1>4. Len(w) <= Len(w) /\ SubSeq(w, 1, Len(w)) = w
  BY <1>3, SubSeqFull
<1>5. Len(w) <= Len(Append(w, c)) /\ SubSeq(Append(w, c), 1, Len(w)) = w
  <2>1. PICK more : more = Append(w, c)
    OBVIOUS
  <2>2. /\ more \in Seq(Commands) /\ Len(more) = Len(w) + 1
        /\ \A i \in 1 .. Len(w) : more[i] = w[i]
    BY <1>3, <2>1, AppendProperties
  <2>3. \A i \in 1 .. Len(w) : more[i] \in Commands
    BY <1>3, <2>2, ElementOfSeq
  <2>4. PICK front : front = SubSeq(more, 1, Len(w))
    OBVIOUS
  <2>5. /\ front \in Seq(Commands)
        /\ Len(front) = IF 1 <= Len(w) THEN Len(w) - 1 + 1 ELSE 0
        /\ \A i \in 1 .. Len(w) - 1 + 1 : front[i] = more[1 + i - 1]
    <3>1. 1 \in Int /\ Len(w) \in Int
      BY <1>3
    <3> QED BY <2>3, <2>4, <3>1, SubSeqProperties
  <2>6. Len(front) = Len(w) /\ \A i \in 1 .. Len(front) : front[i] = w[i]
    BY <1>3, <2>2, <2>5
  <2>7. front = w
    BY <1>3, <2>5, <2>6, SeqEqual
  <2> QED BY <1>3, <2>1, <2>2, <2>4, <2>7
<1>6. Len(Waiting) <= Len(Waiting') /\ SubSeq(Waiting', 1, Len(Waiting)) = Waiting
  BY <1>1, <1>2, <1>4, <1>5
<1> QED BY <1>6, BeginningIsInOrder

\* The timer hands over the first of them and keeps the rest.
LEMMA FlushIsInOrder ==
  ASSUME QueuesTyped, FlushMidiCommands, UNCHANGED gates
  PROVE  InOrder
<1>1. PICK taken \in 0 .. Len(Waiting) : Moves(taken)
  BY Flushed
<1>2. PICK rest : rest = SubSeq(Waiting, taken + 1, Len(Waiting))
  OBVIOUS
<1>3. engineQueue' = engineQueue \o SubSeq(Waiting, 1, taken) /\ Waiting' = rest
  BY <1>1, <1>2 DEF Moves
<1>4. rest \in Seq(Commands) /\ Len(rest) \in Nat
  <2>1. Waiting \in Seq(Commands) /\ Len(Waiting) \in Nat
    BY WaitingTyped, LenProperties
  <2>2. taken + 1 \in Int /\ Len(Waiting) \in Int /\ taken + 1 >= 1
    BY <2>1
  <2>3. \A i \in taken + 1 .. Len(Waiting) : Waiting[i] \in Commands
    BY <2>1, <2>2, ElementOfSeq
  <2>4. rest \in Seq(Commands)
    BY <1>2, <2>2, <2>3, SubSeqProperties
  <2> QED BY <2>4, LenProperties
<1>5. Len(rest) <= Len(Waiting') /\ SubSeq(Waiting', 1, Len(rest)) = rest
  BY <1>3, <1>4, SubSeqFull
<1> QED BY <1>2, <1>3, <1>5 DEF InOrder

\* Every step is in order.
LEMMA NextIsInOrder ==
  ASSUME QueuesTyped, [Next]_vars
  PROVE  InOrder
<1>1. ASSUME UNCHANGED <<midiCommands, deferred>> PROVE InOrder
  BY <1>1, SameIsInOrder
<1>2. ASSUME NEW k \in Keys, KeyPressed(k) \/ KeyReleased(k) PROVE InOrder
  BY <1>1, <1>2 DEF KeyPressed, KeyReleased, KeyUp
<1>3. ASSUME NEW p \in MousePads, PadMouseDown(p) \/ PadMouseUp(p) PROVE InOrder
  BY <1>1, <1>3 DEF PadMouseDown, MouseDown, PadMouseUp, MouseUp
<1>4. ASSUME NEW n \in Notes, MidiNoteOn(n) \/ MidiNoteOff(n) PROVE InOrder
  <2>1. /\ UNCHANGED <<deferred, engineQueue, gates>>
        /\ UNCHANGED midiCommands \/ MidiQueued(Trigger(Midi(n))) \/ MidiQueued(Release(Midi(n)))
    BY <1>4 DEF MidiNoteOn, MidiNoteOff, NoteOn, NoteOff
  <2>2. Trigger(Midi(n)) \in MidiCommands /\ Release(Midi(n)) \in MidiCommands
    BY CommandsTyped
  <2> QED BY <1>1, <2>1, <2>2, QueuedIsInOrder
<1>5. CASE TimerCallback
  BY <1>5, FlushIsInOrder DEF TimerCallback
<1>6. CASE ProcessBlock
  BY <1>1, <1>6 DEF ProcessBlock, AudioBlock
<1>7. CASE Worker \/ OpenWorkspace \/ CloseWorkspace \/ WorkspaceStep
  BY <1>1, <1>7 DEF Worker, OpenWorkspace, CloseWorkspace, WorkspaceStep, routerVars
<1>8. CASE CommitAssignment \/ EditProject \/ \E bank \in Banks : SelectBank(bank)
  BY <1>1, <1>8 DEF CommitAssignment, EditProject, SelectBank, unplayed
<1>9. CASE ApplyMidiSettings \/ AllNotesOff \/ StartOver
  BY <1>1, <1>9 DEF ApplyMidiSettings, AllNotesOff, StartOver
<1>10. CASE AuditionSelectedLayer \/ Devices
  BY <1>1, <1>10 DEF AuditionSelectedLayer, Devices, DeviceStops, DeviceStarts, MidiUnplugged
<1>11. CASE UNCHANGED vars
  BY <1>1, <1>11 DEF vars
<1> QED BY <1>2, <1>3, <1>4, <1>5, <1>6, <1>7, <1>8, <1>9, <1>10, <1>11 DEF Next

\* MIDI commands reach the engine once and in the order the device sent them.
THEOREM MidiKeepsItsOrder == Spec => MidiInOrder
<1>1. GateInv => QueuesTyped
  BY DEF GateInv
<1>2. QueuesTyped /\ [Next]_vars => [InOrder]_vars
  BY NextIsInOrder
<1>3. Spec => [][InOrder]_vars
  BY <1>1, <1>2, GateInvAlways, PTL DEF Spec
<1> QED BY <1>3 DEF MidiInOrder, InOrder

-----------------------------------------------------------------------------
(***************************************************************************)
(* Slices.  What the functions that cut a trim return, what the operations  *)
(* of a session keep, and the invariant.                                   *)
(***************************************************************************)

\* Slice sets, targets, the valid cuts of a target's trim and the sessions open on one.
SliceSets ==
  [uuid : Nat, asset : {Asset}, layer : {"layer"}, trimStart : Int, trimEnd : Int,
   algorithm : Algorithms, discard : BOOLEAN, regions : Seq([start : Int, end : Int])]

Targets ==
  [id : Nat, life : Nat, revision : Nat, layer : {"layer"}, asset : {Asset},
   trimStart : Nat, trimEnd : Nat]

IsCut(set, target) ==
  /\ SliceSetValid(set)
  /\ set.trimStart = target.trimStart /\ set.trimEnd = target.trimEnd
  /\ set.regions[1].start = target.trimStart

Cuts(target) == {set \in SliceSets : IsCut(set, target)}

Activities == {"ready", "analysing", "previewing"}

OpenSessions(target) ==
  {s \in [state : Activities, target : {target}, set : Cuts(target), undo : Seq(Cuts(target)),
          redo : Seq(Cuts(target)), selected : Int] : s.selected \in 1 .. Len(s.set.regions)}

\* Bounds that rise from each to the next rise throughout.
LEMMA RisingBounds ==
  ASSUME NEW n \in Nat, NEW bounds, \A i \in 1 .. n : bounds[i] \in Int,
         \A i \in 1 .. n - 1 : bounds[i] < bounds[i + 1],
         NEW i \in 1 .. n, NEW j \in 1 .. n, i <= j
  PROVE  bounds[i] <= bounds[j]
<1> DEFINE Bad == {m \in Nat : i <= m /\ m <= n /\ ~(bounds[i] <= bounds[m])}
<1> SUFFICES ASSUME ~(bounds[i] <= bounds[j]) PROVE FALSE
  OBVIOUS
<1>1. j \in Bad /\ Bad \in SUBSET Nat
  OBVIOUS
<1> HIDE DEF Bad
<1>2. PICK m \in Bad : \A k \in Bad : m <= k
  BY <1>1, LeastNumber
<1>3. m \in Nat /\ i <= m /\ m <= n /\ ~(bounds[i] <= bounds[m])
  BY <1>2 DEF Bad
<1>4. m # i /\ i \in Int /\ bounds[i] \in Int
  BY <1>3
<1>5. m - 1 \in Nat /\ i <= m - 1 /\ m - 1 <= n /\ m - 1 \in 1 .. n - 1 /\ m \in 1 .. n
  BY <1>3, <1>4
<1>6. bounds[i] <= bounds[m - 1]
  <2>1. m - 1 \notin Bad
    BY <1>2, <1>3, <1>5
  <2> QED BY <1>5, <2>1 DEF Bad
<1>7. bounds[m - 1] < bounds[m]
  <2>1. m - 1 + 1 = m
    BY <1>3
  <2> QED BY <1>5, <2>1
<1>8. bounds[m - 1] \in Int /\ bounds[m] \in Int
  BY <1>5
<1> QED BY <1>3, <1>4, <1>6, <1>7, <1>8

\* A slice set of a target, by its bounds.
CutAt(uuid, target, algorithm, discard, bounds) ==
  [uuid |-> uuid, asset |-> target.asset, layer |-> target.layer, trimStart |-> target.trimStart,
   trimEnd |-> target.trimEnd, algorithm |-> algorithm, discard |-> discard,
   regions |-> RegionsBetween(bounds)]

\* Bounds lead to as many regions less one, each from one bound to the next.
LEMMA RegionsTyped ==
  ASSUME NEW bounds \in Seq(Int), Len(bounds) >= 1
  PROVE  /\ RegionsBetween(bounds) \in Seq([start : Int, end : Int])
         /\ Len(RegionsBetween(bounds)) = Len(bounds) - 1
         /\ \A i \in 1 .. Len(bounds) - 1 :
              /\ RegionsBetween(bounds)[i] = [start |-> bounds[i], end |-> bounds[i + 1]]
              /\ bounds[i] \in Int /\ bounds[i + 1] \in Int
<1>1. PICK n : n = Len(bounds) - 1
  OBVIOUS
<1>2. n \in Nat /\ Len(bounds) = n + 1
  BY <1>1, LenProperties
<1>3. \A i \in 1 .. n : bounds[i] \in Int /\ bounds[i + 1] \in Int
  <2>1. \A i \in 1 .. n : i \in 1 .. Len(bounds) /\ i + 1 \in 1 .. Len(bounds)
    BY <1>2
  <2> QED BY <2>1, ElementOfSeq
<1>4. RegionsBetween(bounds) = [i \in 1 .. n |-> [start |-> bounds[i], end |-> bounds[i + 1]]]
  BY <1>1 DEF RegionsBetween, Region
<1>5. RegionsBetween(bounds) \in Seq([start : Int, end : Int]) /\ Len(RegionsBetween(bounds)) = n
  BY <1>2, <1>3, <1>4
<1> QED BY <1>1, <1>3, <1>4, <1>5

\* Rising bounds from the start of the trim to its end, or to before its end where the
\* remainder is discarded, cut the trim.
LEMMA BoundsCut ==
  ASSUME NEW uuid \in Nat, NEW target \in Targets, target.trimStart < target.trimEnd,
         NEW algorithm \in Algorithms, NEW discard \in BOOLEAN, NEW bounds \in Seq(Int),
         Len(bounds) >= 2, bounds[1] = target.trimStart, bounds[Len(bounds)] <= target.trimEnd,
         \A i \in 1 .. Len(bounds) - 1 : bounds[i] < bounds[i + 1],
         bounds[Len(bounds)] = target.trimEnd \/ (algorithm = "fixedLength" /\ discard)
  PROVE  CutAt(uuid, target, algorithm, discard, bounds) \in Cuts(target)
<1>1. PICK regions, n : regions = RegionsBetween(bounds) /\ n = Len(bounds) - 1
  OBVIOUS
<1>2. /\ n \in Nat \ {0} /\ Len(bounds) = n + 1
      /\ regions \in Seq([start : Int, end : Int]) /\ Len(regions) = n
      /\ \A i \in 1 .. n : /\ regions[i].start = bounds[i] /\ regions[i].end = bounds[i + 1]
                           /\ bounds[i] \in Int /\ bounds[i + 1] \in Int
  <2>1. n \in Nat \ {0} /\ Len(bounds) = n + 1
    BY <1>1, LenProperties
  <2>2. /\ RegionsBetween(bounds) \in Seq([start : Int, end : Int])
        /\ Len(RegionsBetween(bounds)) = Len(bounds) - 1
        /\ \A i \in 1 .. Len(bounds) - 1 :
             /\ RegionsBetween(bounds)[i] = [start |-> bounds[i], end |-> bounds[i + 1]]
             /\ bounds[i] \in Int /\ bounds[i + 1] \in Int
    BY RegionsTyped
  <2>3. \A i \in 1 .. n : /\ regions[i] = [start |-> bounds[i], end |-> bounds[i + 1]]
                         /\ bounds[i] \in Int /\ bounds[i + 1] \in Int
    BY <1>1, <2>2
  <2>4. \A i \in 1 .. n : regions[i].start = bounds[i] /\ regions[i].end = bounds[i + 1]
    <3> TAKE i \in 1 .. n
    <3>1. PICK x, y : x = bounds[i] /\ y = bounds[i + 1]
      OBVIOUS
    <3>2. regions[i] = [start |-> x, end |-> y]
      BY <2>3, <3>1
    <3> QED BY <3>1, <3>2
  <2>5. Len(regions) = n /\ regions \in Seq([start : Int, end : Int])
    BY <1>1, <2>2
  <2> QED BY <2>1, <2>3, <2>4, <2>5
<1>3. target.trimStart \in Nat /\ target.trimEnd \in Nat /\ target.asset = Asset /\ target.layer = "layer"
  BY DEF Targets
<1>4. \A i \in 1 .. n : target.trimStart <= bounds[i] /\ bounds[i + 1] <= target.trimEnd
  <2> SUFFICES ASSUME NEW i \in 1 .. n
               PROVE  target.trimStart <= bounds[i] /\ bounds[i + 1] <= target.trimEnd
    OBVIOUS
  <2>1. PICK m, j : m = n + 1 /\ j = i + 1
    OBVIOUS
  <2>2. /\ m \in Nat /\ 1 \in 1 .. m /\ i \in 1 .. m /\ j \in 1 .. m /\ m \in 1 .. m
        /\ 1 <= i /\ j <= m /\ m = Len(bounds)
    BY <1>2, <2>1
  <2>3. \A k \in 1 .. m : bounds[k] \in Int
    BY <2>2, ElementOfSeq
  <2>4. \A k \in 1 .. m - 1 : bounds[k] < bounds[k + 1]
    BY <2>2
  <2>5. bounds[1] <= bounds[i]
    BY <2>2, <2>3, <2>4, RisingBounds
  <2>6. bounds[j] <= bounds[m]
    BY <2>2, <2>3, <2>4, RisingBounds
  <2>7. bounds[j] \in Int /\ bounds[m] \in Int /\ bounds[m] <= target.trimEnd
    BY <2>2, <2>3
  <2> QED BY <1>3, <2>1, <2>5, <2>6, <2>7
<1>5. PICK set : set = CutAt(uuid, target, algorithm, discard, bounds)
  OBVIOUS
<1>6. /\ set \in SliceSets /\ set.regions = regions /\ set.discard = discard
      /\ set.algorithm = algorithm
      /\ set.trimStart = target.trimStart /\ set.trimEnd = target.trimEnd
  BY <1>1, <1>2, <1>3, <1>5 DEF CutAt, SliceSets
<1>7. ASSUME NEW i \in 1 .. n
      PROVE  /\ RegionValid(regions[i], set.trimStart, set.trimEnd)
             /\ regions[i].start = PreviousEnd(set, i)
             /\ PreviousEnd(set, i) <= regions[i].start
  <2>1. RegionValid(regions[i], set.trimStart, set.trimEnd)
    <3>1. bounds[i] < bounds[i + 1]
      <4>1. i \in 1 .. Len(bounds) - 1
        BY <1>2
      <4> QED BY <4>1
    <3> QED BY <1>2, <1>3, <1>4, <1>6, <3>1 DEF RegionValid
  <2>2. regions[i].start = PreviousEnd(set, i)
    <3>1. CASE i = 1
      BY <1>2, <1>6, <3>1 DEF PreviousEnd
    <3>2. CASE i # 1
      <4>1. i - 1 \in 1 .. n /\ i - 1 + 1 = i
        BY <1>2, <3>2
      <4>2. regions[i - 1].end = bounds[i]
        BY <1>2, <4>1
      <4> QED BY <1>2, <1>6, <3>2, <4>2 DEF PreviousEnd
    <3> QED BY <3>1, <3>2
  <2>3. regions[i].start \in Int
    BY <1>2
  <2> QED BY <2>1, <2>2, <2>3
<1>8. MustBeContiguous(set) => regions[n].end = set.trimEnd
  <2>1. n \in Nat \ {0} /\ Len(bounds) = n + 1
    BY <1>2
  <2>2. n \in 1 .. n
    BY <2>1
  <2>3. regions[n].end = bounds[n + 1]
    BY <1>2, <2>2
  <2>4. MustBeContiguous(set) => bounds[Len(bounds)] = target.trimEnd
    BY <1>6 DEF MustBeContiguous
  <2> QED BY <1>6, <2>1, <2>3, <2>4
<1>9. SliceSetValid(set)
  <2>1. Len(set.regions) = n /\ n > 0
    BY <1>2, <1>6
  <2>2. 0 <= set.trimStart /\ set.trimStart < set.trimEnd
    BY <1>3, <1>6
  <2> QED BY <1>6, <1>7, <1>8, <2>1, <2>2 DEF SliceSetValid
<1>10. set.regions[1].start = target.trimStart
  BY <1>2, <1>6
<1> QED BY <1>5, <1>6, <1>9, <1>10 DEF Cuts, IsCut

\* makeSliceSetFromBoundaries() leads to such a set, and so does the fixed mode.
LEMMA SetsAreCuts ==
  ASSUME NEW uuid, NEW target, NEW algorithm, NEW bounds
  PROVE  SetFromBoundaries(uuid, target, algorithm, bounds) = CutAt(uuid, target, algorithm, FALSE, bounds)
<1>1. PICK set : set = SetFromBoundaries(uuid, target, algorithm, bounds)
  OBVIOUS
<1>2. set = CutAt(uuid, target, algorithm, FALSE, bounds)
  BY <1>1 DEF SetFromBoundaries, BaseSet, CutAt
<1> QED BY <1>1, <1>2

\* A cut at bounds the session accepts.
LEMMA ManualCut ==
  ASSUME NEW uuid \in Nat, NEW target \in Targets, target.trimStart < target.trimEnd,
         NEW algorithm \in Algorithms, NEW bounds \in Seq(Int),
         BoundariesValid(bounds, target.trimStart, target.trimEnd)
  PROVE  SetFromBoundaries(uuid, target, algorithm, bounds) \in Cuts(target)
<1>1. /\ Len(bounds) >= 2 /\ bounds[1] = target.trimStart /\ bounds[Len(bounds)] = target.trimEnd
      /\ \A i \in 1 .. Len(bounds) - 1 : bounds[i] < bounds[i + 1]
  BY DEF BoundariesValid
<1>2. bounds[Len(bounds)] <= target.trimEnd
  BY <1>1 DEF Targets
<1>3. FALSE \in BOOLEAN
  OBVIOUS
<1>4. CutAt(uuid, target, algorithm, FALSE, bounds) \in Cuts(target)
  BY <1>1, <1>2, <1>3, BoundsCut
<1> QED BY <1>4, SetsAreCuts

\* A number that exceeds another by the divisor has a greater quotient.
LEMMA QuotientRises ==
  ASSUME NEW a \in Nat, NEW b \in Nat, NEW n \in Nat \ {0}, a + n <= b
  PROVE  a \div n < b \div n
<1>1. PICK q \in Nat, r \in Nat : q = a \div n /\ a = n * q + r
  BY DivisionBy
<1>2. PICK p \in Nat, t \in 0 .. n - 1 : p = b \div n /\ b = n * p + t
  BY DivisionBy
<1>3. ASSUME p <= q PROVE FALSE
  <2>1. PICK d \in Nat : q = p + d
    <3>1. q - p \in Nat /\ q = p + (q - p)
      BY <1>3
    <3> QED BY <3>1
  <2>2. n * q = n * p + n * d /\ n * d \in Nat /\ n * p \in Nat
    BY <2>1
  <2> QED BY <1>1, <1>2, <2>2
<1> QED BY <1>1, <1>2, <1>3

\* What is a multiple is divided without a remainder.
LEMMA QuotientOfMultiple ==
  ASSUME NEW m \in Nat, NEW n \in Nat \ {0}
  PROVE  (n * m) \div n = m
<1>1. PICK a \in Nat : a = n * m
  OBVIOUS
<1>2. PICK q \in Nat, r \in 0 .. n - 1 : q = a \div n /\ a = n * q + r
  BY DivisionBy
<1>3. ASSUME q < m PROVE FALSE
  <2>1. PICK d \in Nat : m = q + 1 + d
    <3>1. m - q - 1 \in Nat /\ m = q + 1 + (m - q - 1)
      BY <1>3
    <3> QED BY <3>1
  <2>2. n * m = n * q + n + n * d /\ n * d \in Nat /\ n * q \in Nat
    BY <2>1
  <2> QED BY <1>1, <1>2, <2>2
<1>4. ASSUME m < q PROVE FALSE
  <2>1. PICK d \in Nat : q = m + 1 + d
    <3>1. q - m - 1 \in Nat /\ q = m + 1 + (q - m - 1)
      BY <1>4
    <3> QED BY <3>1
  <2>2. n * q = n * m + n + n * d /\ n * d \in Nat /\ n * m \in Nat
    BY <2>1
  <2> QED BY <1>1, <1>2, <2>2
<1> QED BY <1>1, <1>2, <1>3, <1>4

\* The equal mode cuts the trim.
LEMMA EqualCut ==
  ASSUME NEW uuid \in Nat, NEW target \in Targets, target.trimStart < target.trimEnd,
         NEW count \in Nat, EqualAccepts(target, count)
  PROVE  SetFromBoundaries(uuid, target, "equal", EqualBoundaries(target, count)) \in Cuts(target)
<1>1. PICK start \in Nat, stop \in Nat, n \in Int :
        start = target.trimStart /\ stop = target.trimEnd /\ n = target.trimEnd - target.trimStart
  BY DEF Targets
<1>2. n \in Nat /\ count \in Nat \ {0} /\ count <= n /\ n = stop - start
  BY <1>1 DEF EqualAccepts
<1> DEFINE at(k) == start + (k * n) \div count
           bounds == [i \in 1 .. count + 1 |-> at(i - 1)]
<1>3. EqualBoundaries(target, count) = bounds
  BY <1>1 DEF EqualBoundaries
<1>4. \A k \in Nat : at(k) \in Int /\ at(k) < at(k + 1)
  <2> TAKE k \in Nat
  <2>1. PICK a, b : a = k * n /\ b = (k + 1) * n
    OBVIOUS
  <2>2. a \in Nat /\ b \in Nat /\ b = a + n /\ a + count <= b
    BY <1>2, <2>1
  <2>3. a \div count < b \div count /\ a \div count \in Nat /\ b \div count \in Nat
    BY <1>2, <2>2, QuotientRises, DivisionBy
  <2> QED BY <1>1, <2>1, <2>3
<1>5. at(0) = start /\ at(count) = stop
  <2>1. 0 * n = 0 /\ 0 \div count = 0
    <3>1. 0 * n = 0 /\ count * 0 = 0
      BY <1>2
    <3>2. (count * 0) \div count = 0
      BY <1>2, QuotientOfMultiple
    <3> QED BY <3>1, <3>2
  <2>2. (count * n) \div count = n
    BY <1>2, QuotientOfMultiple
  <2> QED BY <1>1, <1>2, <2>1, <2>2
<1> HIDE DEF at
<1>6. bounds \in Seq(Int) /\ Len(bounds) = count + 1
  <2>1. count + 1 \in Nat /\ \A i \in 1 .. count + 1 : i - 1 \in Nat
    BY <1>2
  <2>2. bounds \in [1 .. count + 1 -> Int]
    BY <1>4, <2>1
  <2> HIDE DEF bounds
  <2> QED BY <2>1, <2>2, IsASeq, LenProperties
<1>7. BoundariesValid(bounds, target.trimStart, target.trimEnd)
  <2>1. bounds[1] = start /\ bounds[count + 1] = stop
    <3>1. 1 \in 1 .. count + 1 /\ count + 1 \in 1 .. count + 1 /\ 1 - 1 = 0 /\ count + 1 - 1 = count
      BY <1>2
    <3> QED BY <1>5, <3>1
  <2>2. \A i \in 1 .. count : bounds[i] < bounds[i + 1]
    <3> TAKE i \in 1 .. count
    <3>1. /\ i \in 1 .. count + 1 /\ i + 1 \in 1 .. count + 1 /\ i - 1 \in Nat
          /\ i + 1 - 1 = i - 1 + 1
      BY <1>2
    <3>2. at(i - 1) < at(i - 1 + 1)
      BY <1>4, <3>1
    <3> QED BY <3>1, <3>2
  <2>3. Len(bounds) >= 2 /\ Len(bounds) - 1 = count
    BY <1>2, <1>6
  <2> HIDE DEF bounds
  <2> QED BY <1>1, <1>6, <2>1, <2>2, <2>3 DEF BoundariesValid
<1> HIDE DEF bounds
<1>8. "equal" \in Algorithms
  BY DEF Algorithms
<1>9. SetFromBoundaries(uuid, target, "equal", bounds) \in Cuts(target)
  BY <1>6, <1>7, <1>8, ManualCut
<1> QED BY <1>3, <1>9

\* The fixed mode cuts the trim, or what whole regions take of it.
LEMMA FixedCut ==
  ASSUME NEW uuid \in Nat, NEW target \in Targets, target.trimStart < target.trimEnd,
         NEW length \in Nat, NEW discard \in BOOLEAN, FixedAccepts(target, length)
  PROVE  FixedSet(uuid, target, length, discard) \in Cuts(target)
<1>1. PICK start \in Nat, stop \in Nat, n \in Int :
        start = target.trimStart /\ stop = target.trimEnd /\ n = target.trimEnd - target.trimStart
  BY DEF Targets
<1>2. n \in Nat /\ length \in Nat \ {0} /\ length <= n /\ n = stop - start
  BY <1>1 DEF FixedAccepts
<1>3. PICK count \in Nat, rest \in 0 .. length - 1 :
        count = n \div length /\ rest = n % length /\ n = length * count + rest
  BY <1>2, DivisionBy
<1>4. count # 0
  <2>1. length * 0 = 0
    BY <1>2
  <2> QED BY <1>2, <1>3, <2>1
<1> DEFINE at(k) == start + k * length
           whole == [i \in 1 .. count + 1 |-> at(i - 1)]
           bounds == IF rest # 0 /\ ~discard THEN Append(whole, stop) ELSE whole
<1>5. FixedBoundaries(target, length, discard) = bounds
  BY <1>1, <1>3 DEF FixedBoundaries
<1>6. \A k \in Nat : at(k) \in Int /\ at(k) < at(k + 1)
  <2> TAKE k \in Nat
  <2>1. k * length \in Nat /\ (k + 1) * length = k * length + length
    BY <1>2
  <2> QED BY <1>1, <1>2, <2>1
<1>7. at(0) = start /\ at(count) = start + (n - rest)
  <2>1. 0 * length = 0 /\ count * length = length * count /\ length * count \in Nat
    BY <1>2
  <2>2. PICK product : product = count * length
    OBVIOUS
  <2>3. product \in Nat /\ n = product + rest
    BY <1>3, <2>1, <2>2
  <2>4. at(0) = start
    BY <1>1, <2>1
  <2>5. at(count) = start + (n - rest)
    BY <1>1, <1>2, <2>2, <2>3
  <2> QED BY <2>4, <2>5
<1> HIDE DEF at
<1>8. whole \in Seq(Int) /\ Len(whole) = count + 1
  <2>1. count + 1 \in Nat /\ \A i \in 1 .. count + 1 : i - 1 \in Nat
    OBVIOUS
  <2>2. whole \in [1 .. count + 1 -> Int]
    BY <1>6, <2>1
  <2> HIDE DEF whole
  <2> QED BY <2>1, <2>2, IsASeq, LenProperties
<1>9. /\ whole[1] = start /\ whole[count + 1] = start + (n - rest)
      /\ \A i \in 1 .. count : whole[i] < whole[i + 1]
  <2>1. 1 \in 1 .. count + 1 /\ count + 1 \in 1 .. count + 1 /\ 1 - 1 = 0 /\ count + 1 - 1 = count
    OBVIOUS
  <2>2. ASSUME NEW i \in 1 .. count PROVE whole[i] < whole[i + 1]
    <3>1. /\ i \in 1 .. count + 1 /\ i + 1 \in 1 .. count + 1 /\ i - 1 \in Nat
          /\ i + 1 - 1 = i - 1 + 1
      OBVIOUS
    <3>2. at(i - 1) < at(i - 1 + 1)
      BY <1>6, <3>1
    <3> QED BY <3>1, <3>2
  <2>3. whole[1] = at(0) /\ whole[count + 1] = at(count)
    BY <2>1
  <2> HIDE DEF whole
  <2> QED BY <1>7, <2>2, <2>3
<1> HIDE DEF whole
<1>10. /\ bounds \in Seq(Int) /\ Len(bounds) >= 2
       /\ bounds[1] = start /\ bounds[Len(bounds)] <= stop
       /\ bounds[Len(bounds)] = stop \/ discard
       /\ \A i \in 1 .. Len(bounds) - 1 : bounds[i] < bounds[i + 1]
  <2>1. CASE rest # 0 /\ ~discard
    <3>1. PICK more : more = Append(whole, stop)
      OBVIOUS
    <3>2. /\ more \in Seq(Int) /\ Len(more) = count + 2
          /\ \A i \in 1 .. count + 1 : more[i] = whole[i]
          /\ more[count + 2] = stop
      <4>1. stop \in Int /\ count + 1 + 1 = count + 2
        OBVIOUS
      <4> QED BY <1>8, <3>1, <4>1, AppendProperties
    <3>3. more[1] = start /\ more[count + 1] < stop
      <4>1. 1 \in 1 .. count + 1 /\ count + 1 \in 1 .. count + 1
        OBVIOUS
      <4>2. start + (n - rest) < stop
        BY <1>2, <2>1
      <4> QED BY <1>9, <3>2, <4>1, <4>2
    <3>4. \A i \in 1 .. count + 1 : more[i] < more[i + 1]
      <4> TAKE i \in 1 .. count + 1
      <4>1. CASE i = count + 1
        <5>1. i + 1 = count + 2
          BY <4>1
        <5> QED BY <3>2, <3>3, <4>1, <5>1
      <4>2. CASE i # count + 1
        <5>1. i \in 1 .. count /\ i + 1 \in 1 .. count + 1
          BY <4>2
        <5> QED BY <1>9, <3>2, <5>1
      <4> QED BY <4>1, <4>2
    <3>5. Len(more) - 1 = count + 1 /\ Len(more) >= 2 /\ more[Len(more)] <= stop
      BY <3>2
    <3>6. bounds = more
      BY <2>1, <3>1
    <3> HIDE DEF bounds
    <3> QED BY <3>2, <3>3, <3>4, <3>5, <3>6
  <2>2. CASE ~(rest # 0 /\ ~discard)
    <3>1. bounds = whole
      BY <2>2
    <3>2. start + (n - rest) <= stop /\ (rest = 0 => start + (n - rest) = stop)
      BY <1>2
    <3>3. Len(whole) - 1 = count /\ Len(whole) >= 2
      BY <1>4, <1>8
    <3> HIDE DEF bounds
    <3>4. rest = 0 \/ discard
      BY <2>2
    <3>5. whole[Len(whole)] = start + (n - rest) /\ Len(whole) - 1 = count
      BY <1>8, <1>9
    <3> QED BY <1>8, <1>9, <3>1, <3>2, <3>3, <3>4, <3>5
  <2> QED BY <2>1, <2>2
<1> HIDE DEF bounds
<1>11. CutAt(uuid, target, "fixedLength", discard, bounds) \in Cuts(target)
  <2>1. "fixedLength" \in Algorithms
    BY DEF Algorithms
  <2>2. bounds[1] = target.trimStart /\ bounds[Len(bounds)] <= target.trimEnd
    BY <1>1, <1>10
  <2>3. bounds[Len(bounds)] = target.trimEnd \/ ("fixedLength" = "fixedLength" /\ discard)
    BY <1>1, <1>10
  <2> QED BY <1>10, <2>1, <2>2, <2>3, BoundsCut
<1>12. FixedSet(uuid, target, length, discard) = CutAt(uuid, target, "fixedLength", discard, bounds)
  <2>1. PICK set : set = CutAt(uuid, target, "fixedLength", FALSE, bounds)
    OBVIOUS
  <2>2. FixedSet(uuid, target, length, discard) = [set EXCEPT !.discard = discard]
    BY <1>5, <2>1, SetsAreCuts DEF FixedSet
  <2>3. PICK regions : regions = RegionsBetween(bounds)
    OBVIOUS
  <2>4. PICK other : other = [set EXCEPT !.discard = discard]
    OBVIOUS
  <2>5. other = [uuid |-> uuid, asset |-> target.asset, layer |-> target.layer,
                trimStart |-> target.trimStart, trimEnd |-> target.trimEnd,
                algorithm |-> "fixedLength", discard |-> discard, regions |-> regions]
    BY <2>1, <2>3, <2>4 DEF CutAt
  <2>6. other = CutAt(uuid, target, "fixedLength", discard, bounds)
    BY <2>3, <2>5 DEF CutAt
  <2> QED BY <2>2, <2>4, <2>6
<1> QED BY <1>11, <1>12

\* What the valid cuts of a trim have in common.
LEMMA CutTyped ==
  ASSUME NEW target, NEW set \in Cuts(target)
  PROVE  /\ set \in SliceSets /\ IsCut(set, target)
         /\ set.regions \in Seq([start : Int, end : Int]) /\ Len(set.regions) \in Nat \ {0}
         /\ set.trimStart = target.trimStart /\ set.trimEnd = target.trimEnd
         /\ \A i \in 1 .. Len(set.regions) :
              set.regions[i].start \in Int /\ set.regions[i].end \in Int
<1>1. set \in SliceSets /\ IsCut(set, target)
  BY DEF Cuts
<1>2. set.regions \in Seq([start : Int, end : Int])
  BY <1>1 DEF SliceSets
<1>3. Len(set.regions) \in Nat /\ Len(set.regions) > 0
  BY <1>1, <1>2, LenProperties DEF IsCut, SliceSetValid
<1>4. \A i \in 1 .. Len(set.regions) : set.regions[i] \in [start : Int, end : Int]
  BY <1>2, ElementOfSeq
<1> QED BY <1>1, <1>2, <1>3, <1>4 DEF IsCut

\* The boundaries of a cut.
LEMMA BoundariesTyped ==
  ASSUME NEW target, NEW s, s.set \in Cuts(target)
  PROVE  Boundaries(s) \in Seq(Int)
<1>1. PICK regions, n : regions = s.set.regions /\ n = Len(s.set.regions)
  OBVIOUS
<1>2. n \in Nat \ {0} /\ \A i \in 1 .. n : regions[i].start \in Int /\ regions[i].end \in Int
  BY <1>1, CutTyped
<1>3. PICK ends : ends = [i \in 1 .. n |-> regions[i].end]
  OBVIOUS
<1>4. ends \in Seq(Int)
  <2>1. ends \in [1 .. n -> Int] /\ n \in Nat
    BY <1>2, <1>3
  <2> QED BY <2>1, IsASeq
<1>5. PICK first : first = regions[1].start
  OBVIOUS
<1>6. <<first>> \in Seq(Int)
  BY <1>2, <1>5
<1>7. Boundaries(s) = <<first>> \o ends
  BY <1>1, <1>3, <1>5 DEF Boundaries
<1>8. PICK one : one = <<first>>
  OBVIOUS
<1>9. one \o ends \in Seq(Int)
  BY <1>4, <1>6, <1>8, ConcatProperties
<1> QED BY <1>7, <1>8, <1>9

\* The beginning of a sequence of numbers, and its end.
LEMMA PartsTyped ==
  ASSUME NEW bounds \in Seq(Int), NEW m \in Nat, NEW n \in Nat, n <= Len(bounds)
  PROVE  SubSeq(bounds, m + 1, n) \in Seq(Int)
<1>1. PICK k : k = m + 1
  OBVIOUS
<1>2. k \in Int /\ n \in Int /\ Len(bounds) \in Nat
  BY <1>1, LenProperties
<1>3. \A i \in k .. n : bounds[i] \in Int
  <2>1. \A i \in k .. n : i \in 1 .. Len(bounds)
    BY <1>1, <1>2
  <2> QED BY <2>1, ElementOfSeq
<1>4. SubSeq(bounds, k, n) \in Seq(Int)
  BY <1>2, <1>3, SubSeqProperties
<1> QED BY <1>1, <1>4

\* One boundary more.
LEMMA InsertedTyped ==
  ASSUME NEW bounds \in Seq(Int), NEW frame \in Int
  PROVE  Inserted(bounds, frame) \in Seq(Int)
<1>1. PICK lower, n : lower = {i \in DOMAIN bounds : bounds[i] < frame} /\ n = Len(bounds)
  OBVIOUS
<1>2. n \in Nat /\ DOMAIN bounds = 1 .. n /\ IsFiniteSet(1 .. n) /\ Cardinality(1 .. n) = n
  <2>1. n \in Nat /\ DOMAIN bounds = 1 .. n
    BY <1>1, LenProperties
  <2>2. 1 \in Int /\ n \in Int
    BY <2>1
  <2>3. IsFiniteSet(1 .. n) /\ Cardinality(1 .. n) = IF 1 > n THEN 0 ELSE n - 1 + 1
    BY <2>2, FS_Interval
  <2> QED BY <2>1, <2>3
<1>3. PICK before : before = Cardinality(lower)
  OBVIOUS
<1>4. before \in Nat /\ before <= n
  <2>1. lower \subseteq 1 .. n
    BY <1>1, <1>2
  <2>2. IsFiniteSet(lower) /\ Cardinality(lower) <= Cardinality(1 .. n)
    BY <1>2, <2>1, FS_Subset
  <2> QED BY <1>2, <1>3, <2>2, FS_CardinalityType
<1>5. PICK left, right, middle :
        /\ left = SubSeq(bounds, 1, before)
        /\ right = SubSeq(bounds, before + 1, n)
        /\ middle = <<frame>>
  OBVIOUS
<1>6. left \in Seq(Int)
  <2>1. 0 \in Nat /\ 0 + 1 = 1
    OBVIOUS
  <2>2. SubSeq(bounds, 0 + 1, before) \in Seq(Int)
    BY <1>1, <1>4, <2>1, PartsTyped
  <2> QED BY <1>5, <2>1, <2>2
<1>7. right \in Seq(Int)
  BY <1>1, <1>2, <1>4, <1>5, PartsTyped
<1>8. middle \in Seq(Int)
  BY <1>5
<1>9. left \o middle \in Seq(Int)
  BY <1>6, <1>8, ConcatProperties
<1>10. (left \o middle) \o right \in Seq(Int)
  BY <1>7, <1>9, ConcatProperties
<1>11. Inserted(bounds, frame) = left \o middle \o right
  BY <1>1, <1>3, <1>5 DEF Inserted
<1> QED BY <1>10, <1>11

\* One boundary less.
LEMMA WithoutTyped ==
  ASSUME NEW bounds \in Seq(Int), NEW i \in DOMAIN bounds
  PROVE  Without(bounds, i) \in Seq(Int)
<1>1. PICK n : n = Len(bounds)
  OBVIOUS
<1>2. n \in Nat /\ i \in 1 .. n /\ i \in Nat /\ i - 1 \in Nat /\ i - 1 <= n
  BY <1>1, LenProperties
<1>3. PICK left, right, k :
        k = i - 1 /\ left = SubSeq(bounds, 1, i - 1) /\ right = SubSeq(bounds, i + 1, n)
  OBVIOUS
<1>4. left \in Seq(Int)
  <2>1. 0 \in Nat /\ 0 + 1 = 1
    OBVIOUS
  <2>2. SubSeq(bounds, 0 + 1, k) \in Seq(Int)
    BY <1>1, <1>2, <1>3, <2>1, PartsTyped
  <2> QED BY <1>3, <2>1, <2>2
<1>5. right \in Seq(Int)
  BY <1>1, <1>2, <1>3, PartsTyped
<1>6. left \o right \in Seq(Int)
  BY <1>4, <1>5, ConcatProperties
<1> QED BY <1>1, <1>3, <1>6 DEF Without

\* A boundary moved.
LEMMA MovedTyped ==
  ASSUME NEW bounds \in Seq(Int), NEW i \in 2 .. Len(bounds) - 1, NEW frame \in Int
  PROVE  Moved(bounds, i, frame) \in Seq(Int)
<1>1. i \in 1 .. Len(bounds) /\ i - 1 \in 1 .. Len(bounds) /\ i + 1 \in 1 .. Len(bounds)
  BY LenProperties
<1>2. bounds[i - 1] \in Int /\ bounds[i + 1] \in Int
  BY <1>1, ElementOfSeq
<1>3. PICK e : e = IF frame <= bounds[i - 1] THEN bounds[i - 1] + 1
                   ELSE IF frame >= bounds[i + 1] THEN bounds[i + 1] - 1 ELSE frame
  OBVIOUS
<1>4. e \in Int
  BY <1>2, <1>3
<1>5. [bounds EXCEPT ![i] = e] \in Seq(Int)
  BY <1>1, <1>4, ExceptSeq
<1> QED BY <1>3, <1>5 DEF Moved

\* A fold stays where its base is and each of its steps leads.
LEMMA FoldStays ==
  ASSUME NEW S, IsFiniteSet(S), NEW V, NEW c, \A s \in SUBSET S : s # {} => c[s] \in s,
         NEW h, h[{}] \in V,
         \A s \in SUBSET S : s # {} => (h[s \ {c[s]}] \in V => h[s] \in V)
  PROVE  h[S] \in V
<1> DEFINE Bad == {s \in SUBSET S : h[s] \notin V}
<1> SUFFICES ASSUME h[S] \notin V PROVE FALSE
  OBVIOUS
<1>1. Bad \in SUBSET SUBSET S /\ Bad # {}
  BY S \in SUBSET S
<1> HIDE DEF Bad
<1>2. PICK T \in Bad : \A U \in SUBSET T : U \in Bad => U = T
  BY <1>1, SmallestSet
<1>3. T \in SUBSET S /\ h[T] \notin V
  BY <1>2 DEF Bad
<1>4. T # {} /\ c[T] \in T
  BY <1>3
<1>5. PICK U : U = T \ {c[T]}
  OBVIOUS
<1>6. U \in SUBSET T /\ U # T /\ U \in SUBSET S
  BY <1>3, <1>4, <1>5
<1>7. h[U] \in V
  BY <1>2, <1>6 DEF Bad
<1> QED BY <1>3, <1>4, <1>5, <1>7

\* The markers of the lazy capture in the order of their frames.
LEMMA InFrameOrderTyped ==
  ASSUME NEW q \in Seq(Int)
  PROVE  InFrameOrder(q) \in Seq(Int)
<1> DEFINE n == Len(q)
           V == Seq(Int)
           c == [s \in SUBSET (1 .. n) |-> Max(s)]
           F == [iv \in (1 .. n) \X V |-> Inserted(iv[2], q[iv[1]])]
           Solves(g) == g = [s \in SUBSET DOMAIN q |->
                               IF s = {} THEN <<>> ELSE Inserted(g[s \ {Max(s)}], q[Max(s)])]
<1>1. n \in Nat /\ DOMAIN q = 1 .. n /\ IsFiniteSet(1 .. n) /\ \A i \in 1 .. n : q[i] \in Int
  BY LenProperties, ElementOfSeq, FS_Interval
<1> HIDE DEF n
<1>2. \A s \in SUBSET (1 .. n) : s # {} => Max(s) \in s /\ c[s] = Max(s) /\ c[s] \in s
  BY <1>1, LastOfPositions
<1>3. \A v \in V, i \in 1 .. n : Inserted(v, q[i]) \in V
  BY <1>1, InsertedTyped
<1>4. F \in [(1 .. n) \X V -> V] /\ <<>> \in V
  <2>1. \A iv \in (1 .. n) \X V : Inserted(iv[2], q[iv[1]]) \in V
    BY <1>3
  <2> QED BY <2>1, EmptySeq
<1> HIDE DEF V, c, F
<1>5. PICK g : IsFold(g, 1 .. n, V, <<>>, F, c)
  BY <1>1, <1>2, <1>4, FoldExists
<1>6. ASSUME NEW s \in SUBSET (1 .. n), s # {}
      PROVE  g[s] = Inserted(g[s \ {Max(s)}], q[Max(s)])
  <2>1. PICK i, rest : i = Max(s) /\ rest = g[s \ {Max(s)}]
    OBVIOUS
  <2>2. i \in 1 .. n /\ rest \in V /\ g[s] = F[<<i, rest>>]
    BY <1>2, <1>5, <1>6, <2>1 DEF IsFold
  <2>3. F[<<i, rest>>] = Inserted(rest, q[i])
    BY <2>2 DEF F
  <2> QED BY <2>1, <2>2, <2>3
<1>7. Solves(g)
  <2>1. DOMAIN g = SUBSET (1 .. n) /\ g = [s \in DOMAIN g |-> g[s]] /\ g[{}] = <<>>
    BY <1>5 DEF IsFold
  <2> QED BY <1>1, <1>6, <2>1
<1>8. InFrameOrder(q) = (CHOOSE h : Solves(h))[DOMAIN q]
  BY DEF InFrameOrder, FoldLeft, MapThenFoldSet
<1>9. PICK h : h = CHOOSE x : Solves(x)
  OBVIOUS
<1>10. Solves(h) /\ InFrameOrder(q) = h[DOMAIN q]
  BY <1>7, <1>8, <1>9
<1>11. h[{}] = <<>> /\ \A s \in SUBSET (1 .. n) : s # {} =>
         h[s] = Inserted(h[s \ {Max(s)}], q[Max(s)])
  <2>1. ASSUME NEW s \in SUBSET (1 .. n)
        PROVE  h[s] = IF s = {} THEN <<>> ELSE Inserted(h[s \ {Max(s)}], q[Max(s)])
    <3>1. \A x : h = x => h[s] = x[s]
      OBVIOUS
    <3> QED BY <1>1, <1>10, <3>1
  <2> QED BY <2>1
<1> HIDE DEF Solves
<1>12. \A s \in SUBSET (1 .. n) : s # {} => (h[s \ {c[s]}] \in V => h[s] \in V)
  <2> SUFFICES ASSUME NEW s \in SUBSET (1 .. n), s # {}, h[s \ {c[s]}] \in V PROVE h[s] \in V
    OBVIOUS
  <2>1. PICK i, rest : i = Max(s) /\ rest = h[s \ {Max(s)}]
    OBVIOUS
  <2>2. i \in 1 .. n /\ rest \in V /\ h[s] = Inserted(rest, q[i])
    BY <1>2, <1>11, <2>1
  <2> QED BY <1>3, <2>2
<1>13. h[1 .. n] \in V
  <2>1. PICK S : S = 1 .. n
    OBVIOUS
  <2>2. IsFiniteSet(S) /\ h[{}] \in V /\ \A s \in SUBSET S : s # {} => c[s] \in s
    BY <1>1, <1>2, <1>4, <1>11, <2>1
  <2>3. \A s \in SUBSET S : s # {} => (h[s \ {c[s]}] \in V => h[s] \in V)
    BY <1>12, <2>1
  <2>4. h[S] \in V
    BY <2>2, <2>3, FoldStays
  <2> QED BY <2>1, <2>4
<1> QED BY <1>1, <1>10, <1>13 DEF V

\* The markers of an analysis in ascending order.
LEMMA AscendingTyped ==
  ASSUME NEW frames \in SUBSET Int, IsFiniteSet(frames)
  PROVE  Ascending(frames) \in Seq(Int)
<1> DEFINE V == Seq(Int)
           c == [s \in SUBSET frames |-> CHOOSE x \in s : TRUE]
           F == [iv \in frames \X V |-> Inserted(iv[2], iv[1])]
           Solves(g) == g = [s \in SUBSET frames |->
                               IF s = {} THEN <<>>
                               ELSE Inserted(g[s \ {CHOOSE x \in s : TRUE}], CHOOSE x \in s : TRUE)]
<1>1. \A s \in SUBSET frames : s # {} => c[s] \in s /\ c[s] = CHOOSE x \in s : TRUE
  <2> SUFFICES ASSUME NEW s \in SUBSET frames, s # {} PROVE (CHOOSE x \in s : TRUE) \in s
    OBVIOUS
  <2>1. \E x : x \in s
    OBVIOUS
  <2> QED BY <2>1
<1>2. \A v \in V, f \in frames : Inserted(v, f) \in V
  BY InsertedTyped
<1>3. F \in [frames \X V -> V] /\ <<>> \in V
  <2>1. \A iv \in frames \X V : Inserted(iv[2], iv[1]) \in V
    BY <1>2
  <2> QED BY <2>1, EmptySeq
<1> HIDE DEF V, F
<1>4. PICK g : IsFold(g, frames, V, <<>>, F, c)
  <2> HIDE DEF c
  <2> QED BY <1>1, <1>3, FoldExists
<1>5. ASSUME NEW s \in SUBSET frames, s # {}
      PROVE  g[s] = Inserted(g[s \ {CHOOSE x \in s : TRUE}], CHOOSE x \in s : TRUE)
  <2>1. PICK f, rest : f = (CHOOSE x \in s : TRUE) /\ rest = g[s \ {CHOOSE x \in s : TRUE}]
    OBVIOUS
  <2>2. f = c[s] /\ f \in frames
    BY <1>1, <1>5, <2>1
  <2> HIDE DEF c
  <2>3. rest \in V /\ g[s] = F[<<f, rest>>]
    BY <1>4, <1>5, <2>1, <2>2 DEF IsFold
  <2>4. F[<<f, rest>>] = Inserted(rest, f)
    BY <2>2, <2>3 DEF F
  <2> QED BY <2>1, <2>3, <2>4
<1> HIDE DEF c
<1>6. Solves(g)
  <2>1. DOMAIN g = SUBSET frames /\ g = [s \in DOMAIN g |-> g[s]] /\ g[{}] = <<>>
    BY <1>4 DEF IsFold
  <2> QED BY <1>5, <2>1
<1>7. Ascending(frames) = (CHOOSE h : Solves(h))[frames]
  BY DEF Ascending, FoldSet, MapThenFoldSet
<1>8. PICK h : h = CHOOSE x : Solves(x)
  OBVIOUS
<1>9. Solves(h) /\ Ascending(frames) = h[frames]
  BY <1>6, <1>7, <1>8
<1>10. ASSUME NEW s \in SUBSET frames
       PROVE  h[s] = IF s = {} THEN <<>>
                     ELSE Inserted(h[s \ {CHOOSE x \in s : TRUE}], CHOOSE x \in s : TRUE)
  <2>1. \A x : h = x => h[s] = x[s]
    OBVIOUS
  <2> QED BY <1>9, <2>1
<1> HIDE DEF Solves
<1>11. \A s \in SUBSET frames : s # {} => (h[s \ {c[s]}] \in V => h[s] \in V)
  <2> SUFFICES ASSUME NEW s \in SUBSET frames, s # {}, h[s \ {c[s]}] \in V PROVE h[s] \in V
    OBVIOUS
  <2>1. PICK f, rest : f = c[s] /\ rest = h[s \ {c[s]}]
    OBVIOUS
  <2>2. f \in frames /\ rest \in V /\ h[s] = Inserted(rest, f)
    BY <1>1, <1>10, <2>1
  <2> QED BY <1>2, <2>2
<1>12. h[{}] \in V /\ \A s \in SUBSET frames : s # {} => c[s] \in s
  BY <1>1, <1>3, <1>10
<1>13. h[frames] \in V
  BY <1>11, <1>12, FoldStays
<1> QED BY <1>9, <1>13 DEF V

\* What an analysis finds becomes a slice set, valid or not.
LEMMA FoundTyped ==
  ASSUME NEW job, job.target \in Targets
  PROVE  SetFromBoundaries(job.target.id, job.target, "transient", TransientBoundaries(job))
           \in {set \in SliceSets : /\ set.trimStart = job.target.trimStart
                                    /\ set.trimEnd = job.target.trimEnd
                                    /\ MustBeContiguous(set)}
<1>1. PICK target \in Targets : target = job.target
  OBVIOUS
<1>2. target.id \in Nat /\ target.trimStart \in Nat /\ target.trimEnd \in Nat
      /\ target.asset = Asset /\ target.layer = "layer"
  BY DEF Targets
<1>3. PICK first, last, found :
        first = <<target.trimStart>> /\ last = <<target.trimEnd>> /\ found = Ascending(Markers(job))
  OBVIOUS
<1>4. found \in Seq(Int)
  <2>1. PICK low \in Int, high \in Int : low = target.trimStart + 1 /\ high = target.trimEnd - 1
    BY <1>2
  <2>2. Markers(job) \subseteq low .. high
    BY <1>1, <2>1 DEF Markers, Trim
  <2>3. IsFiniteSet(low .. high)
    BY FS_Interval
  <2>4. IsFiniteSet(Markers(job)) /\ Markers(job) \in SUBSET Int
    BY <2>2, <2>3, FS_Subset
  <2> QED BY <1>3, <2>4, AscendingTyped
<1>5. first \in Seq(Int) /\ last \in Seq(Int) /\ Len(first) = 1
  BY <1>2, <1>3
<1>6. PICK front, bounds : front = first \o found /\ bounds = front \o last
  OBVIOUS
<1>7. front \in Seq(Int) /\ Len(front) = 1 + Len(found)
  BY <1>4, <1>5, <1>6, ConcatProperties
<1>8. bounds \in Seq(Int) /\ Len(bounds) = Len(front) + Len(last)
  BY <1>5, <1>6, <1>7, ConcatProperties
<1>9. Len(bounds) >= 1
  BY <1>4, <1>5, <1>7, <1>8, LenProperties
<1>10. bounds = TransientBoundaries(job)
  BY <1>1, <1>3, <1>6 DEF TransientBoundaries
<1>11. PICK set, regions :
         set = CutAt(target.id, target, "transient", FALSE, bounds) /\ regions = RegionsBetween(bounds)
  OBVIOUS
<1>12. regions \in Seq([start : Int, end : Int])
  BY <1>8, <1>9, <1>11, RegionsTyped
<1>13. /\ set \in SliceSets /\ set.algorithm = "transient" /\ set.discard = FALSE
       /\ set.trimStart = target.trimStart /\ set.trimEnd = target.trimEnd
  BY <1>2, <1>11, <1>12 DEF CutAt, SliceSets, Algorithms
<1>14. MustBeContiguous(set)
  BY <1>13 DEF MustBeContiguous
<1>15. SetFromBoundaries(target.id, target, "transient", bounds) = set
  BY <1>11, SetsAreCuts
<1> QED BY <1>1, <1>10, <1>13, <1>14, <1>15

-----------------------------------------------------------------------------
(***************************************************************************)
(* What an analysis finds.                                                 *)
(***************************************************************************)

\* What an analysis may be asked.
Asked(r) ==
  /\ r = [id |-> r.id, target |-> r.target, envelope |-> r.envelope,
          sensitivity |-> r.sensitivity, floor |-> r.floor, minimum |-> r.minimum,
          lookBack |-> r.lookBack, cancelled |-> r.cancelled]
  /\ r.target.trimStart \in Nat /\ r.target.trimEnd \in Nat
  /\ \A f \in r.target.trimStart .. r.target.trimEnd - 1 : r.envelope[f] \in Nat
  /\ r.sensitivity \in 0 .. 10 /\ r.floor \in Nat /\ r.minimum \in Nat /\ r.lookBack \in Nat

\* The greater of two numbers.
LEMMA GreaterOfTwo ==
  ASSUME NEW a \in Int, NEW b \in Int
  PROVE  Max({a, b}) = IF a >= b THEN a ELSE b
<1>1. PICK m : m = IF a >= b THEN a ELSE b
  OBVIOUS
<1>2. m \in {a, b} /\ \A y \in {a, b} : m >= y
  BY <1>1
<1>3. ASSUME NEW x \in {a, b}, \A y \in {a, b} : x >= y PROVE x = m
  BY <1>1, <1>3
<1>4. Max({a, b}) \in {a, b} /\ \A y \in {a, b} : Max({a, b}) >= y
  BY <1>2 DEF Max
<1> QED BY <1>1, <1>3, <1>4

\* The frames inside a trim.
LEMMA InTrim ==
  ASSUME NEW r, Asked(r)
  PROVE  /\ IsFiniteSet(Trim(r)) /\ Trim(r) \in SUBSET Nat
         /\ \A f \in Trim(r) : /\ f \in Nat /\ r.target.trimStart < f /\ f < r.target.trimEnd
                               /\ r.envelope[f] \in Nat /\ r.envelope[f - 1] \in Nat
<1>1. PICK low \in Nat, high \in Nat : low = r.target.trimStart /\ high = r.target.trimEnd
  BY DEF Asked
<1>2. low + 1 \in Int /\ high - 1 \in Int /\ Trim(r) = low + 1 .. high - 1
  BY <1>1 DEF Trim
<1>3. IsFiniteSet(Trim(r))
  BY <1>2, FS_Interval
<1>4. ASSUME NEW f \in Trim(r)
      PROVE  f \in Nat /\ low < f /\ f < high /\ f \in low .. high - 1 /\ f - 1 \in low .. high - 1
  BY <1>2
<1>5. \A f \in low .. high - 1 : r.envelope[f] \in Nat
  BY <1>1 DEF Asked
<1> QED BY <1>1, <1>3, <1>4, <1>5

\* A rise is no fall.
LEMMA StrengthTyped ==
  ASSUME NEW r, Asked(r), NEW f
  PROVE  Strength(r, f) \in Nat
<1>1. CASE f \notin Trim(r)
  BY <1>1 DEF Strength
<1>2. CASE f \in Trim(r)
  <2>1. PICK a \in Nat, b \in Nat : a = r.envelope[f] /\ b = r.envelope[f - 1]
    BY <1>2, InTrim
  <2>2. Strength(r, f) = Max({0, a - b}) /\ a - b \in Int
    BY <1>2, <2>1 DEF Strength
  <2>3. Max({0, a - b}) = IF 0 >= a - b THEN 0 ELSE a - b
    BY <2>2, GreaterOfTwo
  <2> QED BY <2>2, <2>3
<1> QED BY <1>1, <1>2

\* A set of numbers that has an upper bound has a greatest element.
LEMMA GreatestOf ==
  ASSUME NEW S \in SUBSET Nat, S # {}, NEW n \in Nat, \A x \in S : x <= n
  PROVE  Max(S) \in S /\ \A x \in S : Max(S) >= x
<1> DEFINE above == {m \in Nat : \A x \in S : x <= m}
<1>1. n \in above /\ above \in SUBSET Nat
  OBVIOUS
<1> HIDE DEF above
<1>2. PICK m \in above : \A k \in above : m <= k
  BY <1>1, LeastNumber
<1>3. m \in Nat /\ \A x \in S : x <= m
  BY <1>2 DEF above
<1>4. m \in S
  <2> SUFFICES ASSUME m \notin S PROVE FALSE
    OBVIOUS
  <2>1. PICK x \in S : TRUE
    OBVIOUS
  <2>2. x \in Nat /\ x <= m /\ x # m
    BY <1>3, <2>1
  <2>3. m - 1 \in Nat /\ \A y \in S : y <= m - 1
    BY <1>3, <2>2
  <2>4. m - 1 \in above
    BY <2>3 DEF above
  <2> QED BY <1>2, <1>3, <2>4
<1>5. \A y \in S : m >= y
  BY <1>3
<1> QED BY <1>4, <1>5 DEF Max

\* The rises of some frames have an upper bound.
LEMMA RisesBounded ==
  ASSUME NEW r, Asked(r)
  PROVE  \E n \in Nat : \A f \in Trim(r) : Strength(r, f) <= n
<1> DEFINE Bad == {T \in SUBSET Trim(r) : ~ \E n \in Nat : \A f \in T : Strength(r, f) <= n}
<1> SUFFICES ASSUME Bad # {} PROVE FALSE
  OBVIOUS
<1>1. Bad \in SUBSET SUBSET Trim(r) /\ IsFiniteSet(Trim(r))
  BY InTrim
<1> HIDE DEF Bad
<1>2. PICK T \in Bad : \A U \in SUBSET T : U \in Bad => U = T
  BY <1>1, SmallestSet
<1>3. T \in SUBSET Trim(r) /\ ~ \E n \in Nat : \A f \in T : Strength(r, f) <= n
  BY <1>2 DEF Bad
<1>4. PICK f \in T : TRUE
  BY <1>3
<1>5. T \ {f} \in SUBSET T /\ T \ {f} # T /\ T \ {f} \in SUBSET Trim(r)
  BY <1>3, <1>4
<1>6. PICK n \in Nat : \A g \in T \ {f} : Strength(r, g) <= n
  BY <1>2, <1>5 DEF Bad
<1>7. PICK s \in Nat : s = Strength(r, f)
  BY StrengthTyped
<1>8. \A g \in T : Strength(r, g) \in Nat
  BY StrengthTyped
<1>9. PICK m \in Nat : m >= n /\ m >= s
  <2>1. n + s \in Nat /\ n + s >= n /\ n + s >= s
    OBVIOUS
  <2> QED BY <2>1
<1>10. \A g \in T : Strength(r, g) <= m
  BY <1>6, <1>7, <1>8, <1>9
<1> QED BY <1>3, <1>10

\* The strongest rise.
LEMMA MaximumIs ==
  ASSUME NEW r, Asked(r)
  PROVE  /\ MaximumStrength(r) \in Nat
         /\ \A f \in Trim(r) : Strength(r, f) <= MaximumStrength(r)
         /\ MaximumStrength(r) # 0 => \E f \in Trim(r) : Strength(r, f) = MaximumStrength(r)
<1>1. PICK S : S = {0} \cup {Strength(r, f) : f \in Trim(r)}
  OBVIOUS
<1>2. S \in SUBSET Nat /\ S # {}
  BY <1>1, StrengthTyped
<1>3. PICK n \in Nat : \A f \in Trim(r) : Strength(r, f) <= n
  BY RisesBounded
<1>4. \A x \in S : x <= n
  BY <1>1, <1>3
<1>5. Max(S) \in S /\ \A x \in S : Max(S) >= x
  BY <1>2, <1>4, GreatestOf
<1>6. MaximumStrength(r) = Max(S)
  BY <1>1 DEF MaximumStrength
<1>7. PICK m : m = Max(S)
  OBVIOUS
<1>8. m \in Nat /\ (\A x \in S : m >= x) /\ m \in S
  BY <1>2, <1>5, <1>7
<1>9. ASSUME NEW f \in Trim(r) PROVE Strength(r, f) <= m
  <2>1. Strength(r, f) \in S /\ Strength(r, f) \in Nat
    BY <1>1, StrengthTyped
  <2> QED BY <1>8, <2>1
<1>10. m # 0 => \E f \in Trim(r) : Strength(r, f) = m
  BY <1>1, <1>8
<1> QED BY <1>6, <1>7, <1>8, <1>9, <1>10

\* The candidates: how strong they are, and that they rise.
LEMMA CandidateIs ==
  ASSUME NEW r, Asked(r), NEW f
  PROVE  f \in Candidates(r) <=>
           /\ f \in Trim(r) /\ MaximumStrength(r) > r.floor
           /\ Strength(r, f) > Strength(r, f - 1) /\ Strength(r, f) >= Strength(r, f + 1)
           /\ 100 * Strength(r, f) >= 100 * r.floor
           /\ 100 * Strength(r, f) >= MaximumStrength(r) * (100 - 9 * r.sensitivity)
<1>1. PICK top \in Nat, floor \in Nat, sensitivity \in 0 .. 10, s \in Nat :
        /\ top = MaximumStrength(r) /\ floor = r.floor /\ sensitivity = r.sensitivity
        /\ s = Strength(r, f)
  BY MaximumIs, StrengthTyped DEF Asked
<1>2. PICK a \in Int, b \in Int : a = 100 * floor /\ b = top * (100 - 9 * sensitivity)
  OBVIOUS
<1>3. Threshold(r) = Max({a, b})
  BY <1>1, <1>2 DEF Threshold
<1>4. Threshold(r) = IF a >= b THEN a ELSE b
  BY <1>3, GreaterOfTwo
<1>5. PICK t \in Int : t = Threshold(r)
  BY <1>4
<1>6. 100 * s >= t <=> 100 * s >= a /\ 100 * s >= b
  BY <1>4, <1>5
<1>7. f \in Candidates(r) <=>
        /\ f \in Trim(r) /\ ~ (top <= floor) /\ 100 * s >= t
        /\ Strength(r, f) > Strength(r, f - 1) /\ Strength(r, f) >= Strength(r, f + 1)
  BY <1>1, <1>5 DEF Candidates
<1> QED BY <1>1, <1>2, <1>6, <1>7

\* The order of the candidates.
LEMMA BeforeIsOrder ==
  ASSUME NEW r, Asked(r), NEW f \in Int, NEW g \in Int, NEW h \in Int
  PROVE  /\ ~ Before(r, f, f)
         /\ Before(r, f, g) => ~ Before(r, g, f)
         /\ f = g \/ Before(r, f, g) \/ Before(r, g, f)
         /\ Before(r, f, g) /\ Before(r, g, h) => Before(r, f, h)
<1>1. Strength(r, f) \in Nat /\ Strength(r, g) \in Nat /\ Strength(r, h) \in Nat
  BY StrengthTyped
<1> QED BY <1>1 DEF Before

\* f is the last of some frames.
IsLast(r, S, f) == f \in S /\ \A g \in S \ {f} : Before(r, g, f)

\* There is a last one, ...
LEMMA LastExists ==
  ASSUME NEW r, Asked(r), NEW S \in SUBSET Trim(r), S # {}
  PROVE  IsLast(r, S, LastOf(r, S))
<1> DEFINE Bad == {T \in SUBSET Trim(r) : T # {} /\ ~ \E f \in T : IsLast(r, T, f)}
<1>1. Bad \in SUBSET SUBSET Trim(r) /\ IsFiniteSet(Trim(r))
  BY InTrim
<1>2. Bad = {}
  <2> SUFFICES ASSUME Bad # {} PROVE FALSE
    OBVIOUS
  <2> HIDE DEF Bad
  <2>1. PICK T \in Bad : \A U \in SUBSET T : U \in Bad => U = T
    BY <1>1, SmallestSet
  <2>2. T \in SUBSET Trim(r) /\ T # {} /\ ~ \E f \in T : IsLast(r, T, f)
    BY <2>1 DEF Bad
  <2>3. PICK f \in T : TRUE
    BY <2>2
  <2>4. CASE T = {f}
    BY <2>2, <2>4 DEF IsLast
  <2>5. CASE T # {f}
    <3>1. PICK rest : rest = T \ {f}
      OBVIOUS
    <3>2. rest \in SUBSET T /\ rest # T /\ rest # {} /\ rest \in SUBSET Trim(r)
      BY <2>2, <2>3, <2>5, <3>1
    <3>3. PICK g \in rest : IsLast(r, rest, g)
      BY <2>1, <3>2 DEF Bad
    <3>4. \A h \in T : h \in Int
      BY <2>2, InTrim
    <3>5. f # g /\ f \in T /\ g \in T
      BY <2>3, <3>1, <3>2
    <3>6. CASE Before(r, f, g)
      <4>1. IsLast(r, T, g)
        BY <3>1, <3>3, <3>5, <3>6 DEF IsLast
      <4> QED BY <2>2, <3>5, <4>1
    <3>7. CASE Before(r, g, f)
      <4>1. ASSUME NEW h \in T \ {f} PROVE Before(r, h, f)
        <5>1. CASE h = g
          BY <3>7, <5>1
        <5>2. CASE h # g
          <6>1. Before(r, h, g) /\ h \in Int /\ g \in Int /\ f \in Int
            BY <3>1, <3>3, <3>4, <3>5, <5>2 DEF IsLast
          <6> QED BY <3>7, <6>1, BeforeIsOrder
        <5> QED BY <5>1, <5>2
      <4>2. IsLast(r, T, f)
        BY <3>5, <4>1 DEF IsLast
      <4> QED BY <2>2, <3>5, <4>2
    <3> QED BY <3>4, <3>5, <3>6, <3>7, BeforeIsOrder
  <2> QED BY <2>4, <2>5
<1>3. \E f \in S : IsLast(r, S, f)
  BY <1>2
<1> QED BY <1>3 DEF LastOf, IsLast

\* ... and no other.
LEMMA LastIsOne ==
  ASSUME NEW r, Asked(r), NEW S \in SUBSET Trim(r), NEW f, NEW g, IsLast(r, S, f), IsLast(r, S, g)
  PROVE  f = g
<1> SUFFICES ASSUME f # g PROVE FALSE
  OBVIOUS
<1>1. f \in Int /\ g \in Int
  BY InTrim DEF IsLast
<1>2. Before(r, f, g) /\ Before(r, g, f)
  BY DEF IsLast
<1> QED BY <1>1, <1>2, BeforeIsOrder

\* What holds of no frames, and of some frames if it holds without the last, holds of all.
LEMMA ByLast ==
  ASSUME NEW r, Asked(r), NEW Good, {} \in Good,
         \A S \in SUBSET Trim(r) : \A f : IsLast(r, S, f) /\ S \ {f} \in Good => S \in Good
  PROVE  \A S \in SUBSET Trim(r) : S \in Good
<1> DEFINE Bad == {T \in SUBSET Trim(r) : T \notin Good}
<1>1. Bad \in SUBSET SUBSET Trim(r) /\ IsFiniteSet(Trim(r))
  BY InTrim
<1>2. Bad = {}
  <2> SUFFICES ASSUME Bad # {} PROVE FALSE
    OBVIOUS
  <2> HIDE DEF Bad
  <2>1. PICK T \in Bad : \A U \in SUBSET T : U \in Bad => U = T
    BY <1>1, SmallestSet
  <2>2. T \in SUBSET Trim(r) /\ T \notin Good /\ T # {}
    BY <2>1 DEF Bad
  <2>3. PICK f : f = LastOf(r, T)
    OBVIOUS
  <2>4. IsLast(r, T, f) /\ f \in T
    BY <2>2, <2>3, LastExists DEF IsLast
  <2>5. T \ {f} \in SUBSET T /\ T \ {f} # T /\ T \ {f} \in SUBSET Trim(r)
    BY <2>2, <2>4
  <2>6. T \ {f} \in Good
    BY <2>1, <2>5 DEF Bad
  <2> QED BY <2>2, <2>4, <2>6
<1> QED BY <1>2

\* t tells what is taken of any frames.
IsTaking(t, r) ==
  /\ t \in [SUBSET Trim(r) -> SUBSET Int]
  /\ t[{}] = {}
  /\ \A S \in SUBSET Trim(r) : \A f : IsLast(r, S, f) =>
       t[S] = IF \E g \in t[S \ {f}] : Distance(f, g) < r.minimum THEN t[S \ {f}]
              ELSE t[S \ {f}] \cup {f}

\* Onsets() takes them so.
LEMMA OnsetsAreTaken ==
  ASSUME NEW r, Asked(r)
  PROVE  \E t : IsTaking(t, r) /\ Onsets(r) = t[Candidates(r)]
<1> DEFINE V == SUBSET Int
           c == [S \in SUBSET Trim(r) |-> LastOf(r, S)]
           F == [fv \in Trim(r) \X V |->
                   IF \E g \in fv[2] : Distance(fv[1], g) < r.minimum THEN fv[2]
                   ELSE fv[2] \cup {fv[1]}]
           Value(t, S) == IF S = {} THEN {}
                          ELSE LET last == LastOf(r, S)
                                   rest == t[S \ {last}]
                               IN IF \E f \in rest : Distance(last, f) < r.minimum THEN rest
                                  ELSE rest \cup {last}
           Solves(t) == t = [S \in SUBSET Trim(r) |-> Value(t, S)]
<1>1. IsFiniteSet(Trim(r)) /\ \A f \in Trim(r) : f \in Int
  BY InTrim
<1>2. \A S \in SUBSET Trim(r) : S # {} => c[S] \in S /\ c[S] = LastOf(r, S) /\ IsLast(r, S, c[S])
  BY LastExists DEF IsLast
<1>3. F \in [Trim(r) \X V -> V]
  BY <1>1
<1>4. {} \in V
  OBVIOUS
<1>5. ASSUME NEW f \in Trim(r), NEW v \in V
      PROVE  F[<<f, v>>] = IF \E g \in v : Distance(f, g) < r.minimum THEN v ELSE v \cup {f}
  OBVIOUS
<1>6. PICK h : IsFold(h, Trim(r), V, {}, F, c)
  <2> HIDE DEF V, c, F
  <2> QED BY <1>1, <1>2, <1>3, <1>4, FoldExists
<1>7. Solves(h)
  <2>1. h \in [SUBSET Trim(r) -> V]
    BY <1>6 DEF IsFold
  <2>2. ASSUME NEW S \in SUBSET Trim(r) PROVE h[S] = Value(h, S)
    <3>1. CASE S = {}
      <4> HIDE DEF V, c, F
      <4> QED BY <1>6, <3>1 DEF IsFold
    <3>2. CASE S # {}
      <4>1. PICK last, rest : last = LastOf(r, S) /\ rest = h[S \ {last}]
        OBVIOUS
      <4>2. last \in Trim(r) /\ S \ {last} \in SUBSET Trim(r) /\ c[S] = last
        BY <1>2, <3>2, <4>1
      <4>3. rest \in V
        BY <2>1, <4>1, <4>2
      <4>4. h[S] = F[<<last, rest>>]
        <5> HIDE DEF V, c, F
        <5> QED BY <1>6, <3>2, <4>1, <4>2 DEF IsFold
      <4>5. h[S] = IF \E g \in rest : Distance(last, g) < r.minimum THEN rest ELSE rest \cup {last}
        <5> HIDE DEF V, c, F
        <5> QED BY <1>5, <4>2, <4>3, <4>4
      <4> HIDE DEF V, c, F
      <4> QED BY <3>2, <4>1, <4>5
    <3> QED BY <3>1, <3>2
  <2> HIDE DEF Value
  <2> QED BY <2>1, <2>2
<1>8. PICK t : t = CHOOSE x : Solves(x)
  OBVIOUS
<1>9. Solves(t)
  <2> HIDE DEF Solves
  <2> QED BY <1>7, <1>8
<1>10. Taken(r) = t
  BY <1>8 DEF Taken
<1>11. ASSUME NEW S \in SUBSET Trim(r) PROVE t[S] = Value(t, S)
  <2>1. \A x : t = x => t[S] = x[S]
    OBVIOUS
  <2> HIDE DEF Value
  <2> QED BY <1>9, <2>1
<1>12. t[{}] = {}
  BY <1>11
<1>13. ASSUME NEW S \in SUBSET Trim(r), NEW f, IsLast(r, S, f)
       PROVE  t[S] = IF \E g \in t[S \ {f}] : Distance(f, g) < r.minimum THEN t[S \ {f}]
                     ELSE t[S \ {f}] \cup {f}
  <2>1. S # {} /\ f = LastOf(r, S)
    <3>1. S # {}
      BY <1>13 DEF IsLast
    <3>2. IsLast(r, S, LastOf(r, S))
      BY <3>1, LastExists
    <3> QED BY <1>13, <3>1, <3>2, LastIsOne
  <2> QED BY <1>11, <2>1
<1>14. t \in [SUBSET Trim(r) -> SUBSET Int]
  <2>1. DOMAIN t = SUBSET Trim(r) /\ t = [S \in SUBSET Trim(r) |-> t[S]]
    <3> HIDE DEF Value
    <3> QED BY <1>9, <1>11
  <2> DEFINE Good == {S \in SUBSET Trim(r) : t[S] \in SUBSET Int}
  <2>2. {} \in Good
    BY <1>12
  <2>3. ASSUME NEW S \in SUBSET Trim(r), NEW f, IsLast(r, S, f), S \ {f} \in Good
        PROVE  S \in Good
    <3>1. f \in Int
      BY <1>1, <2>3 DEF IsLast
    <3>2. t[S \ {f}] \in SUBSET Int
      BY <2>3
    <3>3. t[S] = t[S \ {f}] \/ t[S] = t[S \ {f}] \cup {f}
      BY <1>13, <2>3
    <3>4. t[S] \in SUBSET Int
      BY <3>1, <3>2, <3>3
    <3> QED BY <3>4
  <2>4. \A S \in SUBSET Trim(r) : S \in Good
    <3> HIDE DEF Good
    <3> QED BY <2>2, <2>3, ByLast
  <2> QED BY <2>1, <2>4
<1>15. IsTaking(t, r)
  BY <1>12, <1>13, <1>14 DEF IsTaking
<1> QED BY <1>10, <1>15 DEF Onsets

\* There is one way of taking.
LEMMA TakingIsOne ==
  ASSUME NEW r, Asked(r), NEW t, NEW u, IsTaking(t, r), IsTaking(u, r)
  PROVE  \A S \in SUBSET Trim(r) : t[S] = u[S]
<1> DEFINE Good == {S \in SUBSET Trim(r) : t[S] = u[S]}
<1>1. {} \in Good
  BY DEF IsTaking
<1>2. ASSUME NEW S \in SUBSET Trim(r), NEW f, IsLast(r, S, f), S \ {f} \in Good
      PROVE  S \in Good
  <2>1. t[S \ {f}] = u[S \ {f}]
    BY <1>2
  <2>2. PICK rest : rest = t[S \ {f}]
    OBVIOUS
  <2>3. t[S] = IF \E g \in rest : Distance(f, g) < r.minimum THEN rest ELSE rest \cup {f}
    BY <1>2, <2>2 DEF IsTaking
  <2>4. u[S] = IF \E g \in rest : Distance(f, g) < r.minimum THEN rest ELSE rest \cup {f}
    <3>1. u[S \ {f}] = rest
      BY <2>1, <2>2
    <3> QED BY <1>2, <3>1 DEF IsTaking
  <2>5. PICK e : e = IF \E g \in rest : Distance(f, g) < r.minimum THEN rest ELSE rest \cup {f}
    OBVIOUS
  <2>6. t[S] = u[S]
    BY <2>3, <2>4, <2>5
  <2> QED BY <2>6
<1>3. \A S \in SUBSET Trim(r) : S \in Good
  <2> HIDE DEF Good
  <2> QED BY <1>1, <1>2, ByLast
<1> QED BY <1>3

\* What is taken was there, and lies apart.
LEMMA TakenApart ==
  ASSUME NEW r, Asked(r), NEW t, IsTaking(t, r), NEW S \in SUBSET Trim(r)
  PROVE  /\ t[S] \subseteq S
         /\ \A f, g \in t[S] : f # g => Distance(f, g) >= r.minimum
<1> DEFINE Good == {T \in SUBSET Trim(r) :
                      /\ t[T] \subseteq T
                      /\ \A f, g \in t[T] : f # g => Distance(f, g) >= r.minimum}
<1>1. {} \in Good
  BY DEF IsTaking
<1>2. ASSUME NEW T \in SUBSET Trim(r), NEW f, IsLast(r, T, f), T \ {f} \in Good
      PROVE  T \in Good
  <2>1. PICK rest : rest = t[T \ {f}]
    OBVIOUS
  <2>2. /\ rest \subseteq T \ {f}
        /\ \A g, h \in rest : g # h => Distance(g, h) >= r.minimum
    BY <1>2, <2>1
  <2>3. f \in T /\ r.minimum \in Int /\ (\A g \in T : g \in Int)
    BY <1>2, InTrim DEF IsLast, Asked
  <2>4. CASE t[T] = rest
    BY <2>2, <2>4
  <2>5. CASE (t[T] = rest \cup {f}) /\ (\A g \in rest : ~ (Distance(f, g) < r.minimum))
    <3>1. ASSUME NEW g \in rest
          PROVE  Distance(f, g) >= r.minimum /\ Distance(g, f) >= r.minimum
      <4>1. g \in Int /\ f \in Int /\ ~ (Distance(f, g) < r.minimum)
        BY <2>2, <2>3, <2>5
      <4> QED BY <2>3, <4>1 DEF Distance
    <3>2. t[T] \subseteq T
      BY <2>2, <2>3, <2>5
    <3>3. \A g, h \in t[T] : g # h => Distance(g, h) >= r.minimum
      BY <2>2, <2>5, <3>1
    <3> QED BY <3>2, <3>3
  <2> QED BY <1>2, <2>1, <2>4, <2>5 DEF IsTaking
<1>3. \A T \in SUBSET Trim(r) : T \in Good
  <2> HIDE DEF Good
  <2> QED BY <1>1, <1>2, ByLast
<1> QED BY <1>3

\* The first is taken.
LEMMA FirstIsTaken ==
  ASSUME NEW r, Asked(r), NEW t, IsTaking(t, r), NEW S \in SUBSET Trim(r),
         NEW first \in S, \A g \in S \ {first} : Before(r, first, g)
  PROVE  first \in t[S]
<1> DEFINE Good == {T \in SUBSET Trim(r) :
                      first \in T /\ (\A g \in T \ {first} : Before(r, first, g)) => first \in t[T]}
<1>1. {} \in Good
  OBVIOUS
<1>2. ASSUME NEW T \in SUBSET Trim(r), NEW f, IsLast(r, T, f), T \ {f} \in Good
      PROVE  T \in Good
  <2> SUFFICES ASSUME first \in T, \A g \in T \ {first} : Before(r, first, g) PROVE first \in t[T]
    OBVIOUS
  <2>1. PICK rest : rest = T \ {f}
    OBVIOUS
  <2>2. f \in T /\ first \in Int /\ f \in Int
    BY <1>2, InTrim DEF IsLast
  <2>3. CASE f = first
    <3>1. ASSUME NEW g \in rest PROVE FALSE
      <4>1. g \in Int /\ Before(r, first, g) /\ Before(r, g, first)
        BY <1>2, <2>1, <2>3, <3>1, InTrim DEF IsLast
      <4> QED BY <2>2, <4>1, BeforeIsOrder
    <3>2. t[rest] = {}
      BY <3>1 DEF IsTaking
    <3>3. t[T] = {} \cup {f}
      BY <1>2, <2>1, <3>2 DEF IsTaking
    <3> QED BY <2>3, <3>3
  <2>4. CASE f # first
    <3>1. first \in t[rest]
      BY <1>2, <2>1, <2>4
    <3>2. t[T] = t[rest] \/ t[T] = t[rest] \cup {f}
      BY <1>2, <2>1 DEF IsTaking
    <3> QED BY <3>1, <3>2
  <2> QED BY <2>3, <2>4
<1>3. \A T \in SUBSET Trim(r) : T \in Good
  <2> HIDE DEF Good
  <2> QED BY <1>1, <1>2, ByLast
<1> QED BY <1>3

\* Of frames that come first as much is taken as without those that follow.
LEMMA TakenGrows ==
  ASSUME NEW r, Asked(r), NEW t, IsTaking(t, r), NEW S \in SUBSET Trim(r), NEW U \in SUBSET S,
         \A f \in S, g \in U : Before(r, f, g) => f \in U
  PROVE  t[U] \subseteq t[S]
<1> DEFINE Good == {T \in SUBSET Trim(r) :
                      U \subseteq T /\ (\A f \in T, g \in U : Before(r, f, g) => f \in U)
                        => t[U] \subseteq t[T]}
<1>1. {} \in Good
  BY DEF IsTaking
<1>2. ASSUME NEW T \in SUBSET Trim(r), NEW f, IsLast(r, T, f), T \ {f} \in Good
      PROVE  T \in Good
  <2> SUFFICES ASSUME U \subseteq T, \A h \in T, g \in U : Before(r, h, g) => h \in U
               PROVE  t[U] \subseteq t[T]
    OBVIOUS
  <2>1. PICK rest : rest = T \ {f}
    OBVIOUS
  <2>2. CASE f \in U
    <3>1. \A h \in T : h \in U
      BY <1>2, <2>2 DEF IsLast
    <3>2. U = T
      BY <3>1
    <3> QED BY <3>2
  <2>3. CASE f \notin U
    <3>1. U \subseteq rest /\ (\A h \in rest, g \in U : Before(r, h, g) => h \in U)
      BY <2>1, <2>3
    <3>2. t[U] \subseteq t[rest]
      BY <1>2, <2>1, <3>1
    <3>3. t[T] = t[rest] \/ t[T] = t[rest] \cup {f}
      BY <1>2, <2>1 DEF IsTaking
    <3> QED BY <3>2, <3>3
  <2> QED BY <2>2, <2>3
<1>3. \A T \in SUBSET Trim(r) : T \in Good
  <2> HIDE DEF Good
  <2> QED BY <1>1, <1>2, ByLast
<1> QED BY <1>3

\* The onsets are candidates, taken in turn.
LEMMA OnsetsAre ==
  ASSUME NEW r, Asked(r)
  PROVE  /\ Candidates(r) \in SUBSET Trim(r) /\ Onsets(r) \subseteq Candidates(r)
         /\ \A f, g \in Onsets(r) : f # g => Distance(f, g) >= r.minimum
<1>1. Candidates(r) \in SUBSET Trim(r)
  BY CandidateIs
<1>2. PICK t : IsTaking(t, r) /\ Onsets(r) = t[Candidates(r)]
  BY OnsetsAreTaken
<1> QED BY <1>1, <1>2, TakenApart

\* A marker lies a look-back before an onset, inside the trim.
LEMMA MarkerIs ==
  ASSUME NEW r, Asked(r), NEW m
  PROVE  m \in Markers(r) <=> m \in Trim(r) /\ m + r.lookBack \in Onsets(r)
<1>1. PICK low \in Nat, back \in Nat : low = r.target.trimStart /\ back = r.lookBack
  BY DEF Asked
<1>2. \A f \in Onsets(r) : f \in Int
  BY OnsetsAre, InTrim
<1>3. \A f \in Trim(r) : f \in Int /\ low < f
  BY <1>1, InTrim
<1>4. ASSUME NEW f \in Onsets(r)
      PROVE  Max({low, f - back}) = IF low >= f - back THEN low ELSE f - back
  BY <1>2, GreaterOfTwo
<1>5. m \in Markers(r) <=> m \in Trim(r) /\ \E f \in Onsets(r) : m = Max({low, f - back})
  BY <1>1 DEF Markers
<1>6. ASSUME m \in Trim(r), NEW f \in Onsets(r), m = Max({low, f - back}) PROVE m + back \in Onsets(r)
  <2>1. m = f - back /\ m \in Int /\ f \in Int
    BY <1>2, <1>3, <1>4, <1>6
  <2>2. m + back = f
    BY <2>1
  <2> QED BY <2>2
<1>7. ASSUME m \in Trim(r), NEW f \in Onsets(r), f = m + back PROVE m = Max({low, f - back})
  <2>1. m \in Int /\ f - back = m /\ low < m
    BY <1>3, <1>7
  <2>2. Max({low, f - back}) = m
    BY <1>4, <2>1
  <2> QED BY <2>2
<1>8. ASSUME m \in Markers(r) PROVE m \in Trim(r) /\ m + back \in Onsets(r)
  <2>1. PICK f \in Onsets(r) : m = Max({low, f - back})
    BY <1>5, <1>8
  <2> QED BY <1>5, <1>6, <1>8, <2>1
<1>9. ASSUME m \in Trim(r), m + back \in Onsets(r) PROVE m \in Markers(r)
  <2>1. PICK f \in Onsets(r) : f = m + back
    BY <1>9
  <2>2. m = Max({low, f - back})
    BY <1>7, <1>9, <2>1
  <2> QED BY <1>5, <1>9, <2>2
<1> QED BY <1>1, <1>8, <1>9

\* What a factor keeps.
LEMMA ProductGrows ==
  ASSUME NEW n \in Nat, NEW a \in Int, NEW b \in Int, a <= b
  PROVE  n * a <= n * b
<1>1. n * (b - a) >= 0
  OBVIOUS
<1>2. n * (b - a) = n * b - n * a
  OBVIOUS
<1> QED BY <1>1, <1>2

\* The earliest of the strongest rises is a candidate, and comes before all others.
LEMMA StrongestLeads ==
  ASSUME NEW r, Asked(r), MaximumStrength(r) > r.floor
  PROVE  \E f \in Candidates(r) :
           /\ Strength(r, f) = MaximumStrength(r)
           /\ \A g \in Candidates(r) \ {f} : Before(r, f, g)
<1>1. PICK top \in Nat, floor \in Nat, sensitivity \in 0 .. 10 :
        top = MaximumStrength(r) /\ floor = r.floor /\ sensitivity = r.sensitivity
  BY MaximumIs DEF Asked
<1>2. top > floor
  BY <1>1
<1>3. PICK S : S = {f \in Trim(r) : Strength(r, f) = top}
  OBVIOUS
<1>4. S \in SUBSET Nat /\ S # {}
  <2>1. S \in SUBSET Nat
    BY <1>3, InTrim
  <2>2. \E f \in Trim(r) : Strength(r, f) = top
    BY <1>1, <1>2, MaximumIs
  <2> QED BY <1>3, <2>1, <2>2
<1>5. PICK f \in S : \A g \in S : f <= g
  BY <1>4, LeastNumber
<1>6. f \in Trim(r) /\ Strength(r, f) = top /\ f \in Nat
  BY <1>3, <1>4
<1>7. \A g : Strength(r, g) \in Nat /\ Strength(r, g) <= top
  <2> SUFFICES ASSUME NEW g PROVE Strength(r, g) \in Nat /\ Strength(r, g) <= top
    OBVIOUS
  <2>1. CASE g \in Trim(r)
    BY <1>1, <2>1, MaximumIs, StrengthTyped
  <2>2. CASE g \notin Trim(r)
    BY <2>2 DEF Strength
  <2> QED BY <2>1, <2>2
<1>8. Strength(r, f - 1) # top
  <2>1. ASSUME Strength(r, f - 1) = top PROVE FALSE
    <3>1. f - 1 \in Trim(r)
      BY <1>2, <2>1 DEF Strength
    <3>2. f <= f - 1
      BY <1>3, <1>5, <2>1, <3>1
    <3> QED BY <1>6, <3>2
  <2> QED BY <2>1
<1>9. top * (100 - 9 * sensitivity) <= top * 100
  BY ProductGrows
<1>10. f \in Candidates(r)
  <2>1. Strength(r, f - 1) < top /\ Strength(r, f + 1) <= top
    BY <1>7, <1>8
  <2>2. 100 * top >= 100 * floor /\ 100 * top >= top * (100 - 9 * sensitivity)
    BY <1>2, <1>9
  <2> QED BY <1>1, <1>2, <1>6, <2>1, <2>2, CandidateIs
<1>11. ASSUME NEW g \in Candidates(r) \ {f} PROVE Before(r, f, g)
  <2>1. g \in Trim(r) /\ g \in Nat
    BY CandidateIs, InTrim
  <2>2. Strength(r, g) = top => f < g
    BY <1>3, <1>5, <1>6, <2>1
  <2>3. Strength(r, g) \in Nat /\ Strength(r, g) <= top
    BY <1>7
  <2> QED BY <1>6, <2>2, <2>3 DEF Before
<1> QED BY <1>1, <1>6, <1>10, <1>11

\* A lower sensitivity asks for stronger rises: what is found with it is found anyway.
LEMMA LessIsFound ==
  ASSUME NEW r, Asked(r), NEW s \in 0 .. r.sensitivity, NEW q, q = [r EXCEPT !.sensitivity = s]
  PROVE  Markers(q) \subseteq Markers(r)
<1>1. /\ q.target = r.target /\ q.envelope = r.envelope /\ q.floor = r.floor
      /\ q.minimum = r.minimum /\ q.lookBack = r.lookBack /\ q.sensitivity = s
  BY DEF Asked
<1>2. r.sensitivity \in 0 .. 10 /\ s \in 0 .. 10 /\ s <= r.sensitivity
  BY DEF Asked
<1>3. Asked(q)
  <2>1. q = [id |-> q.id, target |-> q.target, envelope |-> q.envelope,
             sensitivity |-> q.sensitivity, floor |-> q.floor, minimum |-> q.minimum,
             lookBack |-> q.lookBack, cancelled |-> q.cancelled]
    BY DEF Asked
  <2> QED BY <1>1, <1>2, <2>1 DEF Asked
<1>4. Trim(q) = Trim(r)
  BY <1>1 DEF Trim
<1>5. \A f : Strength(q, f) = Strength(r, f)
  BY <1>1, <1>4 DEF Strength
<1>6. MaximumStrength(q) = MaximumStrength(r)
  BY <1>4, <1>5 DEF MaximumStrength
<1>7. \A f, g : Before(q, f, g) <=> Before(r, f, g)
  BY <1>5 DEF Before
<1>8. PICK top \in Nat, floor \in Nat, high \in 0 .. 10 :
        top = MaximumStrength(r) /\ floor = r.floor /\ high = r.sensitivity
  BY <1>2, MaximumIs DEF Asked
<1>9. PICK least \in Int, more \in Int :
        least = top * (100 - 9 * high) /\ more = top * (100 - 9 * s)
  BY <1>2
<1>10. least <= more
  <2>1. PICK a \in Int, b \in Int : a = 100 - 9 * high /\ b = 100 - 9 * s
    BY <1>2
  <2>2. a <= b
    BY <1>2, <1>8, <2>1
  <2>3. top * a <= top * b
    BY <2>2, ProductGrows
  <2> QED BY <1>9, <2>1, <2>3
<1>11. \A f : Strength(r, f) \in Nat
  BY StrengthTyped
<1>12. \A f : f \in Candidates(r) <=>
               /\ f \in Trim(r) /\ top > floor
               /\ Strength(r, f) > Strength(r, f - 1) /\ Strength(r, f) >= Strength(r, f + 1)
               /\ 100 * Strength(r, f) >= 100 * floor /\ 100 * Strength(r, f) >= least
  BY <1>8, <1>9, CandidateIs
<1>13. \A f : f \in Candidates(q) <=>
               /\ f \in Trim(r) /\ top > floor
               /\ Strength(r, f) > Strength(r, f - 1) /\ Strength(r, f) >= Strength(r, f + 1)
               /\ 100 * Strength(r, f) >= 100 * floor /\ 100 * Strength(r, f) >= more
  BY <1>1, <1>3, <1>4, <1>5, <1>6, <1>8, <1>9, CandidateIs
<1>14. Candidates(q) \in SUBSET Candidates(r) /\ Candidates(r) \in SUBSET Trim(r)
  <2>1. ASSUME NEW f \in Candidates(q) PROVE f \in Candidates(r)
    <3>1. Strength(r, f) \in Nat /\ 100 * Strength(r, f) >= more
      BY <1>11, <1>13
    <3>2. 100 * Strength(r, f) >= least
      BY <1>10, <3>1
    <3> QED BY <1>12, <1>13, <3>2
  <2> QED BY <1>12, <2>1
<1>15. ASSUME NEW f \in Candidates(r), NEW g \in Candidates(q), Before(r, f, g)
       PROVE  f \in Candidates(q)
  <2>1. Strength(r, f) \in Nat /\ Strength(r, g) \in Nat /\ Strength(r, f) >= Strength(r, g)
    BY <1>11, <1>15 DEF Before
  <2>2. 100 * Strength(r, g) >= more
    BY <1>13
  <2>3. 100 * Strength(r, f) >= more
    BY <2>1, <2>2
  <2> QED BY <1>12, <1>13, <2>3
<1>16. PICK t : IsTaking(t, r) /\ Onsets(r) = t[Candidates(r)]
  BY OnsetsAreTaken
<1>17. PICK u : IsTaking(u, q) /\ Onsets(q) = u[Candidates(q)]
  BY <1>3, OnsetsAreTaken
<1>18. IsTaking(u, r)
  <2>1. \A S, f : IsLast(q, S, f) <=> IsLast(r, S, f)
    BY <1>7 DEF IsLast
  <2> QED BY <1>1, <1>4, <1>17, <2>1 DEF IsTaking
<1>19. u[Candidates(q)] = t[Candidates(q)]
  BY <1>14, <1>16, <1>18, TakingIsOne
<1>20. t[Candidates(q)] \subseteq t[Candidates(r)]
  BY <1>14, <1>15, <1>16, TakenGrows
<1>21. Onsets(q) \subseteq Onsets(r)
  BY <1>16, <1>17, <1>19, <1>20
<1>22. ASSUME NEW m \in Markers(q) PROVE m \in Markers(r)
  <2>1. m \in Trim(q) /\ m + q.lookBack \in Onsets(q)
    BY <1>3, MarkerIs
  <2>2. m \in Trim(r) /\ m + r.lookBack \in Onsets(r)
    BY <1>1, <1>4, <1>21, <2>1
  <2> QED BY <2>2, MarkerIs
<1> QED BY <1>22

\* What an analysis finds meets its reference, whatever it is asked.
LEMMA AnalysisMeets ==
  ASSUME NEW r, Asked(r)
  PROVE  AnalysisMeetsReference(r)
<1>1. ASSUME NEW m \in Markers(r), NEW n \in Markers(r), m # n
      PROVE  Distance(m, n) >= r.minimum
  <2>1. PICK back \in Nat, minimum \in Nat : back = r.lookBack /\ minimum = r.minimum
    BY DEF Asked
  <2>2. m \in Nat /\ n \in Nat /\ m + back \in Onsets(r) /\ n + back \in Onsets(r)
    BY <2>1, MarkerIs, InTrim
  <2>3. m + back # n + back
    BY <1>1, <2>2
  <2>4. Distance(m + back, n + back) >= minimum
    BY <2>1, <2>2, <2>3, OnsetsAre
  <2>5. Distance(m + back, n + back) = Distance(m, n)
    BY <2>2 DEF Distance
  <2> QED BY <2>1, <2>4, <2>5
<1>2. ASSUME NEW m \in Markers(r), NEW rise, rise = Strength(r, m + r.lookBack)
      PROVE  rise > 0 /\ rise >= r.floor
  <2>1. PICK f : f = m + r.lookBack
    OBVIOUS
  <2>2. f \in Candidates(r)
    BY <2>1, MarkerIs, OnsetsAre
  <2>3. rise = Strength(r, f) /\ rise \in Nat /\ Strength(r, f - 1) \in Nat /\ r.floor \in Nat
    BY <1>2, <2>1, StrengthTyped DEF Asked
  <2>4. rise > Strength(r, f - 1) /\ 100 * rise >= 100 * r.floor
    BY <2>2, <2>3, CandidateIs
  <2> QED BY <2>3, <2>4
<1>3. ASSUME MaximumStrength(r) > r.floor
      PROVE  {f \in Trim(r) : Strength(r, f) = MaximumStrength(r)} \cap Onsets(r) # {}
  <2>1. PICK f \in Candidates(r) :
          /\ Strength(r, f) = MaximumStrength(r)
          /\ \A g \in Candidates(r) \ {f} : Before(r, f, g)
    BY <1>3, StrongestLeads
  <2>2. PICK t : IsTaking(t, r) /\ Onsets(r) = t[Candidates(r)]
    BY OnsetsAreTaken
  <2>3. Candidates(r) \in SUBSET Trim(r)
    BY OnsetsAre
  <2>4. f \in t[Candidates(r)]
    BY <2>1, <2>2, <2>3, FirstIsTaken
  <2> QED BY <2>1, <2>2, <2>3, <2>4
<1>4. \A s \in 0 .. r.sensitivity : Markers([r EXCEPT !.sensitivity = s]) \subseteq Markers(r)
  BY LessIsFound
<1> QED BY <1>1, <1>2, <1>3, <1>4 DEF AnalysisMeetsReference

-----------------------------------------------------------------------------
(* The operations of a session.                                            *)

\* A target a session may be begun on.
Sound(target) ==
  /\ target \in Targets /\ target.trimStart < target.trimEnd
  /\ \E trim \in Trims : target.trimStart = trim.start /\ target.trimEnd = trim.end

\* The parts of an open session.
LEMMA OpenTyped ==
  ASSUME NEW target, NEW s \in OpenSessions(target)
  PROVE  /\ s = [state |-> s.state, target |-> target, set |-> s.set, undo |-> s.undo,
                 redo |-> s.redo, selected |-> s.selected]
         /\ s.state \in Activities /\ s.target = target /\ s.set \in Cuts(target)
         /\ s.undo \in Seq(Cuts(target)) /\ s.redo \in Seq(Cuts(target))
         /\ s.selected \in 1 .. Len(s.set.regions)
  BY DEF OpenSessions

\* A session is open when its parts are.
LEMMA OpenFrom ==
  ASSUME NEW target, NEW state \in Activities, NEW set \in Cuts(target), NEW undo \in Seq(Cuts(target)),
         NEW redo \in Seq(Cuts(target)), NEW selected \in 1 .. Len(set.regions)
  PROVE  [state |-> state, target |-> target, set |-> set, undo |-> undo, redo |-> redo,
          selected |-> selected] \in OpenSessions(target)
<1>1. PICK s : s = [state |-> state, target |-> target, set |-> set, undo |-> undo, redo |-> redo,
                    selected |-> selected]
  OBVIOUS
<1>2. /\ s \in [state : Activities, target : {target}, set : Cuts(target), undo : Seq(Cuts(target)),
                redo : Seq(Cuts(target)), selected : Int]
      /\ s.set = set /\ s.selected = selected
  BY <1>1
<1> QED BY <1>1, <1>2 DEF OpenSessions

\* The slice selected stays one of the set's.
LEMMA ClampTyped ==
  ASSUME NEW target, NEW set \in Cuts(target), NEW selected \in Nat \ {0}
  PROVE  ClampSelected(selected, set) \in 1 .. Len(set.regions)
  BY CutTyped DEF ClampSelected

\* begin()
LEMMA BegunOpens ==
  ASSUME NEW target, Sound(target)
  PROVE  Begun(target) \in OpenSessions(target)
<1>1. /\ target.id \in Nat /\ target.trimStart \in Int /\ target.trimEnd \in Int
      /\ target.trimStart < target.trimEnd /\ target \in Targets
  BY DEF Sound, Targets
<1>2. PICK bounds : bounds = <<target.trimStart, target.trimEnd>>
  OBVIOUS
<1>3. bounds \in Seq(Int) /\ Len(bounds) = 2 /\ bounds[1] = target.trimStart /\ bounds[2] = target.trimEnd
  BY <1>1, <1>2
<1>4. BoundariesValid(bounds, target.trimStart, target.trimEnd)
  BY <1>1, <1>3 DEF BoundariesValid
<1>5. PICK set : set = SetFromBoundaries(target.id, target, "manual", bounds)
  OBVIOUS
<1>6. set \in Cuts(target)
  <2>1. "manual" \in Algorithms
    BY DEF Algorithms
  <2> QED BY <1>1, <1>3, <1>4, <1>5, <2>1, ManualCut
<1>7. Begun(target) = [state |-> "ready", target |-> target, set |-> set, undo |-> <<>>,
                       redo |-> <<>>, selected |-> 1]
  <2>1. PICK begun : begun = [IdleSession EXCEPT !.state = "ready", !.target = target, !.set = set]
    OBVIOUS
  <2>2. Begun(target) = begun
    BY <1>2, <1>5, <2>1 DEF Begun
  <2>3. begun = [state |-> "ready", target |-> target, set |-> set, undo |-> <<>>,
                 redo |-> <<>>, selected |-> 1]
    BY <2>1 DEF IdleSession
  <2> QED BY <2>2, <2>3
<1>8. <<>> \in Seq(Cuts(target)) /\ 1 \in 1 .. Len(set.regions) /\ "ready" \in Activities
  BY <1>6, CutTyped, EmptySeq DEF Activities
<1> QED BY <1>6, <1>7, <1>8, OpenFrom

\* Same slices, as far as undo and redo go; or slices behind which the old ones lie.
Same(a, b) == b.set = a.set /\ b.undo = a.undo /\ b.redo = a.redo

Lengthened(a, b) ==
  /\ Len(b.undo) > Len(a.undo)
  /\ \A i \in 1 .. Len(a.undo) : b.undo[i] = a.undo[i]
  /\ b.undo[Len(a.undo) + 1] = a.set
  /\ b.redo = <<>>

GoesOn(a, b) == Same(a, b) \/ Lengthened(a, b)

\* What goes on twice goes on.
LEMMA GoesOnFurther ==
  ASSUME NEW target, NEW a \in OpenSessions(target), NEW b \in OpenSessions(target),
         NEW c \in OpenSessions(target), GoesOn(a, b), GoesOn(b, c)
  PROVE  GoesOn(a, c)
<1>1. Len(a.undo) \in Nat /\ Len(b.undo) \in Nat /\ Len(c.undo) \in Nat
  BY OpenTyped, LenProperties
<1>2. CASE Same(a, b)
  BY <1>2 DEF GoesOn, Same, Lengthened
<1>3. CASE Lengthened(a, b) /\ Same(b, c)
  BY <1>3 DEF GoesOn, Same, Lengthened
<1>4. CASE Lengthened(a, b) /\ Lengthened(b, c)
  <2>1. Len(b.undo) > Len(a.undo) /\ Len(c.undo) > Len(b.undo) /\ c.redo = <<>>
    BY <1>4 DEF Lengthened
  <2>2. \A i \in 1 .. Len(a.undo) + 1 : i \in 1 .. Len(b.undo) /\ c.undo[i] = b.undo[i]
    BY <1>1, <1>4, <2>1 DEF Lengthened
  <2>3. \A i \in 1 .. Len(a.undo) : i \in 1 .. Len(a.undo) + 1 /\ c.undo[i] = a.undo[i]
    BY <1>1, <1>4, <2>2 DEF Lengthened
  <2>4. c.undo[Len(a.undo) + 1] = a.set
    <3>1. PICK next : next = Len(a.undo) + 1
      OBVIOUS
    <3>2. next \in 1 .. Len(a.undo) + 1
      BY <1>1, <3>1
    <3>3. c.undo[next] = b.undo[next]
      BY <2>2, <3>2
    <3>4. b.undo[next] = a.set
      BY <1>4, <3>1 DEF Lengthened
    <3> QED BY <3>1, <3>3, <3>4
  <2> QED BY <1>1, <2>1, <2>3, <2>4 DEF GoesOn, Lengthened
<1> QED BY <1>2, <1>3, <1>4 DEF GoesOn

\* applyProvisional()
LEMMA AppliedStays ==
  ASSUME NEW target, NEW s \in OpenSessions(target), NEW set \in Cuts(target)
  PROVE  /\ Applied(s, set) \in OpenSessions(target) /\ Applied(s, set).set = set
         /\ GoesOn(s, Applied(s, set))
<1>1. /\ s.state \in Activities /\ s.target = target /\ s.set \in Cuts(target)
      /\ s.undo \in Seq(Cuts(target)) /\ s.redo \in Seq(Cuts(target))
      /\ s.selected \in 1 .. Len(s.set.regions)
      /\ s = [state |-> s.state, target |-> target, set |-> s.set, undo |-> s.undo,
              redo |-> s.redo, selected |-> s.selected]
  BY OpenTyped
<1>2. "ready" \in Activities
  BY DEF Activities
<1>3. PICK new : new = Applied(s, set)
  OBVIOUS
<1>4. CASE set = s.set
  <2>1. new = [s EXCEPT !.state = "ready"]
    BY <1>3, <1>4 DEF Applied
  <2>2. PICK undo, redo, selected : undo = s.undo /\ redo = s.redo /\ selected = s.selected
    OBVIOUS
  <2>3. new = [state |-> "ready", target |-> target, set |-> set, undo |-> undo, redo |-> redo,
               selected |-> selected]
    BY <1>1, <1>4, <2>1, <2>2
  <2>4. new \in OpenSessions(target)
    BY <1>1, <1>2, <1>4, <2>2, <2>3, OpenFrom
  <2>5. new.set = set
    BY <2>3
  <2>6. GoesOn(s, new)
    BY <1>4, <2>2, <2>3 DEF GoesOn, Same
  <2> QED BY <1>3, <2>4, <2>5, <2>6
<1>5. CASE set # s.set
  <2>1. PICK undo, selected : undo = Append(s.undo, s.set) /\ selected = ClampSelected(s.selected, set)
    OBVIOUS
  <2>2. new = [s EXCEPT !.state = "ready", !.set = set, !.undo = undo, !.redo = <<>>,
                        !.selected = selected]
    BY <1>3, <1>5, <2>1 DEF Applied
  <2>3. new = [state |-> "ready", target |-> target, set |-> set, undo |-> undo, redo |-> <<>>,
               selected |-> selected]
    BY <1>1, <2>2
  <2>4. undo \in Seq(Cuts(target)) /\ <<>> \in Seq(Cuts(target))
    BY <1>1, <2>1, AppendProperties, EmptySeq
  <2>5. selected \in 1 .. Len(set.regions)
    <3>1. s.selected \in Nat \ {0}
      BY <1>1
    <3> QED BY <2>1, <3>1, ClampTyped
  <2>6. new \in OpenSessions(target)
    BY <1>2, <2>3, <2>4, <2>5, OpenFrom
  <2>7. new.set = set
    BY <2>3
  <2>8. GoesOn(s, new)
    <3>1. PICK old, one : old = s.undo /\ one = s.set
      OBVIOUS
    <3>2. /\ Len(undo) = Len(old) + 1 /\ undo[Len(old) + 1] = one /\ Len(old) \in Nat
          /\ \A i \in 1 .. Len(old) : undo[i] = old[i]
      BY <1>1, <2>1, <3>1, AppendProperties, LenProperties
    <3>3. new.undo = undo /\ new.redo = <<>>
      BY <2>3
    <3> QED BY <3>1, <3>2, <3>3 DEF GoesOn, Lengthened
  <2> QED BY <1>3, <2>6, <2>7, <2>8
<1> QED BY <1>4, <1>5

\* undoSessionEdit()
LEMMA RewoundStays ==
  ASSUME NEW target, NEW s \in OpenSessions(target), s.undo # <<>>
  PROVE  Rewound(s) \in OpenSessions(target)
<1>1. /\ s.target = target /\ s.set \in Cuts(target)
      /\ s.undo \in Seq(Cuts(target)) /\ s.redo \in Seq(Cuts(target))
      /\ s.selected \in 1 .. Len(s.set.regions)
      /\ s = [state |-> s.state, target |-> target, set |-> s.set, undo |-> s.undo,
              redo |-> s.redo, selected |-> s.selected]
  BY OpenTyped
<1>2. PICK last, set : last = Len(s.undo) /\ set = s.undo[last]
  OBVIOUS
<1>3. last \in Nat \ {0} /\ set \in Cuts(target)
  BY <1>1, <1>2, EmptySeq, ElementOfSeq
<1>4. PICK undo, redo, selected :
        /\ undo = SubSeq(s.undo, 1, last - 1) /\ redo = Append(s.redo, s.set)
        /\ selected = ClampSelected(s.selected, set)
  OBVIOUS
<1>5. Rewound(s) = [s EXCEPT !.state = "ready", !.set = set, !.undo = undo, !.redo = redo,
                             !.selected = selected]
  BY <1>2, <1>4 DEF Rewound
<1>6. Rewound(s) = [state |-> "ready", target |-> target, set |-> set, undo |-> undo, redo |-> redo,
                    selected |-> selected]
  BY <1>1, <1>5
<1>7. undo \in Seq(Cuts(target))
  <2>1. PICK n : n = last - 1
    OBVIOUS
  <2>2. 1 \in Int /\ n \in Int /\ \A i \in 1 .. n : i \in 1 .. Len(s.undo)
    BY <1>2, <1>3, <2>1
  <2>3. \A i \in 1 .. n : s.undo[i] \in Cuts(target)
    BY <1>1, <2>2, ElementOfSeq
  <2> QED BY <1>4, <2>1, <2>2, <2>3, SubSeqProperties
<1>8. redo \in Seq(Cuts(target)) /\ "ready" \in Activities
  BY <1>1, <1>4, AppendProperties DEF Activities
<1>9. selected \in 1 .. Len(set.regions)
  <2>1. s.selected \in Nat \ {0}
    BY <1>1
  <2> QED BY <1>3, <1>4, <2>1, ClampTyped
<1> QED BY <1>3, <1>6, <1>7, <1>8, <1>9, OpenFrom

\* redoSessionEdit()
LEMMA ReplayedStays ==
  ASSUME NEW target, NEW s \in OpenSessions(target), s.redo # <<>>
  PROVE  Replayed(s) \in OpenSessions(target)
<1>1. /\ s.target = target /\ s.set \in Cuts(target)
      /\ s.undo \in Seq(Cuts(target)) /\ s.redo \in Seq(Cuts(target))
      /\ s.selected \in 1 .. Len(s.set.regions)
      /\ s = [state |-> s.state, target |-> target, set |-> s.set, undo |-> s.undo,
              redo |-> s.redo, selected |-> s.selected]
  BY OpenTyped
<1>2. PICK last, set : last = Len(s.redo) /\ set = s.redo[last]
  OBVIOUS
<1>3. last \in Nat \ {0} /\ set \in Cuts(target)
  BY <1>1, <1>2, EmptySeq, ElementOfSeq
<1>4. PICK undo, redo, selected :
        /\ redo = SubSeq(s.redo, 1, last - 1) /\ undo = Append(s.undo, s.set)
        /\ selected = ClampSelected(s.selected, set)
  OBVIOUS
<1>5. Replayed(s) = [s EXCEPT !.state = "ready", !.set = set, !.redo = redo, !.undo = undo,
                              !.selected = selected]
  BY <1>2, <1>4 DEF Replayed
<1>6. Replayed(s) = [state |-> "ready", target |-> target, set |-> set, undo |-> undo,
                     redo |-> redo, selected |-> selected]
  BY <1>1, <1>5
<1>7. redo \in Seq(Cuts(target))
  <2>1. PICK n : n = last - 1
    OBVIOUS
  <2>2. 1 \in Int /\ n \in Int /\ \A i \in 1 .. n : i \in 1 .. Len(s.redo)
    BY <1>2, <1>3, <2>1
  <2>3. \A i \in 1 .. n : s.redo[i] \in Cuts(target)
    BY <1>1, <2>2, ElementOfSeq
  <2> QED BY <1>4, <2>1, <2>2, <2>3, SubSeqProperties
<1>8. undo \in Seq(Cuts(target)) /\ "ready" \in Activities
  BY <1>1, <1>4, AppendProperties DEF Activities
<1>9. selected \in 1 .. Len(set.regions)
  <2>1. s.selected \in Nat \ {0}
    BY <1>1
  <2> QED BY <1>3, <1>4, <2>1, ClampTyped
<1> QED BY <1>3, <1>6, <1>7, <1>8, <1>9, OpenFrom

\* An edit of the boundaries the session accepts.
LEMMA ManualStays ==
  ASSUME NEW target, Sound(target), NEW s \in OpenSessions(target), NEW bounds \in Seq(Int),
         ManualAccepts(s, bounds)
  PROVE  /\ WithBoundaries(s, bounds) \in OpenSessions(target)
         /\ WithBoundaries(s, bounds).set.discard = FALSE
         /\ GoesOn(s, WithBoundaries(s, bounds))
<1>1. s.target = target
  BY OpenTyped
<1>2. BoundariesValid(bounds, target.trimStart, target.trimEnd)
  BY <1>1 DEF ManualAccepts
<1>3. target \in Targets /\ target.id \in Nat /\ target.trimStart < target.trimEnd
  BY DEF Sound, Targets
<1>4. PICK set : set = SetFromBoundaries(target.id, target, "manual", bounds)
  OBVIOUS
<1>5. set \in Cuts(target)
  <2>1. "manual" \in Algorithms
    BY DEF Algorithms
  <2> QED BY <1>2, <1>3, <1>4, <2>1, ManualCut
<1>6. set.discard = FALSE
  <2>1. PICK regions : regions = RegionsBetween(bounds)
    OBVIOUS
  <2>2. set = [uuid |-> target.id, asset |-> target.asset, layer |-> target.layer,
               trimStart |-> target.trimStart, trimEnd |-> target.trimEnd,
               algorithm |-> "manual", discard |-> FALSE, regions |-> regions]
    BY <1>4, <2>1, SetsAreCuts DEF CutAt
  <2> QED BY <2>2
<1>7. WithBoundaries(s, bounds) = Applied(s, set)
  BY <1>1, <1>4 DEF WithBoundaries, NewSet
<1>8. PICK new : new = Applied(s, set)
  OBVIOUS
<1>9. new \in OpenSessions(target) /\ new.set = set /\ GoesOn(s, new)
  BY <1>5, <1>8, AppliedStays
<1> QED BY <1>6, <1>7, <1>8, <1>9

\* addMarker()
LEMMA AddedStays ==
  ASSUME NEW target, Sound(target), NEW s \in OpenSessions(target), NEW frame \in Int,
         AddAccepts(s, frame)
  PROVE  /\ WithMarker(s, frame) \in OpenSessions(target)
         /\ WithMarker(s, frame).set.discard = FALSE
         /\ GoesOn(s, WithMarker(s, frame))
<1>1. PICK bounds : bounds = Inserted(Boundaries(s), frame)
  OBVIOUS
<1>2. bounds \in Seq(Int)
  <2>1. Boundaries(s) \in Seq(Int)
    BY OpenTyped, BoundariesTyped
  <2> QED BY <1>1, <2>1, InsertedTyped
<1>3. ManualAccepts(s, bounds) /\ WithMarker(s, frame) = WithBoundaries(s, bounds)
  BY <1>1 DEF AddAccepts, WithMarker
<1> QED BY <1>2, <1>3, ManualStays

\* markCurrentSetLazy(), of a set without a remainder.
LEMMA MarkedLazyStays ==
  ASSUME NEW target, NEW s \in OpenSessions(target), s.set.discard = FALSE
  PROVE  MarkedLazy(s) \in OpenSessions(target)
<1>1. /\ s = [state |-> s.state, target |-> target, set |-> s.set, undo |-> s.undo,
              redo |-> s.redo, selected |-> s.selected]
      /\ s.set \in Cuts(target) /\ s.undo \in Seq(Cuts(target)) /\ s.redo \in Seq(Cuts(target))
      /\ s.selected \in 1 .. Len(s.set.regions)
  BY OpenTyped
<1>2. CASE ~Ready(s)
  BY <1>2 DEF MarkedLazy
<1>3. CASE Ready(s)
  <2>1. PICK set, lazySet : set = s.set /\ lazySet = [set EXCEPT !.algorithm = "lazy"]
    OBVIOUS
  <2>2. set \in SliceSets /\ IsCut(set, target) /\ set.discard = FALSE
    BY <1>1, <2>1, CutTyped
  <2>3. lazySet \in SliceSets
    BY <2>1, <2>2 DEF SliceSets, Algorithms
  <2>4. /\ lazySet.regions = set.regions /\ lazySet.discard = FALSE
        /\ lazySet.trimStart = set.trimStart /\ lazySet.trimEnd = set.trimEnd
    BY <2>1, <2>2 DEF SliceSets
  <2>5. MustBeContiguous(set) /\ MustBeContiguous(lazySet)
    BY <2>2, <2>4 DEF MustBeContiguous
  <2>6. \A i : PreviousEnd(lazySet, i) = PreviousEnd(set, i)
    BY <2>4 DEF PreviousEnd
  <2>7. SliceSetValid(lazySet)
    BY <2>2, <2>4, <2>5, <2>6 DEF SliceSetValid, IsCut
  <2>8. lazySet \in Cuts(target)
    BY <2>2, <2>3, <2>4, <2>7 DEF Cuts, IsCut
  <2>9. MarkedLazy(s) = [s EXCEPT !.set = lazySet, !.state = "ready"]
    <3>1. MarkedLazy(s) = [s EXCEPT !.set.algorithm = "lazy", !.state = "ready"]
      BY <1>3 DEF MarkedLazy
    <3>2. "set" \in DOMAIN s
      BY <1>1
    <3>3. [s EXCEPT !.set.algorithm = "lazy"] = [s EXCEPT !.set = lazySet]
      BY <2>1, <3>2
    <3> QED BY <3>1, <3>3
  <2>10. PICK undo, redo, selected : undo = s.undo /\ redo = s.redo /\ selected = s.selected
    OBVIOUS
  <2>11. MarkedLazy(s) = [state |-> "ready", target |-> target, set |-> lazySet, undo |-> undo,
                          redo |-> redo, selected |-> selected]
    <3>1. PICK new : new = MarkedLazy(s)
      OBVIOUS
    <3>2. new = [s EXCEPT !.set = lazySet, !.state = "ready"]
      BY <2>9, <3>1
    <3>3. PICK activity : activity = s.state
      OBVIOUS
    <3>4. s = [state |-> activity, target |-> target, set |-> set, undo |-> undo,
               redo |-> redo, selected |-> selected]
      BY <1>1, <2>1, <2>10, <3>3
    <3>5. new = [state |-> "ready", target |-> target, set |-> lazySet, undo |-> undo,
                 redo |-> redo, selected |-> selected]
      BY <3>2, <3>4
    <3> QED BY <3>1, <3>5
  <2>12. selected \in 1 .. Len(lazySet.regions) /\ "ready" \in Activities
    BY <1>1, <2>1, <2>4, <2>10 DEF Activities
  <2> QED BY <1>1, <2>8, <2>10, <2>11, <2>12, OpenFrom
<1> QED BY <1>2, <1>3

\* The markers of the lazy capture, one after the other.
LEMMA LazyFold ==
  ASSUME NEW q \in Seq(Int), NEW V, NEW start \in V,
         \A v \in V, frame \in Int : WithLazyMarker(v, frame) \in V
  PROVE  FoldLeft(WithLazyMarker, start, q) \in V
<1> DEFINE n == Len(q)
           c == [s \in SUBSET (1 .. n) |-> Max(s)]
           F == [iv \in (1 .. n) \X V |-> WithLazyMarker(iv[2], q[iv[1]])]
           Solves(g) == g = [s \in SUBSET DOMAIN q |->
                               IF s = {} THEN start ELSE WithLazyMarker(g[s \ {Max(s)}], q[Max(s)])]
<1>1. n \in Nat /\ DOMAIN q = 1 .. n /\ IsFiniteSet(1 .. n) /\ \A i \in 1 .. n : q[i] \in Int
  BY LenProperties, ElementOfSeq, FS_Interval
<1> HIDE DEF n
<1>2. \A s \in SUBSET (1 .. n) : s # {} => Max(s) \in s /\ c[s] = Max(s) /\ c[s] \in s
  BY <1>1, LastOfPositions
<1>3. \A v \in V, i \in 1 .. n : WithLazyMarker(v, q[i]) \in V
  BY <1>1
<1>4. F \in [(1 .. n) \X V -> V]
  <2>1. \A iv \in (1 .. n) \X V : WithLazyMarker(iv[2], q[iv[1]]) \in V
    BY <1>3
  <2> QED BY <2>1
<1> HIDE DEF c, F
<1>5. PICK g : IsFold(g, 1 .. n, V, start, F, c)
  BY <1>1, <1>2, <1>4, FoldExists
<1>6. ASSUME NEW s \in SUBSET (1 .. n), s # {}
      PROVE  g[s] = WithLazyMarker(g[s \ {Max(s)}], q[Max(s)])
  <2>1. PICK i, rest : i = Max(s) /\ rest = g[s \ {Max(s)}]
    OBVIOUS
  <2>2. i \in 1 .. n /\ rest \in V /\ g[s] = F[<<i, rest>>]
    BY <1>2, <1>5, <1>6, <2>1 DEF IsFold
  <2>3. F[<<i, rest>>] = WithLazyMarker(rest, q[i])
    BY <2>2 DEF F
  <2> QED BY <2>1, <2>2, <2>3
<1>7. Solves(g)
  <2>1. DOMAIN g = SUBSET (1 .. n) /\ g = [s \in DOMAIN g |-> g[s]] /\ g[{}] = start
    BY <1>5 DEF IsFold
  <2> QED BY <1>1, <1>6, <2>1
<1>8. FoldLeft(WithLazyMarker, start, q) = (CHOOSE h : Solves(h))[DOMAIN q]
  BY DEF FoldLeft, MapThenFoldSet
<1>9. PICK h : h = CHOOSE x : Solves(x)
  OBVIOUS
<1>10. Solves(h) /\ FoldLeft(WithLazyMarker, start, q) = h[DOMAIN q]
  BY <1>7, <1>8, <1>9
<1>11. ASSUME NEW s \in SUBSET (1 .. n)
       PROVE  h[s] = IF s = {} THEN start ELSE WithLazyMarker(h[s \ {Max(s)}], q[Max(s)])
  <2>1. \A x : h = x => h[s] = x[s]
    OBVIOUS
  <2> QED BY <1>1, <1>10, <2>1
<1> HIDE DEF Solves
<1>12. \A s \in SUBSET (1 .. n) : s # {} => (h[s \ {c[s]}] \in V => h[s] \in V)
  <2> SUFFICES ASSUME NEW s \in SUBSET (1 .. n), s # {}, h[s \ {c[s]}] \in V PROVE h[s] \in V
    OBVIOUS
  <2>1. PICK i, rest : i = Max(s) /\ rest = h[s \ {Max(s)}]
    OBVIOUS
  <2>2. i \in 1 .. n /\ rest \in V /\ h[s] = WithLazyMarker(rest, q[i])
    BY <1>2, <1>11, <2>1
  <2> QED BY <1>3, <2>2
<1>13. h[1 .. n] \in V
  <2>1. PICK S : S = 1 .. n
    OBVIOUS
  <2>2. IsFiniteSet(S) /\ h[{}] \in V /\ \A s \in SUBSET S : s # {} => c[s] \in s
    BY <1>1, <1>2, <1>11, <2>1
  <2>3. \A s \in SUBSET S : s # {} => (h[s \ {c[s]}] \in V => h[s] \in V)
    BY <1>12, <2>1
  <2>4. h[S] \in V
    BY <2>2, <2>3, FoldStays
  <2> QED BY <2>1, <2>4
<1> QED BY <1>1, <1>10, <1>13

\* drainToSession() of markers in any order; without slices it does nothing.
LEMMA MarkersStay ==
  ASSUME NEW target, Sound(target), NEW start \in OpenSessions(target), NEW q \in Seq(Int)
  PROVE  /\ FoldLeft(WithLazyMarker, start, q) \in OpenSessions(target)
         /\ \/ FoldLeft(WithLazyMarker, start, q).set = start.set
            \/ FoldLeft(WithLazyMarker, start, q).set.discard = FALSE
         /\ GoesOn(start, FoldLeft(WithLazyMarker, start, q))
         /\ FoldLeft(WithLazyMarker, start, q) = start \/ Ready(start)
<1> DEFINE V == {s \in OpenSessions(target) : /\ s.set = start.set \/ s.set.discard = FALSE
                                              /\ GoesOn(start, s)
                                              /\ s = start \/ Ready(start)}
<1>1. ASSUME NEW v \in V, NEW frame \in Int PROVE WithLazyMarker(v, frame) \in V
  <2>1. PICK new : new = WithMarker(v, frame)
    OBVIOUS
  <2>2. CASE Ready(v) /\ AddAccepts(v, frame) /\ WithLazyMarker(v, frame) = new
    <3>1. new \in OpenSessions(target) /\ new.set.discard = FALSE /\ GoesOn(v, new)
      BY <2>1, <2>2, AddedStays
    <3>2. GoesOn(start, new)
      BY <3>1, GoesOnFurther
    <3>3. Ready(start)
      BY <2>2
    <3> QED BY <2>2, <3>1, <3>2, <3>3
  <2>3. CASE WithLazyMarker(v, frame) = v
    BY <2>3
  <2> QED BY <2>1, <2>2, <2>3 DEF WithLazyMarker
<1>2. start \in V
  BY DEF GoesOn, Same
<1>3. PICK end : end = FoldLeft(WithLazyMarker, start, q)
  OBVIOUS
<1>4. end \in V
  <2> HIDE DEF V
  <2> QED BY <1>1, <1>2, <1>3, LazyFold
<1> QED BY <1>3, <1>4

-----------------------------------------------------------------------------
(* The workspace: what it drains, what results it takes, what it snaps.    *)

IsWork(w) == w = [session |-> w.session, plan |-> w.plan, analysis |-> w.analysis]

\* What analyses of a target may find.
FoundSets(target) ==
  {set \in SliceSets : /\ set.trimStart = target.trimStart /\ set.trimEnd = target.trimEnd
                       /\ MustBeContiguous(set)}

\* A contiguous set that passes the validation is a cut of its trim.
LEMMA FoundCut ==
  ASSUME NEW target, NEW set \in FoundSets(target), SliceSetValid(set)
  PROVE  set \in Cuts(target)
<1>1. /\ set \in SliceSets /\ set.trimStart = target.trimStart /\ set.trimEnd = target.trimEnd
      /\ MustBeContiguous(set)
  BY DEF FoundSets
<1>2. Len(set.regions) \in Nat
  BY <1>1, LenProperties DEF SliceSets
<1>3. 1 \in 1 .. Len(set.regions)
  BY <1>2 DEF SliceSetValid
<1>4. set.regions[1].start = PreviousEnd(set, 1)
  BY <1>1, <1>3 DEF SliceSetValid
<1>5. set.regions[1].start = target.trimStart
  BY <1>1, <1>4 DEF PreviousEnd
<1> QED BY <1>1, <1>5 DEF Cuts, IsCut

\* drainLazyMarkers()
LEMMA DrainedStays ==
  ASSUME NEW target, Sound(target), NEW w, IsWork(w), w.session \in OpenSessions(target),
         NEW q \in Seq(Int)
  PROVE  /\ IsWork(Drained(w, q)) /\ Drained(w, q).session \in OpenSessions(target)
         /\ GoesOn(w.session, Drained(w, q).session)
         /\ Drained(w, q).session = w.session \/ Ready(w.session)
<1>1. PICK inOrder, s : inOrder = InFrameOrder(q) /\ s = FoldLeft(WithLazyMarker, w.session, inOrder)
  OBVIOUS
<1>2. inOrder \in Seq(Int)
  BY <1>1, InFrameOrderTyped
<1>3. PICK start : start = w.session
  OBVIOUS
<1>4. s = FoldLeft(WithLazyMarker, start, inOrder) /\ start \in OpenSessions(target)
  BY <1>1, <1>3
<1>5. /\ s \in OpenSessions(target) /\ (s.set = start.set \/ s.set.discard = FALSE)
      /\ GoesOn(start, s) /\ (s = start \/ Ready(start))
  BY <1>2, <1>4, MarkersStay
<1>6. DrainedSession(w.session, q) = s
  BY <1>1 DEF DrainedSession
<1>7. Drained(w, q) = IF s.set = start.set THEN w
                      ELSE [w EXCEPT !.session = MarkedLazy(s), !.plan = None]
  BY <1>3, <1>6 DEF Drained
<1>8. CASE s.set = start.set
  <2>1. Drained(w, q) = w
    BY <1>7, <1>8
  <2> QED BY <2>1 DEF GoesOn, Same
<1>9. CASE s.set # start.set
  <2>1. PICK marked, analysis, new : marked = MarkedLazy(s) /\ analysis = w.analysis /\ new = Drained(w, q)
    OBVIOUS
  <2>2. marked \in OpenSessions(target)
    BY <1>5, <1>9, <2>1, MarkedLazyStays
  <2>3. new = [w EXCEPT !.session = marked, !.plan = None]
    BY <1>7, <1>9, <2>1
  <2>4. new = [session |-> marked, plan |-> None, analysis |-> analysis]
    BY <2>1, <2>3 DEF IsWork
  <2>5. IsWork(new) /\ new.session = marked
    BY <2>4 DEF IsWork
  <2>6. Lengthened(start, s) /\ Ready(start)
    BY <1>5, <1>9 DEF GoesOn, Same
  <2>7. marked.undo = s.undo /\ marked.redo = s.redo
    <3>1. s = [state |-> s.state, target |-> target, set |-> s.set, undo |-> s.undo,
               redo |-> s.redo, selected |-> s.selected]
      BY <1>5, OpenTyped
    <3> QED BY <2>1, <3>1 DEF MarkedLazy
  <2>8. GoesOn(start, marked)
    BY <2>6, <2>7 DEF GoesOn, Lengthened
  <2> QED BY <1>3, <2>1, <2>2, <2>5, <2>6, <2>8
<1> QED BY <1>8, <1>9

\* The results of analyses, one after the other.
LEMMA HandledFold ==
  ASSUME NEW q, IsSequence(q), NEW V, NEW w \in V,
         \A v \in V, i \in 1 .. Len(q) : Handled(v, q[i]) \in V
  PROVE  FoldLeft(Handled, w, q) \in V
<1> DEFINE n == Len(q)
           c == [s \in SUBSET (1 .. n) |-> Max(s)]
           F == [iv \in (1 .. n) \X V |-> Handled(iv[2], q[iv[1]])]
           Solves(g) == g = [s \in SUBSET DOMAIN q |->
                               IF s = {} THEN w ELSE Handled(g[s \ {Max(s)}], q[Max(s)])]
<1>1. n \in Nat /\ DOMAIN q = 1 .. n /\ IsFiniteSet(1 .. n)
  BY DomainOfSequence, FS_Interval
<1>2. \A v \in V, i \in 1 .. n : Handled(v, q[i]) \in V
  OBVIOUS
<1> HIDE DEF n
<1>3. \A s \in SUBSET (1 .. n) : s # {} => Max(s) \in s /\ c[s] = Max(s) /\ c[s] \in s
  BY <1>1, LastOfPositions
<1>4. F \in [(1 .. n) \X V -> V]
  <2>1. \A iv \in (1 .. n) \X V : Handled(iv[2], q[iv[1]]) \in V
    BY <1>2
  <2> QED BY <2>1
<1> HIDE DEF c, F
<1>5. PICK g : IsFold(g, 1 .. n, V, w, F, c)
  BY <1>1, <1>3, <1>4, FoldExists
<1>6. ASSUME NEW s \in SUBSET (1 .. n), s # {}
      PROVE  g[s] = Handled(g[s \ {Max(s)}], q[Max(s)])
  <2>1. PICK i, rest : i = Max(s) /\ rest = g[s \ {Max(s)}]
    OBVIOUS
  <2>2. i \in 1 .. n /\ rest \in V /\ g[s] = F[<<i, rest>>]
    BY <1>3, <1>5, <1>6, <2>1 DEF IsFold
  <2>3. F[<<i, rest>>] = Handled(rest, q[i])
    BY <2>2 DEF F
  <2> QED BY <2>1, <2>2, <2>3
<1>7. Solves(g)
  <2>1. DOMAIN g = SUBSET (1 .. n) /\ g = [s \in DOMAIN g |-> g[s]] /\ g[{}] = w
    BY <1>5 DEF IsFold
  <2> QED BY <1>1, <1>6, <2>1
<1>8. FoldLeft(Handled, w, q) = (CHOOSE h : Solves(h))[DOMAIN q]
  BY DEF FoldLeft, MapThenFoldSet
<1>9. PICK h : h = CHOOSE x : Solves(x)
  OBVIOUS
<1>10. Solves(h) /\ FoldLeft(Handled, w, q) = h[DOMAIN q]
  BY <1>7, <1>8, <1>9
<1>11. ASSUME NEW s \in SUBSET (1 .. n)
       PROVE  h[s] = IF s = {} THEN w ELSE Handled(h[s \ {Max(s)}], q[Max(s)])
  <2>1. \A x : h = x => h[s] = x[s]
    OBVIOUS
  <2> QED BY <1>1, <1>10, <2>1
<1> HIDE DEF Solves
<1>12. \A s \in SUBSET (1 .. n) : s # {} => (h[s \ {c[s]}] \in V => h[s] \in V)
  <2> SUFFICES ASSUME NEW s \in SUBSET (1 .. n), s # {}, h[s \ {c[s]}] \in V PROVE h[s] \in V
    OBVIOUS
  <2>1. PICK i, rest : i = Max(s) /\ rest = h[s \ {Max(s)}]
    OBVIOUS
  <2>2. i \in 1 .. n /\ rest \in V /\ h[s] = Handled(rest, q[i])
    BY <1>3, <1>11, <2>1
  <2> QED BY <1>2, <2>2
<1>13. h[1 .. n] \in V
  <2>1. PICK S : S = 1 .. n
    OBVIOUS
  <2>2. IsFiniteSet(S) /\ h[{}] \in V /\ \A s \in SUBSET S : s # {} => c[s] \in s
    BY <1>1, <1>3, <1>11, <2>1
  <2>3. \A s \in SUBSET S : s # {} => (h[s \ {c[s]}] \in V => h[s] \in V)
    BY <1>12, <2>1
  <2>4. h[S] \in V
    BY <2>2, <2>3, FoldStays
  <2> QED BY <2>1, <2>4
<1> QED BY <1>1, <1>10, <1>13

\* handleCompletedJob() of results whose targets have the trim of the session's, where
\* they are of the same revision of the same project; without a set it takes none.
LEMMA HandledStay ==
  ASSUME NEW q, IsSequence(q), NEW w, IsWork(w), NEW target,
         Ready(w.session) => w.session \in OpenSessions(target),
         \A i \in 1 .. Len(q) :
           /\ q[i].set \in FoundSets(q[i].target)
           /\ q[i].target.life = target.life /\ q[i].target.revision = target.revision =>
                /\ q[i].target.trimStart = target.trimStart
                /\ q[i].target.trimEnd = target.trimEnd
  PROVE  /\ IsWork(FoldLeft(Handled, w, q))
         /\ \/ FoldLeft(Handled, w, q).session = w.session
            \/ /\ FoldLeft(Handled, w, q).session \in OpenSessions(target) /\ Ready(w.session)
               /\ GoesOn(w.session, FoldLeft(Handled, w, q).session)
<1> DEFINE S == {w.session} \cup {s \in OpenSessions(target) : /\ Ready(w.session)
                                                               /\ GoesOn(w.session, s)}
           V == [session : S, plan : {w.plan, None}, analysis : {w.analysis, None}]
<1>1. w \in V
  BY DEF IsWork
<1>2. ASSUME NEW v \in V, NEW i \in 1 .. Len(q) PROVE Handled(v, q[i]) \in V
  <2>1. PICK r : r = q[i]
    OBVIOUS
  <2>2. PICK s \in S, plan \in {w.plan, None}, analysis \in {w.analysis, None} :
          s = v.session /\ v = [session |-> s, plan |-> plan, analysis |-> analysis]
    OBVIOUS
  <2>3. CASE Ready(s) /\ ResultAccepted(s, r)
    <3>1. Ready(w.session) /\ s \in OpenSessions(target)
      BY <2>2, <2>3
    <3>2. s.target = target
      BY <3>1, OpenTyped
    <3>3. /\ SliceSetValid(r.set) /\ r.target.life = target.life
          /\ r.target.revision = target.revision
      BY <2>3, <3>2 DEF ResultAccepted, IsCurrentTarget, Applies
    <3>4. r.set \in FoundSets(target)
      BY <2>1, <3>3 DEF FoundSets
    <3>5. r.set \in Cuts(target)
      BY <3>3, <3>4, FoundCut
    <3>6. PICK new : new = Applied(s, r.set)
      OBVIOUS
    <3>7. new \in OpenSessions(target) /\ GoesOn(s, new)
      BY <3>1, <3>5, <3>6, AppliedStays
    <3>8. new \in S
      <4>1. PICK start : start = w.session
        OBVIOUS
      <4>2. start \in OpenSessions(target) /\ GoesOn(start, s)
        BY <3>1, <4>1 DEF GoesOn, Same
      <4>3. GoesOn(start, new)
        BY <3>1, <3>7, <4>2, GoesOnFurther
      <4> QED BY <3>1, <3>7, <4>1, <4>3
    <3>9. Handled(v, r) = [v EXCEPT !.analysis = None, !.plan = None, !.session = new]
      BY <2>2, <2>3, <3>6 DEF Handled
    <3> HIDE DEF S
    <3>10. Handled(v, r) = [session |-> new, plan |-> None, analysis |-> None]
      BY <2>2, <3>9
    <3> QED BY <2>1, <3>8, <3>10
  <2>4. CASE ~(Ready(s) /\ ResultAccepted(s, r))
    <3>1. Handled(v, r) = [v EXCEPT !.analysis = None]
      BY <2>2, <2>4 DEF Handled
    <3> HIDE DEF S
    <3>2. Handled(v, r) = [session |-> s, plan |-> plan, analysis |-> None]
      BY <2>2, <3>1
    <3> QED BY <2>1, <2>2, <3>2
  <2> QED BY <2>3, <2>4
<1>3. PICK new : new = FoldLeft(Handled, w, q)
  OBVIOUS
<1>4. new \in V
  <2> HIDE DEF V
  <2> QED BY <1>1, <1>2, <1>3, HandledFold
<1>5. IsWork(new) /\ new.session \in S
  <2> HIDE DEF S
  <2> QED BY <1>4 DEF IsWork
<1> QED BY <1>3, <1>5

\* A number held between two others is one.
LEMMA ClampedTyped ==
  ASSUME NEW x \in Int, NEW low \in Int, NEW high \in Int
  PROVE  Clamp(x, low, high) \in Int
<1>1. CASE x < low
  BY <1>1 DEF Clamp
<1>2. CASE ~(x < low)
  BY <1>2 DEF Clamp
<1> QED BY <1>1, <1>2

\* snapMarker() leads to a frame.
LEMMA SnapTyped ==
  ASSUME NEW target \in Targets, NEW frame \in Int, NEW grid \in Nat
  PROVE  SnapMarker(target, frame, grid) \in Int
<1>1. PICK start \in Int, stop \in Int, first \in Int, last \in Int :
        /\ start = target.trimStart /\ stop = target.trimEnd
        /\ first = target.trimStart + 1 /\ last = target.trimEnd - 1
  BY DEF Targets
<1>2. PICK inside : inside = Clamp(frame, first, last)
  OBVIOUS
<1>3. inside \in Int
  BY <1>2, ClampedTyped
<1>4. CASE grid = 0
  BY <1>1, <1>2, <1>3, <1>4 DEF SnapMarker
<1>5. CASE grid # 0
  <2>1. PICK offset, nearest, most, bucket :
          /\ offset = inside - start
          /\ nearest = offset \div grid + (IF offset % grid >= grid - grid \div 2 THEN 1 ELSE 0)
          /\ most = (stop - start - 1) \div grid
          /\ bucket = Clamp(nearest, 0, most)
    OBVIOUS
  <2>2. offset \in Int /\ nearest \in Int /\ most \in Int /\ 0 \in Int
    BY <1>3, <1>5, <2>1
  <2>3. bucket \in Int
    BY <2>1, <2>2, ClampedTyped
  <2>4. SnapMarker(target, frame, grid) = Clamp(start + bucket * grid, first, last)
    BY <1>1, <1>2, <1>5, <2>1 DEF SnapMarker
  <2>5. PICK nearby : nearby = start + bucket * grid
    OBVIOUS
  <2>6. nearby \in Int
    BY <2>3, <2>5
  <2> QED BY <2>4, <2>5, <2>6, ClampedTyped
<1> QED BY <1>4, <1>5

-----------------------------------------------------------------------------
(***************************************************************************)
(* The invariant.  A result is judged by the life and revision of its      *)
(* target alone, so every target that may still meet another, the          *)
(* session's, those of analyses and of results, has the trim its life and   *)
(* revision stand for; the project's own is that of the present.           *)
(***************************************************************************)

Chopping == Ready(session) \/ lazy.active

Known ==
  {t \in {session.target} : Chopping} \cup {a.target : a \in analyses}
    \cup {results[i].target : i \in DOMAIN results}

ProjectTyped ==
  /\ project = [life |-> project.life, revision |-> project.revision, bank |-> project.bank,
                mapping |-> project.mapping, open |-> project.open, trim |-> project.trim,
                sets |-> project.sets]
  /\ project.life \in Nat /\ project.revision \in Nat /\ project.trim \in Trims

\* An analysis waiting or running: its fields.
IsAnalysis(a) ==
  /\ a = [id |-> a.id, target |-> a.target, envelope |-> a.envelope,
          sensitivity |-> a.sensitivity, floor |-> a.floor, minimum |-> a.minimum,
          lookBack |-> a.lookBack, cancelled |-> a.cancelled]
  /\ a.envelope \in Envelopes /\ a.sensitivity \in Sensitivities /\ a.lookBack \in LookBacks
  /\ a.floor = Floor /\ a.minimum = Minimum

DeskTyped ==
  /\ ProjectTyped /\ sessions \in Nat /\ IsWork(work)
  /\ lazy = [active |-> lazy.active, queue |-> lazy.queue] /\ lazy.queue \in Seq(Int)
  /\ \A a \in analyses : IsAnalysis(a)
  /\ IsSequence(results)
  /\ \A i \in 1 .. Len(results) : results[i].set \in FoundSets(results[i].target)

SessionOpen == Chopping => session \in OpenSessions(session.target)

\* No target is of a revision still to come, and those of the present have its trim.
TargetsPresent ==
  \A t \in Known :
    /\ Sound(t) /\ t.life <= project.life
    /\ t.life = project.life => t.revision <= project.revision
    /\ t.life = project.life /\ t.revision = project.revision =>
         t.trimStart = project.trim.start /\ t.trimEnd = project.trim.end

TargetsAgree ==
  \A t, u \in Known :
    t.life = u.life /\ t.revision = u.revision => t.trimStart = u.trimStart /\ t.trimEnd = u.trimEnd

SliceInv == DeskTyped /\ SessionOpen /\ TargetsPresent /\ TargetsAgree

\* The invariant says what it is for.
LEMMA InvFitsSession ==
  ASSUME SliceInv
  PROVE  SlicesFitSession
<1> SUFFICES ASSUME Ready(session)
             PROVE  /\ FitsTarget(session.set)
                    /\ \A i \in DOMAIN session.undo : FitsTarget(session.undo[i])
                    /\ \A i \in DOMAIN session.redo : FitsTarget(session.redo[i])
                    /\ session.selected \in DOMAIN session.set.regions
  BY DEF SlicesFitSession
<1>1. PICK target, s : target = session.target /\ s = session
  OBVIOUS
<1>2. s \in OpenSessions(target)
  BY <1>1 DEF SliceInv, SessionOpen, Chopping
<1>3. ASSUME NEW set \in Cuts(target) PROVE FitsTarget(set)
  BY <1>1, <1>3 DEF Cuts, IsCut, FitsTarget
<1>4. /\ s.set \in Cuts(target) /\ s.selected \in 1 .. Len(s.set.regions)
      /\ s.undo \in Seq(Cuts(target)) /\ s.redo \in Seq(Cuts(target))
  BY <1>2, OpenTyped
<1>5. \A i \in DOMAIN s.undo : s.undo[i] \in Cuts(target)
  BY <1>4, LenProperties, ElementOfSeq
<1>6. \A i \in DOMAIN s.redo : s.redo[i] \in Cuts(target)
  BY <1>4, LenProperties, ElementOfSeq
<1>7. s.selected \in DOMAIN s.set.regions
  <2>1. s.set.regions \in Seq([start : Int, end : Int])
    BY <1>4, CutTyped
  <2> QED BY <1>4, <2>1, LenProperties
<1> QED BY <1>1, <1>3, <1>4, <1>5, <1>6, <1>7

\* How the project goes on: not at all, by a revision that may bring another trim, or by
\* another life.
Advances ==
  /\ ProjectTyped'
  /\ \/ /\ project'.life = project.life /\ project'.revision = project.revision
        /\ project'.trim = project.trim
     \/ project'.life = project.life /\ project'.revision > project.revision
     \/ project'.life > project.life

\* As long as no target is new, what is known of them stays true.
LEMMA TargetsStay ==
  ASSUME ProjectTyped, TargetsPresent, TargetsAgree, Advances, Known' \subseteq Known
  PROVE  TargetsPresent' /\ TargetsAgree'
<1>1. TargetsAgree'
  BY DEF TargetsAgree
<1>2. ASSUME NEW t \in Known
      PROVE  /\ Sound(t) /\ t.life <= project'.life
             /\ t.life = project'.life => t.revision <= project'.revision
             /\ t.life = project'.life /\ t.revision = project'.revision =>
                  t.trimStart = project'.trim.start /\ t.trimEnd = project'.trim.end
  <2>1. /\ Sound(t) /\ t.life <= project.life
        /\ t.life = project.life => t.revision <= project.revision
        /\ t.life = project.life /\ t.revision = project.revision =>
             t.trimStart = project.trim.start /\ t.trimEnd = project.trim.end
    BY DEF TargetsPresent
  <2>2. t.life \in Nat /\ t.revision \in Nat
    BY <2>1 DEF Sound, Targets
  <2>3. /\ project.life \in Nat /\ project.revision \in Nat
        /\ project'.life \in Nat /\ project'.revision \in Nat
    BY DEF ProjectTyped, Advances
  <2>4. CASE /\ project'.life = project.life /\ project'.revision = project.revision
             /\ project'.trim = project.trim
    BY <2>1, <2>4
  <2>5. CASE project'.life = project.life /\ project'.revision > project.revision
    BY <2>1, <2>2, <2>3, <2>5
  <2>6. CASE project'.life > project.life
    BY <2>1, <2>2, <2>3, <2>6
  <2> QED BY <2>4, <2>5, <2>6 DEF Advances
<1>3. TargetsPresent'
  BY <1>2 DEF TargetsPresent
<1> QED BY <1>1, <1>3

\* Targets that stay known: the session's, those of analyses and of results.
LEMMA KnownTargets ==
  /\ Chopping => session.target \in Known
  /\ \A a \in analyses : a.target \in Known
  /\ IsSequence(results) => \A i \in 1 .. Len(results) : results[i].target \in Known
  BY DomainOfSequence DEF Known

\* A step of a session, where it steps: an edit, an undo or a redo of its slices.
OnLine(a, b) ==
  \/ GoesOn(a, b)
  \/ a.undo # <<>> /\ b = Rewound(a)
  \/ a.redo # <<>> /\ b = Replayed(a)

SessionStep ==
  /\ sessions' = sessions
  /\ \/ session' = session
     \/ ~Ready(session')
     \/ /\ Ready(session) /\ session' \in OpenSessions(session.target)
        /\ OnLine(session, session')

\* What every step but the beginning of a session shows.
Kept == SliceInv' /\ SessionStep

\* What a step has to show: it meets no target but those known, and the session goes on
\* with the target it has.
LEMMA StepKeeps ==
  ASSUME SliceInv, Advances, sessions' \in Nat, IsWork(work'),
         lazy' = [active |-> lazy'.active, queue |-> lazy'.queue], lazy'.queue \in Seq(Int),
         \A a \in analyses' : IsAnalysis(a) /\ a.target \in Known,
         IsSequence(results'),
         \A i \in 1 .. Len(results') : /\ results'[i].set \in FoundSets(results'[i].target)
                                       /\ results'[i].target \in Known,
         Chopping' => Chopping /\ work'.session \in OpenSessions(session.target)
  PROVE  SliceInv'
<1>1. DeskTyped'
  BY DEF DeskTyped, Advances
<1>2. session' = work'.session
  BY DEF session
<1>3. Chopping' => session'.target = session.target
  BY <1>2, OpenTyped
<1>4. SessionOpen'
  BY <1>2, <1>3 DEF SessionOpen
<1>5. Known' \subseteq Known
  <2>1. DOMAIN results' = 1 .. Len(results')
    BY DomainOfSequence
  <2>2. Chopping' => session'.target \in Known
    BY <1>3, KnownTargets
  <2> QED BY <2>1, <2>2 DEF Known
<1>6. TargetsPresent' /\ TargetsAgree'
  BY <1>5, TargetsStay DEF SliceInv, DeskTyped
<1> QED BY <1>1, <1>4, <1>6 DEF SliceInv

\* What the invariant says of the parts a step leaves alone.
LEMMA PartsStay ==
  ASSUME SliceInv
  PROVE  /\ UNCHANGED project => Advances
         /\ UNCHANGED sessions => sessions' \in Nat
         /\ UNCHANGED work => IsWork(work')
         /\ UNCHANGED lazy =>
              /\ lazy' = [active |-> lazy'.active, queue |-> lazy'.queue]
              /\ lazy'.queue \in Seq(Int)
         /\ UNCHANGED analyses => \A a \in analyses' : IsAnalysis(a) /\ a.target \in Known
         /\ UNCHANGED results =>
              /\ IsSequence(results')
              /\ \A i \in 1 .. Len(results') : /\ results'[i].set \in FoundSets(results'[i].target)
                                               /\ results'[i].target \in Known
         /\ Chopping => session \in OpenSessions(session.target)
<1>1. DeskTyped
  BY DEF SliceInv
<1>2. UNCHANGED project => Advances
  BY <1>1 DEF Advances, DeskTyped, ProjectTyped
<1>3. UNCHANGED sessions => sessions' \in Nat
  BY <1>1 DEF DeskTyped
<1>4. UNCHANGED work => IsWork(work')
  BY <1>1 DEF DeskTyped
<1>5. UNCHANGED lazy => /\ lazy' = [active |-> lazy'.active, queue |-> lazy'.queue]
                        /\ lazy'.queue \in Seq(Int)
  BY <1>1 DEF DeskTyped
<1>6. UNCHANGED analyses => \A a \in analyses' : IsAnalysis(a) /\ a.target \in Known
  BY <1>1, KnownTargets DEF DeskTyped
<1>7. UNCHANGED results =>
        /\ IsSequence(results')
        /\ \A i \in 1 .. Len(results') : /\ results'[i].set \in FoundSets(results'[i].target)
                                         /\ results'[i].target \in Known
  BY <1>1, KnownTargets DEF DeskTyped
<1>8. Chopping => session \in OpenSessions(session.target)
  BY DEF SliceInv, SessionOpen
<1> QED BY <1>2, <1>3, <1>4, <1>5, <1>6, <1>7, <1>8

\* A step on the session's slices, or on nothing but the plan.
LEMMA WorkKeeps ==
  ASSUME SliceInv, UNCHANGED <<project, lazy, analyses, results, sessions>>, IsWork(work'),
         \/ work'.session = session
         \/ /\ Ready(session) /\ work'.session \in OpenSessions(session.target)
            /\ OnLine(session, work'.session)
  PROVE  Kept
<1>1. session' = work'.session
  BY DEF session
<1>2. Chopping' => Chopping /\ work'.session \in OpenSessions(session.target)
  BY <1>1, PartsStay DEF Chopping
<1>3. SliceInv'
  BY <1>2, PartsStay, StepKeeps
<1>4. SessionStep
  BY <1>1 DEF SessionStep
<1> QED BY <1>3, <1>4 DEF Kept

\* A step that leaves the work, the analyses and their results alone.
LEMMA QuietKeeps ==
  ASSUME SliceInv, UNCHANGED <<work, analyses, results, sessions>>, Advances,
         lazy' = [active |-> lazy'.active, queue |-> lazy'.queue], lazy'.queue \in Seq(Int),
         lazy'.active => Chopping
  PROVE  Kept
<1>1. Chopping' => Chopping /\ work'.session \in OpenSessions(session.target)
  BY PartsStay DEF Chopping, session
<1>2. SliceInv'
  BY <1>1, PartsStay, StepKeeps
<1>3. SessionStep
  BY DEF SessionStep, session
<1> QED BY <1>2, <1>3 DEF Kept

\* captureFromAudioThread()
LEMMA CaptureTyped ==
  ASSUME SliceInv, CaptureMarker
  PROVE  /\ lazy' = [active |-> lazy'.active, queue |-> lazy'.queue] /\ lazy'.queue \in Seq(Int)
         /\ lazy'.active => Chopping
<1>1. lazy.active /\ lazy = [active |-> lazy.active, queue |-> lazy.queue] /\ lazy.queue \in Seq(Int)
  BY DEF CaptureMarker, SliceInv, DeskTyped
<1>2. session.target.trimStart \in Int /\ session.target.trimEnd \in Int
  <2>1. Sound(session.target)
    BY <1>1, KnownTargets DEF SliceInv, TargetsPresent, Chopping
  <2> QED BY <2>1 DEF Sound, Targets
<1>3. PICK f, frame :
        /\ f \in MarkerFrames
        /\ frame = Clamp(f, session.target.trimStart, session.target.trimEnd)
        /\ lazy' = IF Len(lazy.queue) < LazyCapacity
                   THEN [lazy EXCEPT !.queue = Append(@, frame)] ELSE lazy
  BY DEF CaptureMarker
<1>4. frame \in Int
  <2>1. f \in Int
    BY <1>3, WorkspaceAssumption
  <2> QED BY <1>2, <1>3, <2>1, ClampedTyped
<1>5. PICK active, queue, more : active = lazy.active /\ queue = lazy.queue /\ more = Append(queue, frame)
  OBVIOUS
<1>6. more \in Seq(Int)
  BY <1>1, <1>4, <1>5, AppendProperties
<1>7. CASE lazy' = lazy
  BY <1>1, <1>7 DEF Chopping
<1>8. CASE lazy' # lazy
  <2>1. lazy' = [active |-> active, queue |-> more]
    BY <1>1, <1>3, <1>5, <1>8
  <2>2. lazy' = [active |-> lazy'.active, queue |-> lazy'.queue] /\ lazy'.queue \in Seq(Int)
    BY <1>6, <2>1
  <2>3. lazy'.active => Chopping
    BY <1>1 DEF Chopping
  <2> QED BY <2>2, <2>3
<1> QED BY <1>7, <1>8

\* What cancels jobs leaves their targets.
LEMMA CancelledTyped ==
  ASSUME SliceInv, NEW jobs,
         \A b \in jobs : \E a \in analyses : \E c : b = [a EXCEPT !.cancelled = c]
  PROVE  \A b \in jobs : IsAnalysis(b) /\ b.target \in Known
<1> SUFFICES ASSUME NEW b \in jobs PROVE IsAnalysis(b) /\ b.target \in Known
  OBVIOUS
<1>1. PICK a \in analyses : \E c : b = [a EXCEPT !.cancelled = c]
  OBVIOUS
<1>2. PICK c : b = [a EXCEPT !.cancelled = c]
  BY <1>1
<1>3. IsAnalysis(a) /\ a.target \in Known
  BY KnownTargets DEF SliceInv, DeskTyped
<1>4. b = [id |-> b.id, target |-> b.target, envelope |-> b.envelope,
           sensitivity |-> b.sensitivity, floor |-> b.floor, minimum |-> b.minimum,
           lookBack |-> b.lookBack, cancelled |-> b.cancelled]
  BY <1>2, <1>3 DEF IsAnalysis
<1>5. /\ b.target = a.target /\ b.envelope = a.envelope /\ b.sensitivity = a.sensitivity
      /\ b.floor = a.floor /\ b.minimum = a.minimum /\ b.lookBack = a.lookBack
  BY <1>2, <1>3 DEF IsAnalysis
<1> QED BY <1>3, <1>4, <1>5 DEF IsAnalysis

\* cancel() leaves no session to chop in.
LEMMA CancelTyped ==
  ASSUME SliceInv, CancelWork
  PROVE  /\ IsWork(work') /\ ~Chopping'
         /\ lazy' = [active |-> lazy'.active, queue |-> lazy'.queue] /\ lazy'.queue \in Seq(Int)
<1>1. PICK s : s = Cancelled(session)
  OBVIOUS
<1>2. s.set = None
  BY <1>1 DEF Cancelled, IdleSession
<1>3. work' = [NoWork EXCEPT !.session = s]
  BY <1>1 DEF CancelWork
<1>4. work' = [session |-> s, plan |-> None, analysis |-> None]
  BY <1>3 DEF NoWork
<1>5. IsWork(work') /\ session' = s
  BY <1>4 DEF IsWork, session
<1>6. lazy = [active |-> lazy.active, queue |-> lazy.queue] /\ lazy.queue \in Seq(Int)
  BY DEF SliceInv, DeskTyped
<1>7. /\ lazy' = [active |-> lazy'.active, queue |-> lazy'.queue] /\ lazy'.queue \in Seq(Int)
      /\ lazy'.active = FALSE
  BY <1>6 DEF CancelWork
<1>8. ~Chopping'
  BY <1>2, <1>5, <1>7 DEF Chopping, Ready
<1> QED BY <1>5, <1>7, <1>8

-----------------------------------------------------------------------------
(* Every step keeps the invariant.                                         *)

\* Nothing is chopped at first.
LEMMA SliceInit ==
  ASSUME Init
  PROVE  SliceInv
<1>1. /\ work = NoWork /\ lazy = [active |-> FALSE, queue |-> <<>>]
      /\ analyses = {} /\ results = <<>> /\ sessions = 0
  BY DEF Init
<1>2. work = [session |-> IdleSession, plan |-> None, analysis |-> None]
  BY <1>1 DEF NoWork
<1>3. IsWork(work) /\ session = IdleSession /\ IdleSession.set = None
  BY <1>2 DEF IsWork, session, IdleSession
<1>4. ~Chopping
  BY <1>1, <1>3 DEF Chopping, Ready
<1>5. <<>> \in Seq(Int) /\ IsSequence(results) /\ Len(results) = 0 /\ DOMAIN results = {}
  BY <1>1, EmptySeq DEF IsSequence
<1>6. ProjectTyped
  <2>1. PICK trim \in Trims, mapping \in Mappings :
          project = [life |-> 0, revision |-> 0, bank |-> FirstBank, mapping |-> mapping,
                     open |-> TRUE, trim |-> trim, sets |-> {}]
    BY DEF Init, DeskInit
  <2> QED BY <2>1 DEF ProjectTyped
<1>7. DeskTyped
  BY <1>1, <1>3, <1>5, <1>6 DEF DeskTyped
<1>8. Known = {}
  BY <1>1, <1>4, <1>5 DEF Known
<1> QED BY <1>4, <1>7, <1>8 DEF SliceInv, SessionOpen, TargetsPresent, TargetsAgree

\* What the invariant says of a session with slices.
LEMMA ReadyTyped ==
  ASSUME SliceInv, Ready(session)
  PROVE  /\ Chopping /\ session \in OpenSessions(session.target) /\ Sound(session.target)
         /\ session.target \in Targets /\ session.target.id \in Nat
         /\ session.target.trimStart < session.target.trimEnd
<1>1. Chopping
  BY DEF Chopping
<1>2. session \in OpenSessions(session.target) /\ Sound(session.target)
  BY <1>1, KnownTargets DEF SliceInv, SessionOpen, TargetsPresent
<1>3. /\ session.target \in Targets /\ session.target.id \in Nat
      /\ session.target.trimStart < session.target.trimEnd
  BY <1>2 DEF Sound, Targets
<1> QED BY <1>1, <1>2, <1>3

\* A handler that leaves a session of the same target keeps the invariant.
LEMMA EditKeeps ==
  ASSUME SliceInv, NEW s, NEW plan,
         \/ s = session
         \/ Ready(session) /\ s \in OpenSessions(session.target) /\ OnLine(session, s),
         Edits([work EXCEPT !.session = s, !.plan = plan])
  PROVE  Kept
<1>1. IsWork(work)
  BY DEF SliceInv, DeskTyped
<1>2. PICK analysis : analysis = work.analysis
  OBVIOUS
<1>3. work' = [session |-> s, plan |-> plan, analysis |-> analysis]
  BY <1>1, <1>2 DEF Edits, IsWork
<1>4. IsWork(work') /\ work'.session = s
  BY <1>3 DEF IsWork
<1>5. UNCHANGED <<project, lazy, analyses, results, sessions>>
  BY DEF Edits
<1> QED BY <1>4, <1>5, WorkKeeps

\* An edit that keeps the plan, or the session.
LEMMA PartEditKeeps ==
  ASSUME SliceInv, NEW s
  PROVE  /\ /\ Ready(session) /\ s \in OpenSessions(session.target) /\ OnLine(session, s)
            /\ Edits([work EXCEPT !.session = s])
            => Kept
         /\ Edits([work EXCEPT !.plan = s]) => Kept
<1>1. work = [session |-> work.session, plan |-> work.plan, analysis |-> work.analysis]
  BY DEF SliceInv, DeskTyped, IsWork
<1>2. PICK plan, old : plan = work.plan /\ old = session
  OBVIOUS
<1>3. /\ [work EXCEPT !.session = s] = [work EXCEPT !.session = s, !.plan = plan]
      /\ [work EXCEPT !.plan = s] = [work EXCEPT !.session = old, !.plan = s]
  BY <1>1, <1>2 DEF session
<1>4. ASSUME Ready(session), s \in OpenSessions(session.target), OnLine(session, s),
             Edits([work EXCEPT !.session = s])
      PROVE  Kept
  <2>1. Edits([work EXCEPT !.session = s, !.plan = plan])
    BY <1>3, <1>4
  <2> QED BY <1>4, <2>1, EditKeeps
<1>5. ASSUME Edits([work EXCEPT !.plan = s]) PROVE Kept
  <2>1. Edits([work EXCEPT !.session = old, !.plan = s])
    BY <1>3, <1>5
  <2> QED BY <1>2, <2>1, EditKeeps
<1> QED BY <1>4, <1>5

\* The frames the user picks are frames.
LEMMA PicksTyped ==
  ASSUME SliceInv, Ready(session)
  PROVE  \A f \in Picks : f \in Int
<1>1. PICK target : target = session.target
  OBVIOUS
<1>2. target \in Targets
  BY <1>1, ReadyTyped
<1>3. ASSUME NEW f \in MarkerFrames, NEW grid \in Grids PROVE SnapMarker(target, f, grid) \in Int
  <2>1. f \in Int /\ grid \in Nat
    BY WorkspaceAssumption
  <2> QED BY <1>2, <2>1, SnapTyped
<1> QED BY <1>1, <1>3 DEF Picks

\* markAnalysing(), markPreviewing()
LEMMA MarkedStays ==
  ASSUME NEW target, NEW s \in OpenSessions(target), NEW activity \in Activities
  PROVE  Marked(s, activity) \in OpenSessions(target) /\ GoesOn(s, Marked(s, activity))
<1>1. PICK set, undo, redo, selected :
        set = s.set /\ undo = s.undo /\ redo = s.redo /\ selected = s.selected
  OBVIOUS
<1>2. /\ set \in Cuts(target) /\ undo \in Seq(Cuts(target)) /\ redo \in Seq(Cuts(target))
      /\ selected \in 1 .. Len(set.regions)
      /\ [s EXCEPT !.state = activity] =
           [state |-> activity, target |-> target, set |-> set, undo |-> undo, redo |-> redo,
            selected |-> selected]
  BY <1>1, OpenTyped
<1>3. [s EXCEPT !.state = activity] \in OpenSessions(target)
  BY <1>2, OpenFrom
<1>4. GoesOn(s, [s EXCEPT !.state = activity])
  BY <1>1, <1>2 DEF GoesOn, Same
<1>5. GoesOn(s, s)
  BY DEF GoesOn, Same
<1> QED BY <1>3, <1>4, <1>5 DEF Marked

\* The controls of the markers keep it.
LEMMA MarkerStepKeeps ==
  ASSUME SliceInv, MarkerStep
  PROVE  Kept
<1>1. PICK target, now : target = session.target /\ now = session
  OBVIOUS
<1>2. Ready(session) => /\ now \in OpenSessions(target) /\ Sound(target) /\ target \in Targets
                        /\ target.id \in Nat /\ target.trimStart < target.trimEnd
  BY <1>1, ReadyTyped
<1>3. ASSUME NEW s \in OpenSessions(target), OnLine(now, s), Ready(session), Edits(Edited(s))
      PROVE  Kept
  BY <1>1, <1>3, EditKeeps DEF Edited
<1>4. CASE GenerateEqual
  <2>1. PICK count \in Counts :
          Ready(session) /\ EqualAccepts(target, count) /\ Edits(Edited(WithEqual(now, count)))
    BY <1>1, <1>4 DEF GenerateEqual
  <2>2. count \in Nat
    BY WorkspaceAssumption
  <2>3. PICK set : set = SetFromBoundaries(target.id, target, "equal", EqualBoundaries(target, count))
    OBVIOUS
  <2>4. PICK id : id = target.id
    OBVIOUS
  <2>5. set \in Cuts(target)
    BY <1>2, <2>1, <2>2, <2>3, <2>4, EqualCut
  <2>6. PICK s : s = Applied(now, set)
    OBVIOUS
  <2>7. s \in OpenSessions(target) /\ OnLine(now, s)
    BY <1>2, <2>1, <2>5, <2>6, AppliedStays DEF OnLine
  <2>8. WithEqual(now, count) = s
    BY <1>1, <2>3, <2>6 DEF WithEqual, NewSet
  <2> QED BY <1>3, <2>1, <2>7, <2>8
<1>5. CASE GenerateFixed
  <2>1. PICK length \in Lengths, discard \in BOOLEAN :
          /\ Ready(session) /\ FixedAccepts(target, length)
          /\ Edits(Edited(WithFixed(now, length, discard)))
    BY <1>1, <1>5 DEF GenerateFixed
  <2>2. length \in Nat
    BY WorkspaceAssumption
  <2>3. PICK id, set : id = target.id /\ set = FixedSet(id, target, length, discard)
    OBVIOUS
  <2>4. set \in Cuts(target)
    BY <1>2, <2>1, <2>2, <2>3, FixedCut
  <2>5. PICK s : s = Applied(now, set)
    OBVIOUS
  <2>6. s \in OpenSessions(target) /\ OnLine(now, s)
    BY <1>2, <2>1, <2>4, <2>5, AppliedStays DEF OnLine
  <2>7. WithFixed(now, length, discard) = s
    BY <1>1, <2>3, <2>5 DEF WithFixed
  <2> QED BY <1>3, <2>1, <2>6, <2>7
<1>6. CASE AddMarker
  <2>1. PICK f \in Picks : AddAccepts(now, f) /\ Edits(Edited(WithMarker(now, f))) /\ Ready(session)
    BY <1>1, <1>6 DEF AddMarker
  <2>2. f \in Int
    BY <2>1, PicksTyped
  <2>3. PICK s : s = WithMarker(now, f)
    OBVIOUS
  <2>4. s \in OpenSessions(target) /\ OnLine(now, s)
    BY <1>2, <2>1, <2>2, <2>3, AddedStays DEF OnLine
  <2> QED BY <1>3, <2>1, <2>3, <2>4
<1>7. Ready(session) => Boundaries(now) \in Seq(Int)
  BY <1>2, OpenTyped, BoundariesTyped
<1>8. ASSUME NEW bounds \in Seq(Int), Ready(session), ManualAccepts(now, bounds),
             Edits(Edited(WithBoundaries(now, bounds)))
      PROVE  Kept
  <2>1. PICK s : s = WithBoundaries(now, bounds)
    OBVIOUS
  <2>2. s \in OpenSessions(target) /\ OnLine(now, s)
    BY <1>2, <1>8, <2>1, ManualStays DEF OnLine
  <2> QED BY <1>3, <1>8, <2>1, <2>2
<1>9. CASE DeleteMarker
  <2>1. PICK i \in DOMAIN Boundaries(now) :
          DeleteAccepts(now, i) /\ Edits(Edited(WithoutMarker(now, i))) /\ Ready(session)
    BY <1>1, <1>9 DEF DeleteMarker
  <2>2. PICK old, bounds : old = Boundaries(now) /\ bounds = Without(old, i)
    OBVIOUS
  <2>3. bounds \in Seq(Int)
    BY <1>7, <2>1, <2>2, WithoutTyped
  <2>4. ManualAccepts(now, bounds) /\ WithoutMarker(now, i) = WithBoundaries(now, bounds)
    BY <2>1, <2>2 DEF DeleteAccepts, WithoutMarker
  <2> QED BY <1>8, <2>1, <2>3, <2>4
<1>10. CASE MoveMarker
  <2>1. PICK i \in 2 .. Len(Boundaries(now)) - 1, f \in Picks :
          MoveAccepts(now, i, f) /\ Edits(Edited(WithMarkerMoved(now, i, f))) /\ Ready(session)
    BY <1>1, <1>10 DEF MoveMarker
  <2>2. PICK old, bounds : old = Boundaries(now) /\ bounds = Moved(old, i, f)
    OBVIOUS
  <2>3. bounds \in Seq(Int)
    <3>1. f \in Int
      BY <2>1, PicksTyped
    <3> QED BY <1>7, <2>1, <2>2, <3>1, MovedTyped
  <2>4. ManualAccepts(now, bounds) /\ WithMarkerMoved(now, i, f) = WithBoundaries(now, bounds)
    BY <2>1, <2>2 DEF MoveAccepts, WithMarkerMoved
  <2> QED BY <1>8, <2>1, <2>3, <2>4
<1>11. CASE RefusedEdit
  BY <1>11, PartEditKeeps DEF RefusedEdit
<1>12. CASE ClearMarkers
  <2>1. PICK start \in Int, stop \in Int :
          Ready(session) => start = target.trimStart /\ stop = target.trimEnd /\ start < stop
    <3>1. CASE Ready(session)
      BY <1>2, <3>1 DEF Targets
    <3>2. CASE ~Ready(session)
      BY <3>2
    <3> QED BY <3>1, <3>2
  <2>2. PICK bounds, s : bounds = <<start, stop>> /\ s = WithBoundaries(now, bounds)
    OBVIOUS
  <2>3. Ready(session) /\ Edits([work EXCEPT !.session = s])
    BY <1>1, <1>12, <2>1, <2>2 DEF ClearMarkers, Cleared
  <2>4. /\ bounds \in Seq(Int) /\ Len(bounds) = 2 /\ bounds[1] = start /\ bounds[2] = stop
    BY <2>2
  <2>5. BoundariesValid(bounds, now.target.trimStart, now.target.trimEnd)
    BY <1>1, <2>1, <2>3, <2>4 DEF BoundariesValid
  <2>6. ManualAccepts(now, bounds)
    BY <1>1, <2>3, <2>5 DEF ManualAccepts
  <2>7. s \in OpenSessions(target) /\ OnLine(now, s)
    BY <1>2, <2>2, <2>3, <2>4, <2>6, ManualStays DEF OnLine
  <2> QED BY <1>1, <2>3, <2>7, PartEditKeeps
<1>13. CASE UndoSessionEdit
  <2>1. PICK s : s = Rewound(now)
    OBVIOUS
  <2>2. Ready(session) /\ now.undo # <<>> /\ Edits(Edited(s))
    BY <1>1, <1>13, <2>1 DEF UndoSessionEdit
  <2>3. s \in OpenSessions(target) /\ OnLine(now, s)
    BY <1>2, <2>1, <2>2, RewoundStays DEF OnLine
  <2> QED BY <1>3, <2>2, <2>3
<1>14. CASE RedoSessionEdit
  <2>1. PICK s : s = Replayed(now)
    OBVIOUS
  <2>2. Ready(session) /\ now.redo # <<>> /\ Edits(Edited(s))
    BY <1>1, <1>14, <2>1 DEF RedoSessionEdit
  <2>3. s \in OpenSessions(target) /\ OnLine(now, s)
    BY <1>2, <2>1, <2>2, ReplayedStays DEF OnLine
  <2> QED BY <1>3, <2>2, <2>3
<1>15. CASE SelectSlice
  <2>1. PICK i \in {session.selected - 1, session.selected + 1} :
          SelectAccepts(now, i) /\ Edits([work EXCEPT !.session.selected = i])
    BY <1>1, <1>15 DEF SelectSlice
  <2>2. PICK s : s = [now EXCEPT !.selected = i]
    OBVIOUS
  <2>3. Ready(session) /\ i \in 1 .. Len(now.set.regions)
    BY <1>1, <2>1 DEF SelectAccepts
  <2>4. s \in OpenSessions(target)
    <3>1. PICK state, set, undo, redo, selected :
            /\ state = now.state /\ set = now.set /\ undo = now.undo /\ redo = now.redo
            /\ selected = i
      OBVIOUS
    <3>2. /\ state \in Activities /\ set \in Cuts(target) /\ undo \in Seq(Cuts(target))
          /\ redo \in Seq(Cuts(target)) /\ selected \in 1 .. Len(set.regions)
      BY <1>2, <2>3, <3>1, OpenTyped
    <3>3. s = [state |-> state, target |-> target, set |-> set, undo |-> undo, redo |-> redo,
               selected |-> selected]
      <4>1. PICK old : old = now.selected
        OBVIOUS
      <4>2. now = [state |-> state, target |-> target, set |-> set, undo |-> undo,
                   redo |-> redo, selected |-> old]
        BY <1>2, <2>3, <3>1, <4>1, OpenTyped
      <4> QED BY <2>2, <3>1, <4>2
    <3> QED BY <3>2, <3>3, OpenFrom
  <2>7. OnLine(now, s)
    <3>1. s.set = now.set /\ s.undo = now.undo /\ s.redo = now.redo
      <4>1. PICK state, old, set, undo, redo :
              /\ state = now.state /\ old = now.selected
              /\ set = now.set /\ undo = now.undo /\ redo = now.redo
        OBVIOUS
      <4>2. now = [state |-> state, target |-> target, set |-> set, undo |-> undo,
                   redo |-> redo, selected |-> old]
        BY <1>2, <2>3, <4>1, OpenTyped
      <4> QED BY <2>2, <4>1, <4>2
    <3> QED BY <3>1 DEF OnLine, GoesOn, Same
  <2>5. [work EXCEPT !.session.selected = i] = [work EXCEPT !.session = s]
    BY <1>1, <2>2 DEF session
  <2>6. Edits([work EXCEPT !.session = s])
    BY <2>1, <2>5
  <2> QED BY <1>1, <2>3, <2>4, <2>6, <2>7, PartEditKeeps
<1>16. CASE Audition
  <2>1. PICK s : s = Marked(now, "previewing")
    OBVIOUS
  <2>2. Ready(session) /\ Edits([work EXCEPT !.session = s])
    BY <1>1, <1>16, <2>1 DEF Audition
  <2>3. s \in OpenSessions(target) /\ OnLine(now, s)
    BY <1>1, <1>2, <2>1, <2>2, MarkedStays DEF Activities, OnLine
  <2> QED BY <1>1, <2>2, <2>3, PartEditKeeps
<1> QED BY <1>4, <1>5, <1>6, <1>9, <1>10, <1>11, <1>12, <1>13, <1>14, <1>15, <1>16 DEF MarkerStep

\* Cancelling a handle's job, or all of them, leaves their targets.
LEMMA CancelledJobsTyped ==
  ASSUME SliceInv, NEW handle
  PROVE  /\ \A b \in CancelledJobs(handle) : IsAnalysis(b) /\ b.target \in Known
         /\ \A b \in {[a EXCEPT !.cancelled = TRUE] : a \in analyses} :
              IsAnalysis(b) /\ b.target \in Known
<1>1. PICK jobs, all :
        jobs = CancelledJobs(handle) /\ all = {[a EXCEPT !.cancelled = TRUE] : a \in analyses}
  OBVIOUS
<1>2. \A b \in jobs : \E a \in analyses : \E c : b = [a EXCEPT !.cancelled = c]
  <2> SUFFICES ASSUME NEW b \in jobs PROVE \E a \in analyses : \E c : b = [a EXCEPT !.cancelled = c]
    OBVIOUS
  <2>1. PICK a \in analyses : b = [a EXCEPT !.cancelled = @ \/ a.id = handle]
    BY <1>1 DEF CancelledJobs
  <2>2. PICK c : c = (a.cancelled \/ a.id = handle)
    OBVIOUS
  <2>3. b = [a EXCEPT !.cancelled = c]
    BY <2>1, <2>2
  <2> QED BY <2>3
<1>3. \A b \in all : \E a \in analyses : \E c : b = [a EXCEPT !.cancelled = c]
  BY <1>1
<1>4. /\ \A b \in jobs : IsAnalysis(b) /\ b.target \in Known
      /\ \A b \in all : IsAnalysis(b) /\ b.target \in Known
  BY <1>2, <1>3, CancelledTyped
<1> QED BY <1>1, <1>4

\* An analysis is asked for the session's target.
LEMMA SubmitKeeps ==
  ASSUME SliceInv, SubmitTransientAnalysis
  PROVE  Kept
<1>1. /\ Ready(session) /\ UNCHANGED <<project, lazy, results, sessions>>
  BY DEF SubmitTransientAnalysis
<1>2. PICK target, now, old : target = session.target /\ now = session /\ old = work.analysis
  OBVIOUS
<1>3. Chopping /\ now \in OpenSessions(target) /\ target \in Known
  BY <1>1, <1>2, ReadyTyped, KnownTargets
<1>4. \A b \in CancelledJobs(old) : IsAnalysis(b) /\ b.target \in Known
  BY CancelledJobsTyped
<1>5. CASE CancelAnalysis /\ UNCHANGED work
  <2>1. \A b \in analyses' : IsAnalysis(b) /\ b.target \in Known
    BY <1>2, <1>4, <1>5 DEF CancelAnalysis
  <2>2. work'.session = now
    BY <1>2, <1>5 DEF session
  <2>3. IsWork(work')
    BY <1>5, PartsStay
  <2>4. SliceInv'
    BY <1>1, <1>2, <1>3, <2>1, <2>2, <2>3, PartsStay, StepKeeps
  <2>5. SessionStep
    BY <1>1, <1>5 DEF SessionStep, session
  <2> QED BY <2>4, <2>5 DEF Kept
<1>6. CASE ~(CancelAnalysis /\ UNCHANGED work)
  <2>1. PICK envelope, sensitivity, lookBack, id :
          /\ envelope \in Envelopes /\ sensitivity \in Sensitivities /\ lookBack \in LookBacks
          /\ id = gestures
          /\ analyses' = CancelledJobs(old) \cup
               {[id |-> id, target |-> target, envelope |-> envelope,
                 sensitivity |-> sensitivity, floor |-> Floor, minimum |-> Minimum,
                 lookBack |-> lookBack, cancelled |-> FALSE]}
          /\ work' = [work EXCEPT !.session = Marked(now, "analysing"), !.analysis = id]
    BY <1>2, <1>6 DEF SubmitTransientAnalysis
  <2>2. PICK job : job = [id |-> id, target |-> target, envelope |-> envelope,
                          sensitivity |-> sensitivity, floor |-> Floor, minimum |-> Minimum,
                          lookBack |-> lookBack, cancelled |-> FALSE]
    OBVIOUS
  <2>3. IsAnalysis(job) /\ job.target \in Known
    BY <1>3, <2>1, <2>2 DEF IsAnalysis
  <2>4. \A b \in analyses' : IsAnalysis(b) /\ b.target \in Known
    BY <1>4, <2>1, <2>2, <2>3
  <2>5. PICK s, plan : s = Marked(now, "analysing") /\ plan = work.plan
    OBVIOUS
  <2>6. s \in OpenSessions(target) /\ OnLine(now, s)
    BY <1>3, <2>5, MarkedStays DEF Activities, OnLine
  <2>7. IsWork(work)
    BY DEF SliceInv, DeskTyped
  <2>8. work' = [session |-> s, plan |-> plan, analysis |-> id]
    BY <2>1, <2>5, <2>7 DEF IsWork
  <2>9. IsWork(work') /\ work'.session = s
    BY <2>8 DEF IsWork
  <2>10. SliceInv'
    BY <1>1, <1>2, <1>3, <2>4, <2>6, <2>9, PartsStay, StepKeeps
  <2>11. SessionStep
    BY <1>1, <1>2, <2>6, <2>9 DEF SessionStep, session
  <2> QED BY <2>10, <2>11 DEF Kept
<1> QED BY <1>5, <1>6

\* A worker's result is of the target it was asked for.
LEMMA FinishKeeps ==
  ASSUME SliceInv, NEW job \in analyses, AnalysisFinishes(job)
  PROVE  Kept
<1>1. UNCHANGED <<project, work, lazy, sessions>> /\ analyses' = analyses \ {job}
  BY DEF AnalysisFinishes
<1>2. PICK target : target = job.target
  OBVIOUS
<1>3. PICK set : set = SetFromBoundaries(job.target.id, job.target, "transient", TransientBoundaries(job))
  OBVIOUS
<1>4. target \in Known /\ target \in Targets
  BY <1>2, KnownTargets DEF SliceInv, TargetsPresent, Sound
<1>5. set \in FoundSets(target)
  BY <1>2, <1>3, <1>4, FoundTyped DEF FoundSets
<1>6. PICK ok : results' = Append(results, [target |-> target, ok |-> ok, set |-> set])
  BY <1>2, <1>3 DEF AnalysisFinishes
<1>7. PICK r : r = [target |-> target, ok |-> ok, set |-> set]
  OBVIOUS
<1>8. /\ IsSequence(results)
      /\ \A i \in 1 .. Len(results) : /\ results[i].set \in FoundSets(results[i].target)
                                      /\ results[i].target \in Known
  BY KnownTargets DEF SliceInv, DeskTyped
<1>9. /\ IsSequence(results') /\ Len(results) \in Nat /\ Len(results') = Len(results) + 1
      /\ \A i \in 1 .. Len(results) : results'[i] = results[i]
      /\ results'[Len(results) + 1] = r
  BY <1>6, <1>7, <1>8, AppendedSequence
<1>10. \A i \in 1 .. Len(results') : /\ results'[i].set \in FoundSets(results'[i].target)
                                     /\ results'[i].target \in Known
  <2> SUFFICES ASSUME NEW i \in 1 .. Len(results')
               PROVE  /\ results'[i].set \in FoundSets(results'[i].target)
                      /\ results'[i].target \in Known
    OBVIOUS
  <2>1. CASE i \in 1 .. Len(results)
    BY <1>8, <1>9, <2>1
  <2>2. CASE i \notin 1 .. Len(results)
    <3>1. results'[i] = r
      BY <1>9, <2>2
    <3> QED BY <1>4, <1>5, <1>7, <3>1
  <2> QED BY <2>1, <2>2
<1>11. \A a \in analyses' : IsAnalysis(a) /\ a.target \in Known
  BY <1>1, KnownTargets DEF SliceInv, DeskTyped
<1>12. Chopping' => Chopping /\ work'.session \in OpenSessions(session.target)
  BY <1>1, PartsStay DEF Chopping, session
<1>13. SliceInv'
  BY <1>1, <1>9, <1>10, <1>11, <1>12, PartsStay, StepKeeps
<1>14. SessionStep
  BY <1>1 DEF SessionStep, session
<1> QED BY <1>13, <1>14 DEF Kept

\* The lazy chop: it starts on slices, takes markers, and stops with new slices.
LEMMA LazyStepKeeps ==
  ASSUME SliceInv, LazyStep
  PROVE  Kept
<1>1. CASE StartLazy
  <2>1. PICK started \in BOOLEAN : lazy' = [active |-> started, queue |-> <<>>]
    BY <1>1 DEF StartLazy
  <2>2. UNCHANGED <<project, work, analyses, results, sessions>> /\ Chopping
    BY <1>1 DEF StartLazy, Chopping
  <2>3. <<>> \in Seq(Int)
    BY EmptySeq
  <2>4. lazy' = [active |-> lazy'.active, queue |-> lazy'.queue] /\ lazy'.queue \in Seq(Int)
    BY <2>1, <2>3
  <2> QED BY <2>2, <2>4, PartsStay, QuietKeeps
<1>2. CASE PlaceMarker
  <2>1. CaptureMarker /\ UNCHANGED <<project, work, analyses, results, sessions>>
    BY <1>2 DEF PlaceMarker
  <2> QED BY <2>1, CaptureTyped, PartsStay, QuietKeeps
<1>3. CASE StopLazy
  <2>1. PICK target, w, q, new :
          target = session.target /\ w = work /\ q = lazy.queue /\ new = Drained(w, q)
    OBVIOUS
  <2>2. /\ Chopping /\ work' = new /\ lazy' = [active |-> FALSE, queue |-> <<>>]
        /\ UNCHANGED <<project, analyses, results, sessions>>
    BY <1>3, <2>1 DEF StopLazy, Chopping
  <2>3. Sound(target) /\ IsWork(w) /\ w.session \in OpenSessions(target) /\ q \in Seq(Int)
    BY <2>1, <2>2, KnownTargets
    DEF SliceInv, DeskTyped, SessionOpen, TargetsPresent, session
  <2>4. /\ IsWork(new) /\ new.session \in OpenSessions(target)
        /\ GoesOn(w.session, new.session) /\ (new.session = w.session \/ Ready(w.session))
    BY <2>1, <2>3, DrainedStays
  <2>5. <<>> \in Seq(Int)
    BY EmptySeq
  <2>6. lazy' = [active |-> lazy'.active, queue |-> lazy'.queue] /\ lazy'.queue \in Seq(Int)
    BY <2>2, <2>5
  <2>7. SliceInv'
    BY <2>1, <2>2, <2>4, <2>6, PartsStay, StepKeeps
  <2>8. SessionStep
    BY <2>1, <2>2, <2>4 DEF SessionStep, OnLine, session
  <2> QED BY <2>7, <2>8 DEF Kept
<1> QED BY <1>1, <1>2, <1>3 DEF LazyStep

\* The timer takes the results that came in, then the markers.
LEMMA ServiceKeeps ==
  ASSUME SliceInv, Service, UNCHANGED project
  PROVE  Kept
<1>1. PICK w, q, markers : w = work /\ q = results /\ markers = lazy.queue
  OBVIOUS
<1>2. PICK target : IF Chopping THEN target = session.target
                    ELSE target = [life |-> -1, revision |-> 0]
  OBVIOUS
<1>3. PICK new : new = FoldLeft(Handled, w, q)
  OBVIOUS
<1>4. IsSequence(q) /\ IsWork(w) /\ w.session = session
  BY <1>1 DEF SliceInv, DeskTyped, session
<1>5. Chopping => w.session \in OpenSessions(target) /\ Sound(target)
  BY <1>2, <1>4, KnownTargets DEF SliceInv, SessionOpen, TargetsPresent
<1>6. \A i \in 1 .. Len(q) :
        /\ q[i].set \in FoundSets(q[i].target)
        /\ q[i].target.life = target.life /\ q[i].target.revision = target.revision =>
             /\ q[i].target.trimStart = target.trimStart
             /\ q[i].target.trimEnd = target.trimEnd
  <2> SUFFICES ASSUME NEW i \in 1 .. Len(q)
               PROVE  /\ q[i].set \in FoundSets(q[i].target)
                      /\ q[i].target.life = target.life /\ q[i].target.revision = target.revision =>
                           /\ q[i].target.trimStart = target.trimStart
                           /\ q[i].target.trimEnd = target.trimEnd
    OBVIOUS
  <2>1. PICK t : t = q[i].target
    OBVIOUS
  <2>2. t \in Known /\ q[i].set \in FoundSets(t)
    BY <1>1, <1>4, <2>1, KnownTargets DEF SliceInv, DeskTyped
  <2>3. CASE Chopping
    <3>1. target \in Known
      BY <1>2, <2>3, KnownTargets
    <3> QED BY <2>1, <2>2, <3>1 DEF SliceInv, TargetsAgree
  <2>4. CASE ~Chopping
    <3>1. t.life \in Nat
      BY <2>2 DEF SliceInv, TargetsPresent, Sound, Targets
    <3> QED BY <1>2, <2>1, <2>2, <2>4, <3>1
  <2> QED BY <2>3, <2>4
<1>7. /\ IsWork(new)
      /\ \/ new.session = w.session
         \/ /\ new.session \in OpenSessions(target) /\ Ready(w.session)
            /\ GoesOn(w.session, new.session)
  <2>1. Ready(w.session) => w.session \in OpenSessions(target)
    BY <1>4, <1>5 DEF Chopping
  <2> QED BY <1>3, <1>4, <1>6, <2>1, HandledStay
<1>8. Ready(w.session) => Chopping
  BY <1>4 DEF Chopping
<1>9. /\ work' = IF lazy.active THEN Drained(new, markers) ELSE new
      /\ lazy' = IF lazy.active THEN [lazy EXCEPT !.queue = <<>>] ELSE lazy
      /\ results' = <<>> /\ UNCHANGED <<analyses, sessions>>
  BY <1>1, <1>3 DEF Service
<1>10. <<>> \in Seq(Int) /\ IsSequence(results') /\ Len(results') = 0
  BY <1>9, EmptySeq, EmptyIsSequence
<1>11. /\ lazy' = [active |-> lazy'.active, queue |-> lazy'.queue]
       /\ lazy'.queue \in Seq(Int) /\ lazy'.active = lazy.active
  BY <1>9, <1>10 DEF SliceInv, DeskTyped
<1>12. CASE lazy.active
  <2>1. Chopping /\ new.session \in OpenSessions(target) /\ Sound(target) /\ markers \in Seq(Int)
    BY <1>1, <1>5, <1>7, <1>12 DEF Chopping, SliceInv, DeskTyped
  <2>2. PICK end : end = Drained(new, markers)
    OBVIOUS
  <2>3. /\ IsWork(end) /\ end.session \in OpenSessions(target)
        /\ GoesOn(new.session, end.session) /\ (end.session = new.session \/ Ready(new.session))
    BY <1>7, <2>1, <2>2, DrainedStays
  <2>4. work' = end
    BY <1>9, <1>12, <2>2
  <2>5. target = session.target
    BY <1>2, <2>1
  <2>6. SliceInv'
    BY <1>9, <1>10, <1>11, <2>1, <2>3, <2>4, <2>5, PartsStay, StepKeeps
  <2>7. PICK s0, s1, s2 : s0 = w.session /\ s1 = new.session /\ s2 = end.session
    OBVIOUS
  <2>8. /\ s0 \in OpenSessions(target) /\ s1 \in OpenSessions(target) /\ s2 \in OpenSessions(target)
        /\ GoesOn(s1, s2) /\ (s2 = s1 \/ Ready(s1))
        /\ s1 = s0 \/ (Ready(s0) /\ GoesOn(s0, s1))
    BY <1>5, <1>7, <2>1, <2>3, <2>7
  <2>9. s2 = s0 \/ (Ready(s0) /\ GoesOn(s0, s2))
    BY <2>8, GoesOnFurther
  <2>10. SessionStep
    BY <1>4, <1>9, <2>4, <2>5, <2>7, <2>8, <2>9 DEF SessionStep, OnLine, session
  <2> QED BY <2>6, <2>10 DEF Kept
<1>13. CASE ~lazy.active
  <2>1. work' = new
    BY <1>9, <1>13
  <2>2. Chopping => new.session \in OpenSessions(target) /\ target = session.target
    BY <1>2, <1>5, <1>7
  <2>3. Chopping' => Chopping
    <3>1. session' = new.session
      BY <2>1 DEF session
    <3>2. Chopping' => Ready(new.session)
      BY <1>11, <1>13, <3>1 DEF Chopping
    <3> QED BY <1>4, <1>7, <1>8, <3>2
  <2>4. SliceInv'
    BY <1>7, <1>9, <1>10, <1>11, <2>1, <2>2, <2>3, PartsStay, StepKeeps
  <2>5. SessionStep
    BY <1>4, <1>7, <1>8, <1>9, <2>1, <2>2 DEF SessionStep, OnLine, session
  <2> QED BY <2>4, <2>5 DEF Kept
<1> QED BY <1>12, <1>13

\* The controls of the workspace keep the invariant.
LEMMA WorkspaceStepKeeps ==
  ASSUME SliceInv, WorkspaceStep
  PROVE  Kept
<1>1. CASE PreviewAssignment
  <2>1. PICK plan : Edits([work EXCEPT !.plan = plan])
    BY <1>1 DEF PreviewAssignment
  <2> QED BY <2>1, PartEditKeeps
<1> QED BY <1>1, MarkerStepKeeps, SubmitKeeps, LazyStepKeeps DEF WorkspaceStep

\* A session begins on the trim of the present, whichever targets are still about.
LEMMA OpenKeeps ==
  ASSUME SliceInv, OpenWorkspace
  PROVE  SliceInv' /\ sessions' = sessions + 1 /\ session'.target.id = sessions + 1
<1>1. /\ sessions' = sessions + 1 /\ UNCHANGED <<project, lazy, analyses, results>>
  BY DEF OpenWorkspace, BeginForLayer, deskVars
<1>2. PICK target, begun : target = Target /\ begun = Begun(target)
  OBVIOUS
<1>3. /\ target.life = project.life /\ target.revision = project.revision
      /\ target.trimStart = project.trim.start /\ target.trimEnd = project.trim.end
  BY <1>2 DEF Target
<1>4. sessions \in Nat /\ project.life \in Nat /\ project.revision \in Nat /\ project.trim \in Trims
  BY DEF SliceInv, DeskTyped, ProjectTyped
<1>5. Sound(target)
  <2>1. PICK id, life, revision, trim : id = sessions + 1 /\ life = project.life
                                        /\ revision = project.revision /\ trim = project.trim
    OBVIOUS
  <2>2. id \in Nat /\ life \in Nat /\ revision \in Nat /\ trim \in Trims
    BY <1>4, <2>1
  <2>3. PICK start, end : start = trim.start /\ end = trim.end
    OBVIOUS
  <2>4. start \in Nat /\ end \in Nat /\ start < end
    BY <2>2, <2>3, DeskAssumption
  <2>5. target = [id |-> id, life |-> life, revision |-> revision, layer |-> "layer",
                  asset |-> Asset, trimStart |-> start, trimEnd |-> end]
    BY <1>2, <2>1, <2>3 DEF Target
  <2>6. target \in Targets /\ target.trimStart = start /\ target.trimEnd = end
    BY <2>2, <2>4, <2>5 DEF Targets
  <2> QED BY <2>2, <2>3, <2>4, <2>6 DEF Sound
<1>6. begun \in OpenSessions(target)
  BY <1>2, <1>5, BegunOpens
<1>7. PICK count \in Counts :
        work' = Edited(IF EqualAccepts(target, count) THEN WithEqual(begun, count) ELSE begun)
  BY <1>2 DEF OpenWorkspace, BeginForLayer
<1>8. PICK s : s = IF EqualAccepts(target, count) THEN WithEqual(begun, count) ELSE begun
  OBVIOUS
<1>9. s \in OpenSessions(target)
  <2>1. CASE EqualAccepts(target, count)
    <3>1. PICK id, set :
            id = target.id /\ set = SetFromBoundaries(id, target, "equal", EqualBoundaries(target, count))
      OBVIOUS
    <3>2. count \in Nat /\ id \in Nat /\ target \in Targets /\ target.trimStart < target.trimEnd
      BY <1>5, <3>1, WorkspaceAssumption DEF Sound, Targets
    <3>3. set \in Cuts(target)
      BY <2>1, <3>1, <3>2, EqualCut
    <3>4. begun.target = target
      BY <1>6, OpenTyped
    <3>5. s = Applied(begun, set)
      BY <1>8, <2>1, <3>1, <3>4 DEF WithEqual, NewSet
    <3> QED BY <1>6, <3>3, <3>5, AppliedStays
  <2>2. CASE ~EqualAccepts(target, count)
    BY <1>6, <1>8, <2>2
  <2> QED BY <2>1, <2>2
<1>10. /\ IsWork(work') /\ session' = s
  <2>1. IsWork(work)
    BY DEF SliceInv, DeskTyped
  <2>2. PICK analysis : analysis = work.analysis
    OBVIOUS
  <2>3. work' = [session |-> s, plan |-> None, analysis |-> analysis]
    BY <1>7, <1>8, <2>1, <2>2 DEF Edited, IsWork
  <2> QED BY <2>3 DEF IsWork, session
<1>11. DeskTyped'
  <2>1. sessions' \in Nat
    BY <1>1, <1>4
  <2>2. ProjectTyped'
    BY <1>1 DEF SliceInv, DeskTyped, ProjectTyped
  <2> QED BY <1>1, <1>10, <2>1, <2>2 DEF SliceInv, DeskTyped
<1>12. session'.target = target
  BY <1>9, <1>10, OpenTyped
<1>13. SessionOpen'
  BY <1>9, <1>10, <1>12 DEF SessionOpen
<1>14. Known' \subseteq Known \cup {target}
  BY <1>1, <1>12 DEF Known
<1>15. TargetsPresent'
  <2> SUFFICES ASSUME NEW t \in Known'
               PROVE  /\ Sound(t) /\ t.life <= project'.life
                      /\ t.life = project'.life => t.revision <= project'.revision
                      /\ t.life = project'.life /\ t.revision = project'.revision =>
                           t.trimStart = project'.trim.start /\ t.trimEnd = project'.trim.end
    BY DEF TargetsPresent
  <2>1. CASE t = target
    BY <1>1, <1>3, <1>4, <1>5, <2>1
  <2>2. CASE t \in Known
    BY <1>1, <2>2 DEF SliceInv, TargetsPresent
  <2> QED BY <1>14, <2>1, <2>2
<1>16. TargetsAgree'
  <2>1. \A t \in Known :
          t.life = target.life /\ t.revision = target.revision =>
            t.trimStart = target.trimStart /\ t.trimEnd = target.trimEnd
    BY <1>3 DEF SliceInv, TargetsPresent
  <2>2. \A t, u \in Known :
          t.life = u.life /\ t.revision = u.revision => t.trimStart = u.trimStart /\ t.trimEnd = u.trimEnd
    BY DEF SliceInv, TargetsAgree
  <2>3. \A t, u \in Known \cup {target} :
          t.life = u.life /\ t.revision = u.revision => t.trimStart = u.trimStart /\ t.trimEnd = u.trimEnd
    BY <2>1, <2>2
  <2>4. \A t, u \in Known' :
          t.life = u.life /\ t.revision = u.revision => t.trimStart = u.trimStart /\ t.trimEnd = u.trimEnd
    BY <1>14, <2>3
  <2> QED BY <2>4 DEF TargetsAgree
<1>17. session'.target.id = sessions + 1
  BY <1>2, <1>12 DEF Target
<1> QED BY <1>1, <1>11, <1>13, <1>15, <1>16, <1>17 DEF SliceInv

\* An edit of the project takes revisions, or leaves the trim.
LEMMA RevisedAdvances ==
  ASSUME SliceInv, NEW steps \in Nat, NEW life, NEW revision, life = project.life,
         revision = project.revision + steps, NEW bank, NEW mapping, NEW open, NEW trim \in Trims,
         NEW sets, steps # 0 \/ trim = project.trim,
         project' = [life |-> life, revision |-> revision, bank |-> bank, mapping |-> mapping,
                     open |-> open, trim |-> trim, sets |-> sets]
  PROVE  Advances
<1>1. ProjectTyped
  BY DEF SliceInv, DeskTyped
<1>2. PICK r : r = [life |-> life, revision |-> revision, bank |-> bank, mapping |-> mapping,
                    open |-> open, trim |-> trim, sets |-> sets]
  OBVIOUS
<1>3. /\ r.life = life /\ r.revision = revision /\ r.trim = trim
      /\ r = [life |-> r.life, revision |-> r.revision, bank |-> r.bank, mapping |-> r.mapping,
              open |-> r.open, trim |-> r.trim, sets |-> r.sets]
  BY <1>2
<1>4. project' = r
  BY <1>2
<1>5. life \in Nat /\ revision \in Nat /\ project.revision \in Nat
  BY <1>1 DEF ProjectTyped
<1>6. ProjectTyped'
  BY <1>3, <1>4, <1>5 DEF ProjectTyped
<1>7. CASE steps = 0
  <2>1. revision = project.revision /\ trim = project.trim
    BY <1>5, <1>7
  <2> QED BY <1>3, <1>4, <1>6, <2>1 DEF Advances
<1>8. CASE steps # 0
  <2>1. revision > project.revision
    BY <1>5, <1>8
  <2> QED BY <1>3, <1>4, <1>6, <2>1 DEF Advances
<1> QED BY <1>7, <1>8

\* The edits of the window: each of them changes one part of the project.
LEMMA PartAdvances ==
  ASSUME SliceInv, NEW steps \in Nat, NEW part
  PROVE  /\ project' = Revised(project, steps) => Advances
         /\ project' = [Revised(project, steps) EXCEPT !.bank = part] => Advances
         /\ project' = [Revised(project, steps) EXCEPT !.mapping = part] => Advances
         /\ project' = [Revised(project, steps) EXCEPT !.open = part] => Advances
         /\ project' = [Revised(project, steps) EXCEPT !.sets = part] => Advances
         /\ steps # 0 /\ part \in Trims /\ project' = [Revised(project, steps) EXCEPT !.trim = part] =>
              Advances
<1>1. ProjectTyped
  BY DEF SliceInv, DeskTyped
<1>2. PICK bank, mapping, open, trim, sets, p :
        /\ bank = project.bank /\ mapping = project.mapping /\ open = project.open
        /\ trim = project.trim /\ sets = project.sets /\ p = Revised(project, steps)
  OBVIOUS
<1>3. trim \in Trims
  BY <1>1, <1>2 DEF ProjectTyped
<1>4. PICK life, revision : life = project.life /\ revision = project.revision + steps
  OBVIOUS
<1>5. p = [life |-> life, revision |-> revision, bank |-> bank, mapping |-> mapping, open |-> open,
           trim |-> trim, sets |-> sets]
  BY <1>1, <1>2, <1>4 DEF ProjectTyped, Revised
<1>6. /\ [p EXCEPT !.bank = part] =
           [life |-> life, revision |-> revision, bank |-> part, mapping |-> mapping,
            open |-> open, trim |-> trim, sets |-> sets]
      /\ [p EXCEPT !.mapping = part] =
           [life |-> life, revision |-> revision, bank |-> bank, mapping |-> part,
            open |-> open, trim |-> trim, sets |-> sets]
      /\ [p EXCEPT !.open = part] =
           [life |-> life, revision |-> revision, bank |-> bank, mapping |-> mapping,
            open |-> part, trim |-> trim, sets |-> sets]
      /\ [p EXCEPT !.sets = part] =
           [life |-> life, revision |-> revision, bank |-> bank, mapping |-> mapping,
            open |-> open, trim |-> trim, sets |-> part]
      /\ [p EXCEPT !.trim = part] =
           [life |-> life, revision |-> revision, bank |-> bank, mapping |-> mapping,
            open |-> open, trim |-> part, sets |-> sets]
  BY <1>5
<1>7. project' = p => Advances
  BY <1>2, <1>3, <1>4, <1>5, RevisedAdvances
<1>8. project' = [p EXCEPT !.bank = part] => Advances
  BY <1>2, <1>3, <1>4, <1>6, RevisedAdvances
<1>9. project' = [p EXCEPT !.mapping = part] => Advances
  BY <1>2, <1>3, <1>4, <1>6, RevisedAdvances
<1>10. project' = [p EXCEPT !.open = part] => Advances
  BY <1>2, <1>3, <1>4, <1>6, RevisedAdvances
<1>11. project' = [p EXCEPT !.sets = part] => Advances
  BY <1>2, <1>3, <1>4, <1>6, RevisedAdvances
<1>12. steps # 0 /\ part \in Trims /\ project' = [p EXCEPT !.trim = part] => Advances
  BY <1>4, <1>6, RevisedAdvances
<1> QED BY <1>2, <1>7, <1>8, <1>9, <1>10, <1>11, <1>12

\* Steps of the project alone.
LEMMA ProjectStepKeeps ==
  ASSUME SliceInv, Advances, UNCHANGED <<work, lazy, analyses, results, sessions>>
  PROVE  Kept
<1>1. lazy'.active => Chopping
  BY DEF Chopping
<1> QED BY <1>1, PartsStay, QuietKeeps

\* cancel(), of the work on display, whatever becomes of the project and of the jobs.
LEMMA ClosingKeeps ==
  ASSUME SliceInv, Advances, CancelWork, UNCHANGED <<results, sessions>>,
         \A a \in analyses' : IsAnalysis(a) /\ a.target \in Known
  PROVE  Kept
<1>1. SliceInv'
  BY CancelTyped, PartsStay, StepKeeps
<1>2. SessionStep
  BY CancelTyped DEF SessionStep, Chopping
<1> QED BY <1>1, <1>2 DEF Kept

\* The edits of the window keep the invariant.
LEMMA WindowStepKeeps ==
  ASSUME SliceInv,
         \/ CloseWorkspace \/ CommitAssignment \/ \E bank \in Banks : SelectBank(bank)
         \/ EditProject \/ ApplyMidiSettings \/ StartOver
  PROVE  Kept
<1>1. 0 \in Nat /\ 1 \in Nat /\ 1 # 0
  OBVIOUS
<1>2. CASE CloseWorkspace
  <2>1. UNCHANGED project /\ CancelWork /\ CancelAnalysis /\ UNCHANGED <<results, sessions>>
    BY <1>2 DEF CloseWorkspace, deskVars
  <2>2. \A a \in analyses' : IsAnalysis(a) /\ a.target \in Known
    BY <2>1, CancelledJobsTyped DEF CancelAnalysis
  <2> QED BY <2>1, <2>2, PartsStay, ClosingKeeps
<1>3. CASE CommitAssignment
  <2>1. PICK steps \in {0, 1}, stay \in BOOLEAN :
          /\ project' = [Revised(project, steps) EXCEPT !.sets = @ \cup {work.plan.set}]
          /\ IF stay THEN work' = [work EXCEPT !.plan = None] /\ UNCHANGED <<lazy, analyses>>
             ELSE CancelWork /\ CancelAnalysis
          /\ UNCHANGED <<results, sessions>>
    BY <1>3 DEF CommitAssignment, Publish
  <2>2. PICK sets : sets = Revised(project, steps).sets \cup {work.plan.set}
    OBVIOUS
  <2>3. project' = [Revised(project, steps) EXCEPT !.sets = sets] /\ steps \in Nat
    BY <2>1, <2>2
  <2>4. Advances
    BY <2>3, PartAdvances
  <2>5. CASE stay
    <3>1. IsWork(work)
      BY DEF SliceInv, DeskTyped
    <3>2. PICK now, analysis : now = session /\ analysis = work.analysis
      OBVIOUS
    <3>3. work' = [session |-> now, plan |-> None, analysis |-> analysis]
      BY <2>1, <2>5, <3>1, <3>2 DEF IsWork, session
    <3>4. IsWork(work') /\ work'.session = now /\ session' = now
      BY <3>3 DEF IsWork, session
    <3>5. UNCHANGED <<lazy, analyses, results, sessions>>
      BY <2>1, <2>5
    <3>6. Chopping' => Chopping /\ work'.session \in OpenSessions(session.target)
      BY <3>2, <3>4, <3>5, PartsStay DEF Chopping
    <3>7. SliceInv'
      BY <2>4, <3>4, <3>5, <3>6, PartsStay, StepKeeps
    <3>8. SessionStep
      BY <3>2, <3>4, <3>5 DEF SessionStep
    <3> QED BY <3>7, <3>8 DEF Kept
  <2>6. CASE ~stay
    <3>1. CancelWork /\ CancelAnalysis /\ UNCHANGED <<results, sessions>>
      BY <2>1, <2>6
    <3>2. \A a \in analyses' : IsAnalysis(a) /\ a.target \in Known
      BY <3>1, CancelledJobsTyped DEF CancelAnalysis
    <3> QED BY <2>4, <3>1, <3>2, ClosingKeeps
  <2> QED BY <2>5, <2>6
<1>4. CASE \E bank \in Banks : SelectBank(bank)
  <2>1. PICK bank \in Banks : SelectBank(bank)
    BY <1>4
  <2>2. /\ project' = [Revised(project, 1) EXCEPT !.bank = bank]
        /\ UNCHANGED <<work, lazy, analyses, results, sessions>>
    BY <2>1 DEF SelectBank, Publish, workspaceVars
  <2> QED BY <1>1, <2>2, PartAdvances, ProjectStepKeeps
<1>5. CASE EditProject
  <2>1. UNCHANGED <<work, lazy, analyses, results, sessions>>
    BY <1>5 DEF EditProject, workspaceVars
  <2>2. PICK part :
          \/ part \in Trims /\ project' = [Revised(project, 1) EXCEPT !.trim = part]
          \/ project' = [Revised(project, 1) EXCEPT !.mapping = part]
          \/ project' = [Revised(project, 1) EXCEPT !.sets = part]
    BY <1>5 DEF EditProject, Publish
  <2> QED BY <1>1, <2>1, <2>2, PartAdvances, ProjectStepKeeps
<1>6. CASE ApplyMidiSettings
  <2>1. UNCHANGED <<work, lazy, analyses, results, sessions>>
    BY <1>6 DEF ApplyMidiSettings, workspaceVars
  <2>2. PICK open \in BOOLEAN : project' = [Revised(project, 1) EXCEPT !.open = open]
    BY <1>6 DEF ApplyMidiSettings, Publish
  <2> QED BY <1>1, <2>1, <2>2, PartAdvances, ProjectStepKeeps
<1>7. CASE StartOver
  <2>1. /\ CancelWork \/ UNCHANGED <<work, lazy>>
        /\ analyses' = {[a EXCEPT !.cancelled = TRUE] : a \in analyses}
        /\ UNCHANGED <<results, sessions>>
    BY <1>7 DEF StartOver
  <2>2. PICK trim \in Trims :
          project' = [project EXCEPT !.life = @ + 1, !.revision = 0, !.trim = trim, !.sets = {}]
    BY <1>7 DEF StartOver, Publish
  <2>3. Advances
    <3>1. ProjectTyped
      BY DEF SliceInv, DeskTyped
    <3>2. PICK life, bank, mapping, open :
            /\ life = project.life + 1 /\ bank = project.bank
            /\ mapping = project.mapping /\ open = project.open
      OBVIOUS
    <3>3. project' = [life |-> life, revision |-> 0, bank |-> bank, mapping |-> mapping,
                      open |-> open, trim |-> trim, sets |-> {}]
      BY <2>2, <3>1, <3>2 DEF ProjectTyped
    <3>4. life \in Nat /\ life > project.life
      BY <3>1, <3>2 DEF ProjectTyped
    <3> QED BY <3>3, <3>4 DEF Advances, ProjectTyped
  <2>4. \A a \in analyses' : IsAnalysis(a) /\ a.target \in Known
    BY <2>1, CancelledJobsTyped
  <2>5. CASE CancelWork
    BY <2>1, <2>3, <2>4, <2>5, ClosingKeeps
  <2>6. CASE UNCHANGED <<work, lazy>>
    <3>1. Chopping' => Chopping /\ work'.session \in OpenSessions(session.target)
      BY <2>6, PartsStay DEF Chopping, session
    <3>2. SliceInv'
      BY <2>1, <2>3, <2>4, <2>6, <3>1, PartsStay, StepKeeps
    <3>3. SessionStep
      BY <2>1, <2>6 DEF SessionStep, session
    <3> QED BY <3>2, <3>3 DEF Kept
  <2> QED BY <2>1, <2>5, <2>6
<1> QED BY <1>2, <1>3, <1>4, <1>5, <1>6, <1>7

\* Hands and the engine leave the slices alone, but for the markers they place.
LEMMA HandStepKeeps ==
  ASSUME SliceInv,
         \/ \E k \in Keys : KeyPressed(k) \/ KeyReleased(k)
         \/ \E p \in MousePads : PadMouseDown(p) \/ PadMouseUp(p)
         \/ \E n \in Notes : MidiNoteOn(n) \/ MidiNoteOff(n)
         \/ ProcessBlock \/ AllNotesOff \/ AuditionSelectedLayer \/ Devices \/ UNCHANGED vars
  PROVE  Kept
<1>1. ASSUME UNCHANGED <<project, work, lazy, analyses, results, sessions>> PROVE Kept
  BY <1>1, PartsStay, ProjectStepKeeps
<1>2. ASSUME UNCHANGED <<project, work, analyses, results, sessions>>, CaptureMarker PROVE Kept
  BY <1>2, CaptureTyped, PartsStay, QuietKeeps
<1>3. ASSUME NEW k \in Keys, KeyPressed(k) PROVE Kept
  <2>1. /\ UNCHANGED <<project, work, analyses, results, sessions>>
        /\ CaptureMarker \/ UNCHANGED lazy
    BY <1>3 DEF KeyPressed
  <2> QED BY <1>1, <1>2, <2>1
<1>4. ASSUME NEW k \in Keys, KeyReleased(k) PROVE Kept
  BY <1>1, <1>4 DEF KeyReleased, deskVars, workspaceVars
<1>5. ASSUME NEW p \in MousePads, PadMouseDown(p) PROVE Kept
  <2>1. /\ project' = Revised(project, 2) /\ 2 \in Nat
        /\ UNCHANGED <<work, lazy, analyses, results, sessions>>
    BY <1>5 DEF PadMouseDown, MouseDown, workspaceVars
  <2> QED BY <2>1, PartAdvances, ProjectStepKeeps
<1>6. ASSUME NEW p \in MousePads, PadMouseUp(p) PROVE Kept
  BY <1>1, <1>6 DEF PadMouseUp, deskVars, workspaceVars
<1>7. ASSUME NEW n \in Notes, MidiNoteOn(n) PROVE Kept
  <2>1. /\ UNCHANGED <<project, work, analyses, results, sessions>>
        /\ CaptureMarker \/ UNCHANGED lazy
    BY <1>7 DEF MidiNoteOn
  <2> QED BY <1>1, <1>2, <2>1
<1>8. ASSUME NEW n \in Notes, MidiNoteOff(n) PROVE Kept
  BY <1>1, <1>8 DEF MidiNoteOff, deskVars, workspaceVars
<1>9. CASE ProcessBlock
  BY <1>1, <1>9 DEF ProcessBlock, deskVars, workspaceVars
<1>10. CASE AllNotesOff
  BY <1>1, <1>10 DEF AllNotesOff, workspaceVars
<1>11. CASE AuditionSelectedLayer
  BY <1>1, <1>11 DEF AuditionSelectedLayer, workspaceVars
<1>12. CASE Devices
  BY <1>1, <1>12 DEF Devices, deskVars, workspaceVars
<1>13. CASE UNCHANGED vars
  BY <1>1, <1>13 DEF vars
<1> QED BY <1>3, <1>4, <1>5, <1>6, <1>7, <1>8, <1>9, <1>10, <1>11, <1>12, <1>13

\* Every step keeps the invariant.
LEMMA SliceNextKeeps ==
  ASSUME SliceInv, [Next]_vars
  PROVE  /\ SliceInv'
         /\ SessionStep \/ (sessions' = sessions + 1 /\ session'.target.id = sessions + 1)
<1>1. CASE TimerCallback
  BY <1>1, ServiceKeeps DEF TimerCallback, deskVars, Kept
<1>2. CASE Worker
  BY <1>2, FinishKeeps DEF Worker, Kept
<1>3. CASE OpenWorkspace
  BY <1>3, OpenKeeps
<1>4. CASE WorkspaceStep
  BY <1>4, WorkspaceStepKeeps DEF Kept
<1>5. CASE \/ CloseWorkspace \/ CommitAssignment \/ \E bank \in Banks : SelectBank(bank)
           \/ EditProject \/ ApplyMidiSettings \/ StartOver
  BY <1>5, WindowStepKeeps DEF Kept
<1>6. CASE \/ \E k \in Keys : KeyPressed(k) \/ KeyReleased(k)
           \/ \E p \in MousePads : PadMouseDown(p) \/ PadMouseUp(p)
           \/ \E n \in Notes : MidiNoteOn(n) \/ MidiNoteOff(n)
           \/ ProcessBlock \/ AllNotesOff \/ AuditionSelectedLayer \/ Devices \/ UNCHANGED vars
  BY <1>6, HandStepKeeps DEF Kept
<1> QED BY <1>1, <1>2, <1>3, <1>4, <1>5, <1>6 DEF Next

\* The invariant holds of every behaviour.
LEMMA SliceInvAlways == Spec => []SliceInv
<1>1. Init => SliceInv
  BY SliceInit
<1>2. SliceInv /\ [Next]_vars => SliceInv'
  BY SliceNextKeeps
<1> QED BY <1>1, <1>2, PTL DEF Spec

\* The slices on display and those undo and redo lead to are a valid cut of the trim the
\* session was begun on, whatever regenerates, edits, undoes, captures or analyses them.
THEOREM SlicesStayFitted == Spec => []SlicesFitSession
<1>1. SliceInv => SlicesFitSession
  BY InvFitsSession
<1> QED BY <1>1, SliceInvAlways, PTL

-----------------------------------------------------------------------------
(***************************************************************************)
(* The line of the slices: within a session, undo and redo walk it.         *)
(***************************************************************************)

\* The regions of a stack form a sequence of its length.
LEMMA RegionsSequence ==
  ASSUME NEW h, IsSequence(h)
  PROVE  /\ Len(h) \in Nat
         /\ IsSequence(RegionsOf(h))
         /\ Len(RegionsOf(h)) = Len(h)
         /\ \A i \in 1 .. Len(h) : RegionsOf(h)[i] = h[i].regions
<1> DEFINE T == {h[i].regions : i \in 1 .. Len(h)}
<1>1. Len(h) \in Nat /\ DOMAIN h = 1 .. Len(h)
  BY DomainOfSequence
<1>2. RegionsOf(h) \in [1 .. Len(h) -> T]
  BY <1>1 DEF RegionsOf
<1>3. RegionsOf(h) \in Seq(T) /\ Len(RegionsOf(h)) = Len(h)
  <2> HIDE DEF T
  <2> QED BY <1>1, <1>2, IsASeq, LenProperties
<1> QED BY <1>1, <1>3 DEF IsSequence, RegionsOf

\* A stack that goes on one place further than another.
LEMMA RegionsFurther ==
  ASSUME NEW h, IsSequence(h), NEW g, IsSequence(g), NEW set, Len(g) = Len(h) + 1,
         \A i \in 1 .. Len(h) : g[i] = h[i], g[Len(h) + 1] = set
  PROVE  RegionsOf(g) = Append(RegionsOf(h), set.regions)
<1>1. PICK left, old, regions, right :
        /\ left = RegionsOf(g) /\ old = RegionsOf(h) /\ regions = set.regions
        /\ right = Append(old, regions)
  OBVIOUS
<1>2. /\ IsSequence(left) /\ Len(left) = Len(g)
      /\ \A i \in 1 .. Len(g) : left[i] = g[i].regions
  BY <1>1, RegionsSequence
<1>3. /\ IsSequence(old) /\ Len(old) = Len(h) /\ Len(h) \in Nat
      /\ \A i \in 1 .. Len(h) : old[i] = h[i].regions
  BY <1>1, RegionsSequence
<1>4. /\ IsSequence(right) /\ Len(right) = Len(h) + 1
      /\ \A i \in 1 .. Len(h) : right[i] = old[i]
      /\ right[Len(h) + 1] = regions
  BY <1>1, <1>3, AppendedSequence
<1>5. ASSUME NEW i \in 1 .. Len(h) + 1 PROVE left[i] = right[i]
  <2>1. CASE i \in 1 .. Len(h)
    <3>1. left[i] = g[i].regions /\ g[i] = h[i]
      BY <1>2, <1>3, <2>1
    <3> QED BY <1>3, <1>4, <2>1, <3>1
  <2>2. CASE i = Len(h) + 1
    <3>1. left[i] = g[i].regions /\ g[i] = set
      BY <1>2, <1>3, <2>2
    <3> QED BY <1>1, <1>4, <2>2, <3>1
  <2> QED BY <1>3, <2>1, <2>2
<1>6. left = right
  BY <1>2, <1>3, <1>4, <1>5, SameSequence
<1> QED BY <1>1, <1>6

\* A stack that an edit is pushed on.
LEMMA RegionsAppended ==
  ASSUME NEW h, IsSequence(h), NEW set
  PROVE  RegionsOf(Append(h, set)) = Append(RegionsOf(h), set.regions)
<1>1. PICK g : g = Append(h, set)
  OBVIOUS
<1>2. /\ IsSequence(g) /\ Len(g) = Len(h) + 1
      /\ \A i \in 1 .. Len(h) : g[i] = h[i]
      /\ g[Len(h) + 1] = set
  BY <1>1, AppendedSequence
<1> QED BY <1>1, <1>2, RegionsFurther

\* A stack whose top is taken away.
LEMMA RegionsFront ==
  ASSUME NEW h, IsSequence(h), h # <<>>
  PROVE  /\ RegionsOf(h) # <<>> /\ RegionsOf(h)[Len(RegionsOf(h))] = h[Len(h)].regions
         /\ RegionsOf(SubSeq(h, 1, Len(h) - 1)) =
              [i \in 1 .. Len(RegionsOf(h)) - 1 |-> RegionsOf(h)[i]]
<1>1. PICK front, c : front = SubSeq(h, 1, Len(h) - 1) /\ c = RegionsOf(h)
  OBVIOUS
<1>2. /\ IsSequence(front) /\ Len(h) \in Nat \ {0} /\ Len(front) = Len(h) - 1
      /\ \A i \in 1 .. Len(h) - 1 : front[i] = h[i]
  BY <1>1, ShortenedSequence
<1>3. /\ IsSequence(c) /\ Len(c) = Len(h)
      /\ \A i \in 1 .. Len(h) : c[i] = h[i].regions
  BY <1>1, RegionsSequence
<1>4. c # <<>> /\ c[Len(c)] = h[Len(h)].regions
  BY <1>2, <1>3, EmptyIsSequence
<1>5. RegionsOf(front) = [i \in 1 .. Len(h) - 1 |-> front[i].regions]
  BY <1>2, DomainOfSequence DEF RegionsOf
<1>6. \A i \in 1 .. Len(h) - 1 : front[i].regions = c[i]
  <2> SUFFICES ASSUME NEW i \in 1 .. Len(h) - 1 PROVE front[i].regions = c[i]
    OBVIOUS
  <2>1. i \in 1 .. Len(h) /\ front[i] = h[i]
    BY <1>2
  <2> QED BY <1>3, <2>1
<1>7. RegionsOf(front) = [i \in 1 .. Len(c) - 1 |-> c[i]]
  BY <1>3, <1>5, <1>6
<1> QED BY <1>1, <1>4, <1>7

\* Slices behind which the old ones lie are edits of the line.
LEMMA LengthenedOnLine ==
  ASSUME NEW target, NEW a \in OpenSessions(target), NEW b \in OpenSessions(target),
         Lengthened(a, b)
  PROVE  /\ Len(RegionsOf(b.undo)) > Len(RegionsOf(a.undo))
         /\ SubSeq(RegionsOf(b.undo), 1, Len(RegionsOf(a.undo)) + 1) =
              Append(RegionsOf(a.undo), a.set.regions)
         /\ RegionsOf(b.redo) = <<>>
<1>1. PICK h, g, set : h = a.undo /\ g = b.undo /\ set = a.set
  OBVIOUS
<1>2. IsSequence(h) /\ IsSequence(g) /\ Len(h) \in Nat /\ Len(g) \in Nat
  BY <1>1, OpenTyped, LenProperties DEF IsSequence
<1>3. Len(g) > Len(h) /\ (\A i \in 1 .. Len(h) : g[i] = h[i]) /\ g[Len(h) + 1] = set
  BY <1>1 DEF Lengthened
<1>4. PICK p, q, regions, n, right :
        /\ p = RegionsOf(h) /\ q = RegionsOf(g) /\ regions = set.regions /\ n = Len(p) + 1
        /\ right = Append(p, regions)
  OBVIOUS
<1>5. /\ IsSequence(p) /\ Len(p) = Len(h) /\ \A i \in 1 .. Len(h) : p[i] = h[i].regions
  BY <1>2, <1>4, RegionsSequence
<1>6. /\ IsSequence(q) /\ Len(q) = Len(g) /\ \A i \in 1 .. Len(g) : q[i] = g[i].regions
  BY <1>2, <1>4, RegionsSequence
<1>7. /\ IsSequence(right) /\ Len(right) = n /\ \A i \in 1 .. Len(h) : right[i] = p[i]
      /\ right[n] = regions
  BY <1>4, <1>5, AppendedSequence
<1>8. PICK some : some = SubSeq(q, 1, n)
  OBVIOUS
<1>9. IsSequence(some) /\ Len(some) = n /\ \A i \in 1 .. n : some[i] = q[i]
  <2>1. PICK V : q \in Seq(V)
    BY <1>6 DEF IsSequence
  <2>2. n \in Nat /\ n <= Len(q) /\ 1 \in Int /\ n \in Int
    BY <1>2, <1>3, <1>4, <1>5, <1>6
  <2>3. \A i \in 1 .. n : i \in 1 .. Len(q)
    BY <2>2, <1>2, <1>6
  <2>4. \A i \in 1 .. n : q[i] \in V
    BY <2>1, <2>3, ElementOfSeq
  <2>5. some \in Seq(V) /\ Len(some) = n /\ \A i \in 1 .. n : some[i] = q[i]
    BY <1>8, <2>1, <2>2, <2>4, SubSeqProperties
  <2> QED BY <2>5 DEF IsSequence
<1>10. ASSUME NEW i \in 1 .. n PROVE some[i] = right[i]
  <2>1. i \in 1 .. Len(g) /\ some[i] = g[i].regions
    BY <1>2, <1>3, <1>4, <1>5, <1>6, <1>9
  <2>2. CASE i \in 1 .. Len(h)
    BY <1>3, <1>5, <1>7, <2>1, <2>2
  <2>3. CASE i = n
    <3>1. g[i] = set
      BY <1>3, <1>4, <1>5, <2>3
    <3> QED BY <1>4, <1>7, <2>1, <2>3, <3>1
  <2>4. i \in 1 .. Len(h) \/ i = n
    BY <1>2, <1>4, <1>5
  <2> QED BY <2>2, <2>3, <2>4
<1>11. some = right
  BY <1>7, <1>9, <1>10, SameSequence
<1>12. RegionsOf(b.redo) = <<>>
  <2>1. b.redo = <<>>
    BY DEF Lengthened
  <2> QED BY <2>1, EmptyIsSequence DEF RegionsOf
<1> QED BY <1>1, <1>3, <1>4, <1>5, <1>6, <1>8, <1>11, <1>12

\* What undo and redo make of a session's slices.
LEMMA RewoundParts ==
  ASSUME NEW target, NEW s \in OpenSessions(target)
  PROVE  /\ Rewound(s).set = s.undo[Len(s.undo)]
         /\ Rewound(s).undo = SubSeq(s.undo, 1, Len(s.undo) - 1)
         /\ Rewound(s).redo = Append(s.redo, s.set)
         /\ Replayed(s).set = s.redo[Len(s.redo)]
         /\ Replayed(s).redo = SubSeq(s.redo, 1, Len(s.redo) - 1)
         /\ Replayed(s).undo = Append(s.undo, s.set)
<1>1. s = [state |-> s.state, target |-> target, set |-> s.set, undo |-> s.undo,
           redo |-> s.redo, selected |-> s.selected]
  BY OpenTyped
<1>2. PICK set, undo, redo, selected :
        /\ set = s.undo[Len(s.undo)] /\ undo = SubSeq(s.undo, 1, Len(s.undo) - 1)
        /\ redo = Append(s.redo, s.set) /\ selected = ClampSelected(s.selected, set)
  OBVIOUS
<1>3. Rewound(s) = [s EXCEPT !.state = "ready", !.set = set, !.undo = undo, !.redo = redo,
                             !.selected = selected]
  BY <1>2 DEF Rewound
<1>4. Rewound(s).set = set /\ Rewound(s).undo = undo /\ Rewound(s).redo = redo
  BY <1>1, <1>3
<1>5. PICK later, past, future, chosen :
        /\ later = s.redo[Len(s.redo)] /\ future = SubSeq(s.redo, 1, Len(s.redo) - 1)
        /\ past = Append(s.undo, s.set) /\ chosen = ClampSelected(s.selected, later)
  OBVIOUS
<1>6. Replayed(s) = [s EXCEPT !.state = "ready", !.set = later, !.redo = future, !.undo = past,
                              !.selected = chosen]
  BY <1>5 DEF Replayed
<1>7. Replayed(s).set = later /\ Replayed(s).redo = future /\ Replayed(s).undo = past
  BY <1>1, <1>6
<1> QED BY <1>2, <1>4, <1>5, <1>7

\* A step of a session is a step of the line, or none.
LEMMA SessionStepOnLine ==
  ASSUME SliceInv, Ready(session), Ready(session'), session' \in OpenSessions(session.target),
         OnLine(session, session')
  PROVE  \/ Line!Edits \/ Line!Undo \/ Line!Redo
         \/ UNCHANGED <<session.set, session.undo, session.redo>>
<1>1. PICK target, a, b : target = session.target /\ a = session /\ b = session'
  OBVIOUS
<1>2. a \in OpenSessions(target) /\ b \in OpenSessions(target) /\ OnLine(a, b)
  BY <1>1, ReadyTyped
<1>3. IsSequence(a.undo) /\ IsSequence(a.redo)
  BY <1>2, OpenTyped DEF IsSequence
<1>4. CASE Same(a, b)
  BY <1>1, <1>4 DEF Same
<1>5. CASE Lengthened(a, b)
  <2>1. /\ Len(RegionsOf(b.undo)) > Len(RegionsOf(a.undo))
        /\ SubSeq(RegionsOf(b.undo), 1, Len(RegionsOf(a.undo)) + 1) =
             Append(RegionsOf(a.undo), a.set.regions)
        /\ RegionsOf(b.redo) = <<>>
    BY <1>2, <1>5, LengthenedOnLine
  <2>2. Line!Edits
    BY <1>1, <2>1 DEF Line!Edits
  <2> QED BY <2>2
<1>6. CASE a.undo # <<>> /\ b = Rewound(a)
  <2>1. PICK h : h = a.undo
    OBVIOUS
  <2>2. /\ b.set = h[Len(h)] /\ b.undo = SubSeq(h, 1, Len(h) - 1) /\ b.redo = Append(a.redo, a.set)
    BY <1>2, <1>6, <2>1, RewoundParts
  <2>3. /\ RegionsOf(h) # <<>> /\ b.set.regions = RegionsOf(h)[Len(RegionsOf(h))]
        /\ RegionsOf(b.undo) = [i \in 1 .. Len(RegionsOf(h)) - 1 |-> RegionsOf(h)[i]]
    BY <1>3, <1>6, <2>1, <2>2, RegionsFront
  <2>4. RegionsOf(b.redo) = Append(RegionsOf(a.redo), a.set.regions)
    BY <1>3, <2>2, RegionsAppended
  <2>5. Line!Undo
    BY <1>1, <2>1, <2>3, <2>4 DEF Line!Undo, Line!FrontOf
  <2> QED BY <2>5
<1>7. CASE a.redo # <<>> /\ b = Replayed(a)
  <2>1. PICK h : h = a.redo
    OBVIOUS
  <2>2. /\ b.set = h[Len(h)] /\ b.redo = SubSeq(h, 1, Len(h) - 1) /\ b.undo = Append(a.undo, a.set)
    BY <1>2, <1>7, <2>1, RewoundParts
  <2>3. /\ RegionsOf(h) # <<>> /\ b.set.regions = RegionsOf(h)[Len(RegionsOf(h))]
        /\ RegionsOf(b.redo) = [i \in 1 .. Len(RegionsOf(h)) - 1 |-> RegionsOf(h)[i]]
    BY <1>3, <1>7, <2>1, <2>2, RegionsFront
  <2>4. RegionsOf(b.undo) = Append(RegionsOf(a.undo), a.set.regions)
    BY <1>3, <2>2, RegionsAppended
  <2>5. Line!Redo
    BY <1>1, <2>1, <2>3, <2>4 DEF Line!Redo, Line!FrontOf
  <2> QED BY <2>5
<1> QED BY <1>2, <1>4, <1>5, <1>6, <1>7 DEF OnLine, GoesOn

\* Sessions are numbered as they begin, so none has the number of the next.
IdInv == Ready(session) => session.target.id <= sessions

\* Within a session the slices form one line that undo and redo walk, whichever of the
\* controls, the lazy capture or a late analysis cuts them.
THEOREM SlicesAreUndoable == Spec => MarkersUndoable
<1>1. Init => IdInv
  BY DEF Init, IdInv, session, NoWork, IdleSession, Ready
<1>2. SliceInv /\ IdInv /\ [Next]_vars => IdInv'
  <2> SUFFICES ASSUME SliceInv, IdInv, [Next]_vars, Ready(session)' PROVE session'.target.id <= sessions'
    BY DEF IdInv
  <2>1. SliceInv' /\ sessions \in Nat
    BY SliceNextKeeps DEF SliceInv, DeskTyped
  <2>2. CASE SessionStep
    <3>1. PICK target : target = session.target
      OBVIOUS
    <3>2. session'.target = target /\ Ready(session) /\ sessions' = sessions
      BY <2>2, <3>1, OpenTyped DEF SessionStep
    <3> QED BY <3>1, <3>2 DEF IdInv
  <2>3. CASE sessions' = sessions + 1 /\ session'.target.id = sessions + 1
    BY <2>1, <2>3
  <2> QED BY <2>2, <2>3, SliceNextKeeps
<1>3. SliceInv /\ IdInv /\ [Next]_vars =>
        [Ready(session) /\ Ready(session') /\ session'.target = session.target =>
           Line!Edits \/ Line!Undo \/ Line!Redo]_<<session.set, session.undo, session.redo>>
  <2> SUFFICES ASSUME SliceInv, IdInv, [Next]_vars, Ready(session), Ready(session'),
                      session'.target = session.target
               PROVE  \/ Line!Edits \/ Line!Undo \/ Line!Redo
                      \/ UNCHANGED <<session.set, session.undo, session.redo>>
    OBVIOUS
  <2>1. CASE SessionStep
    <3>1. CASE session' = session
      BY <3>1
    <3>2. CASE session' \in OpenSessions(session.target) /\ OnLine(session, session')
      BY <3>2, SessionStepOnLine
    <3> QED BY <2>1, <3>1, <3>2 DEF SessionStep
  <2>2. CASE sessions' = sessions + 1 /\ session'.target.id = sessions + 1
    <3>1. session.target.id <= sessions /\ session.target.id = sessions + 1
      BY <2>2 DEF IdInv
    <3>2. session.target.id \in Nat /\ sessions \in Nat
      BY ReadyTyped DEF SliceInv, DeskTyped
    <3> QED BY <3>1, <3>2
  <2> QED BY <2>1, <2>2, SliceNextKeeps
<1> QED BY <1>1, <1>2, <1>3, SliceInvAlways, PTL DEF Spec, MarkersUndoable

\* An analysis asks what its lemmas are about.
LEMMA AnalysisAsks ==
  ASSUME NEW a, IsAnalysis(a), Sound(a.target)
  PROVE  Asked(a)
<1>1. PICK trim \in Trims : a.target.trimStart = trim.start /\ a.target.trimEnd = trim.end
  BY DEF Sound
<1>2. a.target.trimStart \in Nat /\ a.target.trimEnd \in Nat
  BY DEF Sound, Targets
<1>3. \A frame \in a.target.trimStart .. a.target.trimEnd - 1 : a.envelope[frame] \in Nat
  BY <1>1, AnalysisAssumption DEF IsAnalysis
<1>4. /\ a.sensitivity \in 0 .. 10 /\ a.floor \in Nat /\ a.minimum \in Nat /\ a.lookBack \in Nat
  BY AnalysisAssumption DEF IsAnalysis
<1> QED BY <1>2, <1>3, <1>4 DEF Asked, IsAnalysis

\* Whatever the source sounds like and however it is asked, an analysis finds markers at
\* least the minimum apart, each a look-back before a rise that reaches the floor, the
\* strongest rise among them, and all that a lower sensitivity would find.
THEOREM AnalysesMeetReference == Spec => AnalysisSound
<1>1. SliceInv' => [\A job \in analyses' \ analyses : AnalysisMeetsReference(job)]_vars
  <2> SUFFICES ASSUME SliceInv', NEW job \in analyses' PROVE AnalysisMeetsReference(job)
    OBVIOUS
  <2>1. IsAnalysis(job) /\ job.target \in Known'
    BY DEF SliceInv, DeskTyped, Known
  <2>2. Sound(job.target)
    BY <2>1 DEF SliceInv, TargetsPresent
  <2>3. Asked(job)
    BY <2>1, <2>2, AnalysisAsks
  <2> QED BY <2>3, AnalysisMeets
<1> QED BY <1>1, SliceInvAlways, PTL DEF AnalysisSound

-----------------------------------------------------------------------------
(* Notes: what the router answers as the project stands, and what sounds.    *)

\* The router's copies are those of the project.
RouterFresh == routed = Answering(project)

\* What sounds in the end: what waits is played after the engine's queue.
LEMMA SoundingSplit ==
  ASSUME QueuesTyped
  PROVE  Sounding = After(Played, Waiting) /\ Waiting \in Seq(Commands)
<1>1. Waiting \in Seq(Commands) /\ engineQueue \in Seq(Commands)
  BY WaitingTyped DEF QueuesTyped
<1> QED BY <1>1, AfterBoth DEF Played, Sounding

LEMMA SoundingNext ==
  ASSUME QueuesTyped'
  PROVE  Sounding' = After(Played', Waiting') /\ Waiting' \in Seq(Commands)
<1>1. PICK g, e, d, m : g = gates' /\ e = engineQueue' /\ d = deferred' /\ m = midiCommands'
  OBVIOUS
<1>2. e \in Seq(Commands) /\ d \in Seq(MidiCommands) /\ m \in Seq(MidiCommands)
  BY <1>1 DEF QueuesTyped
<1>3. PICK w : w = d \o m
  OBVIOUS
<1>4. w \in Seq(Commands)
  <2>1. w \in Seq(MidiCommands)
    BY <1>2, <1>3, ConcatProperties
  <2> QED BY <2>1, MidiAreCommands
<1>5. After(g, e \o w) = After(After(g, e), w)
  BY <1>2, <1>4, AfterBoth
<1>6. Waiting' = w
  BY <1>1, <1>3 DEF Waiting
<1> QED BY <1>1, <1>4, <1>5, <1>6 DEF Played, Sounding

\* What is played besides sounds besides, as long as the same commands wait.
LEMMA SoundsBesides ==
  ASSUME QueuesTyped, QueuesTyped', Waiting' = Waiting, NEW X, Played' \subseteq Played \cup X
  PROVE  Sounding' \subseteq Sounding \cup X
<1>1. PICK w, now, later : w = Waiting /\ now = Played /\ later = Played'
  OBVIOUS
<1>2. Sounding = After(now, w) /\ Sounding' = After(later, w) /\ w \in Seq(Commands)
  BY <1>1, SoundingSplit, SoundingNext
<1>3. After(later, w) \subseteq After(now, w) \cup X
  BY <1>1, <1>2, AfterMonotone
<1> QED BY <1>2, <1>3

\* A command for the engine that is no note's lets no note sound.
LEMMA EnqueueIsQuiet ==
  ASSUME QueuesTyped, QueuesTyped', NEW c \in Commands, Enqueue(c),
         UNCHANGED <<midiCommands, deferred, gates>>,
         NEW x, c = Trigger(x) \/ c = Release(x) \/ c = Panic
  PROVE  Sounding' \subseteq Sounding \cup {x}
<1>1. Waiting' = Waiting
  BY DEF Waiting
<1>2. Played' = IF EngineFull THEN Played ELSE Effect(Played, c)
  BY <1>1, Enqueued
<1>3. Played' \subseteq Played \cup {x}
  BY <1>2, Effects
<1> QED BY <1>1, <1>3, SoundsBesides

\* Nor does a step that leaves the queues, or all that waits, alone.
LEMMA FewerSound ==
  ASSUME QueuesTyped, QueuesTyped', Waiting' = Waiting, Played' \subseteq Played
  PROVE  Sounding' \subseteq Sounding
<1>1. Played' \subseteq Played \cup {}
  OBVIOUS
<1>2. Sounding' \subseteq Sounding \cup {}
  BY <1>1, SoundsBesides
<1> QED BY <1>2

\* The timer changes who has the commands, not what sounds in the end.
LEMMA FlushSoundsTheSame ==
  ASSUME QueuesTyped, QueuesTyped', FlushMidiCommands, UNCHANGED gates
  PROVE  Sounding' = Sounding
<1>1. PICK taken \in 0 .. Len(Waiting) : Moves(taken)
  BY Flushed
<1>2. PICK first, rest, now, later :
        /\ first = SubSeq(Waiting, 1, taken) /\ rest = Waiting'
        /\ now = Played /\ later = Played'
  OBVIOUS
<1>3. /\ first \in Seq(MidiCommands) /\ Waiting = first \o rest /\ later = After(now, first)
  BY <1>1, <1>2 DEF Moves
<1>4. first \in Seq(Commands) /\ rest \in Seq(Commands)
  BY <1>2, <1>3, MidiAreCommands, SoundingNext
<1>5. After(now, first \o rest) = After(After(now, first), rest)
  BY <1>4, AfterBoth
<1> QED BY <1>2, <1>3, <1>5, SoundingSplit, SoundingNext

\* A note message has its effect on what sounds in the end, if it finds room.
LEMMA MessageSounds ==
  ASSUME QueuesTyped, QueuesTyped', NEW c \in MidiCommands, MidiQueued(c),
         UNCHANGED <<deferred, engineQueue, gates>>
  PROVE  Sounding' = IF Len(midiCommands) < MidiCapacity THEN Effect(Sounding, c) ELSE Sounding
<1>1. /\ Played' = Played
      /\ Waiting' = IF Len(midiCommands) < MidiCapacity THEN Append(Waiting, c) ELSE Waiting
  BY MidiTaken
<1>2. PICK w, now : w = Waiting /\ now = Played
  OBVIOUS
<1>3. w \in Seq(Commands) /\ Sounding = After(now, w) /\ c \in Commands
  BY <1>2, SoundingSplit, MidiAreCommands
<1>4. After(now, Append(w, c)) = Effect(After(now, w), c)
  BY <1>3, AfterOneMore
<1>5. Sounding' = After(now, IF Len(midiCommands) < MidiCapacity THEN Append(w, c) ELSE w)
  BY <1>1, <1>2, SoundingNext
<1> QED BY <1>3, <1>4, <1>5

\* No note sounds that did not.
NoNewNote == \A n \in Notes : Midi(n) \in Sounding' => Midi(n) \in Sounding

\* Only a note-on lets a note sound.
LEMMA OnlyNoteOns ==
  ASSUME QueuesTyped, QueuesTyped', [Next]_vars
  PROVE  NoNewNote \/ \E n \in Notes : MidiNoteOn(n)
<1>1. ASSUME UNCHANGED <<midiCommands, deferred, engineQueue, gates>> PROVE NoNewNote
  <2>1. Waiting' = Waiting /\ Played' \subseteq Played
    BY <1>1, QuietQueues
  <2> QED BY <2>1, FewerSound DEF NoNewNote
<1>2. ASSUME NEW k \in Keys, UNCHANGED <<midiCommands, deferred, gates>>,
             \/ Enqueue(Trigger(Key(k))) \/ Enqueue(Release(Key(k)))
             \/ UNCHANGED engineQueue
      PROVE  NoNewNote
  <2>1. CASE UNCHANGED engineQueue
    BY <1>1, <1>2, <2>1
  <2>2. CASE Enqueue(Trigger(Key(k))) \/ Enqueue(Release(Key(k)))
    <3>1. PICK c \in Commands : Enqueue(c) /\ (c = Trigger(Key(k)) \/ c = Release(Key(k)))
      BY <2>2, CommandsTyped
    <3>2. PICK x : x = Key(k)
      OBVIOUS
    <3>3. Sounding' \subseteq Sounding \cup {x}
      BY <1>2, <3>1, <3>2, EnqueueIsQuiet
    <3> QED BY <3>2, <3>3, SourcesDiffer DEF NoNewNote
  <2> QED BY <1>2, <2>1, <2>2
<1>3. ASSUME NEW p \in MousePads, UNCHANGED <<midiCommands, deferred, gates>>,
             \/ Enqueue(Trigger(Mouse(p))) \/ Enqueue(Release(Mouse(p)))
             \/ UNCHANGED engineQueue
      PROVE  NoNewNote
  <2>1. CASE UNCHANGED engineQueue
    BY <1>1, <1>3, <2>1
  <2>2. CASE Enqueue(Trigger(Mouse(p))) \/ Enqueue(Release(Mouse(p)))
    <3>1. PICK c \in Commands : Enqueue(c) /\ (c = Trigger(Mouse(p)) \/ c = Release(Mouse(p)))
      BY <2>2, CommandsTyped
    <3>2. PICK x : x = Mouse(p)
      OBVIOUS
    <3>3. Sounding' \subseteq Sounding \cup {x}
      BY <1>3, <3>1, <3>2, EnqueueIsQuiet
    <3> QED BY <3>2, <3>3, SourcesDiffer DEF NoNewNote
  <2> QED BY <1>3, <2>1, <2>2
<1>4. ASSUME NEW k \in Keys, KeyPressed(k) \/ KeyReleased(k) PROVE NoNewNote
  <2>1. UNCHANGED <<midiCommands, deferred, gates>>
    BY <1>4 DEF KeyPressed, KeyReleased, KeyUp
  <2>2. \/ Enqueue(Trigger(Key(k))) \/ Enqueue(Release(Key(k)))
        \/ UNCHANGED engineQueue
    BY <1>4 DEF KeyPressed, KeyReleased, KeyDown, KeyUp, ReleaseSource
  <2> QED BY <1>2, <2>1, <2>2
<1>5. ASSUME NEW p \in MousePads, PadMouseDown(p) \/ PadMouseUp(p) PROVE NoNewNote
  <2>1. /\ UNCHANGED <<midiCommands, deferred, gates>>
        /\ \/ Enqueue(Trigger(Mouse(p))) \/ Enqueue(Release(Mouse(p)))
           \/ UNCHANGED engineQueue
    BY <1>5 DEF PadMouseDown, PadMouseUp, MouseDown, MouseUp, ReleaseSource
  <2> QED BY <1>3, <2>1
<1>6. ASSUME NEW n \in Notes, MidiNoteOff(n) PROVE NoNewNote
  <2>1. /\ UNCHANGED <<deferred, engineQueue, gates>>
        /\ UNCHANGED midiCommands \/ MidiQueued(Release(Midi(n)))
    BY <1>6 DEF MidiNoteOff, NoteOff
  <2>2. PICK c \in MidiCommands : c = Release(Midi(n))
    BY CommandsTyped
  <2>3. CASE MidiQueued(c)
    <3>1. Sounding' \subseteq Sounding
      BY <2>1, <2>2, <2>3, MessageSounds, Effects
    <3> QED BY <3>1 DEF NoNewNote
  <2> QED BY <1>1, <2>1, <2>2, <2>3
<1>7. CASE TimerCallback
  <2>1. Sounding' = Sounding
    BY <1>7, FlushSoundsTheSame DEF TimerCallback
  <2> QED BY <2>1 DEF NoNewNote
<1>8. CASE ProcessBlock
  <2>1. gates' = Played /\ engineQueue' = <<>> /\ UNCHANGED <<midiCommands, deferred>>
    BY <1>8 DEF ProcessBlock, AudioBlock
  <2>2. Waiting' = Waiting /\ Played' = Played
    BY <2>1, AfterNothing DEF Played, Waiting
  <2> QED BY <2>2, FewerSound DEF NoNewNote
<1>9. CASE AuditionSelectedLayer
  <2>1. CASE UNCHANGED engineQueue
    BY <1>1, <1>9, <2>1 DEF AuditionSelectedLayer
  <2>2. CASE Enqueue(Trigger(LayerAudition))
    <3>1. PICK c \in Commands : c = Trigger(LayerAudition)
      BY CommandsTyped
    <3>2. PICK x : x = LayerAudition
      OBVIOUS
    <3>3. UNCHANGED <<midiCommands, deferred, gates>>
      BY <1>9 DEF AuditionSelectedLayer
    <3>4. Sounding' \subseteq Sounding \cup {x}
      BY <2>2, <3>1, <3>2, <3>3, EnqueueIsQuiet
    <3>5. \A n : Midi(n) # x
      <4>1. Len(x) = 1 /\ \A n : Len(Midi(n)) = 2
        BY <3>2 DEF LayerAudition, Midi
      <4> QED BY <4>1
    <3> QED BY <3>4, <3>5 DEF NoNewNote
  <2> QED BY <1>9, <2>1, <2>2 DEF AuditionSelectedLayer
<1>10. CASE Devices
  <2>1. Waiting' = Waiting
    BY <1>10 DEF Devices, DeviceStops, DeviceStarts, MidiUnplugged, Waiting
  <2>2. Played' \subseteq Played
    <3>1. CASE DeviceStops
      <4>1. gates' = {} /\ engineQueue' = engineQueue
        BY <3>1 DEF DeviceStops
      <4>2. engineQueue \in Seq(Commands) /\ {} \subseteq gates \cup {}
        BY DEF QueuesTyped
      <4>3. After({}, engineQueue) \subseteq After(gates, engineQueue) \cup {}
        BY <4>2, AfterMonotone
      <4> QED BY <4>1, <4>3 DEF Played
    <3>2. CASE DeviceStarts
      BY <3>2, AfterNothing DEF DeviceStarts, Played
    <3>3. CASE MidiUnplugged
      BY <3>3 DEF MidiUnplugged, Played
    <3> QED BY <1>10, <3>1, <3>2, <3>3 DEF Devices
  <2> QED BY <2>1, <2>2, FewerSound DEF NoNewNote
<1>11. CASE AllNotesOff \/ StartOver
  <2>1. Enqueue(Panic) /\ UNCHANGED <<midiCommands, deferred, gates>>
    <3>1. CASE AllNotesOff
      BY <3>1 DEF AllNotesOff, PanicCommand
    <3>2. CASE StartOver
      BY <3>2 DEF StartOver, PanicCommand
    <3> QED BY <1>11, <3>1, <3>2
  <2>2. PICK c \in Commands : c = Panic
    BY CommandsTyped
  <2>3. Waiting' = Waiting
    BY <2>1 DEF Waiting
  <2>4. Played' = IF EngineFull THEN Played ELSE Effect(Played, c)
    BY <2>1, <2>2, <2>3, Enqueued
  <2>5. Played' \subseteq Played
    BY <2>2, <2>4, Effects
  <2> QED BY <2>3, <2>5, FewerSound DEF NoNewNote
<1>12. CASE Worker \/ OpenWorkspace \/ CloseWorkspace \/ WorkspaceStep
  BY <1>1, <1>12 DEF Worker, OpenWorkspace, CloseWorkspace, WorkspaceStep, routerVars
<1>13. CASE CommitAssignment \/ EditProject \/ \E bank \in Banks : SelectBank(bank)
  BY <1>1, <1>13 DEF CommitAssignment, EditProject, SelectBank, unplayed
<1>14. CASE ApplyMidiSettings
  BY <1>1, <1>14 DEF ApplyMidiSettings
<1>15. CASE UNCHANGED vars
  BY <1>1, <1>15 DEF vars
<1> QED BY <1>4, <1>5, <1>6, <1>7, <1>8, <1>9, <1>10, <1>11, <1>12, <1>13, <1>14, <1>15 DEF Next

\* A note-on lets no other note sound.
LEMMA NoteOnSounds ==
  ASSUME QueuesTyped, QueuesTyped', NEW n \in Notes, MidiNoteOn(n), NEW m \in Notes, m # n,
         Midi(m) \in Sounding'
  PROVE  Midi(m) \in Sounding
<1>1. /\ UNCHANGED <<deferred, engineQueue, gates>>
      /\ UNCHANGED midiCommands \/ MidiQueued(Trigger(Midi(n)))
  BY DEF MidiNoteOn, NoteOn
<1>2. CASE UNCHANGED midiCommands
  <2>1. Waiting' = Waiting /\ Played' \subseteq Played
    BY <1>1, <1>2, QuietQueues
  <2> QED BY <2>1, FewerSound
<1>3. CASE MidiQueued(Trigger(Midi(n)))
  <2>1. PICK c \in MidiCommands : c = Trigger(Midi(n))
    BY CommandsTyped
  <2>2. Sounding' \subseteq Sounding \cup {Midi(n)}
    BY <1>1, <1>3, <2>1, MessageSounds, Effects
  <2> QED BY <2>2, SourcesDiffer
<1> QED BY <1>1, <1>2, <1>3

\* A note-off that the router answers ends its note.
LEMMA NoteOffEnds ==
  ASSUME QueuesTyped, QueuesTyped', RouterFresh, NEW n \in Notes, MidiNoteOff(n), Answers(n)
  PROVE  Midi(n) \notin Sounding'
<1>1. n \in routed
  BY DEF RouterFresh, Answers, Answering
<1>2. MidiQueued(Release(Midi(n))) /\ UNCHANGED <<deferred, engineQueue, gates>>
  BY <1>1 DEF MidiNoteOff, NoteOff, Answers
<1>3. PICK c \in MidiCommands : c = Release(Midi(n))
  BY CommandsTyped
<1>4. Sounding' = Effect(Sounding, c)
  BY <1>2, <1>3, MessageSounds DEF Answers
<1> QED BY <1>3, <1>4, Effects

\* The workspace reads the project, and only a commit changes it.
LEMMA WorkspaceLeavesProject ==
  ASSUME MarkerStep \/ SubmitTransientAnalysis \/ LazyStep \/ PreviewAssignment
  PROVE  UNCHANGED project
<1>1. ASSUME NEW w, Edits(w) PROVE UNCHANGED project
  BY <1>1 DEF Edits
<1>2. CASE MarkerStep
  <2>1. \E w : Edits(w)
    BY <1>2 DEF MarkerStep, GenerateEqual, GenerateFixed, AddMarker, DeleteMarker, MoveMarker,
                RefusedEdit, ClearMarkers, UndoSessionEdit, RedoSessionEdit, SelectSlice, Audition
  <2> QED BY <1>1, <2>1
<1>3. CASE SubmitTransientAnalysis
  BY <1>3 DEF SubmitTransientAnalysis
<1>4. CASE LazyStep
  BY <1>4 DEF LazyStep, StartLazy, PlaceMarker, StopLazy
<1>5. CASE PreviewAssignment
  BY <1>1, <1>5 DEF PreviewAssignment
<1> QED BY <1>2, <1>3, <1>4, <1>5

\* Every edit of the project is followed by the router's.
LEMMA FreshNextKeeps ==
  ASSUME SliceInv, RouterFresh, [Next]_vars
  PROVE  RouterFresh'
<1>1. ASSUME UNCHANGED <<project, routed>> PROVE RouterFresh'
  BY <1>1 DEF RouterFresh, Answering
<1>2. ASSUME NEW p, Publish(p) PROVE RouterFresh'
  BY <1>2 DEF Publish, RefreshFromProject, RouterFresh, Answering
<1>3. ASSUME NEW k \in Keys, KeyPressed(k) \/ KeyReleased(k) PROVE RouterFresh'
  BY <1>1, <1>3 DEF KeyPressed, KeyReleased, KeyDown, KeyUp, deskVars
<1>4. ASSUME NEW p \in MousePads, PadMouseDown(p) PROVE RouterFresh'
  <2>1. project' = Revised(project, 2) /\ routed' = routed
    BY <1>4 DEF PadMouseDown, MouseDown
  <2>2. PICK revision : revision = project.revision + 2
    OBVIOUS
  <2>3. project' = [project EXCEPT !.revision = revision]
    BY <2>1, <2>2 DEF Revised
  <2>4. /\ project'.open = project.open /\ project'.bank = project.bank
        /\ project'.mapping = project.mapping
    BY <2>3 DEF SliceInv, DeskTyped, ProjectTyped
  <2> QED BY <2>1, <2>4 DEF RouterFresh, Answering
<1>5. ASSUME NEW p \in MousePads, PadMouseUp(p) PROVE RouterFresh'
  BY <1>1, <1>5 DEF PadMouseUp, MouseUp, deskVars
<1>6. ASSUME NEW n \in Notes, MidiNoteOn(n) \/ MidiNoteOff(n) PROVE RouterFresh'
  BY <1>1, <1>6 DEF MidiNoteOn, MidiNoteOff, deskVars
<1>7. CASE TimerCallback \/ ProcessBlock
  BY <1>1, <1>7 DEF TimerCallback, ProcessBlock, AudioBlock, deskVars
<1>8. CASE AuditionSelectedLayer \/ AllNotesOff
  BY <1>1, <1>8 DEF AuditionSelectedLayer, AllNotesOff
<1>9. CASE Devices
  BY <1>1, <1>9 DEF Devices, DeviceStops, DeviceStarts, MidiUnplugged, deskVars
<1>10. CASE Worker
  BY <1>1, <1>10 DEF Worker, AnalysisFinishes, routerVars
<1>11. CASE OpenWorkspace \/ CloseWorkspace
  BY <1>1, <1>11 DEF OpenWorkspace, CloseWorkspace, deskVars, routerVars
<1>12. CASE WorkspaceStep
  <2>1. UNCHANGED routed
    BY <1>12 DEF WorkspaceStep, routerVars
  <2>2. UNCHANGED project
    BY <1>12, WorkspaceLeavesProject DEF WorkspaceStep
  <2> QED BY <1>1, <2>1, <2>2
<1>13. CASE CommitAssignment \/ EditProject \/ \E bank \in Banks : SelectBank(bank)
  <2>1. \E p : Publish(p)
    BY <1>13 DEF CommitAssignment, EditProject, SelectBank
  <2> QED BY <1>2, <2>1
<1>14. CASE ApplyMidiSettings \/ StartOver
  <2>1. CASE ApplyMidiSettings
    BY <1>2, <2>1 DEF ApplyMidiSettings
  <2>2. CASE StartOver
    <3>1. routed' = Answering(project')
      BY <2>2 DEF StartOver, Publish, RefreshFromProject
    <3> QED BY <3>1 DEF RouterFresh, Answering
  <2> QED BY <1>14, <2>1, <2>2
<1>15. CASE UNCHANGED vars
  BY <1>1, <1>15 DEF vars
<1> QED BY <1>3, <1>4, <1>5, <1>6, <1>7, <1>8, <1>9, <1>10, <1>11, <1>12, <1>13, <1>14,
           <1>15 DEF Next

\* A note-off that the router answers as the project stands ends its note, however the
\* project was edited since the note-on, and no note sounds anew without a note-on,
\* whatever queues are full, panics come or devices restart.
THEOREM NotesAlwaysEnd == Spec => NotesEnd
<1>1. Init => RouterFresh
  BY DEF Init, RouterInit, RouterFresh
<1>2. SliceInv /\ RouterFresh /\ [Next]_vars => RouterFresh'
  BY FreshNextKeeps
<1>3. GateInv /\ GateInv' /\ RouterFresh /\ [Next]_vars =>
        [\A n \in Notes :
           /\ MidiNoteOff(n) /\ Answers(n) => Midi(n) \notin Sounding'
           /\ Midi(n) \in Sounding' \ Sounding => MidiNoteOn(n)]_vars
  <2> SUFFICES ASSUME GateInv, GateInv', RouterFresh, [Next]_vars, NEW n \in Notes
               PROVE  /\ MidiNoteOff(n) /\ Answers(n) => Midi(n) \notin Sounding'
                      /\ Midi(n) \in Sounding' \ Sounding => MidiNoteOn(n)
    OBVIOUS
  <2>1. QueuesTyped /\ QueuesTyped'
    BY DEF GateInv
  <2>2. MidiNoteOff(n) /\ Answers(n) => Midi(n) \notin Sounding'
    BY <2>1, NoteOffEnds
  <2>3. ASSUME Midi(n) \in Sounding', Midi(n) \notin Sounding PROVE MidiNoteOn(n)
    <3>1. ~NoNewNote
      BY <2>3 DEF NoNewNote
    <3>2. PICK m \in Notes : MidiNoteOn(m)
      BY <2>1, <3>1, OnlyNoteOns
    <3>3. m = n
      BY <2>1, <2>3, <3>2, NoteOnSounds
    <3> QED BY <3>2, <3>3
  <2> QED BY <2>2, <2>3
<1> QED BY <1>1, <1>2, <1>3, GateInvAlways, SliceInvAlways, PTL DEF Spec, NotesEnd
=============================================================================
