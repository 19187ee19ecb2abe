---------------------------- MODULE Input_proofs ----------------------------
(* The hook keeps nothing for a press that is over, has a hook while one   *)
(* is needed, and reports once per press, for all keys and chords.  With   *)
(* one Win key, the system and the hook agree about the keyboard as far as *)
(* the Start menu, the modifiers and execute-on-release need.  And a mouse *)
(* session polls each step of the device once, and its virtual cursor      *)
(* follows, as far as rounding and the surface let it.                     *)
EXTENDS MCInput, Integers, Sequences, Filter_proofs

\* A hook that has nothing to undo is a hook.
LEMMA NoHookType == NoHook \in Hook
  BY DEF NoHook, Hook

\* The chord of a pressed key is a chord, and the key it names is that key.
LEMMA ChordOfType == ASSUME HookAssumption, NEW k \in Keys PROVE ChordOf(k) \in Chords /\ ChordOf(k).key = k
  BY DEF ChordOf, Chords, Mask, HookAssumption

\* A chord with Win has a Win key down.
LEMMA WinChord ==
  ASSUME NEW k \in Keys, "win" \in ChordOf(k).mods
  PROVE  (hook.down \cup {k}) \cap Win # {}
  BY DEF ChordOf, Mask, Win

\* Installing the hook, or not, and removing it leave a hook.
LEMMA EnsureHookType ==
  ASSUME HookAssumption, TypeOK, NEW bound, NEW capturing, EnsureHook(bound, capturing)
  PROVE  hook' \in Hook
<1>1. os.down \cap Modifiers \subseteq Keys
  BY DEF TypeOK, Os
<1>2. CASE hook.on \/ (bound = {} /\ ~capturing)
  BY <1>2 DEF EnsureHook, TypeOK
<1>3. CASE ~(hook.on \/ (bound = {} /\ ~capturing))
  <2> DEFINE new == [on |-> TRUE, down |-> os.down \cap Modifiers,
                     latched |-> {}, swallowed |-> {}, suppress |-> FALSE]
  <2>1. new \in Hook
    BY <1>1 DEF Hook
  <2>2. hook' = new
    BY <1>3 DEF EnsureHook
  <2> QED
    BY <2>1, <2>2
<1> QED
  BY <1>2, <1>3

LEMMA ReleaseHookType ==
  ASSUME HookAssumption, TypeOK, NEW bound, NEW capturing, ReleaseHookIfIdle(bound, capturing)
  PROVE  hook' \in Hook /\ calls' \in [Keys -> 0 .. 2]
<1>1. [k \in Keys |-> 0] \in [Keys -> 0 .. 2]
  OBVIOUS
<1> QED
  BY <1>1, NoHookType DEF ReleaseHookIfIdle, TypeOK

LEMMA TypeInit == ASSUME HookAssumption PROVE Init => TypeOK
<1>1. [down |-> {}, alone |-> FALSE, start |-> FALSE] \in Os
  BY DEF Os
<1>2. [k \in Keys |-> 0] \in [Keys -> 0 .. 2]
  OBVIOUS
<1> QED
  BY <1>1, <1>2, NoHookType DEF Init, TypeOK

\* A step keeps the types.
LEMMA TypeStep == TypeOK /\ [Next]_vars => TypeOK'
<1> USE HookAssumption
<1> SUFFICES ASSUME TypeOK, [Next]_vars PROVE TypeOK'
  OBVIOUS
<1>1. ASSUME NEW c \in LowLevel, RegisterInputBinding(c) PROVE TypeOK'
  BY <1>1, EnsureHookType DEF TypeOK, RegisterInputBinding
<1>2. ASSUME NEW c \in LowLevel, UnregisterInputBinding(c) PROVE TypeOK'
  BY <1>2, ReleaseHookType DEF TypeOK, UnregisterInputBinding
<1>3. CASE BeginChordCapture
  BY <1>3, EnsureHookType DEF TypeOK, BeginChordCapture
<1>4. CASE EndChordCapture
  BY <1>4, ReleaseHookType DEF TypeOK, EndChordCapture
<1>5. ASSUME NEW k \in Keys, KeyPasses(k) PROVE TypeOK'
  BY <1>5 DEF TypeOK, KeyPasses, Pressed, OsDown, Os, Hook
<1>6. ASSUME NEW k \in Keys, KeyRepeats(k) PROVE TypeOK'
  BY <1>6 DEF TypeOK, KeyRepeats, Pressed, Hook
<1>7. ASSUME NEW k \in Keys, KeyCancels(k) PROVE TypeOK'
  <2>1. hook' \in Hook
    BY <1>7 DEF TypeOK, KeyCancels, Hook
  <2> QED
    BY <1>7, <2>1 DEF TypeOK, KeyCancels, Pressed
<1>8. ASSUME NEW k \in Keys, KeyTriggers(k) PROVE TypeOK'
  <2>1. hook' \in Hook
    BY <1>8, ChordOfType, ZenonT(60) DEF TypeOK, KeyTriggers, Take, Hook
  <2>2. os' \in Os
    <3>1. InjectWinKeyUps(os) \in Os
      BY DEF InjectWinKeyUps, TypeOK, Os
    <3> QED
      BY <1>8, <3>1 DEF TypeOK, KeyTriggers
  <2>3. calls' \in [Keys -> 0 .. 2]
    BY <1>8 DEF TypeOK, KeyTriggers
  <2> QED
    BY <1>8, <2>1, <2>2, <2>3 DEF TypeOK, KeyTriggers, Pressed
<1>9. ASSUME NEW k \in Keys, KeyUp(k) PROVE TypeOK'
  <2>1. hook' \in Hook
    BY <1>9 DEF TypeOK, KeyUp, AfterUp, Hook
  <2>2. os' \in Os
    BY <1>9 DEF TypeOK, KeyUp, OsUp, Os
  <2> QED
    BY <1>9, <2>1, <2>2 DEF TypeOK, KeyUp
<1>10. CASE UNCHANGED vars
  BY <1>10 DEF TypeOK, vars
<1> QED
  BY <1>1, <1>2, <1>3, <1>4, <1>5, <1>6, <1>7, <1>8, <1>9, <1>10 DEF Next

\* The variables keep their types.  (Inputs.cpp, all operations of the hook)
THEOREM TypeCorrect == Spec => []TypeOK
<1>1. Init => TypeOK
  BY HookAssumption, TypeInit
<1> QED
  BY <1>1, TypeStep, PTL DEF Spec

-----------------------------------------------------------------------------
\* Why a press is reported once: what has been reported is latched.
Reported == \A k \in Keys : calls[k] = 0 \/ (calls[k] = 1 /\ IsLatched(k))

HookInv == TypeOK /\ HookState /\ HookWhileNeeded /\ Reported

LEMMA HookInit == Init => HookInv
  <1> SUFFICES ASSUME Init PROVE HookInv
    OBVIOUS
  <1>1. TypeOK
    BY HookAssumption, TypeInit
  <1> QED
    BY <1>1 DEF Init, HookInv, HookState, HookWhileNeeded, Reported, NoHook

\* A step keeps the invariant.
LEMMA HookStep == HookInv /\ [Next]_vars => HookInv'
<1> SUFFICES ASSUME HookInv, [Next]_vars PROVE HookInv'
  OBVIOUS
<1> USE DEF HookInv
<1>0. TypeOK'
  BY TypeStep
<1>1. ASSUME NEW c \in LowLevel, RegisterInputBinding(c) PROVE HookInv'
  <2>1. hook'.latched = hook.latched
    BY <1>1 DEF RegisterInputBinding, EnsureHook, HookState, NoHook
  <2>2. Reported'
    BY <1>1, <2>1 DEF RegisterInputBinding, Reported, IsLatched
  <2> QED
    BY <1>0, <1>1, <2>2 DEF RegisterInputBinding, EnsureHook, HookState, HookWhileNeeded
<1>2. ASSUME NEW c \in LowLevel, UnregisterInputBinding(c) PROVE HookInv'
  BY <1>0, <1>2 DEF UnregisterInputBinding, ReleaseHookIfIdle, HookState, HookWhileNeeded, Reported, IsLatched, NoHook
<1>3. CASE BeginChordCapture
  <2>1. hook'.latched = hook.latched
    BY <1>3 DEF BeginChordCapture, EnsureHook, HookState, NoHook
  <2>2. Reported'
    BY <1>3, <2>1 DEF BeginChordCapture, Reported, IsLatched
  <2> QED
    BY <1>0, <1>3, <2>2 DEF BeginChordCapture, EnsureHook, HookState, HookWhileNeeded
<1>4. CASE EndChordCapture
  BY <1>0, <1>4 DEF EndChordCapture, ReleaseHookIfIdle, HookState, HookWhileNeeded, Reported, IsLatched, NoHook
<1>5. ASSUME NEW k \in Keys, KeyPasses(k) PROVE HookInv'
  BY <1>0, <1>5 DEF KeyPasses, TypeOK, Hook, HookState, HookWhileNeeded, Reported, IsLatched
<1>6. ASSUME NEW k \in Keys, KeyRepeats(k) PROVE HookInv'
  BY <1>0, <1>6 DEF KeyRepeats, TypeOK, Hook, HookState, HookWhileNeeded, Reported, IsLatched
<1>7. ASSUME NEW k \in Keys, KeyCancels(k) PROVE HookInv'
  BY <1>0, <1>7 DEF KeyCancels, TypeOK, Hook, HookState, HookWhileNeeded, Reported, IsLatched
<1>8. ASSUME NEW k \in Keys, KeyTriggers(k) PROVE HookInv'
  <2>1. ChordOf(k).key = k
    BY DEF ChordOf
  <2>2. HookState'
    BY <1>8, <2>1, WinChord DEF KeyTriggers, Take, TypeOK, Hook, HookState
  <2>3. Reported'
    BY <1>8, <2>1 DEF KeyTriggers, Take, TypeOK, Hook, Reported, IsLatched
  <2> QED
    BY <1>0, <1>8, <2>2, <2>3 DEF KeyTriggers, Take, TypeOK, Hook, HookWhileNeeded
<1>9. ASSUME NEW k \in Keys, KeyUp(k) PROVE HookInv'
  <2>1. HookState'
    BY <1>9 DEF KeyUp, AfterUp, TypeOK, Hook, HookState
  <2>2. HookWhileNeeded'
    BY <1>9 DEF KeyUp, AfterUp, TypeOK, Hook, HookWhileNeeded
  <2>3. Reported'
    <3>1. CASE hook.on
      BY <1>9, <3>1 DEF KeyUp, AfterUp, TypeOK, Hook, Reported, IsLatched
    <3>2. CASE ~hook.on
      BY <1>9, <3>2 DEF KeyUp, TypeOK, HookState, NoHook, Reported, IsLatched
    <3> QED
      BY <3>1, <3>2
  <2> QED
    BY <1>0, <2>1, <2>2, <2>3
<1>10. CASE UNCHANGED vars
  BY <1>10 DEF vars, TypeOK, HookState, HookWhileNeeded, Reported, IsLatched, NoHook
<1> QED
  BY <1>1, <1>2, <1>3, <1>4, <1>5, <1>6, <1>7, <1>8, <1>9, <1>10 DEF Next

LEMMA HookInvariant == Spec => []HookInv
  BY HookInit, HookStep, PTL DEF Spec

\* The hook arms nothing that outlives the press, and suppresses Win's release
\* only while a Win key is held, whatever is bound, recorded and typed.
THEOREM NothingLeftArmed == Spec => []HookState
<1>1. HookInv => HookState
  BY DEF HookInv
<1> QED
  BY <1>1, HookInvariant, PTL

\* Whoever waits for a chord has a hook.
THEOREM HookKept == Spec => []HookWhileNeeded
<1>1. HookInv => HookWhileNeeded
  BY DEF HookInv
<1> QED
  BY <1>1, HookInvariant, PTL

\* A press is reported once, whatever its auto-repeats meet.
THEOREM ReportedOnce == Spec => []OncePerPress
<1>1. HookInv => OncePerPress
  BY DEF HookInv, Reported, OncePerPress
<1> QED
  BY <1>1, HookInvariant, PTL
-----------------------------------------------------------------------------
(* The system's side.  With two Win keys the system can be left with one   *)
(* down that is up; with one it cannot be: when the release of Win is      *)
(* suppressed, the system has it up already.                               *)

OneWin == \A a, b \in Win : a = b

\* What the system has down and the hook has seen go down is down; a Win key
\* whose release is suppressed is up for the system, and does not repeat.
Together ==
  /\ os.down \cap Modifiers \subseteq phys
  /\ hook.down \subseteq phys
  /\ hook.suppress => os.down \cap Win = {} /\ last \notin Win
  /\ hook.swallowed \cap Modifiers = {}

\* A Win key of a chord is not pressed again, nor thought to be tapped alone.
Spent == os.start \/ os.alone \/ last \in Win => used = {}

SystemInv == HookInv /\ Together /\ Spent

\* Another key than Win, or the only Win key, is pressed.
LEMMA PressSpends ==
  ASSUME OneWin, TypeOK, Spent, NEW k \in Keys, KeyPasses(k)
  PROVE  Spent'
<1>1. CASE k \notin Win
  BY <1>1 DEF KeyPasses, Pressed, OsDown, TypeOK, Os, Spent
<1>2. CASE k \in Win
  <2>1. used \subseteq {k}
    BY <1>2 DEF OneWin, TypeOK
  <2>2. used' = {}
    <3>1. CASE k \in phys
      <4>1. last \in Win
        BY <1>2, <3>1 DEF KeyPasses, Pressed
      <4>2. used' = used
        BY <3>1 DEF KeyPasses
      <4> QED BY <4>1, <4>2 DEF Spent
    <3>2. CASE k \notin phys
      BY <2>1, <3>2 DEF KeyPasses
    <3> QED BY <3>1, <3>2
  <2> QED BY <2>2 DEF Spent
<1> QED BY <1>1, <1>2

LEMMA SpentStep ==
  ASSUME OneWin, TypeOK, Spent, [Next]_vars
  PROVE  Spent'
<1>1. ASSUME UNCHANGED <<os, last, used>> PROVE Spent'
  BY <1>1 DEF Spent
<1>2. ASSUME NEW c \in LowLevel, RegisterInputBinding(c) \/ UnregisterInputBinding(c)
      PROVE  UNCHANGED <<os, last, used>>
  BY <1>2 DEF RegisterInputBinding, UnregisterInputBinding
<1>3. BeginChordCapture \/ EndChordCapture => UNCHANGED <<os, last, used>>
  BY DEF BeginChordCapture, EndChordCapture
<1>4. ASSUME NEW k \in Keys, KeyPasses(k) PROVE Spent'
  BY <1>4, PressSpends
<1>5. ASSUME NEW k \in Keys, KeyRepeats(k) \/ KeyCancels(k) PROVE Spent'
  BY <1>5 DEF KeyRepeats, KeyCancels, Pressed, Win, Spent
<1>6. ASSUME NEW k \in Keys, KeyTriggers(k) PROVE Spent'
  <2>1. last' \notin Win
    BY <1>6 DEF KeyTriggers, Pressed, Win
  <2>2. CASE "win" \in ChordOf(k).mods
    BY <1>6, <2>1, <2>2 DEF KeyTriggers, InjectWinKeyUps, Spent
  <2>3. CASE "win" \notin ChordOf(k).mods
    BY <1>6, <2>1, <2>3 DEF KeyTriggers, Spent
  <2> QED BY <2>2, <2>3
<1>7. ASSUME NEW k \in Keys, KeyUp(k) PROVE Spent'
  <2>1. last' = last \/ last' \notin Win
    BY <1>7, HookAssumption DEF KeyUp, Win, HookAssumption
  <2>2. os' = os \/ (~os'.alone /\ (os'.start => os.alone))
    BY <1>7 DEF KeyUp, OsUp
  <2> QED BY <1>7, <2>1, <2>2 DEF KeyUp, Spent
<1>8. CASE UNCHANGED vars
  BY <1>1, <1>8 DEF vars
<1> QED BY <1>1, <1>2, <1>3, <1>4, <1>5, <1>6, <1>7, <1>8 DEF Next

\* The hook starts from the modifiers the system has down.
LEMMA EnsureTogether ==
  ASSUME Together, NEW bound, NEW capturing, EnsureHook(bound, capturing),
         UNCHANGED <<phys, last, os>>
  PROVE  Together'
BY DEF Together, EnsureHook

LEMMA ReleaseTogether ==
  ASSUME Together, NEW bound, NEW capturing, ReleaseHookIfIdle(bound, capturing),
         UNCHANGED <<phys, last, os>>
  PROVE  Together'
BY DEF Together, ReleaseHookIfIdle, NoHook

LEMMA TogetherStep ==
  ASSUME OneWin, HookInv, Together, [Next]_vars
  PROVE  Together'
<1> USE HookAssumption DEF HookAssumption
<1>1. ASSUME NEW c \in LowLevel, RegisterInputBinding(c) \/ UnregisterInputBinding(c)
      PROVE  Together'
  BY <1>1, EnsureTogether, ReleaseTogether DEF RegisterInputBinding, UnregisterInputBinding
<1>2. CASE BeginChordCapture \/ EndChordCapture
  BY <1>2, EnsureTogether, ReleaseTogether DEF BeginChordCapture, EndChordCapture
<1>3. ASSUME NEW k \in Keys, KeyPasses(k) PROVE Together'
  <2>1. /\ os'.down = os.down \cup {k} /\ phys' = phys \cup {k} /\ last' = k
        /\ hook'.down \subseteq hook.down \cup {k}
        /\ hook'.suppress = hook.suppress /\ hook'.swallowed = hook.swallowed
    BY <1>3 DEF KeyPasses, Pressed, OsDown, HookInv, TypeOK, Hook
  <2>2. hook.suppress => k \notin Win
    <3> SUFFICES ASSUME hook.suppress, k \in Win PROVE FALSE
      OBVIOUS
    <3>1. k \in hook.down
      BY DEF HookInv, HookState, OneWin
    <3>2. k \in phys /\ k # last
      BY <3>1 DEF Together
    <3> QED BY <1>3, <3>2 DEF KeyPasses, Pressed
  <2> QED BY <2>1, <2>2 DEF Together
<1>4. ASSUME NEW k \in Keys, KeyRepeats(k) \/ KeyCancels(k) PROVE Together'
  <2>1. /\ os' = os /\ phys' = phys \cup {k} /\ last' = k /\ k \notin Modifiers
        /\ hook'.down = hook.down \cup {k} /\ hook'.suppress = hook.suppress
        /\ hook'.swallowed \subseteq hook.swallowed \cup {k}
    BY <1>4 DEF KeyRepeats, KeyCancels, Pressed, HookInv, TypeOK, Hook
  <2> QED BY <2>1 DEF Together, Win
<1>5. ASSUME NEW k \in Keys, KeyTriggers(k) PROVE Together'
  <2>1. /\ phys' = phys \cup {k} /\ last' = k /\ k \notin Modifiers
        /\ hook'.down = hook.down \cup {k}
        /\ hook'.suppress = (hook.suppress \/ "win" \in ChordOf(k).mods)
        /\ hook'.swallowed = hook.swallowed \cup {k}
    BY <1>5 DEF KeyTriggers, Take, Pressed, HookInv, TypeOK, Hook
  <2>2. CASE "win" \in ChordOf(k).mods
    <3>1. os'.down \subseteq os.down /\ os'.down \cap Win = {}
      BY <1>5, <2>2 DEF KeyTriggers, InjectWinKeyUps, Win
    <3> QED BY <2>1, <3>1 DEF Together, Win
  <2>3. CASE "win" \notin ChordOf(k).mods
    <3>1. os' = os
      BY <1>5, <2>3 DEF KeyTriggers
    <3> QED BY <2>1, <2>3, <3>1 DEF Together, Win
  <2> QED BY <2>2, <2>3
<1>6. ASSUME NEW k \in Keys, KeyUp(k) PROVE Together'
  <2>1. /\ phys' = phys \ {k} /\ (last' = last \/ last' \notin Win)
        /\ hook'.down \subseteq hook.down \ {k}
        /\ hook'.swallowed \subseteq hook.swallowed
        /\ hook'.suppress => hook.suppress
    <3>1. last' = last \/ last' \notin Win
      BY <1>6 DEF KeyUp, Win
    <3>2. CASE hook.on
      BY <1>6, <3>1, <3>2 DEF KeyUp, AfterUp, HookInv, TypeOK, Hook
    <3>3. CASE ~hook.on
      BY <1>6, <3>1, <3>3 DEF KeyUp, HookInv, HookState, NoHook
    <3> QED BY <3>2, <3>3
  <2>2. os'.down \subseteq os.down
    BY <1>6 DEF KeyUp, OsUp, HookInv, TypeOK, Os
  <2>3. os'.down \cap Modifiers \subseteq phys \ {k}
    <3>1. CASE hook.on /\ SwallowsUp(k)
      <4>1. k \notin Modifiers \/ k \notin os.down
        BY <3>1 DEF SwallowsUp, Together
      <4>2. os' = os
        BY <1>6, <3>1 DEF KeyUp
      <4> QED BY <4>1, <4>2 DEF Together
    <3>2. CASE ~(hook.on /\ SwallowsUp(k))
      <4>1. os'.down = os.down \ {k}
        BY <1>6, <3>2 DEF KeyUp, OsUp
      <4> QED BY <4>1 DEF Together
    <3> QED BY <3>1, <3>2
  <2> QED BY <2>1, <2>2, <2>3 DEF Together
<1>7. CASE UNCHANGED vars
  BY <1>7 DEF vars, Together
<1> QED BY <1>1, <1>2, <1>3, <1>4, <1>5, <1>6, <1>7 DEF Next

LEMMA SystemInit == Init => SystemInv
<1> SUFFICES ASSUME Init PROVE Together /\ Spent
  BY HookInit DEF SystemInv
<1> QED BY HookAssumption DEF Init, Together, Spent, Win, NoHook, HookAssumption

LEMMA SystemInvariant == ASSUME OneWin PROVE Spec => []SystemInv
<1>1. SystemInv /\ [Next]_vars => SystemInv'
  BY HookStep, TogetherStep, SpentStep DEF SystemInv, HookInv
<1> QED BY SystemInit, <1>1, PTL DEF Spec

\* With one Win key the system never has a modifier down that is up, whenever
\* the hook comes and goes.  (armSwallowLocked, injectWinKeyUps)
THEOREM NoModifierStuck == ASSUME OneWin PROVE Spec => []ModifiersNotStuck
<1>1. SystemInv => ModifiersNotStuck
  BY DEF SystemInv, Together, ModifiersNotStuck
<1> QED BY <1>1, SystemInvariant, PTL

\* With one Win key no chord with it ends in the Start menu.
\* (injectWinKeyUps)
THEOREM StartStaysShut == ASSUME OneWin PROVE Spec => []NoStartAfterChord
<1>1. SystemInv => NoStartAfterChord
  BY DEF SystemInv, Spent, NoStartAfterChord
<1> QED BY <1>1, SystemInvariant, PTL

\* With one Win key execute-on-release neither runs while the key of its chord
\* is down nor waits for keys that are up.  (isChordFullyReleased)
THEOREM ReleaseIsSeen == ASSUME OneWin PROVE Spec => []ReleaseWatchTruthful
<1>1. SystemInv => ReleaseWatchTruthful
  <2> SUFFICES ASSUME SystemInv, hook.on
               PROVE  /\ \A c \in hook.latched : ~IsChordFullyReleased(c)
                      /\ \A c \in bindings :
                           c.key \notin phys /\ c.mods \cap Mask(phys) = {}
                             => IsChordFullyReleased(c)
    BY DEF ReleaseWatchTruthful
  <2>1. Down = hook.down /\ hook.down \subseteq phys
    BY DEF Down, SystemInv, Together
  <2>2. Mask(Down) \subseteq Mask(phys)
    BY <2>1 DEF Mask
  <2>3. \A c \in hook.latched : c.key \in Down
    BY <2>1 DEF SystemInv, HookInv, HookState
  <2> QED BY <2>1, <2>2, <2>3 DEF IsChordFullyReleased
<1> QED BY <1>1, SystemInvariant, PTL

-----------------------------------------------------------------------------
(* The mouse session.                                                      *)

Session == [on : BOOLEAN, raw : BOOLEAN, last : Int, dx : Int]
Pointer == [at : Int, used : BOOLEAN, stole : BOOLEAN]
Track   == [due : Int, polled : Int, origin : Int, ticks : Nat, edge : BOOLEAN, rubber : BOOLEAN]
Message == [absolute : BOOLEAN, x : Int]

-----------------------------------------------------------------------------
(* Rounding.                                                               *)

\* qRound is off by half at most.
LEMMA RoundedNear ==
  ASSUME NEW n \in Int, NEW d \in Nat \ {0}
  PROVE  /\ Mouse!Rounded(n, d) \in Int
         /\ 2 * (d * Mouse!Rounded(n, d) - n) \in -d .. d
<1>1. ASSUME NEW a \in Nat, NEW b \in Nat \ {0}
      PROVE  a \div b \in Nat /\ b * (a \div b) <= a /\ a < b * (a \div b) + b
  OBVIOUS
<1> DEFINE q == (2 * n + d) \div (2 * d)
           p == (d - 2 * n) \div (2 * d)
<1>2. 2 * d \in Nat \ {0}
  OBVIOUS
<1>3. CASE n < 0
  <2>1. d - 2 * n \in Nat
    BY <1>3
  <2>2. p \in Nat /\ (2 * d) * p <= d - 2 * n /\ d - 2 * n < (2 * d) * p + 2 * d
    BY <1>1, <1>2, <2>1
  <2>3. Mouse!Rounded(n, d) = -p
    BY <1>3 DEF Mouse!Rounded
  <2> HIDE DEF p
  <2>4. (2 * d) * p = 2 * (d * p) /\ d * (-p) = -(d * p) /\ d * p \in Int
    BY <2>2
  <2> QED BY <2>2, <2>3, <2>4
<1>4. CASE ~(n < 0)
  <2>1. 2 * n + d \in Nat
    BY <1>4
  <2>2. q \in Nat /\ (2 * d) * q <= 2 * n + d /\ 2 * n + d < (2 * d) * q + 2 * d
    BY <1>1, <1>2, <2>1
  <2>3. Mouse!Rounded(n, d) = q
    BY <1>4 DEF Mouse!Rounded
  <2> HIDE DEF q
  <2>4. (2 * d) * q = 2 * (d * q) /\ d * q \in Int
    BY <2>2
  <2> QED BY <2>2, <2>3, <2>4
<1> QED BY <1>3, <1>4

\* Both conversions give pixels, and a move is off by half a pixel at most.
LEMMA Pixels ==
  ASSUME NEW n \in Int
  PROVE  /\ Mouse!ToLogical(n) \in Int /\ Mouse!ToNative(n) \in Int /\ Mouse!Clamped(n) \in Int
         /\ 2 * (Native * Mouse!ToLogical(n) - Logical * n) \in -Native .. Native
<1>1. n * Logical \in Int /\ n * Native \in Int /\ n * Logical = Logical * n
  BY MouseAssumption
<1>2. /\ Mouse!ToLogical(n) \in Int /\ Mouse!ToNative(n) \in Int
      /\ 2 * (Native * Mouse!ToLogical(n) - n * Logical) \in -Native .. Native
  BY <1>1, RoundedNear, MouseAssumption DEF Mouse!ToLogical, Mouse!ToNative
<1>3. Mouse!Clamped(n) \in Int
  BY MouseAssumption DEF Mouse!Clamped
<1> QED BY <1>1, <1>2, <1>3

-----------------------------------------------------------------------------
(* What waits in the queue.                                                *)

\* The recursive function that Waiting evaluates, as far as m.
Sums(q, m, f) ==
  f = [n \in 0 .. m |-> IF n = 0 THEN 0 ELSE f[n - 1] + Mouse!Counted(q[n])]

\* There is such a function.
LEMMA SumsExist ==
  ASSUME NEW q, NEW m \in Nat PROVE \E f : Sums(q, m, f)
<1> DEFINE Q == {k \in Nat : \E f : Sums(q, k, f)}
<1>1. 0 \in Q
  <2> DEFINE f == [n \in 0 .. 0 |-> 0]
  <2>1. Sums(q, 0, f)
    BY DEF Sums
  <2> QED BY <2>1
<1>2. ASSUME NEW k \in Nat, k \in Q PROVE k + 1 \in Q
  <2>1. PICK f : Sums(q, k, f)
    BY <1>2
  <2> DEFINE g == [n \in 0 .. k + 1 |-> IF n = k + 1 THEN f[k] + Mouse!Counted(q[k + 1]) ELSE f[n]]
             e(n) == IF n = 0 THEN 0 ELSE g[n - 1] + Mouse!Counted(q[n])
  <2>2. g[k + 1] = f[k] + Mouse!Counted(q[k + 1]) /\ \A n \in 0 .. k : g[n] = f[n]
    OBVIOUS
  <2>3. \A n \in 0 .. k : f[n] = IF n = 0 THEN 0 ELSE f[n - 1] + Mouse!Counted(q[n])
    BY <2>1 DEF Sums
  <2>4. g = [n \in 0 .. k + 1 |-> g[n]]
    OBVIOUS
  <2> HIDE DEF g
  <2>5. ASSUME NEW n \in 0 .. k + 1 PROVE g[n] = e(n)
    <3>1. CASE n \in 0 .. k
      <4>1. n = 0 \/ n - 1 \in 0 .. k
        BY <3>1
      <4> QED BY <2>2, <2>3, <3>1, <4>1
    <3>2. CASE n = k + 1
      <4>1. n # 0 /\ n - 1 = k /\ k \in 0 .. k
        BY <3>2
      <4> QED BY <2>2, <3>2, <4>1
    <3> QED BY <3>1, <3>2
  <2>6. g = [n \in 0 .. k + 1 |-> e(n)]
    <3> HIDE DEF e
    <3> QED BY <2>4, <2>5
  <2> QED BY <2>6 DEF Sums
<1> HIDE DEF Q
<1>3. Nat \subseteq Q
  BY <1>1, <1>2, NatInduct
<1> QED BY <1>3 DEF Q

\* A message counts for a number.
LEMMA CountedNumber ==
  ASSUME NEW q \in Seq(Message)
  PROVE  \A n \in 1 .. Len(q) : Mouse!Counted(q[n]) \in Int
<1> SUFFICES ASSUME NEW n \in 1 .. Len(q) PROVE Mouse!Counted(q[n]) \in Int
  OBVIOUS
<1>1. q[n] \in Message
  OBVIOUS
<1> QED BY <1>1 DEF Mouse!Counted, Message

\* Waiting is its last value, and the function goes step by step.
LEMMA WaitingSums ==
  ASSUME NEW q \in Seq(Message)
  PROVE  \E f : /\ f[0] = 0 /\ Mouse!Waiting(q) = f[Len(q)]
                /\ \A n \in 0 .. Len(q) : f[n] \in Int
                /\ \A n \in 1 .. Len(q) : f[n] = f[n - 1] + Mouse!Counted(q[n])
<1> DEFINE f == CHOOSE g : Sums(q, Len(q), g)
<1>0. Len(q) \in Nat
  OBVIOUS
<1>1. Sums(q, Len(q), f)
  BY <1>0, SumsExist
<1>2. Mouse!Waiting(q) = f[Len(q)]
  BY DEF Mouse!Waiting, Sums
<1> HIDE DEF f
<1>3. /\ f[0] = 0
      /\ \A n \in 1 .. Len(q) : f[n] = f[n - 1] + Mouse!Counted(q[n])
  BY <1>0, <1>1 DEF Sums
<1>4. \A n \in 1 .. Len(q) : Mouse!Counted(q[n]) \in Int
  BY CountedNumber
<1> DEFINE Q == {k \in Nat : k <= Len(q) => f[k] \in Int}
<1>5. 0 \in Q
  BY <1>3
<1>6. ASSUME NEW k \in Nat, k \in Q PROVE k + 1 \in Q
  <2> SUFFICES ASSUME k + 1 <= Len(q) PROVE f[k + 1] \in Int
    OBVIOUS
  <2>1. k + 1 \in 1 .. Len(q) /\ (k + 1) - 1 = k /\ f[k] \in Int
    BY <1>0, <1>6
  <2> QED BY <1>3, <1>4, <2>1
<1> HIDE DEF Q
<1>7. Nat \subseteq Q
  BY <1>5, <1>6, NatInduct
<1>8. \A n \in 0 .. Len(q) : f[n] \in Int
  BY <1>0, <1>7 DEF Q
<1> QED BY <1>2, <1>3, <1>8

\* It is a number, and none for an empty queue.
LEMMA WaitingNumber ==
  /\ Mouse!Waiting(<<>>) = 0
  /\ \A q \in Seq(Message) : Mouse!Waiting(q) \in Int
<1>1. ASSUME NEW q \in Seq(Message)
      PROVE  Mouse!Waiting(q) \in Int /\ (q = <<>> => Mouse!Waiting(q) = 0)
  <2>1. Len(q) \in 0 .. Len(q) /\ (q = <<>> => Len(q) = 0)
    OBVIOUS
  <2> QED BY <2>1, WaitingSums
<1>2. <<>> \in Seq(Message)
  OBVIOUS
<1> QED BY <1>1, <1>2

\* A message more counts for what it says.
LEMMA WaitingAppended ==
  ASSUME NEW q \in Seq(Message), NEW m \in Message
  PROVE  Mouse!Waiting(Append(q, m)) = Mouse!Waiting(q) + Mouse!Counted(m)
<1> DEFINE rest == Append(q, m)
<1>0. /\ rest \in Seq(Message) /\ Len(q) \in Nat /\ Len(rest) = Len(q) + 1 /\ rest[Len(q) + 1] = m
      /\ \A i \in 1 .. Len(q) : rest[i] = q[i]
  OBVIOUS
<1>1. PICK f : /\ f[0] = 0 /\ Mouse!Waiting(q) = f[Len(q)]
               /\ \A n \in 1 .. Len(q) : f[n] = f[n - 1] + Mouse!Counted(q[n])
  BY WaitingSums
<1> HIDE DEF rest
<1>2. PICK g : /\ g[0] = 0 /\ Mouse!Waiting(rest) = g[Len(rest)]
               /\ \A n \in 1 .. Len(rest) : g[n] = g[n - 1] + Mouse!Counted(rest[n])
  BY <1>0, WaitingSums
<1> DEFINE Q == {k \in Nat : k <= Len(q) => g[k] = f[k]}
<1>3. 0 \in Q
  BY <1>1, <1>2
<1>4. ASSUME NEW k \in Nat, k \in Q PROVE k + 1 \in Q
  <2> SUFFICES ASSUME k + 1 <= Len(q) PROVE g[k + 1] = f[k + 1]
    OBVIOUS
  <2>1. /\ k + 1 \in 1 .. Len(q) /\ k + 1 \in 1 .. Len(rest) /\ (k + 1) - 1 = k
        /\ g[k] = f[k] /\ rest[k + 1] = q[k + 1]
    BY <1>0, <1>4
  <2> QED BY <1>1, <1>2, <2>1
<1> HIDE DEF Q
<1>5. Nat \subseteq Q
  BY <1>3, <1>4, NatInduct
<1>6. g[Len(q)] = f[Len(q)]
  BY <1>0, <1>5 DEF Q
<1>7. Len(rest) \in 1 .. Len(rest) /\ Len(rest) - 1 = Len(q)
  BY <1>0
<1>8. g[Len(rest)] = g[Len(rest) - 1] + Mouse!Counted(rest[Len(rest)])
  BY <1>2, <1>7
<1>9. Mouse!Waiting(rest) = Mouse!Waiting(q) + Mouse!Counted(m)
  BY <1>0, <1>1, <1>2, <1>6, <1>7, <1>8
<1> QED BY <1>9 DEF rest

\* A message less, for what it said.
LEMMA WaitingRest ==
  ASSUME NEW q \in Seq(Message), q # <<>>
  PROVE  Mouse!Waiting(Tail(q)) = Mouse!Waiting(q) - Mouse!Counted(Head(q))
<1> DEFINE rest == Tail(q)
<1>0. /\ rest \in Seq(Message) /\ Len(q) \in Nat \ {0} /\ Len(rest) = Len(q) - 1 /\ Head(q) = q[1]
      /\ \A i \in 1 .. Len(rest) : rest[i] = q[i + 1]
  OBVIOUS
<1>1. PICK f : /\ f[0] = 0 /\ Mouse!Waiting(q) = f[Len(q)]
               /\ \A n \in 0 .. Len(q) : f[n] \in Int
               /\ \A n \in 1 .. Len(q) : f[n] = f[n - 1] + Mouse!Counted(q[n])
  BY WaitingSums
<1> HIDE DEF rest
<1>2. PICK g : /\ g[0] = 0 /\ Mouse!Waiting(rest) = g[Len(rest)]
               /\ \A n \in 1 .. Len(rest) : g[n] = g[n - 1] + Mouse!Counted(rest[n])
  BY <1>0, WaitingSums
<1>3. \A n \in 1 .. Len(q) : Mouse!Counted(q[n]) \in Int
  BY CountedNumber
<1>4. f[1] = Mouse!Counted(q[1])
  BY <1>0, <1>1, <1>3
<1> DEFINE Q == {k \in Nat : k <= Len(rest) => g[k] = f[k + 1] - f[1]}
<1>5. 0 \in Q
  <2>1. f[1] \in Int
    BY <1>0, <1>1
  <2> QED BY <1>2, <2>1
<1>6. ASSUME NEW k \in Nat, k \in Q PROVE k + 1 \in Q
  <2> SUFFICES ASSUME k + 1 <= Len(rest) PROVE g[k + 1] = f[(k + 1) + 1] - f[1]
    OBVIOUS
  <2>1. /\ k + 1 \in 1 .. Len(rest) /\ k + 2 \in 1 .. Len(q) /\ k + 1 \in 0 .. Len(q) /\ 1 \in 0 .. Len(q)
        /\ (k + 1) - 1 = k /\ (k + 1) + 1 = k + 2 /\ (k + 2) - 1 = k + 1
        /\ g[k] = f[k + 1] - f[1] /\ rest[k + 1] = q[k + 2]
    BY <1>0, <1>6
  <2>2. g[k + 1] = g[k] + Mouse!Counted(q[k + 2]) /\ f[k + 2] = f[k + 1] + Mouse!Counted(q[k + 2])
    BY <1>1, <1>2, <2>1
  <2>3. f[k + 1] \in Int /\ f[1] \in Int /\ Mouse!Counted(q[k + 2]) \in Int
    BY <1>1, <1>3, <2>1
  <2> QED BY <2>1, <2>2, <2>3
<1> HIDE DEF Q
<1>7. Nat \subseteq Q
  BY <1>5, <1>6, NatInduct
<1>8. g[Len(rest)] = f[Len(rest) + 1] - f[1]
  BY <1>0, <1>7 DEF Q
<1>9. Mouse!Waiting(rest) = Mouse!Waiting(q) - Mouse!Counted(Head(q))
  BY <1>0, <1>1, <1>2, <1>4, <1>8
<1> QED BY <1>9 DEF rest

-----------------------------------------------------------------------------
(* The session and the virtual cursor.                                     *)

\* What the state of the mouse is made of, as far as the virtual cursor goes.
MouseType ==
  /\ cursor \in Int /\ queue \in Seq(Message)
  /\ session \in Session /\ pointer \in Pointer /\ track \in Track

\* Raw input runs only in a session, which is what makes the hook leave the
\* device's steps to it; without it the hook's last point is the cursor.
MouseInv ==
  /\ MouseType
  /\ session.raw => session.on
  /\ session.on => session.last = cursor
  /\ pointer.used => session.on
  /\ Mouse!StepsPolledOnce
  /\ Mouse!PointerFollowsPolled

\* A virtual cursor just set has not moved.
LEMMA TrackedAnew ==
  ASSUME queue \in Seq(Message), NEW at \in Int, NEW t, t = Mouse!Tracked(at)
  PROVE  /\ t \in Track
         /\ t.due = Mouse!Waiting(queue) /\ t.polled = 0 /\ t.origin = at /\ t.ticks = 0
         /\ 2 * (Native * (at - t.origin) - Logical * t.polled)
              \in -(Native * t.ticks) .. Native * t.ticks
<1>1. Mouse!Waiting(queue) \in Int
  BY WaitingNumber
<1>2. /\ t \in Track /\ t.due = Mouse!Waiting(queue) /\ t.polled = 0 /\ t.origin = at
      /\ t.ticks = 0
  BY <1>1 DEF Mouse!Tracked, Track
<1>3. at - t.origin = 0
  BY <1>2
<1> QED BY <1>2, <1>3, MouseAssumption

\* At the start nothing is used and nothing has moved.
LEMMA MouseInitial == Mouse!Init => MouseInv
<1> SUFFICES ASSUME Mouse!Init PROVE MouseInv
  OBVIOUS
<1>1. /\ cursor = Centre /\ queue = <<>> /\ track = Mouse!Tracked(0)
      /\ session = [on |-> FALSE, raw |-> FALSE, last |-> 0, dx |-> 0]
      /\ pointer = [at |-> 0, used |-> FALSE, stole |-> FALSE]
  BY DEF Mouse!Init, Mouse!NoSession
<1>2. queue \in Seq(Message)
  BY <1>1
<1>3. track \in Track
  BY <1>1, <1>2, TrackedAnew
<1>4. session \in Session /\ pointer \in Pointer /\ ~session.on /\ ~session.raw /\ ~pointer.used
  BY <1>1 DEF Session, Pointer
<1> QED
  BY <1>1, <1>2, <1>3, <1>4, MouseAssumption
  DEF MouseInv, MouseType, Mouse!PointerFollowsPolled, Mouse!StepsPolledOnce, Mouse!Reliable

\* What raw input counts the hook does not count again.
LEMMA MovedKeeps ==
  ASSUME NEW s \in Session, NEW at \in Int
  PROVE  /\ Mouse!Moved(s, at) \in Session
         /\ Mouse!Moved(s, at).raw = s.raw /\ Mouse!Moved(s, at).on = s.on
         /\ Mouse!Moved(s, at).last = at
         /\ s.raw => Mouse!Moved(s, at).dx = s.dx
         /\ ~s.raw => Mouse!Moved(s, at).dx = s.dx + (at - s.last)
<1> DEFINE dx == IF s.raw THEN s.dx ELSE s.dx + (at - s.last)
           t  == Mouse!Moved(s, at)
<1>1. dx \in Int /\ s.on \in BOOLEAN /\ s.raw \in BOOLEAN
  BY DEF Session
<1>2. t = [s EXCEPT !.last = at, !.dx = dx]
  BY DEF Mouse!Moved, Session
<1> HIDE DEF dx, t
<1>3. t = [on |-> s.on, raw |-> s.raw, last |-> at, dx |-> dx]
  BY <1>2 DEF Session
<1>4. t \in Session /\ t.raw = s.raw /\ t.on = s.on /\ t.last = at /\ t.dx = dx
  BY <1>1, <1>3 DEF Session
<1> QED BY <1>4 DEF dx, t

\* What a poll leaves, and a message adds.
LEMMA PollEmpties ==
  ASSUME NEW s \in Session, NEW d \in Int
  PROVE  /\ [s EXCEPT !.dx = d] \in Session
         /\ [s EXCEPT !.dx = d].raw = s.raw /\ [s EXCEPT !.dx = d].on = s.on
         /\ [s EXCEPT !.dx = d].last = s.last /\ [s EXCEPT !.dx = d].dx = d
<1>1. s = [on |-> s.on, raw |-> s.raw, last |-> s.last, dx |-> s.dx]
  BY DEF Session
<1>2. s.on \in BOOLEAN /\ s.raw \in BOOLEAN /\ s.last \in Int
  BY DEF Session
<1> DEFINE t == [s EXCEPT !.dx = d]
<1>3. t = [on |-> s.on, raw |-> s.raw, last |-> s.last, dx |-> d]
  BY <1>1
<1> HIDE DEF t
<1>4. t \in Session /\ t.raw = s.raw /\ t.on = s.on /\ t.last = s.last /\ t.dx = d
  BY <1>2, <1>3 DEF Session
<1> QED BY <1>4 DEF t

\* A tick moves the virtual cursor by what it polls, but for half a pixel.
LEMMA PollMoves ==
  ASSUME MouseType, Mouse!PointerFollowsPolled
  PROVE  /\ Mouse!Polled \in Int /\ Mouse!Polling \in Track
         /\ Mouse!Polling.polled = track.polled + session.dx
         /\ Mouse!Polling.due = track.due /\ Mouse!Polling.rubber = track.rubber
         /\ pointer.used /\ ~Mouse!Polling.edge =>
              2 * (Native * (Mouse!Polled - Mouse!Polling.origin) - Logical * Mouse!Polling.polled)
                \in -(Native * Mouse!Polling.ticks) .. Native * Mouse!Polling.ticks
<1> DEFINE d  == session.dx
           at == pointer.at
           by == Mouse!ToLogical(d)
           p  == track.polled
           o  == track.origin
           n  == track.ticks
           t  == Mouse!Polling
<1>1. /\ d \in Int /\ at \in Int /\ p \in Int /\ o \in Int /\ n \in Nat
      /\ track.due \in Int /\ track.edge \in BOOLEAN /\ track.rubber \in BOOLEAN
      /\ pointer.used \in BOOLEAN
  BY DEF MouseType, Session, Pointer, Track
<1>2. by \in Int /\ 2 * (Native * by - Logical * d) \in -Native .. Native
  BY <1>1, Pixels
<1>3. Mouse!Aimed = at + by /\ Mouse!Aimed \in Int /\ Mouse!Clamped(Mouse!Aimed) \in Int
  BY <1>1, <1>2, Pixels DEF Mouse!Aimed
<1>4. Mouse!Polled \in Int
  BY <1>1, <1>3 DEF Mouse!Polled
<1> DEFINE ticks == IF Mouse!Moves THEN n + 1 ELSE n
           edge  == track.edge \/ (Mouse!Moves /\ Mouse!Clamped(Mouse!Aimed) # Mouse!Aimed)
<1>5. t = [due |-> track.due, polled |-> p + d, origin |-> o, ticks |-> ticks, edge |-> edge,
           rubber |-> track.rubber]
  <2>1. t = [track EXCEPT !.polled = p + d, !.ticks = ticks, !.edge = edge]
    BY DEF Mouse!Polling
  <2>2. track \in Track
    BY DEF MouseType
  <2> HIDE DEF ticks, edge, t
  <2> QED BY <2>1, <2>2 DEF Track
<1>6. ticks \in Nat /\ edge \in BOOLEAN /\ p + d \in Int
  BY <1>1
<1> HIDE DEF ticks, edge, t
<1>7. /\ t \in Track /\ t.polled = p + d /\ t.due = track.due /\ t.rubber = track.rubber
      /\ t.ticks = ticks /\ t.origin = o /\ t.edge = edge
  BY <1>1, <1>5, <1>6 DEF Track
<1>8. ASSUME pointer.used, ~edge
      PROVE  2 * (Native * (Mouse!Polled - o) - Logical * (p + d)) \in -(Native * ticks) .. Native * ticks
  <2>1. 2 * (Native * (at - o) - Logical * p) \in -(Native * n) .. Native * n
    BY <1>8 DEF Mouse!PointerFollowsPolled, edge
  <2>2. CASE Mouse!Moves
    <3>1. Mouse!Polled = at + by /\ ticks = n + 1
      BY <1>3, <1>8, <2>2 DEF Mouse!Polled, ticks, edge
    <3> HIDE DEF by
    <3> DEFINE A == Native * (at - o)
               B == Native * by
               C == Logical * p
               D == Logical * d
               E == Native * n
    <3>2. A \in Int /\ B \in Int /\ C \in Int /\ D \in Int /\ E \in Int
      BY <1>1, <1>2, MouseAssumption
    <3>3. /\ Native * ((at + by) - o) = A + B /\ Logical * (p + d) = C + D
          /\ Native * (n + 1) = E + Native
      BY <1>1, <1>2, MouseAssumption
    <3> HIDE DEF A, B, C, D, E
    <3>4. 2 * (A - C) \in -E .. E /\ 2 * (B - D) \in -Native .. Native
      BY <1>2, <2>1 DEF A, B, C, D, E
    <3>5. 2 * ((A + B) - (C + D)) \in -(E + Native) .. (E + Native)
      BY <3>2, <3>4, MouseAssumption
    <3> QED BY <3>1, <3>3, <3>5
  <2>3. CASE ~Mouse!Moves
    <3>1. d = 0 /\ Mouse!Polled = at /\ ticks = n
      BY <1>8, <2>3 DEF Mouse!Moves, Mouse!Polled, ticks
    <3> QED BY <1>1, <2>1, <3>1
  <2> QED BY <2>2, <2>3
<1> QED BY <1>4, <1>7, <1>8 DEF t

\* Each handler of the session keeps it.
LEMMA MouseStep == MouseInv /\ [Mouse!Next]_(Mouse!vars) => MouseInv'
<1> SUFFICES ASSUME MouseInv, [Mouse!Next]_(Mouse!vars) PROVE MouseInv'
  OBVIOUS
<1> DEFINE W == Mouse!Waiting(queue)
           Once(s, t, q) == s.on /\ (s.raw \/ ~t.rubber) =>
                              t.polled + s.dx + Mouse!Waiting(q) = t.due
           Near(p, t) == p.used /\ ~t.edge =>
                           2 * (Native * (p.at - t.origin) - Logical * t.polled)
                             \in -(Native * t.ticks) .. Native * t.ticks
<1>0. /\ cursor \in Int /\ queue \in Seq(Message)
      /\ session \in Session /\ pointer \in Pointer /\ track \in Track
      /\ session.raw => session.on
      /\ session.on => session.last = cursor
      /\ pointer.used => session.on
      /\ Once(session, track, queue) /\ Near(pointer, track)
  BY DEF MouseInv, MouseType, Mouse!StepsPolledOnce, Mouse!Reliable, Mouse!PointerFollowsPolled
<1> DEFINE Goal == /\ cursor' \in Int /\ queue' \in Seq(Message)
                   /\ session' \in Session /\ pointer' \in Pointer /\ track' \in Track
                   /\ session'.raw => session'.on
                   /\ session'.on => session'.last = cursor'
                   /\ pointer'.used => session'.on
                   /\ Once(session', track', queue') /\ Near(pointer', track')
<1> SUFFICES Goal
  BY DEF MouseInv, MouseType, Mouse!StepsPolledOnce, Mouse!Reliable, Mouse!PointerFollowsPolled
<1>W. W \in Int
  BY <1>0, WaitingNumber
<1>T. /\ session.dx \in Int /\ session.last \in Int /\ session.on \in BOOLEAN /\ session.raw \in BOOLEAN
      /\ pointer.at \in Int /\ pointer.used \in BOOLEAN
      /\ track.due \in Int /\ track.polled \in Int /\ track.rubber \in BOOLEAN
  BY <1>0 DEF Session, Pointer, Track
<1>1. ASSUME NEW rawOk \in BOOLEAN, Mouse!Begin(rawOk) PROVE Goal
  <2>1. /\ UNCHANGED <<cursor, queue>> /\ track' = Mouse!Tracked(Mouse!ToLogical(cursor))
        /\ session' = [on |-> TRUE, raw |-> rawOk, last |-> cursor, dx |-> 0]
        /\ pointer' = [at |-> Mouse!ToLogical(cursor), used |-> TRUE, stole |-> FALSE]
    BY <1>1 DEF Mouse!Begin
  <2>2. Mouse!ToLogical(cursor) \in Int
    BY <1>0, Pixels
  <2>3. /\ track' \in Track /\ Near(pointer', track')
        /\ track'.due = W /\ track'.polled = 0
    BY <1>0, <2>1, <2>2, TrackedAnew
  <2>4. /\ session' \in Session /\ pointer' \in Pointer
        /\ session'.on /\ session'.last = cursor' /\ session'.dx = 0
    BY <1>0, <2>1, <2>2 DEF Session, Pointer
  <2> QED BY <1>0, <1>W, <2>1, <2>3, <2>4
<1>2. ASSUME Mouse!End PROVE Goal
  <2>1. session' \in Session /\ ~session'.raw /\ ~session'.on
    BY <1>2 DEF Mouse!End, Mouse!NoSession, Session
  <2>2. pointer' \in Pointer /\ ~pointer'.used
    BY <1>0, <1>2 DEF Mouse!End, Pointer
  <2>3. UNCHANGED <<cursor, queue, track>>
    BY <1>2 DEF Mouse!End
  <2> QED BY <1>0, <2>1, <2>2, <2>3
<1>3. ASSUME NEW step \in Steps, NEW absolute \in BOOLEAN, Mouse!DeviceMoves(step, absolute) PROVE Goal
  <2> DEFINE m == [absolute |-> absolute, x |-> IF absolute THEN cursor + step ELSE step]
             more == IF session.raw /\ absolute THEN track.due ELSE track.due + step
  <2>0. step \in Int /\ cursor + step \in Int /\ m \in Message /\ more \in Int
    BY <1>0, <1>T, MouseAssumption DEF Message
  <2>1. /\ cursor' = cursor + step /\ pointer' = pointer
        /\ queue' = IF ~session.raw THEN queue ELSE Append(queue, m)
        /\ session' = IF session.on THEN Mouse!Moved(session, cursor + step) ELSE session
        /\ track' = [track EXCEPT !.due = more]
    BY <1>3 DEF Mouse!DeviceMoves
  <2>2. Mouse!Counted(m) = IF absolute THEN 0 ELSE step
    BY DEF Mouse!Counted
  <2> HIDE DEF m, more
  <2>3. /\ track' \in Track /\ track'.due = more /\ track'.polled = track.polled
        /\ track'.origin = track.origin /\ track'.ticks = track.ticks
        /\ track'.edge = track.edge /\ track'.rubber = track.rubber
    BY <1>0, <2>0, <2>1 DEF Track
  <2>4. queue' \in Seq(Message)
    BY <1>0, <2>0, <2>1
  <2>5. CASE ~session.on
    BY <1>0, <2>0, <2>1, <2>3, <2>4, <2>5
  <2>6. CASE session.on
    <3>1. /\ session' \in Session /\ session'.raw = session.raw /\ session'.on /\ session'.last = cursor'
          /\ session'.dx = IF session.raw THEN session.dx ELSE session.dx + ((cursor + step) - session.last)
      BY <1>0, <2>0, <2>1, <2>6, MovedKeeps
    <3>2. CASE session.raw
      <4>1. Mouse!Waiting(queue') = W + Mouse!Counted(m)
        BY <1>0, <2>0, <2>1, <3>2, WaitingAppended
      <4>2. track'.due = track.due + Mouse!Counted(m) /\ Mouse!Counted(m) \in Int
        BY <1>T, <2>0, <2>2, <2>3, <3>2 DEF more
      <4>3. session'.dx = session.dx
        BY <3>1, <3>2
      <4>4. Once(session', track', queue')
        BY <1>0, <1>T, <1>W, <2>3, <2>6, <3>2, <4>1, <4>2, <4>3
      <4> HIDE DEF Once
      <4> QED BY <1>0, <2>0, <2>1, <2>3, <2>4, <3>1, <4>4
    <3>3. CASE ~session.raw
      <4>1. session'.dx = session.dx + step /\ track'.due = track.due + step /\ queue' = queue
        BY <1>0, <1>T, <2>0, <2>1, <2>3, <2>6, <3>1, <3>3 DEF more
      <4>2. Once(session', track', queue')
        BY <1>0, <1>T, <1>W, <2>0, <2>3, <2>6, <3>1, <3>3, <4>1
      <4> HIDE DEF Once
      <4> QED BY <1>0, <2>0, <2>1, <2>3, <2>4, <3>1, <4>2
    <3> QED BY <3>2, <3>3
  <2> QED BY <2>5, <2>6
<1>4. ASSUME Mouse!ProcessNativeMessage PROVE Goal
  <2>1. /\ queue # <<>> /\ queue' = Tail(queue) /\ UNCHANGED <<cursor, pointer, track>>
        /\ session' = IF session.on /\ ~Head(queue).absolute
                      THEN [session EXCEPT !.dx = session.dx + Head(queue).x] ELSE session
    BY <1>4 DEF Mouse!ProcessNativeMessage
  <2>2. Head(queue) \in Message /\ queue' \in Seq(Message)
    BY <1>0, <2>1
  <2>3. Mouse!Waiting(queue') = W - Mouse!Counted(Head(queue))
    BY <1>0, <2>1, WaitingRest
  <2>4. Mouse!Counted(Head(queue)) \in Int /\ Head(queue).x \in Int /\ Head(queue).absolute \in BOOLEAN
    BY <2>2 DEF Mouse!Counted, Message
  <2>5. CASE session.on /\ ~Head(queue).absolute
    <3>1. session.dx + Head(queue).x \in Int /\ Mouse!Counted(Head(queue)) = Head(queue).x
      BY <1>T, <2>4, <2>5 DEF Mouse!Counted
    <3>2. /\ session' \in Session /\ session'.raw = session.raw /\ session'.on = session.on
          /\ session'.last = session.last /\ session'.dx = session.dx + Head(queue).x
      BY <1>0, <2>1, <2>5, <3>1, PollEmpties
    <3>3. Once(session', track', queue')
      <4> SUFFICES ASSUME session.raw \/ ~track.rubber
                   PROVE  track.polled + session'.dx + Mouse!Waiting(queue') = track.due
        BY <2>1, <3>2
      <4>1. track.polled + session.dx + W = track.due
        BY <1>0, <2>5
      <4>2. /\ Mouse!Waiting(queue') = W - Head(queue).x
            /\ session'.dx = session.dx + Head(queue).x
        BY <2>3, <3>1, <3>2
      <4> HIDE DEF W
      <4> QED BY <1>T, <1>W, <2>4, <4>1, <4>2
    <3> HIDE DEF Once
    <3> QED BY <1>0, <2>1, <2>2, <3>2, <3>3
  <2>6. CASE ~(session.on /\ ~Head(queue).absolute)
    <3>1. session' = session
      BY <2>1, <2>6
    <3>2. session.on => Mouse!Counted(Head(queue)) = 0
      BY <2>6 DEF Mouse!Counted
    <3>3. Once(session', track', queue')
      <4> SUFFICES ASSUME session.on, session.raw \/ ~track.rubber
                   PROVE  track.polled + session.dx + Mouse!Waiting(queue') = track.due
        BY <2>1, <3>1
      <4>1. track.polled + session.dx + W = track.due
        BY <1>0
      <4>2. Mouse!Waiting(queue') = W
        BY <1>W, <2>3, <3>2
      <4> QED BY <4>1, <4>2
    <3> HIDE DEF Once
    <3> QED BY <1>0, <2>1, <2>2, <3>1, <3>3
  <2> QED BY <2>5, <2>6
<1>R. ASSUME NEW at \in Int, NEW t, t = Mouse!Rubber(at)
      PROVE  /\ t \in Track /\ t.due = track.due /\ t.polled = track.polled /\ t.origin = track.origin
             /\ t.ticks = track.ticks /\ t.edge = track.edge
             /\ t.rubber <=> (track.rubber \/ (session.on /\ ~session.raw /\ at # session.last))
  BY <1>0, <1>R DEF Mouse!Rubber, Track
<1>5. ASSUME NEW injected \in BOOLEAN, Mouse!GameRecenters(injected) PROVE Goal
  <2>1. /\ cursor' = Centre /\ UNCHANGED <<queue, pointer>>
        /\ session' = IF ~session.on THEN session
                      ELSE IF injected THEN [session EXCEPT !.last = Centre]
                      ELSE Mouse!Moved(session, Centre)
        /\ track' = IF injected THEN track ELSE Mouse!Rubber(Centre)
    BY <1>5 DEF Mouse!GameRecenters
  <2>2. Centre \in Int
    BY MouseAssumption
  <2>3. /\ track' \in Track /\ track'.due = track.due /\ track'.polled = track.polled
        /\ track'.origin = track.origin /\ track'.ticks = track.ticks /\ track'.edge = track.edge
        /\ track'.rubber <=> (track.rubber
                             \/ (~injected /\ session.on /\ ~session.raw /\ Centre # session.last))
    <3>1. CASE injected
      BY <1>0, <1>T, <2>1, <3>1
    <3>2. CASE ~injected
      BY <1>R, <2>1, <2>2, <3>2
    <3> QED BY <3>1, <3>2
  <2>4. /\ session' \in Session /\ session'.raw = session.raw /\ session'.on = session.on
        /\ session.on => session'.last = Centre
        /\ session.on => session'.dx = IF injected \/ session.raw THEN session.dx
                                       ELSE session.dx + (Centre - session.last)
    <3>1. CASE ~session.on
      BY <1>0, <2>1, <3>1
    <3>2. CASE session.on /\ injected
      <4>1. session' = [on |-> session.on, raw |-> session.raw, last |-> Centre, dx |-> session.dx]
        BY <1>0, <2>1, <3>2 DEF Session
      <4> QED BY <1>T, <2>2, <3>2, <4>1 DEF Session
    <3>3. CASE session.on /\ ~injected
      <4>1. session' = Mouse!Moved(session, Centre)
        BY <2>1, <3>3
      <4> QED BY <1>0, <2>2, <3>3, <4>1, MovedKeeps
    <3> QED BY <3>1, <3>2, <3>3
  <2>5. Once(session', track', queue')
    <3> SUFFICES ASSUME session.on, session.raw \/ ~track'.rubber
                 PROVE  track.polled + session'.dx + W = track.due
      BY <2>1, <2>3, <2>4
    <3>1. session'.dx = session.dx
      BY <1>T, <2>2, <2>3, <2>4
    <3>2. session.raw \/ ~track.rubber
      BY <2>3
    <3> QED BY <1>0, <3>1, <3>2
  <2> HIDE DEF Once
  <2> QED BY <1>0, <2>1, <2>2, <2>3, <2>4, <2>5
<1>D. /\ [session EXCEPT !.dx = 0] \in Session
      /\ [session EXCEPT !.dx = 0].raw = session.raw /\ [session EXCEPT !.dx = 0].on = session.on
      /\ [session EXCEPT !.dx = 0].last = session.last /\ [session EXCEPT !.dx = 0].dx = 0
  BY <1>0, PollEmpties
<1>P. /\ Mouse!Polled \in Int /\ Mouse!Polling \in Track
      /\ Mouse!Polling.polled = track.polled + session.dx
      /\ Mouse!Polling.due = track.due /\ Mouse!Polling.rubber = track.rubber
      /\ pointer.used /\ ~Mouse!Polling.edge =>
           2 * (Native * (Mouse!Polled - Mouse!Polling.origin) - Logical * Mouse!Polling.polled)
             \in -(Native * Mouse!Polling.ticks) .. Native * Mouse!Polling.ticks
  BY PollMoves DEF MouseInv
<1>6. ASSUME Mouse!TickFollows PROVE Goal
  <2>1. /\ session.on /\ UNCHANGED <<cursor, queue>> /\ track' = Mouse!Polling
        /\ pointer' = [pointer EXCEPT !.at = Mouse!Polled] /\ session' = [session EXCEPT !.dx = 0]
    BY <1>6 DEF Mouse!TickFollows
  <2>2. /\ session' \in Session /\ session'.dx = 0 /\ session'.last = session.last
        /\ session'.raw = session.raw /\ session'.on = session.on
    BY <1>D, <2>1
  <2>3. pointer' \in Pointer /\ pointer'.used = pointer.used /\ pointer'.at = Mouse!Polled
    BY <1>0, <1>P, <2>1 DEF Pointer
  <2>4. Once(session', track', queue')
    BY <1>0, <1>P, <1>T, <1>W, <2>1, <2>2
  <2>5. Near(pointer', track')
    BY <1>P, <2>1, <2>3
  <2> HIDE DEF Once, Near
  <2> QED BY <1>0, <1>P, <2>1, <2>2, <2>3, <2>4, <2>5
<1>7. ASSUME Mouse!TickSteals PROVE Goal
  <2> DEFINE to == Mouse!ToNative(Mouse!Polled)
             s  == [session EXCEPT !.dx = 0]
             rubber == Mouse!Rubber(to).rubber
  <2>1. /\ session.on /\ cursor' = to /\ queue' = queue /\ session' = Mouse!Moved(s, to)
        /\ pointer' = [pointer EXCEPT !.at = Mouse!Polled, !.used = FALSE, !.stole = TRUE]
        /\ track' = [Mouse!Polling EXCEPT !.rubber = rubber]
    BY <1>7 DEF Mouse!TickSteals, Mouse!StealCursor
  <2>2. to \in Int
    BY <1>P, Pixels
  <2>3. /\ s \in Session /\ s.dx = 0 /\ s.raw = session.raw /\ s.on = session.on
        /\ s.last = session.last
    BY <1>D
  <2>4. rubber \in BOOLEAN /\ (rubber <=> (track.rubber \/ (session.on /\ ~session.raw /\ to # session.last)))
    <3> DEFINE t == Mouse!Rubber(to)
    <3>1. t \in Track /\ (t.rubber <=> (track.rubber \/ (session.on /\ ~session.raw /\ to # session.last)))
      BY <1>R, <2>2
    <3> HIDE DEF t
    <3>2. t.rubber \in BOOLEAN
      BY <3>1 DEF Track
    <3> QED BY <3>1, <3>2 DEF t
  <2> HIDE DEF to, s, rubber
  <2>5. /\ session' \in Session /\ session'.raw = session.raw /\ session'.on /\ session'.last = cursor'
        /\ session'.dx = IF session.raw THEN 0 ELSE 0 + (to - session.last)
    <3> DEFINE t == Mouse!Moved(s, to)
    <3>1. /\ t \in Session /\ t.raw = s.raw /\ t.on = s.on /\ t.last = to
          /\ s.raw => t.dx = s.dx
          /\ ~s.raw => t.dx = s.dx + (to - s.last)
      BY <2>2, <2>3, MovedKeeps
    <3> HIDE DEF t
    <3>2. session' = t
      BY <2>1 DEF t
    <3> QED BY <2>1, <2>3, <3>1, <3>2
  <2>6. /\ track' \in Track /\ track'.due = track.due /\ track'.polled = track.polled + session.dx
        /\ track'.rubber <=> rubber
    BY <1>P, <1>T, <2>1, <2>4 DEF Track
  <2>7. pointer' \in Pointer /\ ~pointer'.used
    BY <1>0, <1>P, <2>1 DEF Pointer
  <2>8. Once(session', track', queue')
    <3> SUFFICES ASSUME session.raw \/ ~rubber
                 PROVE  (track.polled + session.dx) + session'.dx + W = track.due
      BY <2>1, <2>5, <2>6
    <3>1. session'.dx = 0
      BY <1>T, <2>1, <2>2, <2>4, <2>5
    <3>2. session.on /\ (session.raw \/ ~track.rubber)
      BY <2>1, <2>4
    <3> QED BY <1>0, <1>T, <1>W, <3>1, <3>2
  <2> HIDE DEF Once
  <2> QED BY <1>0, <2>1, <2>2, <2>5, <2>6, <2>7, <2>8
<1>8. ASSUME Mouse!TickResumes PROVE Goal
  <2>1. /\ session.on /\ UNCHANGED <<cursor, queue>> /\ track' = Mouse!Tracked(pointer.at)
        /\ pointer' = [pointer EXCEPT !.used = TRUE, !.stole = FALSE]
        /\ session' = [session EXCEPT !.dx = 0]
    BY <1>8 DEF Mouse!TickResumes
  <2>2. /\ session' \in Session /\ session'.dx = 0 /\ session'.last = session.last
        /\ session'.raw = session.raw /\ session'.on = session.on
    BY <1>D, <2>1
  <2>3. pointer' \in Pointer /\ pointer'.at = pointer.at
    BY <1>0, <2>1 DEF Pointer
  <2>4. /\ track' \in Track /\ track'.due = W /\ track'.polled = 0
        /\ Near(pointer', track')
    BY <1>0, <1>T, <2>1, <2>3, TrackedAnew
  <2>5. Once(session', track', queue')
    BY <1>W, <2>1, <2>2, <2>4
  <2> HIDE DEF Once, Near
  <2> QED BY <1>0, <2>1, <2>2, <2>3, <2>4, <2>5
<1>9. ASSUME NEW b \in Buttons, Mouse!ButtonDown(b) \/ Mouse!ButtonUp(b) PROVE Goal
  <2>1. UNCHANGED <<cursor, queue, session, pointer, track>>
    BY <1>9 DEF Mouse!ButtonDown, Mouse!ButtonUp
  <2> QED BY <1>0, <2>1
<1>10. ASSUME UNCHANGED Mouse!vars PROVE Goal
  BY <1>0, <1>10 DEF Mouse!vars
<1> HIDE DEF Goal
<1> QED
  BY <1>1, <1>2, <1>3, <1>4, <1>5, <1>6, <1>7, <1>8, <1>9, <1>10 DEF Mouse!Next

\* The invariant of the session and the virtual cursor.
LEMMA MouseInvariant == Mouse!Spec => []MouseInv
<1> QED BY MouseInitial, MouseStep, PTL DEF Mouse!Spec

\* Every step of the device is polled once or still to come, wherever the game
\* puts the system's cursor, and however the session, the theft of the focus
\* and the queue of messages interleave; and the virtual cursor is where what
\* was polled leads, but for half a pixel for each tick that moved it, for
\* every pixel ratio and surface, up to the edge.
\* (handleLowLevelMouse, processNativeMessage, onGameMouseCaptureTick)
THEOREM PointerTracks == Mouse!Spec => []PointerTracksDevice
<1>1. MouseInv => PointerTracksDevice
  BY DEF MouseInv, PointerTracksDevice, Mouse!PointerTracksDevice
<1> QED BY MouseInvariant, <1>1, PTL
=============================================================================
