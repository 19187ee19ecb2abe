--------------------------- MODULE MouseSession ---------------------------
(***************************************************************************)
(* The mouse while the wheel is over a game: the overlay mouse session of  *)
(* platform/src/windows/Inputs.cpp (raw input for the motion of the        *)
(* device, a mouse hook for buttons and for moves the game injects) and    *)
(* the virtual cursor and stolen focus of app/src/App.cpp.                 *)
(*                                                                         *)
(* One coordinate.  The system's cursor and the device count in native     *)
(* pixels, the virtual cursor in the pixels of Qt, Native of the former to *)
(* Logical of the latter (devicePixelRatioF).  WM_INPUT messages wait in   *)
(* the queue of the thread; the hook sees a move as it happens.  Whether   *)
(* raw input registers, whether a device reports its steps or a position,  *)
(* the game moves or clips the cursor, so that the focus is stolen, and    *)
(* whether the game has it back are choices of the system: counting the    *)
(* injected moves, one of the reasons to steal, is left out.               *)
(***************************************************************************)
EXTENDS Integers, Sequences, FiniteSets

CONSTANTS
  Buttons,
  Native, Logical,  \* the device pixel ratio is Native / Logical
  Left, Right,      \* the surface, in Qt's pixels
  Centre,           \* where the game puts the cursor
  Steps,            \* what the device moves by
  MaxMoves,         \* bound on the device's moves
  MaxWarps          \* bound on the game's moves of the cursor

VARIABLES
  cursor,         \* the system's cursor
  queue,          \* WM_INPUT messages not yet processed
  session,        \* of the receiver: on, mouse hook and session; raw, raw input
                  \* is registered; last, lastMousePt; dx, pendingMouseDx
  pointer,        \* of App: at, m_virtualCursorPos; used, m_usingVirtualCursor;
                  \* stole, m_stoleGameFocus
  moved,          \* moves of the device so far
  track,          \* since the virtual cursor was last set, what the properties
                  \* speak of: due, what the device has moved; polled, what the
                  \* ticks have polled; origin, where the virtual cursor was;
                  \* ticks, how many of them moved it; edge, one was cut off at
                  \* the edge; rubber, the hook counted a move of no device
  warped,         \* how often the game has moved the cursor
  held,           \* buttons that are down
  game            \* buttons that are down as far as the game was told

vars == <<cursor, queue, session, pointer, moved, track, warped, held, game>>

NoSession == [on |-> FALSE, raw |-> FALSE, last |-> 0, dx |-> 0]

-----------------------------------------------------------------------------
(* Pixels.                                                                 *)

\* Fault: a cast to int in place of qRound.
RoundedDown(n, d) == IF n < 0 THEN -((-n) \div d) ELSE n \div d

\* qRound(n / d): the nearest integer, halves away from zero.
Rounded(n, d) ==
  IF n < 0 THEN -((d - 2 * n) \div (2 * d)) ELSE (2 * n + d) \div (2 * d)

ToLogical(n) == Rounded(n * Logical, Native)
ToNative(p)  == Rounded(p * Native, Logical)

\* clampPointToRect
Clamped(p) == IF p < Left THEN Left ELSE IF p > Right THEN Right ELSE p

-----------------------------------------------------------------------------
(* The session.                                                            *)

\* What raw input counts of a message: of a position, nothing.
Counted(m) == IF m.absolute THEN 0 ELSE m.x

\* What the messages in the queue will be counted for.
Waiting(q) ==
  LET sum[n \in 0 .. Len(q)] == IF n = 0 THEN 0 ELSE sum[n - 1] + Counted(q[n])
  IN  sum[Len(q)]

\* Set at `at`, with what is in the queue to come.
Tracked(at) ==
  [due |-> Waiting(queue), polled |-> 0, origin |-> at, ticks |-> 0, edge |-> FALSE, rubber |-> FALSE]

Init ==
  /\ cursor = Centre /\ queue = <<>>
  /\ session = NoSession
  /\ pointer = [at |-> 0, used |-> FALSE, stole |-> FALSE]
  /\ moved = 0 /\ track = Tracked(0) /\ warped = 0
  /\ held = {} /\ game = {}

\* The surface is that of the screen with the cursor.
Begin(rawOk) ==
  /\ ToLogical(cursor) \in Left .. Right
  /\ session' = [on |-> TRUE, raw |-> rawOk, last |-> cursor, dx |-> 0]
  /\ pointer' = [at |-> ToLogical(cursor), used |-> TRUE, stole |-> FALSE]
  /\ track' = Tracked(ToLogical(cursor))
  /\ UNCHANGED <<cursor, queue, moved, warped, held, game>>

End ==
  /\ session' = NoSession
  /\ pointer' = [pointer EXCEPT !.used = FALSE]
  /\ UNCHANGED <<cursor, queue, moved, track, warped, held, game>>

\* Fault: the hook counts the moves that raw input counts too.
MovedCounting(s, at) == [s EXCEPT !.last = at, !.dx = @ + (at - s.last)]

\* What the hook makes of a move that is not injected.
Moved(s, at) == [s EXCEPT !.last = at, !.dx = IF s.raw THEN @ ELSE @ + (at - s.last)]

\* Raw input reports the step, or where it leads; the hook sees the cursor.
DeviceMoves(step, absolute) ==
  /\ moved < MaxMoves
  /\ moved' = moved + 1
  /\ cursor' = cursor + step
  /\ queue' = IF ~session.raw THEN queue
              ELSE Append(queue, [absolute |-> absolute, x |-> IF absolute THEN cursor + step ELSE step])
  /\ session' = IF session.on THEN Moved(session, cursor + step) ELSE session
  /\ track' = [track EXCEPT !.due = IF session.raw /\ absolute THEN @ ELSE @ + step]
  /\ UNCHANGED <<pointer, warped, held, game>>

\* Fault: a position is taken for a step.
ProcessAnyMessage ==
  /\ queue # <<>>
  /\ queue' = Tail(queue)
  /\ session' = IF session.on THEN [session EXCEPT !.dx = @ + Head(queue).x] ELSE session
  /\ UNCHANGED <<cursor, pointer, moved, track, warped, held, game>>

\* A message may have been queued for a session that is over; the next one
\* counts it.
ProcessNativeMessage ==
  /\ queue # <<>>
  /\ queue' = Tail(queue)
  /\ session' = IF session.on /\ ~Head(queue).absolute
                THEN [session EXCEPT !.dx = @ + Head(queue).x] ELSE session
  /\ UNCHANGED <<cursor, pointer, moved, track, warped, held, game>>

\* The hook, without raw input, takes any move that is not flagged as injected
\* for the device's.
Rubber(at) == [track EXCEPT !.rubber = @ \/ (session.on /\ ~session.raw /\ at # session.last)]

\* The game moves the cursor to its centre, flagged as injected or not.
GameRecenters(injected) ==
  /\ warped < MaxWarps
  /\ warped' = warped + 1
  /\ cursor' = Centre
  /\ session' = IF ~session.on THEN session
                ELSE IF injected THEN [session EXCEPT !.last = Centre]
                ELSE Moved(session, Centre)
  /\ track' = IF injected THEN track ELSE Rubber(Centre)
  /\ UNCHANGED <<queue, pointer, moved, held, game>>

-----------------------------------------------------------------------------
(* The tick of App's capture timer.                                        *)

Moves   == pointer.used /\ session.dx # 0
Aimed   == pointer.at + ToLogical(session.dx)

\* The remainder of the division is dropped, and what is beyond the edge.
Polled  == IF Moves THEN Clamped(Aimed) ELSE pointer.at

Polling ==
  [track EXCEPT !.polled = @ + session.dx,
                !.ticks  = IF Moves THEN @ + 1 ELSE @,
                !.edge   = @ \/ (Moves /\ Clamped(Aimed) # Aimed)]

\* Off and unclip modes, a settled steal, or nothing that calls for one.
TickFollows ==
  /\ session.on
  /\ pointer' = [pointer EXCEPT !.at = Polled]
  /\ session' = [session EXCEPT !.dx = 0]
  /\ track' = Polling
  /\ UNCHANGED <<cursor, queue, moved, warped, held, game>>

StealCursor == cursor' = ToNative(Polled)

\* Steal the focus: the virtual cursor becomes the system's.
TickSteals ==
  /\ session.on /\ pointer.used
  /\ StealCursor
  /\ pointer' = [pointer EXCEPT !.at = Polled, !.used = FALSE, !.stole = TRUE]
  /\ session' = Moved([session EXCEPT !.dx = 0], ToNative(Polled))
  /\ track' = [Polling EXCEPT !.rubber = Rubber(ToNative(Polled)).rubber]
  /\ UNCHANGED <<queue, moved, warped, held, game>>

\* The game has the cursor back: the virtual one resumes where it was when
\* the focus was stolen.
TickResumes ==
  /\ session.on /\ pointer.stole
  /\ pointer' = [pointer EXCEPT !.used = TRUE, !.stole = FALSE]
  /\ session' = [session EXCEPT !.dx = 0]
  /\ track' = Tracked(pointer.at)
  /\ UNCHANGED <<cursor, queue, moved, warped, held, game>>

-----------------------------------------------------------------------------
(* Buttons: the hook gives them to the overlay and swallows them.          *)

ButtonDown(b) ==
  /\ b \notin held
  /\ held' = held \cup {b}
  /\ game' = IF session.on THEN game ELSE game \cup {b}
  /\ UNCHANGED <<cursor, queue, session, pointer, moved, track, warped>>

ButtonUp(b) ==
  /\ b \in held
  /\ held' = held \ {b}
  /\ game' = IF session.on THEN game ELSE game \ {b}
  /\ UNCHANGED <<cursor, queue, session, pointer, moved, track, warped>>

-----------------------------------------------------------------------------
Next ==
  \/ \E rawOk \in BOOLEAN : Begin(rawOk)
  \/ End
  \/ \E step \in Steps, absolute \in BOOLEAN : DeviceMoves(step, absolute)
  \/ ProcessNativeMessage
  \/ \E injected \in BOOLEAN : GameRecenters(injected)
  \/ TickFollows
  \/ TickSteals
  \/ TickResumes
  \/ \E b \in Buttons : ButtonDown(b)
  \/ \E b \in Buttons : ButtonUp(b)

Spec == Init /\ [][Next]_vars

-----------------------------------------------------------------------------
(* Properties.                                                             *)

\* What the hook cannot tell apart: without raw input, the device's moves and
\* others that are not flagged.
Reliable == session.on /\ (session.raw \/ ~track.rubber)

\* Every step of the device is polled once, as a native pixel for each, or
\* still to come, wherever the game puts the system's cursor meanwhile: what
\* raw input reports the hook, which sees the same step, does not count again,
\* and without raw input the hook counts it, though the cursor was put
\* elsewhere.  A position in place of a step counts for nothing.
\* (handleLowLevelMouse, processNativeMessage, pollOverlayMouseDelta)
StepsPolledOnce ==
  Reliable => track.polled + session.dx + Waiting(queue) = track.due

\* The virtual cursor is where the native pixels polled since it was set lead,
\* but for half a pixel of its own for each tick that moved it: each rounds for
\* itself and drops the rest.  At the edge of the surface it loses more, and no
\* more is said.  (onGameMouseCaptureTick)
PointerFollowsPolled ==
  pointer.used /\ ~track.edge =>
    2 * (Native * (pointer.at - track.origin) - Logical * track.polled)
      \in -(Native * track.ticks) .. Native * track.ticks

\* A "virtual cursor from physical mouse deltas", which are "device deltas,
\* immune to SetCursorPos": the virtual cursor is where the device leads it, but
\* for what waits for the next tick, for rounding, and for the edge.
PointerTracksDevice == StepsPolledOnce /\ PointerFollowsPolled

\* Rounding costs half a pixel, however many ticks the way takes.
\* The code does not keep this; the README says how it fails.
SlowMotionCounts ==
  pointer.used /\ ~track.edge =>
    2 * (Native * (pointer.at - track.origin) - Logical * track.polled) \in -Native .. Native

\* "Swallow physical clicks so a captured game does not also receive them":
\* no click is given to the game in part, so that it waits for its release.
\* The code does not keep this; the README says how it fails.
GameGetsWholeClicks == game \subseteq held
=============================================================================
