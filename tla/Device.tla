------------------------------- MODULE Device -------------------------------
(***************************************************************************)
(* What one board runs besides the kernel: a ztimer clock on its counter, or *)
(* the game collection, which only reads the clock. Either behaves as in its *)
(* own module; one run checks them under one image of the program.          *)
(***************************************************************************)
EXTENDS Timer, Games

VARIABLE part   \* the part of the program that is observed
deviceVars == <<clockVars, gamesVars, part>>

(* The clock is observed where no game is played.                           *)
DeviceInit == ClockInit /\ GamesInit /\ part = IF session = {} THEN "clock" ELSE "games"

InClock(A) == part = "clock" /\ A /\ UNCHANGED <<gamesVars, part>>
InGames(A) == part = "games" /\ A /\ UNCHANGED <<clockVars, part>>

DeviceNext == InClock(ClockNext) \/ InGames(GamesNext)

DeviceSpec == DeviceInit /\ [][DeviceNext]_deviceVars

(* The loop of a game goes on: nothing in it blocks.                        *)
DeviceFairSpec == DeviceSpec /\ WF_deviceVars(InGames(Iterate))
=============================================================================
