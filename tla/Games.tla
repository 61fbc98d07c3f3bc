------------------------------- MODULE Games --------------------------------
(***************************************************************************)
(* The game collection (apps/Project_Game_Collection/main.c): its menus, the *)
(* blackjack and true/false games and the endless runner, and the files with *)
(* the three high scores of the games that keep them. One thread runs it, in *)
(* loops that read the button and the clock; a step is one iteration of the *)
(* loop it is in. What is drawn, and how the sensor moves the box, is left  *)
(* out: the box and sort games end with some score.                         *)
(***************************************************************************)
EXTENDS Integers, Sequences, FiniteSets

CONSTANTS Sessions,     \* bound: the sets of games that are played in one power-on
          MaxFinished,  \* bound: finished games of each kind
          Scores,       \* bound: scores that a box or sort game ends with
          NCards,       \* 11
          Questions, NoQuestion, True, Rounds,   \* the questions, the true ones, 10 of them
          Places,       \* MAX_OBSTACLES
          MaxScore,     \* 9999
          Height, FirstSpeed, SpeedUp,   \* max_screen_y - 1, 4 and 250
          SpawnFirst, SpawnLast, SpawnStep,   \* 3500, 1500 and 100 ms
          MoveTime, ScoreTime, PauseTime,     \* 200, 100 and 1500 ms
          Lag,          \* a move more than that after it is due is a late one
          MaxLate       \* bound: late moves of one runner game

ScoredGames == {"box", "sort", "runner"}
AllGames == ScoredGames \cup {"quiz", "blackjack"}

ASSUME GamesAssumption ==
  /\ Sessions \subseteq SUBSET AllGames /\ MaxFinished \in [ScoredGames -> Nat]
  /\ Scores \subseteq Nat /\ True \subseteq Questions /\ NoQuestion \notin Questions
  /\ Rounds <= Cardinality(Questions)
  /\ {Places, MaxScore, Height, FirstSpeed, SpeedUp, SpawnFirst, SpawnLast, SpawnStep,
      MoveTime, ScoreTime, PauseTime, Rounds, NCards} \subseteq Nat \ {0}
  /\ Lag \in Nat /\ MaxLate \in Nat
  /\ SpawnFirst \in {SpawnLast + n * SpawnStep : n \in 0 .. SpawnFirst}
  /\ MoveTime + Lag < SpawnFirst /\ ScoreTime <= SpawnFirst /\ PauseTime <= SpawnFirst

(* screen: the loop the program is in. action: the entry of its menu that is *)
(* marked. local: the variables of the game's function. files: the high     *)
(* scores that are stored, <<>> where there is no file or an empty one;     *)
(* table: those in the variables. done: the scores of all finished games.   *)
(* lost: the files, and "table", that a failed access of a file has left    *)
(* without some of the scores (observed only).                              *)
VARIABLES session, screen, action, local, files, table, done, lost
gamesVars == <<session, screen, action, local, files, table, done, lost>>
scoreVars == <<files, table, done, lost>>

None == [game |-> "none"]
NoScores == <<0, 0, 0>>
Stored(g) == IF files[g] = <<>> THEN NoScores ELSE files[g]

GamesInit ==
  /\ session \in Sessions
  /\ screen = "main" /\ action = 0 /\ local = None
  /\ files = [g \in ScoredGames |-> <<>>] /\ table = NoScores
  /\ done = [g \in ScoredGames |-> <<>>] /\ lost = {}

-----------------------------------------------------------------------------
(* Menus. A press of the button marks the next of n - 1 entries or none; an *)
(* entry that has been marked for 1500 ms is chosen: in some iteration      *)
(* without a press.                                                         *)
Mark(n, press) == action' = IF press THEN (action + 1) % n ELSE action
Chosen(press) == IF press THEN {0} ELSE {0, action}

Menu(s, n, press) ==
  /\ screen = s
  /\ Mark(n, press)
  /\ UNCHANGED <<session, screen, local, scoreVars>>

Leave(s) == screen' = s /\ local' = None /\ action' = 0

(* main(), Setting_menu() and the entry Return of Start_menu()              *)
MainMenu ==
  \/ \E press \in BOOLEAN : Menu("main", 3, press) \/ Menu("settings", 4, press)
                            \/ Menu("start", 7, press)
  \/ /\ screen = "main" /\ action > 0
     /\ Leave(IF action = 1 THEN "start" ELSE "settings")
     /\ UNCHANGED <<session, scoreVars>>
  \/ /\ \/ screen = "settings" /\ action > 0
        \/ screen = "start" /\ action = 6
     /\ Leave("main")
     /\ UNCHANGED <<session, scoreVars>>

-----------------------------------------------------------------------------
(* High scores.                                                             *)

(* What a game reads at its start. The buffer is not terminated: sscanf() may *)
(* take what is on the stack behind it for another digit of the third score. *)
Loads(g) ==
  LET file == files[g]
  IN IF file = <<>> THEN {NoScores} ELSE {file, <<file[1], file[2], 10 * file[3] + 7>>}

(* open() or read() may fail: the scores stay 0 over a file that has some.  *)
ReadFile(g) ==
  \/ /\ table' \in Loads(g)
     /\ lost' = IF g \in lost THEN lost \cup {"table"} ELSE lost \ {"table"}
  \/ /\ files[g] # <<>> /\ table' = NoScores
     /\ lost' = lost \cup {"table"}

(* Mutant of Inserted: the lower scores are not moved down.                 *)
InsertedOver(t, s) == IF s > t[1] THEN <<s, t[2], t[3]>>
                      ELSE IF s > t[2] THEN <<t[1], s, t[3]>>
                      ELSE IF s > t[3] THEN <<t[1], t[2], s>> ELSE t

Inserted(t, s) == IF s > t[1] THEN <<s, t[1], t[2]>>
                  ELSE IF s > t[2] THEN <<t[1], s, t[2]>>
                  ELSE IF s > t[3] THEN <<t[1], t[2], s>> ELSE t

(* _tee(): the file system keeps the old contents until the file is closed,  *)
(* and has the new ones from then on. fopen(), fwrite() or fclose() may     *)
(* fail, which no caller looks at: the file is as it was, or an empty one.  *)
Tee(g) ==
  \/ /\ files' = [files EXCEPT ![g] = table']
     /\ lost' = IF "table" \in lost THEN lost \cup {g} ELSE lost \ {g}
  \/ /\ files' \in {files, [files EXCEPT ![g] = <<>>]}
     /\ lost' = lost \cup {g}

(* Game over                                                                *)
Finish(g, s) ==
  /\ Len(done[g]) < MaxFinished[g]
  /\ table' = Inserted(table, s)
  /\ Tee(g)
  /\ done' = [done EXCEPT ![g] = Append(@, s)]

(* A reset at any time.                                                     *)
PowerLoss ==
  /\ screen # "main"
  /\ Leave("main") /\ table' = NoScores
  /\ UNCHANGED <<session, files, done, lost>>

-----------------------------------------------------------------------------
(* The box and sort games.                                                  *)
Play(g) ==
  /\ screen = g /\ g \in {"box", "sort"} /\ \E s \in Scores : Finish(g, s)
  /\ screen' = "over" /\ UNCHANGED <<session, action, local>>

-----------------------------------------------------------------------------
(* Blackjack. The eleven cards are there once, for both players.            *)
Deal == [game |-> "blackjack", player |-> {}, opp |-> {}, draw |-> TRUE, chose |-> TRUE]
Cards == 1 .. NCards
Sum(hand) == LET s[i \in 0 .. NCards] == IF i = 0 THEN 0
                                         ELSE s[i - 1] + (IF i \in hand THEN i ELSE 0)
             IN s[NCards]
Available(b) == Cards \ (b.player \cup b.opp)

(* Mutant of OppDraws: up to 21.                                            *)
OppDrawsTo21(b) == Sum(b.opp) < 22 /\ b.chose
OppDraws(b) == Sum(b.opp) < 17 /\ b.chose

(* Mutant of Settled: the opponent who has 17 is still to draw.             *)
SettledAbove17(b) == Sum(b.opp) > 21 \/ Sum(b.player) > 21 \/ (Sum(b.opp) > 17 /\ ~b.draw /\ b.chose)
Settled(b) == Sum(b.opp) > 21 \/ Sum(b.player) > 21 \/ (Sum(b.opp) >= 17 /\ ~b.draw /\ b.chose)

AfterOpp(b) == IF OppDraws(b) THEN {[b EXCEPT !.opp = @ \cup {c}] : c \in Available(b)} ELSE {b}
AfterPlayer(b) ==
  IF b.draw THEN {[b EXCEPT !.player = @ \cup {c}, !.draw = FALSE, !.chose = FALSE] : c \in Available(b)}
            ELSE {b}

Blackjack(press) ==
  /\ screen = "blackjack"
  /\ \/ /\ Settled(local)
        /\ screen' = "verdict" /\ local' = Deal /\ Mark(4, press)
     \/ /\ ~Settled(local)
        /\ \E b \in UNION {AfterPlayer(d) : d \in AfterOpp(local)} :
             \/ Mark(4, press) /\ local' = b /\ UNCHANGED screen
             \/ /\ Chosen(press) \cap {1, 2} # {}
                /\ local' = [b EXCEPT !.draw = (action = 2), !.chose = TRUE]
                /\ action' = 0 /\ UNCHANGED screen
             \/ 3 \in Chosen(press) /\ Leave("start")
  /\ UNCHANGED <<session, scoreVars>>

(* The end of the game; an entry 3 that was marked in the game does nothing. *)
Verdict ==
  \/ \E press \in BOOLEAN : Menu("verdict", 3, press)
  \/ /\ screen = "verdict" /\ action = 1
     /\ screen' = "blackjack" /\ action' = 0 /\ UNCHANGED <<session, local, scoreVars>>
  \/ /\ screen = "verdict" /\ action = 2
     /\ Leave("start") /\ UNCHANGED <<session, scoreVars>>

-----------------------------------------------------------------------------
(* True/false.                                                              *)
Quiz == [game |-> "quiz", used |-> {}, random |-> NoQuestion, drew |-> FALSE,
         counter |-> 0, score |-> 0, answers |-> 0]

(* Mutant of Unused: a question may come again.                             *)
UnusedAny(q) == Questions
Unused(q) == Questions \ q.used

Asked(q) == IF q.drew THEN {q}
            ELSE {[q EXCEPT !.used = @ \cup {x}, !.random = x, !.drew = TRUE, !.counter = @ + 1]
                    : x \in Unused(q)}

(* Answer 1 is "true" and 2 is "false".                                     *)
Right(q, answer) == (answer = 1) = (q.random \in True)
Answered(q, answer) == [q EXCEPT !.score = @ + (IF Right(q, answer) THEN 1 ELSE 0),
                                 !.answers = @ + 1, !.drew = FALSE]

TrueFalse(press) ==
  /\ screen = "quiz"
  /\ \/ /\ local.counter = Rounds
        /\ screen' = "quizend" /\ Mark(4, press) /\ UNCHANGED local
     \/ /\ local.counter # Rounds
        /\ \E q \in Asked(local) :
             \/ Mark(4, press) /\ local' = q /\ UNCHANGED screen
             \/ /\ Chosen(press) \cap {1, 2} # {}
                /\ local' = Answered(q, action)
                /\ action' = 0 /\ UNCHANGED screen
             \/ 3 \in Chosen(press) /\ Leave("start")
  /\ UNCHANGED <<session, scoreVars>>

QuizEnd ==
  \/ \E press \in BOOLEAN : Menu("quizend", 3, press)
  \/ /\ screen = "quizend" /\ action = 1
     /\ screen' = "quiz" /\ local' = Quiz /\ action' = 0 /\ UNCHANGED <<session, scoreVars>>
  \/ /\ screen = "quizend" /\ action = 2
     /\ Leave("start") /\ UNCHANGED <<session, scoreVars>>

-----------------------------------------------------------------------------
(* The endless runner. y[i] is y_start of an active obstacle, and -1 of a   *)
(* free place. overrun: an obstacle was written behind the last place.      *)
(* spawn, move and tally: the times since spawn_start, move_start and       *)
(* start_score. late (observed only): the moves that came more than Lag     *)
(* after they were due.                                                     *)
Run == [game |-> "runner", y |-> [i \in 1 .. Places |-> -1], overrun |-> FALSE,
        begin |-> TRUE, dead |-> FALSE, score |-> 0, speed |-> FirstSpeed,
        timer |-> SpawnFirst, spawn |-> 0, move |-> 0, tally |-> 0, late |-> 0]
Active(r) == {i \in 1 .. Places : r.y[i] >= 0}

(* Mutant of Spawned: begin_game is not reset.                              *)
SpawnedAlways(r) ==
  LET place == CHOOSE i \in 1 .. Places + 1 : i \notin Active(r) /\ 1 .. i - 1 \subseteq Active(r)
  IN IF ~r.begin /\ r.spawn < r.timer THEN r
     ELSE [r EXCEPT !.spawn = 0,
                    !.timer = IF @ > SpawnLast THEN @ - SpawnStep ELSE @,
                    !.y = [i \in DOMAIN @ |-> IF i = place THEN 0 ELSE @[i]],
                    !.overrun = @ \/ place > Places]

(* A new obstacle in the first free place; index <= MAX_OBSTACLES lets it be *)
(* written when there is none.                                              *)
Spawned(r) ==
  LET place == CHOOSE i \in 1 .. Places + 1 : i \notin Active(r) /\ 1 .. i - 1 \subseteq Active(r)
  IN IF ~r.begin /\ r.spawn < r.timer THEN r
     ELSE [r EXCEPT !.begin = FALSE, !.spawn = 0,
                    !.timer = IF @ > SpawnLast THEN @ - SpawnStep ELSE @,
                    !.y = [i \in DOMAIN @ |-> IF i = place THEN 0 ELSE @[i]],
                    !.overrun = @ \/ place > Places]

(* Moves in time are no further apart than that.                            *)
Pace == MoveTime + Lag

(* The obstacles move, once however long it has been due, and leave the     *)
(* screen; one of them may hit the player.                                  *)
Moved(r, hit) ==
  IF r.move < MoveTime THEN r
  ELSE [r EXCEPT !.move = 0, !.dead = hit /\ Active(r) # {},
                 !.late = IF r.move > Pace THEN @ + 1 ELSE @,
                 !.y = [i \in DOMAIN @ |-> IF @[i] < 0 \/ @[i] + r.speed >= Height THEN -1
                                           ELSE @[i] + r.speed]]

Scored(r) ==
  IF r.tally < ScoreTime THEN r
  ELSE IF r.score < MaxScore
       THEN [r EXCEPT !.tally = 0, !.score = @ + 1,
                      !.speed = IF (r.score + 1) % SpeedUp = 0 THEN @ + 1 ELSE @]
       ELSE [r EXCEPT !.tally = 0, !.dead = TRUE]

(* Time passes. What is due does not become due by more of it.              *)
AtMost(n, m) == IF n < m THEN n ELSE m
After(r, t) == [r EXCEPT !.spawn = AtMost(@ + t, r.timer), !.move = AtMost(@ + t, Pace + 1),
                         !.tally = AtMost(@ + t, ScoreTime)]
Delayed(r) == {After(r, t) : t \in 0 .. SpawnFirst}

(* An iteration reads the sensor and draws: any time may have passed before *)
(* each of the three checks. A button that is down leads to the pause, where *)
(* the same press may mark Resume.                                          *)
Runner(press) ==
  /\ screen = "runner" /\ ~local.dead
  /\ \E a \in Delayed(local) : \E b \in Delayed(Spawned(a)) :
       \E hit \in BOOLEAN : \E c \in Delayed(Moved(b, hit)) : local' = Scored(c)
  /\ local'.late <= MaxLate
  /\ IF press THEN screen' = "pause" /\ action' \in {0, 1}
              ELSE UNCHANGED <<screen, action>>
  /\ UNCHANGED <<session, scoreVars>>

(* An iteration in which lsm6dsxx_read_acc() fails does nothing, it does not *)
(* even look at the button, while the clock goes on.                        *)
SensorFails ==
  /\ screen = "runner" /\ ~local.dead
  /\ local' \in Delayed(local)
  /\ UNCHANGED <<session, screen, action, scoreVars>>

(* Resume or Quit unsaved, not before PauseTime is over.                    *)
Pause ==
  \/ \E press \in BOOLEAN : Menu("pause", 3, press)
  \/ /\ screen = "pause" /\ action = 1
     /\ \E t \in PauseTime .. SpawnFirst : local' = After(local, t)
     /\ screen' = "runner" /\ action' = 0
     /\ UNCHANGED <<session, scoreVars>>
  \/ /\ screen = "pause" /\ action = 2
     /\ Leave("start") /\ table' = NoScores
     /\ UNCHANGED <<session, files, done, lost>>

RunnerOver ==
  /\ screen = "runner" /\ local.dead
  /\ Finish("runner", local.score)
  /\ screen' = "over" /\ UNCHANGED <<session, action, local>>

-----------------------------------------------------------------------------
(* The Start menu's entries.                                                *)
Entry == <<"box", "sort", "runner", "quiz", "blackjack">>

StartGame ==
  /\ screen = "start" /\ action \in 1 .. 5
  /\ LET g == Entry[action]
     IN /\ g \in session
        /\ screen' = g
        /\ local' = CASE g = "blackjack" -> Deal [] g = "quiz" -> Quiz [] g = "runner" -> Run
                      [] OTHER -> [game |-> g]
        /\ IF g \in ScoredGames THEN ReadFile(g) ELSE UNCHANGED <<table, lost>>
  /\ action' = 0 /\ UNCHANGED <<session, files, done>>

(* The next game starts with a press; the table stays as it is.             *)
PlayAgain ==
  /\ screen = "over"
  /\ screen' = local.game
  /\ local' = IF local.game = "runner" THEN Run ELSE local
  /\ UNCHANGED <<session, action, scoreVars>>

(* Quit unsaved, from the pause of the box and sort games                   *)
QuitUnsaved ==
  /\ screen \in {"box", "sort"}
  /\ Leave("start") /\ table' = NoScores
  /\ UNCHANGED <<session, files, done, lost>>

Iterate == \E press \in BOOLEAN : Blackjack(press) \/ TrueFalse(press)

GamesNext ==
  \/ MainMenu \/ StartGame \/ PowerLoss \/ Iterate
  \/ \E g \in ScoredGames : Play(g)
  \/ Verdict \/ QuizEnd \/ RunnerOver \/ Pause \/ PlayAgain \/ QuitUnsaved \/ SensorFails
  \/ \E press \in BOOLEAN : Runner(press)

GamesSpec == GamesInit /\ [][GamesNext]_gamesVars

(* The loop of a game goes on.                                              *)
GamesFairSpec == GamesSpec /\ WF_gamesVars(Iterate)

-----------------------------------------------------------------------------
(* Properties                                                               *)

(* The hands fit into their arrays of six, and a card is there for everyone *)
(* who draws, in any order of draws. The exception: a player who has the six *)
(* lowest cards is not over 21, and his seventh card is written behind the  *)
(* array.                                                                   *)
HandsFit ==
  screen = "blackjack" =>
    /\ Cardinality(local.opp) <= 6
    /\ Cardinality(local.player) > 6 => 1 .. 6 \subseteq local.player /\ Settled(local)
    /\ Cardinality(local.player) <= 7
    /\ ~Settled(local) => Cardinality(Available(local)) >= 2

(* A player who stays, and does not draw or quit after all, comes to a      *)
(* result: the opponent draws as long as he may, and then it is settled.    *)
Stays == screen = "blackjack" /\ ~local.draw /\ local.chose
StayEnds == Stays ~> ~Stays

(* A game of true/false asks every question once, and only nine of the ten: *)
(* the last one is shown, and not waited for.                               *)
QuestionsOnce ==
  local.game = "quiz" =>
    /\ Cardinality(local.used) = local.counter /\ local.counter <= Rounds
    /\ local.score <= local.answers
    /\ local.answers = local.counter - (IF local.drew THEN 1 ELSE 0)
    /\ screen = "quizend" => local.answers = Rounds - 1

(* The places of the runner: obstacles cross the screen fast enough as long *)
(* as they move in time. A late move - after a pause, after reads of the    *)
(* sensor that failed, or in a slow iteration - lets in two obstacles more  *)
(* at most, one before it and one right after it, and only late moves fill  *)
(* the array and let an obstacle be written behind it.                      *)
Crossing == ((Height + FirstSpeed - 1) \div FirstSpeed) * Pace
PlacesSuffice ==
  local.game = "runner" =>
    /\ Cardinality(Active(local)) <= Crossing \div SpawnLast + 1 + 2 * local.late
    /\ local.overrun => Crossing \div SpawnLast + 1 + 2 * local.late > Places

(* The n-th best of the scores s, 0 if there are not so many.               *)
Nth(s, n) == IF Len(s) < n THEN 0
             ELSE CHOOSE v \in {s[i] : i \in DOMAIN s} :
                    /\ Cardinality({i \in DOMAIN s : s[i] > v}) < n
                    /\ Cardinality({i \in DOMAIN s : s[i] >= v}) >= n

(* What is stored are the best scores of all finished games, whatever was   *)
(* played, quit and reset in between; but the third may be too high. This   *)
(* holds as long as no access of the file fails: a read that fails costs the *)
(* old scores when the next game ends, and a write that fails the new ones, *)
(* and perhaps the old, until the next write from the same variables. Even  *)
(* then the two best are never better than what was played.                 *)
ScoresKept ==
  \A g \in ScoredGames :
    LET file == Stored(g)
    IN /\ file[1] <= Nth(done[g], 1) /\ file[2] <= Nth(done[g], 2)
       /\ g \notin lost => /\ file[1] = Nth(done[g], 1) /\ file[2] = Nth(done[g], 2)
                          /\ file[3] >= Nth(done[g], 3)
=============================================================================
