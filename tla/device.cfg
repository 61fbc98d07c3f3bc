SPECIFICATION DeviceFairSpec
CONSTANTS
  t1 = t1
  t2 = t2
  t3 = t3
  Timers = {t1, t2, t3}
  NoTimer = NoTimer
  ClockWord = 16
  MaxValue = 3
  MaxOffset = 2
  Latency = 2
  q1 = q1
  q2 = q2
  q3 = q3
  q4 = q4
  q5 = q5
  NoQuestion = NoQuestion
  Sessions <- OneGameEach
  MaxFinished <- FourFinished
  Scores = {0, 1, 2}
  NCards = 11
  Questions = {q1, q2, q3, q4, q5}
  True = {q1, q3}
  Rounds = 4
  Places = 3
  MaxScore = 4
  Height = 4
  FirstSpeed = 1
  SpeedUp = 3
  SpawnFirst = 5
  SpawnLast = 3
  SpawnStep = 2
  MoveTime = 1
  ScoreTime = 1
  PauseTime = 3
  Lag = 1
  MaxLate = 1
INVARIANTS
  ChainExact TimeExtended
  HandsFit QuestionsOnce PlacesSuffice ScoresKept
PROPERTIES AlarmClockSpec StayEnds
