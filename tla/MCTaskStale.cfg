CONSTANTS
  u1 = u1
  u2 = u2
  u3 = u3
  u4 = u4
  u5 = u5
  task1 = task1
  task2 = task2
  crew = crew
  review = review
  main = main
  part1 = part1
  part2 = part2
  reviewer = reviewer
  Unit = {u1, u2, u3, u4, u5}
  Mission = {task1, task2, crew, review}
  NoMission = NoMission
  Team = {crew, review}
  Review = {review}
  missionOf <- OfAll
  nodeOf <- Names
  Interactive = FALSE
  MaxCommand = 3
  MaxCrash = 0
  MaxLapse = 1
  MaxRound = 1
SPECIFICATION Spec
PROPERTY
  StaleResultsPowerless
CHECK_DEADLOCK FALSE
