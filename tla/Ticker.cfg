SPECIFICATION NarrationSpec
CONSTANTS
  MAX_FLIGHTS = 2
  MAX_HOLDING_SLOTS = 1
  MAX_TAXI_SLOTS = 2
  FUEL_BURN_RATE = 1
  FUEL_EMERGENCY = 60
  FUEL_CRITICAL = 20
  RUNWAY_LANDING_T = 40
  RUNWAY_TAKEOFF_T = 30
  TAXI_DURATION = 25
  GATE_TURNAROUND = 40
  TAKEOFF_PREP = 25
  HOLD_RECHECK = 20
  EMERGENCY_RECHECK = 10
  GO_AROUND_RECHECK = 16
  TAXI_RETRY = 20
  TAKEOFF_RETRY = 16
  LOW_DELAY = 100
  num_runways = 1
  num_gates = 1
  horizon = 60
  SpawnFuel = {75}
  Wakes = {"M"}
  ArrivalGaps = {10}
  WeatherGaps = {25}
  WeatherDraws = {"WX_CLEAR", "WX_STORM"}
  FrameTicks = {30}
  MaxPending = 5
  SIM_LOG_CAP = 3
INVARIANTS
  LinesMatchCounters
  RedTogether
PROPERTIES
  LastWords
  ShowsLatest
