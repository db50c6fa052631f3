SPECIFICATION BatchSpec
CONSTANTS
  MAX_FLIGHTS = 3
  MAX_HOLDING_SLOTS = 3
  MAX_TAXI_SLOTS = 3
  FUEL_BURN_RATE = 1
  FUEL_EMERGENCY = 60
  FUEL_CRITICAL = 20
  RUNWAY_LANDING_T = 40
  RUNWAY_TAKEOFF_T = 30
  TAXI_DURATION = 60
  GATE_TURNAROUND = 160
  TAKEOFF_PREP = 50
  HOLD_RECHECK = 20
  EMERGENCY_RECHECK = 10
  GO_AROUND_RECHECK = 16
  TAXI_RETRY = 20
  TAKEOFF_RETRY = 16
  LOW_DELAY = 100
  num_runways = 1
  num_gates = 1
  horizon = 200
  SpawnFuel = {100, 160}
  Wakes = {"M"}
  ArrivalGaps = {10, 90}
  WeatherGaps = {120}
  WeatherDraws = {"WX_CLEAR", "WX_STORM"}
  FrameTicks = {}
  MaxPending = 0
INVARIANTS
  LowFuelDeclared
