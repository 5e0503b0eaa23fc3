CONSTANTS
  Accels = {a1, a2}
  CollectMax = 3
  Ratio = 3
SPECIFICATION SensorsSpec
INVARIANTS SensorsTypeOK BaroHeals CalIsOfRest
PROPERTY RestCalibrates
