SPECIFICATION TailSpec
CONSTANTS
  MaxEvents = 3
  MaxRotations = 2
INVARIANTS TailTypeOK OnceInOrder
PROPERTIES WrittenIsIngested
