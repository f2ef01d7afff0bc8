CONSTANTS
  EXP32 = 5
  MANT32 = 2
  EXP64 = 6
  MANT64 = 7
  BYTE = 1
  Last = 255
  IntSizes = {6, 8, 12}
  Floats2 <- MCFloats2
  Floats3 <- MCFloats3
  Operands <- MCOperands
  HashLengths = {0, 56, 64, 135, 136}
SPECIFICATION Spec
PROPERTIES FloatsCorrect InstructionsCorrect PrivilegeRespected HashesCorrect HashesCollected CallsTransmitted
CHECK_DEADLOCK FALSE
