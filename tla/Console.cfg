SPECIFICATION ConsoleSpec
CONSTANTS
  RX_SIZE = 2
  Bytes = {a, b}
  NoByte = NoByte
  PLIC_MAX_SOURCE = 2
  WORD = 2
  Contexts = {1}
  PriorityValues = {1}
  UART_IRQ = 1
  S = 1
  MAX_INPUT = 4
  MAX_OUTPUT = 2
INVARIANTS
  UartTypeOK
  SignalsHaveData
PROPERTIES
  ImplementsQueue
  SignalsHandedOn
  SignalledInputDrained
  OutputSent
