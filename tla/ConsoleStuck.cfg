SPECIFICATION ConsoleSpec
CONSTANTS
  RX_SIZE = 2
  Bytes = {a}
  NoByte = NoByte
  PLIC_MAX_SOURCE = 2
  WORD = 2
  Contexts = {1}
  PriorityValues = {1}
  UART_IRQ = 1
  S = 1
  MAX_INPUT = 1
  MAX_OUTPUT = 0
PROPERTIES
  AvailableInputDrained
