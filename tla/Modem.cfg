\* A fifo whose size divides the machine word, as the 4096 bytes of s_lora_fifo
\* do; a lora network of a node that stays and one that may fall silent, both at
\* seats that are Sure; and a node and a session in which AT mode is entered three
\* times, with up to two commands and late answers.
SPECIFICATION ModemSpec
CONSTANTS
  Producers = {p1}
  Consumers = {c1}
  Size = 4
  Word = 8
  MaxChunk = 3
  MaxBytes = 9
  LNodes = {1, 2}
  Good = {2}
  LearnStep = 3
  HrtAfter = 5
  PassMax = 2
  StdLen = 5
  MaxCmds = 1
  MaxOwed = 0
  MaxSessions = 0
  AtStep = 2
  AtHrtAfter = 3
  AtCmds = 2
  AtOwed = 2
  AtSessions = 1
INVARIANTS Conserved Intact NoLostWakeup MutexReleased LoraAnswers
PROPERTIES LoraDrops LoraNodesOnline
