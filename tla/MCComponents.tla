---------------------------- MODULE MCComponents ----------------------------
(***************************************************************************)
(* Small instances for TLC of the components that do not interact but      *)
(* through the request engine: a behaviour is one of one of them, "part",  *)
(* with its host, board and wire.  Each invariant joins those of one kind  *)
(* of promise; the modules name the code, and what each leaves open.       *)
(***************************************************************************)
EXTENDS HostLinks, BoardModules, Peripherals

SensorKinds == {"ads1115", "mcp3208", "mcp3202", "mpu6050", "ds18b20", "raw", "trim", "bh1750",
                "clock", "degrees", "dht", "echo", "nec"}
TransferKinds == {"panel", "camera", "mic", "speaker", "tcp", "spi", "stepper"}

\* What the three radios are told.
Modem == INSTANCE LoraModem WITH Threads <- {1, 2}, Kinds <- LoraKinds, Calls <- 2, Faults <- 1

\* A search among three sensors, while another thread reads one.
OneWire == INSTANCE OneWireBus WITH Threads <- {1, 2}, Searchers <- {1}, Bits <- 2,
                                  Roms <- {<<0, 0>>, <<0, 1>>, <<1, 0>>}, Faults <- 1

\* Thirteen readings, at the ends of their numbers.
Sensor == INSTANCE SensorReadings WITH Kinds <- SensorKinds,
                                       Trim <- {-2048, -16, -1, 0, 1, 15, 16, 2047}

\* Both directions, by two threads.
Motor == INSTANCE MotorDriver WITH Threads <- {1, 2}, Speeds <- {-2, 1}, Faults <- 1

\* Two pins, two rates, two threads.
Chips == INSTANCE ExpanderChips WITH Threads <- {1, 2}, Pins <- {0, 1}, Rates <- {10, 50},
                                   Pulses <- {2500}, Faults <- 1

\* Two threads, as many files as the board has descriptors, two faults.
Files == INSTANCE FileStore WITH Threads <- {1, 2}, Chunks <- 2, Fds <- 2, Faults <- 2

\* Every frame of up to three bytes, read in any pieces, one byte spoilt.
Cobs == INSTANCE CobsCodec WITH Full <- 3, Length <- 3, Piece <- 4, Faults <- 1

\* One pin under each of the pin interfaces.
Pins == INSTANCE PinFacades WITH Kinds <- {"pwm", "rpi", "gpiozero", "blinka"}, Calls <- 3, Faults <- 1

\* Calls of several requests, each kind, one loss.
Chunks == INSTANCE ChunkedTransfers WITH Threads <- {1, 2}, Painters <- {1}, Kinds <- TransferKinds,
                                       Calls <- 2, Faults <- 1

Init ==
  \/ HostInit \/ BoardInit \/ PeripheralInit
  \/ part = "modem" /\ Modem!Init
  \/ part = "onewire" /\ OneWire!Init
  \/ part = "sensor" /\ Sensor!Init
  \/ part = "motor" /\ Motor!Init
  \/ part = "chips" /\ Chips!Init
  \/ part = "files" /\ Files!Init
  \/ part = "cobs" /\ Cobs!Init
  \/ part = "pins" /\ Pins!Init
  \/ part = "chunks" /\ Chunks!Init

\* A step of a component that is in no family.
OtherNext ==
  \/ part = "modem" /\ Modem!Next
  \/ part = "onewire" /\ OneWire!Next
  \/ part = "sensor" /\ Sensor!Next
  \/ part = "motor" /\ Motor!Next
  \/ part = "chips" /\ Chips!Next
  \/ part = "files" /\ Files!Next
  \/ part = "cobs" /\ Cobs!Next
  \/ part = "pins" /\ Pins!Next
  \/ part = "chunks" /\ Chunks!Next

Next ==
  \/ HostNext \/ BoardNext \/ PeripheralNext
  \/ UNCHANGED part /\ OtherNext

Spec == Init /\ [][Next]_Parted

-----------------------------------------------------------------------------

(***************************************************************************)
(* The variables of each component have their types.                       *)
(***************************************************************************)
TypesOK ==
  /\ part = "baud" => Baud!TypeOK
  /\ part = "search" => Search!TypeOK
  /\ part = "tasks" => Rtos!TypeOK
  /\ part = "radio" => Radio!TypeOK
  /\ part = "watch" => Watch!TypeOK
  /\ part = "set" => Set!TypeOK
  /\ part = "lora" => Lora!TypeOK
  /\ part = "modem" => Modem!TypeOK
  /\ part = "nrf24" => Nrf24!TypeOK
  /\ part = "onewire" => OneWire!TypeOK
  /\ part = "sensor" => Sensor!TypeOK
  /\ part = "motor" => Motor!TypeOK
  /\ part = "chips" => Chips!TypeOK
  /\ part = "espnow" => EspNow!TypeOK
  /\ part = "inbox" => Inbox!TypeOK
  /\ part = "files" => Files!TypeOK
  /\ part = "cobs" => Cobs!TypeOK
  /\ part = "pipe" => Pipe!TypeOK
  /\ part = "async" => Async!TypeOK
  /\ part = "pins" => Pins!TypeOK
  /\ part = "ble" => Ble!TypeOK
  /\ part = "chunks" => Chunks!TypeOK
  /\ part = "mcp" => Mcp!TypeOK

(***************************************************************************)
(* What goes into a wire comes out: a search finds each device on the bus  *)
(* once, a sensor's reading is its own and measured after it was asked     *)
(* for, the number that is returned is the one the chip had (but for two   *)
(* trimming parameters of a BME280, which lose their sign), encoding and   *)
(* decoding are inverses, and a spoilt byte costs at most two frames.      *)
(***************************************************************************)
BusIsRight ==
  /\ part = "onewire" => OneWire!SearchFindsAll /\ OneWire!OwnReading
  /\ part = "sensor" => Sensor!ReadsWhatItAsked
  /\ part = "cobs" => Cobs!RoundTrip /\ Cobs!FramesSurvive

(***************************************************************************)
(* Between calls an output is what the last call asked for, as far as no   *)
(* fault was reported: motor, port, pulse, pin, and the carrier, power and *)
(* modulation of a radio. A motor gets no drive in between that nobody     *)
(* asked for.                                                              *)
(***************************************************************************)
OutputsAsAsked ==
  /\ part = "motor" => Motor!DoesWhatWasAsked /\ Motor!NoKick
  /\ part = "chips" => Chips!PortAsAsked /\ Chips!PulseAsAsked
  /\ part = "pins" => Pins!PinIsAsPictured
  /\ part = "modem" => Modem!ChipAsAsked

(***************************************************************************)
(* Data that takes several requests: a file read or written is whole and   *)
(* its own, a descriptor is closed whatever happens to its file, and a     *)
(* picture, a recording, a stream or a move that returned has all its      *)
(* pieces once.                                                            *)
(***************************************************************************)
FilesAreOwn ==
  /\ part = "files" => Files!OwnAndWhole /\ Files!NoDescriptorLost
  /\ part = "chunks" => Chunks!TransfersAreWhole
=============================================================================
