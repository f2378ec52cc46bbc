---------------------------- MODULE GpsSimulator ----------------------------
(***************************************************************************)
(* STM32GpsSimulator: the firmware that answers I2C reads with the GPS     *)
(* coordinate of the moment, and the part of the STM32 HAL it drives.      *)
(* Everything after main() happens in interrupts.  The interrupts of TIM10 *)
(* and of I2C1 have the same priority, so a handler is never interrupted   *)
(* by another one: one handler is one action, and the order of the         *)
(* handlers is free.                                                       *)
(*                                                                         *)
(* The master at the other end is the Linux driver below BbgClient's       *)
(* read(): it addresses the simulator, takes the packet, refuses more      *)
(* (NACK) and ends with STOP, or gives up with STOP at any time.  It never *)
(* writes.  A coordinate has two halves, latitude and longitude, both      *)
(* named by the index of their table entry; a packet is a pair of halves.  *)
(***************************************************************************)
EXTENDS Integers, Sequences

CONSTANT GPS_COORDINATES_COUNT

ASSUME CoordinatesAssumption == GPS_COORDINATES_COUNT \in Nat \ {0}

VARIABLES current_coordinate, \* index in gps_coordinates
          i2c_tx_packet,      \* the packet that is transmitted
          hi2c,               \* the HAL handle
          flags,              \* flags of the I2C peripheral that are up
          txdr,               \* its transmit register: empty or one half
          master,             \* idle, reading, nack, ok, failed
          got                 \* halves the master has received

gps == <<current_coordinate, i2c_tx_packet, hi2c, flags, txdr, master, got>>

gps_coordinates == [i \in 0 .. GPS_COORDINATES_COUNT - 1 |-> <<i, i>>]

ZeroPacket == <<-1, -1>>   \* static storage before the first read

Interrupts == {"LISTEN", "TX"}   \* groups of I2C_Enable_IRQ / I2C_Disable_IRQ

-----------------------------------------------------------------------------
(* The HAL.  Operators on the handle, one for each function.               *)

\* HAL_I2C_STATE_LISTEN is a bit of the state.
Listening(h) == h.State \in {"LISTEN", "BUSY_TX_LISTEN"}

HAL_I2C_EnableListen_IT(h) ==
  [h EXCEPT !.State = "LISTEN", !.XferISR = TRUE, !.irq = @ \cup {"LISTEN"}]

\* Mutant: listening is not enabled again.
ListenCpltNothing(h) == h

\* The firmware's callback.  Error_Handler() disables interrupts for ever.
HAL_I2C_ListenCpltCallback(h) ==
  IF h.State = "READY" THEN HAL_I2C_EnableListen_IT(h)
  ELSE [h EXCEPT !.State = "ERROR_HANDLER", !.irq = {}]

I2C_ITListenCplt(h) ==
  HAL_I2C_ListenCpltCallback(
    [h EXCEPT !.State = "READY", !.XferOptions = "NO_OPTION",
              !.XferISR = FALSE, !.irq = {}])

I2C_ITSlaveSeqCplt(h) ==
  IF h.State = "BUSY_TX_LISTEN"
  THEN [h EXCEPT !.State = "LISTEN", !.irq = @ \ {"TX"}]
  ELSE h

\* Keeps listening; without the LISTEN bit the handle becomes READY.
I2C_ITError(h) ==
  IF Listening(h)
  THEN [h EXCEPT !.State = "LISTEN", !.XferISR = TRUE, !.irq = @ \ {"TX"},
                 !.XferOptions = "NO_OPTION", !.XferCount = 0, !.Error = TRUE]
  ELSE [h EXCEPT !.State = "READY", !.XferISR = FALSE, !.irq = {},
                 !.XferOptions = "NO_OPTION", !.XferCount = 0, !.Error = TRUE]

\* NACK of the master: the regular end of the data, or data is left over.
\* I2C_LAST_FRAME and I2C_FIRST_AND_LAST_FRAME are the same value.
Nacked(h) ==
  CASE h.XferCount # 0 -> [h EXCEPT !.Error = TRUE]
    [] h.XferCount = 0 /\ h.XferOptions = "LAST_FRAME" ->
         IF h.State = "LISTEN" THEN I2C_ITListenCplt(h)
         ELSE I2C_ITSlaveSeqCplt(h)
    [] OTHER -> h

\* STOP, with the NACK of the last byte (nack) or after it was handled: a
\* transfer with data left or with an error, a complete one, or none at all.
I2C_ITSlaveCplt(h0, nack) ==
  LET h1 == [h0 EXCEPT !.irq = {}, !.Error = @ \/ h0.XferCount # 0]
      h2 == IF nack THEN Nacked(h1) ELSE h1
      h3 == [h2 EXCEPT !.XferISR = FALSE]
      h4 == I2C_ITError(h3)
  IN IF h3.Error
     THEN IF h4.State = "LISTEN" THEN I2C_ITListenCplt(h4) ELSE h4
     ELSE IF h3.XferOptions # "NO_OPTION"
     THEN HAL_I2C_ListenCpltCallback(
            [I2C_ITSlaveSeqCplt(h3) EXCEPT !.State = "READY",
                                           !.XferOptions = "NO_OPTION"])
     ELSE [h3 EXCEPT !.State = "READY"]

HAL_I2C_Slave_Seq_Transmit_IT(h, size) ==
  IF Listening(h)
  THEN [h EXCEPT !.State = "BUSY_TX_LISTEN", !.Error = FALSE,
                 !.XferCount = size, !.XferOptions = "LAST_FRAME",
                 !.XferISR = TRUE, !.irq = Interrupts]
  ELSE h

-----------------------------------------------------------------------------
GpsInit ==
  /\ current_coordinate = 0
  /\ i2c_tx_packet = ZeroPacket
  /\ hi2c = [State |-> "RESET", XferCount |-> 0, XferOptions |-> "NO_OPTION",
             XferISR |-> FALSE, Error |-> FALSE, irq |-> {}]
  /\ flags = {} /\ txdr = <<>>
  /\ master = "idle" /\ got = <<>>

\* main(): initialisation, the timer, listen mode.
Boot ==
  /\ hi2c.State = "RESET"
  /\ hi2c' = HAL_I2C_EnableListen_IT([hi2c EXCEPT !.State = "READY"])
  /\ UNCHANGED <<current_coordinate, i2c_tx_packet, flags, txdr, master, got>>

\* Mutant: the timer refreshes the packet, too.
TickRefreshesPacket ==
  /\ hi2c.State \notin {"RESET", "ERROR_HANDLER"}
  /\ current_coordinate' = (current_coordinate + 1) % GPS_COORDINATES_COUNT
  /\ i2c_tx_packet' = gps_coordinates[current_coordinate']
  /\ UNCHANGED <<hi2c, flags, txdr, master, got>>

HAL_TIM_PeriodElapsedCallback ==
  /\ hi2c.State \notin {"RESET", "ERROR_HANDLER"}
  /\ current_coordinate' =
       IF current_coordinate + 1 >= GPS_COORDINATES_COUNT THEN 0
       ELSE current_coordinate + 1
  /\ UNCHANGED <<i2c_tx_packet, hi2c, flags, txdr, master, got>>

(* I2C_Slave_ISR_IT: STOP before NACK before an address before data.       *)

Stopped ==
  /\ hi2c.XferISR /\ "STOPF" \in flags /\ "LISTEN" \in hi2c.irq
  /\ hi2c' = I2C_ITSlaveCplt(hi2c, "AF" \in flags)
  /\ flags' = flags \ {"STOPF", "AF", "TXIS"}
  /\ txdr' = <<>>
  /\ UNCHANGED <<current_coordinate, i2c_tx_packet, master, got>>

NotAcknowledged ==
  /\ hi2c.XferISR /\ "LISTEN" \in hi2c.irq
  /\ "AF" \in flags /\ "STOPF" \notin flags
  /\ hi2c' = Nacked(hi2c)
  /\ flags' = flags \ {"AF"}
  /\ txdr' = IF hi2c.XferCount = 0 THEN <<>> ELSE txdr
  /\ UNCHANGED <<current_coordinate, i2c_tx_packet, master, got>>

\* I2C_ITAddrCplt and the firmware's HAL_I2C_AddrCallback, which copies the
\* coordinate.  Clearing ADDR lets the transfer begin.
HAL_I2C_AddrCallback ==
  /\ hi2c.XferISR /\ "LISTEN" \in hi2c.irq
  /\ "ADDR" \in flags /\ flags \cap {"STOPF", "AF"} = {}
  /\ i2c_tx_packet' = gps_coordinates[current_coordinate]
  /\ hi2c' = HAL_I2C_Slave_Seq_Transmit_IT([hi2c EXCEPT !.irq = {"TX"} \cap @],
                                           Len(i2c_tx_packet'))
  /\ flags' = (flags \ {"ADDR"}) \cup {"TXIS"}
  /\ UNCHANGED <<current_coordinate, txdr, master, got>>

\* The next half of the buffer goes into the transmit register.
Transmit ==
  /\ hi2c.XferISR /\ "TX" \in hi2c.irq
  /\ "TXIS" \in flags /\ flags \cap {"STOPF", "AF", "ADDR"} = {}
  /\ hi2c.XferCount > 0
  /\ txdr' = <<i2c_tx_packet[Len(i2c_tx_packet) - hi2c.XferCount + 1]>>
  /\ hi2c' = [hi2c EXCEPT !.XferCount = @ - 1]
  /\ flags' = flags \ {"TXIS"}
  /\ UNCHANGED <<current_coordinate, i2c_tx_packet, master, got>>

\* BERR, ARLO and OVR.
HAL_I2C_ER_IRQHandler ==
  /\ "BERR" \in flags /\ "LISTEN" \in hi2c.irq
  /\ hi2c' = I2C_ITError(hi2c)
  /\ flags' = flags \ {"BERR"}
  /\ UNCHANGED <<current_coordinate, i2c_tx_packet, txdr, master, got>>

EventInterrupt == Stopped \/ NotAcknowledged \/ HAL_I2C_AddrCallback \/ Transmit

-----------------------------------------------------------------------------
(* The bus and its master.                                                 *)

\* The master sends the address; nobody acknowledges it when the simulator is
\* not up or off the bus.
StartRead ==
  /\ master = "idle"
  /\ got' = <<>>
  /\ \/ /\ Listening(hi2c)
        /\ master' = "reading" /\ flags' = flags \cup {"ADDR"}
     \/ /\ master' = "failed" /\ UNCHANGED flags
  /\ UNCHANGED <<current_coordinate, i2c_tx_packet, hi2c, txdr>>

\* The master takes what is in the transmit register; after the last half it
\* sends NACK, before that the peripheral asks for more.
TakeHalf ==
  /\ master = "reading" /\ txdr # <<>> /\ "ADDR" \notin flags
  /\ got' = got \o txdr /\ txdr' = <<>>
  /\ \/ /\ Len(got') = 2
        /\ master' = "nack" /\ flags' = flags \cup {"AF"}
     \/ /\ Len(got') < 2
        /\ flags' = flags \cup {"TXIS"} /\ UNCHANGED master
  /\ UNCHANGED <<current_coordinate, i2c_tx_packet, hi2c>>

SendStop ==
  /\ master = "nack"
  /\ master' = "ok" /\ flags' = flags \cup {"STOPF"}
  /\ UNCHANGED <<current_coordinate, i2c_tx_packet, hi2c, txdr, got>>

\* The peripheral holds the clock until an address or an empty transmit
\* register is served; no STOP can be sent meanwhile.
ClockHeld == "ADDR" \in flags \/ ("TXIS" \in flags /\ "TX" \in hi2c.irq)

\* The master loses arbitration or its patience.
GiveUp ==
  /\ master = "reading" /\ ~ClockHeld
  /\ master' = "failed" /\ flags' = flags \cup {"STOPF"}
  /\ UNCHANGED <<current_coordinate, i2c_tx_packet, hi2c, txdr, got>>

\* A misplaced START or STOP on the wire.
BusError ==
  /\ master = "reading"
  /\ flags' = flags \cup {"BERR"}
  /\ UNCHANGED <<current_coordinate, i2c_tx_packet, hi2c, txdr, master, got>>

Firmware ==
  \/ Boot \/ HAL_TIM_PeriodElapsedCallback
  \/ EventInterrupt \/ HAL_I2C_ER_IRQHandler

Bus == TakeHalf \/ SendStop \/ GiveUp \/ BusError

-----------------------------------------------------------------------------
GpsTypeOK ==
  /\ current_coordinate \in DOMAIN gps_coordinates
  /\ \/ i2c_tx_packet = ZeroPacket
     \/ \E i \in DOMAIN gps_coordinates : i2c_tx_packet = gps_coordinates[i]
  /\ hi2c.State \in {"RESET", "READY", "LISTEN", "BUSY_TX_LISTEN",
                     "ERROR_HANDLER"}
  /\ hi2c.XferCount \in 0 .. 2
  /\ hi2c.XferOptions \in {"NO_OPTION", "LAST_FRAME"}
  /\ hi2c.irq \subseteq Interrupts
  /\ flags \subseteq {"STOPF", "AF", "ADDR", "TXIS", "BERR"}
  /\ master \in {"idle", "reading", "nack", "ok", "failed"}
  /\ Len(got) <= 2 /\ Len(txdr) <= 1

\* The simulator is never deaf: however transfers end (complete, cut short,
\* with a bus error before or after the STOP, with NACK and STOP in one
\* interrupt or in two), the HAL comes back to a state from which the next
\* address is answered, and Error_Handler() is not reached.
SimulatorListens ==
  hi2c.State # "RESET" =>
    Listening(hi2c) /\ hi2c.XferISR /\ "LISTEN" \in hi2c.irq

=============================================================================
