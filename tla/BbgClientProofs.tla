--------------------------- MODULE BbgClientProofs ---------------------------
(***************************************************************************)
(* The two processes of BbgClient and the GPS simulator: the simulator is  *)
(* never deaf, a request carries one whole coordinate, no request is lost, *)
(* doubled or overtaken between the processes, and the event table starts  *)
(* and ends every vehicle in turn.  For every number of coordinates, size  *)
(* of the pipe and number of request ids.                                  *)
(***************************************************************************)
EXTENDS BbgClient, SequenceTheorems, FiniteSetTheorems, NaturalsInduction,
        WellFoundedInduction, TLAPS

-----------------------------------------------------------------------------
(* The inductive invariant: the simulator and its bus.                     *)

Handle ==
  [State : {"RESET", "READY", "LISTEN", "BUSY_TX_LISTEN", "ERROR_HANDLER"},
   XferCount : 0 .. 2, XferOptions : {"NO_OPTION", "LAST_FRAME"},
   XferISR : BOOLEAN, Error : BOOLEAN, irq : SUBSET Interrupts]

\* The handle is ready for the next address.
Awake(h) == Listening(h) /\ h.XferISR /\ "LISTEN" \in h.irq

\* The address was served, and the master has not ended the transfer.
Serving == master = "reading" /\ "ADDR" \notin flags

\* The packet is a table entry, which both of its halves name.
Packed == \E i \in DOMAIN gps_coordinates : i2c_tx_packet = gps_coordinates[i]
Half == i2c_tx_packet[1]

GpsTyped ==
  /\ current_coordinate \in DOMAIN gps_coordinates
  /\ i2c_tx_packet = ZeroPacket \/ Packed
  /\ hi2c \in Handle
  /\ flags \in SUBSET {"STOPF", "AF", "ADDR", "TXIS", "BERR"}
  /\ master \in {"idle", "reading", "nack", "ok", "failed"}
  /\ txdr \in {<<>>, <<Half>>}
  /\ got \in {<<>>, <<Half>>, <<Half, Half>>}

\* An address or a STOP is on the bus only where a transfer begins or ends.
FlagsInOrder ==
  /\ "ADDR" \in flags => master = "reading"
  /\ Serving => flags \cap {"STOPF", "AF"} = {}
  /\ master = "nack" => "STOPF" \notin flags
  /\ "AF" \in flags => master = "nack" \/ "STOPF" \in flags
  /\ hi2c.State = "RESET" => flags = {} /\ master \in {"idle", "failed"}

\* A STOP always finds a transfer to complete or an error to recover from, and
\* a NACK finds the transfer that it ends.
Recoverable ==
  /\ hi2c.State # "RESET" => Awake(hi2c)
  /\ Serving \/ master = "nack" \/ "STOPF" \in flags =>
       hi2c.Error \/ hi2c.XferOptions = "LAST_FRAME"
  /\ (Serving \/ "AF" \in flags) /\ hi2c.XferOptions = "LAST_FRAME" =>
       hi2c.State = "BUSY_TX_LISTEN"

\* What the master has received is of the packet of this transfer; what an
\* earlier one left in the transmit register is flushed before it.
Received ==
  /\ Serving \/ master \in {"nack", "ok"} => Packed
  /\ "ADDR" \in flags => got = <<>>
  /\ master = "reading" => got \in {<<>>, <<Half>>}
  /\ master \in {"nack", "ok"} => got = <<Half, Half>>
  /\ Serving => ~("TXIS" \in flags /\ txdr # <<>>)
  /\ ~Serving /\ ("TXIS" \in flags \/ txdr # <<>>) => "STOPF" \in flags

GpsInv == GpsTyped /\ FlagsInOrder /\ Recoverable /\ Received

-----------------------------------------------------------------------------
(* The inductive invariant: the processes and the pipe.                    *)

Id == 0 .. IdSpace - 1
Request == [id : Id, event : {test_events[i] : i \in 1 .. TEST_EVENTS_COUNT}]
OneOrNone == {<<>>} \cup {<<r>> : r \in Request}

Processes ==
  /\ supervised \in BOOLEAN
  /\ main \in {"config", "pipe", "fork", "close_write", "logger", "read",
               "connect", "send", "recv", "gone"}
  /\ child \in {"off", "close_read", "open", "generate", "read", "write",
                "sleep", "stop", "gone"}
  /\ status \in {"none", "zero", "failed"}
  /\ readers \in SUBSET {"main", "child"} /\ writers \in SUBSET {"main", "child"}
  /\ current_event \in 0 .. TEST_EVENTS_COUNT - 1
  /\ request_id \in Id
  /\ pipe \in Seq(Request) /\ Len(pipe) <= PipeCapacity
  /\ request \in OneOrNone /\ message \in OneOrNone

\* Each process has a request in hand exactly where it should, and end of file
\* means that the I2C process is gone.
InHand ==
  /\ status = "none" <=> main # "gone"
  /\ request # <<>> <=> main \in {"connect", "send", "recv"}
  /\ message # <<>> <=> child \in {"read", "write"}
  /\ main \in {"config", "pipe", "fork"} => child = "off"
  /\ main \in {"close_write", "logger", "read", "connect", "send", "recv"} =>
       child # "off"
  /\ child \notin {"off", "gone"} => "child" \in writers
  /\ status = "zero" => pipe = <<>> /\ child = "gone"

Succ(id) == (id + 1) % IdSpace

\* The id that follows what is in the pipe.
NextId == IF message # <<>> THEN message[1].id ELSE request_id

\* The ids on the way are consecutive.
Consecutive ==
  /\ \A i \in 1 .. Len(pipe) - 1 : pipe[i + 1].id = Succ(pipe[i].id)
  /\ request # <<>> /\ pipe # <<>> => pipe[1].id = Succ(request[1].id)
  /\ child \notin {"stop", "gone"} =>
       /\ pipe # <<>> => NextId = Succ(pipe[Len(pipe)].id)
       /\ pipe = <<>> /\ request # <<>> => NextId = Succ(request[1].id)
       /\ message # <<>> => request_id = Succ(message[1].id)

\* Where in the table each vehicle starts and ends.
StartAt == << 1, 2, 3, 4, 5, 6, 9, 10, 13, 14, 15, 16 >>
EndAt == << 8, 7, 11, 12, 17, 18, 19, 20, 21, 22, 23, 24 >>

\* Vehicles that are parked after the first n events.
Before(n) == {v \in 1 .. 12 : StartAt[v] <= n /\ n < EndAt[v]}

\* The table has been followed from its beginning.
InTable ==
  /\ child \in {"off", "close_read", "open"} => current_event = 0 /\ parked = {}
  /\ child \in {"generate", "read", "write"} => parked = Before(current_event)
  /\ child = "sleep" => parked = Before(current_event + 1)
  /\ child \in {"read", "write"} =>
       message[1].event = test_events[current_event + 1]

ClientInv == Processes /\ InHand /\ Consecutive /\ InTable

IInv == GpsInv /\ ClientInv /\ WholeCoordinate

-----------------------------------------------------------------------------
(* The HAL.                                                                *)

\* HAL_I2C_EnableListen_IT makes every handle ready for an address.
LEMMA EnableListens ==
  ASSUME NEW h \in Handle
  PROVE  /\ HAL_I2C_EnableListen_IT(h) \in Handle
         /\ Awake(HAL_I2C_EnableListen_IT(h))
         /\ HAL_I2C_EnableListen_IT(h).State = "LISTEN"
         /\ HAL_I2C_EnableListen_IT(h).Error = h.Error
BY DEF HAL_I2C_EnableListen_IT, Handle, Awake, Listening, Interrupts

\* I2C_ITListenCplt ends in listen mode, through the firmware's callback.
LEMMA ListenCplt ==
  ASSUME NEW h \in Handle
  PROVE  /\ I2C_ITListenCplt(h) \in Handle /\ Awake(I2C_ITListenCplt(h))
         /\ I2C_ITListenCplt(h).State = "LISTEN"
         /\ I2C_ITListenCplt(h).Error = h.Error
<1> DEFINE g == [h EXCEPT !.State = "READY", !.XferOptions = "NO_OPTION",
                          !.XferISR = FALSE, !.irq = {}]
<1>1. g \in Handle /\ g.State = "READY" /\ g.Error = h.Error
  BY DEF Handle
<1>2. I2C_ITListenCplt(h) = HAL_I2C_EnableListen_IT(g)
  BY <1>1 DEF I2C_ITListenCplt, HAL_I2C_ListenCpltCallback
<1> HIDE DEF g
<1> QED
  BY <1>1, <1>2, EnableListens

\* An error during a transfer leaves the handle listening, with the error noted
\* for the STOP that follows.
LEMMA ErrorListens ==
  ASSUME NEW h \in Handle, Listening(h)
  PROVE  /\ I2C_ITError(h) \in Handle /\ I2C_ITError(h).State = "LISTEN"
         /\ I2C_ITError(h).XferISR /\ I2C_ITError(h).Error
         /\ I2C_ITError(h).XferOptions = "NO_OPTION"
         /\ "LISTEN" \in h.irq => "LISTEN" \in I2C_ITError(h).irq
<1> DEFINE g == [h EXCEPT !.State = "LISTEN", !.XferISR = TRUE,
                          !.irq = @ \ {"TX"}, !.XferOptions = "NO_OPTION",
                          !.XferCount = 0, !.Error = TRUE]
<1>1. I2C_ITError(h) = g
  BY DEF I2C_ITError
<1>2. /\ g.State = "LISTEN" /\ g.XferISR /\ g.Error
      /\ g.XferOptions = "NO_OPTION" /\ g.irq = h.irq \ {"TX"}
  BY DEF Handle
<1>3. g \in Handle
  <2>1. 0 \in 0 .. 2 /\ h.irq \ {"TX"} \in SUBSET Interrupts
    BY DEF Handle
  <2> QED
    BY <2>1 DEF Handle
<1> QED
  BY <1>1, <1>2, <1>3

\* The end of a sequence keeps listening.
LEMMA SeqCplt ==
  ASSUME NEW h \in Handle, Listening(h)
  PROVE  /\ I2C_ITSlaveSeqCplt(h) \in Handle /\ Listening(I2C_ITSlaveSeqCplt(h))
         /\ I2C_ITSlaveSeqCplt(h).XferISR = h.XferISR
         /\ I2C_ITSlaveSeqCplt(h).Error = h.Error
         /\ I2C_ITSlaveSeqCplt(h).XferOptions = h.XferOptions
         /\ "LISTEN" \in h.irq => "LISTEN" \in I2C_ITSlaveSeqCplt(h).irq
BY DEF I2C_ITSlaveSeqCplt, Handle, Listening, Interrupts

\* A NACK of the transfer that it ends, or with an error noted, keeps what a
\* STOP needs.
LEMMA NackKeeps ==
  ASSUME NEW h \in Handle, Listening(h), h.Error \/ h.XferOptions = "LAST_FRAME",
         h.XferOptions = "LAST_FRAME" => h.State = "BUSY_TX_LISTEN"
  PROVE  /\ Nacked(h) \in Handle /\ Listening(Nacked(h))
         /\ Nacked(h).Error \/ Nacked(h).XferOptions = "LAST_FRAME"
         /\ h.XferISR => Nacked(h).XferISR
         /\ "LISTEN" \in h.irq => "LISTEN" \in Nacked(h).irq
<1>1. CASE h.XferCount # 0
  <2>1. Nacked(h) = [h EXCEPT !.Error = TRUE]
    BY <1>1 DEF Nacked
  <2> QED
    BY <2>1 DEF Handle, Listening
<1>2. CASE h.XferCount = 0 /\ h.XferOptions = "LAST_FRAME"
  <2>1. Nacked(h) = I2C_ITSlaveSeqCplt(h)
    BY <1>2 DEF Nacked
  <2> QED
    BY <1>2, <2>1, SeqCplt
<1>3. CASE h.XferCount = 0 /\ h.XferOptions # "LAST_FRAME"
  <2>1. Nacked(h) = h
    BY <1>3 DEF Nacked
  <2> QED
    BY <2>1
<1> QED
  BY <1>1, <1>2, <1>3

\* STOP, with or without the NACK in the same interrupt, brings the handle back
\* into listen mode.
LEMMA StopListens ==
  ASSUME NEW h \in Handle, Listening(h), NEW nack \in BOOLEAN,
         h.Error \/ h.XferOptions = "LAST_FRAME",
         nack /\ h.XferOptions = "LAST_FRAME" => h.State = "BUSY_TX_LISTEN"
  PROVE  I2C_ITSlaveCplt(h, nack) \in Handle /\ Awake(I2C_ITSlaveCplt(h, nack))
<1> DEFINE h1 == [h EXCEPT !.irq = {}, !.Error = @ \/ h.XferCount # 0]
           h2 == IF nack THEN Nacked(h1) ELSE h1
           h3 == [h2 EXCEPT !.XferISR = FALSE]
           h4 == I2C_ITError(h3)
           h5 == [I2C_ITSlaveSeqCplt(h3) EXCEPT !.State = "READY",
                                                !.XferOptions = "NO_OPTION"]
<1>1. /\ h1 \in Handle /\ Listening(h1)
      /\ h1.Error \/ h1.XferOptions = "LAST_FRAME"
      /\ h1.XferOptions = h.XferOptions /\ h1.State = h.State
  BY DEF Handle, Listening
<1> HIDE DEF h1
<1>2. /\ h2 \in Handle /\ Listening(h2)
      /\ h2.Error \/ h2.XferOptions = "LAST_FRAME"
  BY <1>1, NackKeeps
<1> HIDE DEF h2
<1>3. /\ h3 \in Handle /\ Listening(h3)
      /\ h3.Error \/ h3.XferOptions = "LAST_FRAME"
  BY <1>2 DEF Handle, Listening
<1>4. I2C_ITSlaveCplt(h, nack) =
        IF h3.Error
        THEN IF h4.State = "LISTEN" THEN I2C_ITListenCplt(h4) ELSE h4
        ELSE IF h3.XferOptions # "NO_OPTION"
        THEN HAL_I2C_ListenCpltCallback(h5)
        ELSE [h3 EXCEPT !.State = "READY"]
  BY DEF I2C_ITSlaveCplt, h1, h2
<1> HIDE DEF h3, h4, h5
<1>5. CASE h3.Error
  <2>1. h4 \in Handle /\ h4.State = "LISTEN"
    BY <1>3, ErrorListens DEF h4
  <2> QED
    BY <1>4, <1>5, <2>1, ListenCplt
<1>6. CASE ~h3.Error
  <2>1. I2C_ITSlaveSeqCplt(h3) \in Handle
    BY <1>3, SeqCplt
  <2>2. h5 \in Handle /\ h5.State = "READY"
    BY <2>1 DEF Handle, h5
  <2>3. HAL_I2C_ListenCpltCallback(h5) = HAL_I2C_EnableListen_IT(h5)
    BY <2>2 DEF HAL_I2C_ListenCpltCallback
  <2> QED
    BY <1>3, <1>4, <1>6, <2>2, <2>3, EnableListens
<1> QED
  BY <1>5, <1>6

-----------------------------------------------------------------------------
(* The simulator and its bus, step by step.                                *)

\* An awake handle is past the reset.
LEMMA AwakeNotReset == \A h \in Handle : Awake(h) => h.State # "RESET"
BY DEF Awake, Listening

\* Start-up and the interrupts of timer and I2C keep the invariant.
LEMMA FirmwareNext ==
  ASSUME GpsInv, Firmware
  PROVE  GpsInv'
<1>0. /\ GpsTyped /\ FlagsInOrder /\ Recoverable /\ Received
      /\ hi2c \in Handle /\ GPS_COORDINATES_COUNT \in Nat \ {0}
  BY CoordinatesAssumption DEF GpsInv, GpsTyped
<1>1. CASE Boot
  <2> DEFINE h == [hi2c EXCEPT !.State = "READY"]
  <2>1. h \in Handle /\ hi2c' = HAL_I2C_EnableListen_IT(h)
    BY <1>0, <1>1 DEF Boot, Handle
  <2> HIDE DEF h
  <2>2. hi2c' \in Handle /\ Awake(hi2c') /\ hi2c'.State = "LISTEN"
    BY <2>1, EnableListens
  <2>3. /\ UNCHANGED <<current_coordinate, i2c_tx_packet, flags, txdr, master, got>>
        /\ flags = {} /\ master \in {"idle", "failed"}
    BY <1>0, <1>1 DEF Boot, FlagsInOrder
  <2>4. Recoverable'
    BY <2>2, <2>3 DEF Recoverable, Serving, Awake
  <2> QED
    BY <1>0, <2>2, <2>3, <2>4
       DEF GpsInv, GpsTyped, FlagsInOrder, Received, Serving, Packed, Half
<1>2. CASE HAL_TIM_PeriodElapsedCallback
  <2>1. UNCHANGED <<i2c_tx_packet, hi2c, flags, txdr, master, got>>
    BY <1>2 DEF HAL_TIM_PeriodElapsedCallback
  <2>2. current_coordinate' \in DOMAIN gps_coordinates
    BY <1>0, <1>2 DEF HAL_TIM_PeriodElapsedCallback, GpsTyped, gps_coordinates
  <2> QED
    BY <1>0, <2>1, <2>2
       DEF GpsInv, GpsTyped, FlagsInOrder, Recoverable, Received, Serving, Packed,
           Half, Awake, Listening
<1>3. CASE Stopped
  <2>1. /\ hi2c' = I2C_ITSlaveCplt(hi2c, "AF" \in flags)
        /\ flags' = flags \ {"STOPF", "AF", "TXIS"} /\ txdr' = <<>>
        /\ UNCHANGED <<current_coordinate, i2c_tx_packet, master, got>>
        /\ "STOPF" \in flags
    BY <1>3 DEF Stopped
  <2>2. hi2c.State # "RESET" /\ Listening(hi2c) /\ ~Serving
    BY <1>0, <2>1 DEF FlagsInOrder, Recoverable, Awake
  <2>3. hi2c' \in Handle /\ Awake(hi2c')
    <3> DEFINE nack == "AF" \in flags
    <3>1. /\ nack \in BOOLEAN /\ hi2c' = I2C_ITSlaveCplt(hi2c, nack)
          /\ hi2c.Error \/ hi2c.XferOptions = "LAST_FRAME"
          /\ nack /\ hi2c.XferOptions = "LAST_FRAME" =>
               hi2c.State = "BUSY_TX_LISTEN"
      BY <1>0, <2>1 DEF Recoverable
    <3> HIDE DEF nack
    <3> QED
      BY <1>0, <2>2, <3>1, StopListens
  <2>4. ~Serving' /\ master # "nack"
    BY <1>0, <2>1, <2>2 DEF Serving, FlagsInOrder
  <2>5. Recoverable'
    BY <2>1, <2>3, <2>4 DEF Recoverable, Awake
  <2>6. FlagsInOrder'
    BY <1>0, <2>1, <2>3, <2>4, AwakeNotReset DEF FlagsInOrder
  <2> QED
    BY <1>0, <2>1, <2>2, <2>3, <2>4, <2>5, <2>6
       DEF GpsInv, GpsTyped, Received, Packed, Half
<1>4. CASE NotAcknowledged
  <2>1. /\ hi2c' = Nacked(hi2c) /\ flags' = flags \ {"AF"}
        /\ txdr' \in {txdr, <<>>}
        /\ UNCHANGED <<current_coordinate, i2c_tx_packet, master, got>>
        /\ "AF" \in flags /\ "STOPF" \notin flags /\ "LISTEN" \in hi2c.irq
        /\ hi2c.XferISR
    BY <1>4 DEF NotAcknowledged
  <2>2. /\ hi2c.State # "RESET" /\ Listening(hi2c) /\ ~Serving
        /\ hi2c.XferOptions = "LAST_FRAME" => hi2c.State = "BUSY_TX_LISTEN"
    BY <1>0, <2>1 DEF FlagsInOrder, Recoverable, Awake
  <2>3. ~Serving' /\ master = "nack"
    BY <1>0, <2>1, <2>2 DEF Serving, FlagsInOrder
  <2>4. hi2c.Error \/ hi2c.XferOptions = "LAST_FRAME"
    BY <1>0, <2>3 DEF Recoverable
  <2>5. /\ hi2c' \in Handle /\ Awake(hi2c')
        /\ hi2c'.Error \/ hi2c'.XferOptions = "LAST_FRAME"
    BY <1>0, <2>1, <2>2, <2>4, NackKeeps DEF Awake
  <2>6. Recoverable'
    BY <2>1, <2>3, <2>5 DEF Recoverable, Awake
  <2>7. FlagsInOrder'
    BY <1>0, <2>1, <2>3, <2>5, AwakeNotReset DEF FlagsInOrder
  <2> QED
    BY <1>0, <2>1, <2>2, <2>3, <2>5, <2>6, <2>7
       DEF GpsInv, GpsTyped, Received, Packed, Half
<1>5. CASE HAL_I2C_AddrCallback
  <2>1. /\ "ADDR" \in flags /\ flags \cap {"STOPF", "AF"} = {}
        /\ i2c_tx_packet' = gps_coordinates[current_coordinate]
        /\ flags' = (flags \ {"ADDR"}) \cup {"TXIS"}
        /\ UNCHANGED <<current_coordinate, txdr, master, got>>
    BY <1>5 DEF HAL_I2C_AddrCallback
  <2>2. /\ master = "reading" /\ hi2c.State # "RESET" /\ Listening(hi2c)
        /\ got = <<>> /\ txdr = <<>> /\ ~Serving
    BY <1>0, <2>1 DEF FlagsInOrder, Recoverable, Received, Awake, Serving
  <2>3. /\ Packed' /\ Len(i2c_tx_packet') = 2
    BY <1>0, <2>1 DEF Packed, GpsTyped, gps_coordinates
  <2> DEFINE h == [hi2c EXCEPT !.irq = {"TX"} \cap @]
  <2>4. h \in Handle /\ Listening(h)
    BY <1>0, <2>2 DEF Handle, Listening
  <2>5. hi2c' = HAL_I2C_Slave_Seq_Transmit_IT(h, 2)
    BY <1>5, <2>3 DEF HAL_I2C_AddrCallback
  <2> HIDE DEF h
  <2>6. hi2c' = [h EXCEPT !.State = "BUSY_TX_LISTEN", !.Error = FALSE,
                          !.XferCount = 2, !.XferOptions = "LAST_FRAME",
                          !.XferISR = TRUE, !.irq = Interrupts]
    BY <2>4, <2>5 DEF HAL_I2C_Slave_Seq_Transmit_IT
  <2>7. 2 \in 0 .. 2
    OBVIOUS
  <2>8. /\ hi2c' \in Handle /\ hi2c'.State = "BUSY_TX_LISTEN"
        /\ hi2c'.XferOptions = "LAST_FRAME" /\ hi2c'.XferISR
        /\ hi2c'.irq = Interrupts
    BY <2>4, <2>6, <2>7 DEF Handle
  <2>9. Recoverable'
    BY <2>8 DEF Recoverable, Awake, Listening, Interrupts
  <2>10. FlagsInOrder'
    BY <1>0, <2>1, <2>2, <2>8 DEF FlagsInOrder
  <2>11. GpsTyped'
    BY <1>0, <2>1, <2>2, <2>3, <2>8 DEF GpsTyped
  <2>12. Received'
    BY <2>1, <2>2, <2>3 DEF Received, Serving
  <2> QED
    BY <2>9, <2>10, <2>11, <2>12 DEF GpsInv
<1>6. CASE Transmit
  <2>1. /\ "TXIS" \in flags /\ flags \cap {"STOPF", "AF", "ADDR"} = {}
        /\ hi2c.XferCount > 0
        /\ txdr' = <<i2c_tx_packet[Len(i2c_tx_packet) - hi2c.XferCount + 1]>>
        /\ hi2c' = [hi2c EXCEPT !.XferCount = @ - 1]
        /\ flags' = flags \ {"TXIS"}
        /\ UNCHANGED <<current_coordinate, i2c_tx_packet, master, got>>
    BY <1>6 DEF Transmit
  <2>2. Serving /\ hi2c.State # "RESET" /\ Packed /\ txdr = <<>>
    BY <1>0, <2>1 DEF Received, FlagsInOrder
  <2>3. hi2c.XferCount \in {1, 2}
    BY <1>0, <2>1 DEF Handle
  <2>4. txdr' = <<Half>>
    BY <2>1, <2>2, <2>3 DEF Packed, Half, gps_coordinates
  <2>5. hi2c.XferCount - 1 \in 0 .. 2
    BY <2>3
  <2>6. /\ hi2c' \in Handle /\ hi2c'.State = hi2c.State
        /\ hi2c'.XferISR = hi2c.XferISR /\ hi2c'.Error = hi2c.Error
        /\ hi2c'.XferOptions = hi2c.XferOptions /\ hi2c'.irq = hi2c.irq
    BY <1>0, <2>1, <2>5 DEF Handle
  <2>7. Serving'
    BY <2>1, <2>2 DEF Serving
  <2>8. Recoverable' /\ FlagsInOrder'
    BY <1>0, <2>1, <2>2, <2>6, <2>7 DEF Recoverable, FlagsInOrder, Awake, Listening
  <2> QED
    BY <1>0, <2>1, <2>2, <2>4, <2>6, <2>7, <2>8
       DEF GpsInv, GpsTyped, Received, Packed, Half
<1>7. CASE HAL_I2C_ER_IRQHandler
  <2>1. /\ hi2c' = I2C_ITError(hi2c) /\ flags' = flags \ {"BERR"}
        /\ "BERR" \in flags /\ "LISTEN" \in hi2c.irq
        /\ UNCHANGED <<current_coordinate, i2c_tx_packet, txdr, master, got>>
    BY <1>7 DEF HAL_I2C_ER_IRQHandler
  <2>2. hi2c.State # "RESET" /\ Listening(hi2c)
    BY <1>0, <2>1 DEF FlagsInOrder, Recoverable, Awake
  <2>3. /\ hi2c' \in Handle /\ hi2c'.State = "LISTEN" /\ hi2c'.XferISR
        /\ hi2c'.Error /\ hi2c'.XferOptions = "NO_OPTION"
        /\ "LISTEN" \in hi2c'.irq
    BY <1>0, <2>1, <2>2, ErrorListens
  <2>4. Recoverable'
    BY <2>3 DEF Recoverable, Awake, Listening
  <2> QED
    BY <1>0, <2>1, <2>3, <2>4
       DEF GpsInv, GpsTyped, FlagsInOrder, Received, Serving, Packed, Half
<1> QED
  BY <1>1, <1>2, <1>3, <1>4, <1>5, <1>6, <1>7 DEF Firmware, EventInterrupt

\* Two halves make a pair.
LEMMA TwoHalves ==
  ASSUME NEW x
  PROVE  <<x>> \o <<x>> = <<x, x>>
<1>1. <<x>> \in Seq({x}) /\ <<x, x>> \in Seq({x})
  OBVIOUS
<1>2. /\ <<x>> \o <<x>> \in Seq({x}) /\ Len(<<x>> \o <<x>>) = 2
  BY <1>1, ConcatProperties
<1>3. \A s \in Seq({x}) : \A i \in 1 .. Len(s) : s[i] = x
  BY ElementOfSeq
<1> QED
  BY <1>1, <1>2, <1>3, SeqEqual

\* What the master does on the bus keeps the invariant: it takes halves of one
\* packet, and ends or gives up only a transfer whose address was served.
LEMMA BusNext ==
  ASSUME GpsInv, Bus
  PROVE  GpsInv'
<1>0. /\ GpsTyped /\ FlagsInOrder /\ Recoverable /\ Received
  BY DEF GpsInv
<1>r. master \in {"reading", "nack"} => hi2c.State # "RESET"
  BY <1>0 DEF FlagsInOrder
<1>1. CASE TakeHalf
  <2>1. /\ master = "reading" /\ txdr # <<>> /\ "ADDR" \notin flags
        /\ got' = got \o txdr /\ txdr' = <<>>
        /\ UNCHANGED <<current_coordinate, i2c_tx_packet, hi2c>>
    BY <1>1 DEF TakeHalf
  <2>2. Serving /\ txdr = <<Half>> /\ got \in {<<>>, <<Half>>} /\ Packed
        /\ "TXIS" \notin flags
    BY <1>0, <2>1 DEF Serving, GpsTyped, Received
  <2>3. CASE got = <<>>
    <3>1. got' = <<Half>>
      BY <2>1, <2>2, <2>3
    <3>2. flags' = flags \cup {"TXIS"} /\ master' = master
      BY <1>1, <3>1 DEF TakeHalf
    <3> QED
      BY <1>0, <2>1, <2>2, <3>1, <3>2
         DEF GpsInv, GpsTyped, FlagsInOrder, Recoverable, Received, Serving,
             Packed, Half, Awake, Listening
  <2>4. CASE got = <<Half>>
    <3>1. got' = <<Half, Half>>
      BY <2>1, <2>2, <2>4, TwoHalves
    <3>2. flags' = flags \cup {"AF"} /\ master' = "nack"
      BY <1>1, <3>1 DEF TakeHalf
    <3> QED
      BY <1>0, <1>r, <2>1, <2>2, <3>1, <3>2
         DEF GpsInv, GpsTyped, FlagsInOrder, Recoverable, Received, Serving,
             Packed, Half, Awake, Listening
  <2> QED
    BY <2>2, <2>3, <2>4
<1>2. CASE SendStop
  BY <1>0, <1>r, <1>2
     DEF SendStop, GpsInv, GpsTyped, FlagsInOrder, Recoverable, Received, Serving,
         Packed, Half, Awake, Listening
<1>3. CASE GiveUp
  BY <1>0, <1>r, <1>3
     DEF GiveUp, ClockHeld, GpsInv, GpsTyped, FlagsInOrder, Recoverable, Received,
         Serving, Packed, Half, Awake, Listening
<1>4. CASE BusError
  BY <1>0, <1>r, <1>4
     DEF BusError, GpsInv, GpsTyped, FlagsInOrder, Recoverable, Received, Serving,
         Packed, Half, Awake, Listening
<1> QED
  BY <1>1, <1>2, <1>3, <1>4 DEF Bus

\* So does the beginning of a read.
LEMMA StartReadNext ==
  ASSUME GpsInv, StartRead
  PROVE  GpsInv'
<1>0. /\ GpsTyped /\ FlagsInOrder /\ Recoverable /\ Received
  BY DEF GpsInv
<1>1. /\ master = "idle" /\ got' = <<>> /\ ~Serving
      /\ UNCHANGED <<current_coordinate, i2c_tx_packet, hi2c, txdr>>
  BY DEF StartRead, Serving
<1>2. CASE Listening(hi2c) /\ master' = "reading" /\ flags' = flags \cup {"ADDR"}
  <2>1. hi2c.State # "RESET"
    BY <1>2 DEF Listening
  <2> QED
    BY <1>0, <1>1, <1>2, <2>1
       DEF GpsInv, GpsTyped, FlagsInOrder, Recoverable, Received, Serving, Packed,
           Half, Awake, Listening
<1>3. CASE master' = "failed" /\ flags' = flags
  BY <1>0, <1>1, <1>3
     DEF GpsInv, GpsTyped, FlagsInOrder, Recoverable, Received, Serving, Packed,
         Half, Awake, Listening
<1> QED
  BY <1>2, <1>3 DEF StartRead

\* And its return to the I2C process; a read that went well has one whole
\* coordinate.
LEMMA ReadReturnsNext ==
  ASSUME GpsInv, ReadReturns
  PROVE  /\ GpsInv'
         /\ master = "ok" =>
              \E i \in DOMAIN gps_coordinates : got = gps_coordinates[i]
<1>0. /\ GpsTyped /\ FlagsInOrder /\ Recoverable /\ Received
  BY DEF GpsInv
<1>1. /\ master \in {"ok", "failed"} /\ master' = "idle" /\ got' = <<>>
      /\ UNCHANGED <<current_coordinate, i2c_tx_packet, hi2c, flags, txdr>>
  BY DEF ReadReturns
<1>2. GpsInv'
  BY <1>0, <1>1
     DEF GpsInv, GpsTyped, FlagsInOrder, Recoverable, Received, Serving, Packed,
         Half, Awake, Listening
<1>3. ASSUME master = "ok"
      PROVE  \E i \in DOMAIN gps_coordinates : got = gps_coordinates[i]
  BY <1>0, <1>3 DEF Received, Packed, Half, gps_coordinates
<1> QED
  BY <1>2, <1>3

\* Nothing else touches the simulator.
LEMMA GpsUnchanged ==
  ASSUME GpsInv, UNCHANGED gps
  PROVE  GpsInv'
BY DEF gps, GpsInv, GpsTyped, FlagsInOrder, Recoverable, Received, Serving,
       Packed, Half, Awake, Listening

-----------------------------------------------------------------------------
(* The event table.                                                        *)

\* Every vehicle starts once and ends once, later; every event is one of these.
LEMMA Table ==
  /\ TEST_EVENTS_COUNT = 24
  /\ \A v \in 1 .. 12 : /\ StartAt[v] \in 1 .. 24 /\ EndAt[v] \in 1 .. 24
                        /\ StartAt[v] < EndAt[v]
                        /\ test_events[StartAt[v]] = Start(v)
                        /\ test_events[EndAt[v]] = End(v)
  /\ \A n \in 1 .. 24 : \E v \in 1 .. 12 : n = StartAt[v] \/ n = EndAt[v]
<1>1. TEST_EVENTS_COUNT = 24
  BY DEF TEST_EVENTS_COUNT, test_events
<1>2. \A v \in 1 .. 12 : /\ StartAt[v] \in 1 .. 24 /\ EndAt[v] \in 1 .. 24
                         /\ StartAt[v] < EndAt[v]
  BY DEF StartAt, EndAt
<1>3. \A v \in 1 .. 12 : test_events[StartAt[v]] = Start(v)
  BY DEF StartAt, test_events
<1>4. \A v \in 1 .. 12 : test_events[EndAt[v]] = End(v)
  BY DEF EndAt, test_events
<1>5. \A n \in 1 .. 24 : \E v \in 1 .. 12 : n = StartAt[v] \/ n = EndAt[v]
  BY DEF StartAt, EndAt
<1> QED
  BY <1>1, <1>2, <1>3, <1>4, <1>5

\* An event starts a vehicle that is not parked or ends one that is, and after
\* the last one nobody is parked.
LEMMA Alternates ==
  /\ Before(0) = {} /\ Before(24) = {}
  /\ \A n \in 0 .. 23 :
       /\ (test_events[n + 1].action = "START_PARKING")
            = (test_events[n + 1].vehicle \notin Before(n))
       /\ Before(n + 1) = IF test_events[n + 1].action = "START_PARKING"
                          THEN Before(n) \cup {test_events[n + 1].vehicle}
                          ELSE Before(n) \ {test_events[n + 1].vehicle}
<1>b. \A v \in 1 .. 12 : StartAt[v] \in 1 .. 24 /\ EndAt[v] \in 1 .. 24
  BY Table
<1>1. Before(0) = {} /\ Before(24) = {}
  <2>1. \A v \in 1 .. 12 : ~(StartAt[v] <= 0) /\ ~(24 < EndAt[v])
    BY <1>b
  <2> QED
    BY <2>1 DEF Before
<1>2. ASSUME NEW n \in 0 .. 23
      PROVE  /\ (test_events[n + 1].action = "START_PARKING")
                  = (test_events[n + 1].vehicle \notin Before(n))
             /\ Before(n + 1) = IF test_events[n + 1].action = "START_PARKING"
                                THEN Before(n) \cup {test_events[n + 1].vehicle}
                                ELSE Before(n) \ {test_events[n + 1].vehicle}
  <2>m. n + 1 \in 1 .. 24
    OBVIOUS
  <2>o. \A m \in 1 .. 24 : \E v \in 1 .. 12 : m = StartAt[v] \/ m = EndAt[v]
    BY Table
  <2>1. PICK v \in 1 .. 12 : n + 1 = StartAt[v] \/ n + 1 = EndAt[v]
    BY <2>m, <2>o
  <2>2. /\ \A w \in 1 .. 12 : StartAt[w] \in 1 .. 24 /\ EndAt[w] \in 1 .. 24
        /\ \A w \in 1 .. 12 : StartAt[w] < EndAt[w]
    BY Table
  <2>b. \A w \in 1 .. 12 :
          /\ w \in Before(n) <=> StartAt[w] <= n /\ n < EndAt[w]
          /\ w \in Before(n + 1) <=> StartAt[w] <= n + 1 /\ n + 1 < EndAt[w]
    BY DEF Before
  <2>3. CASE n + 1 = StartAt[v]
    <3>1. test_events[n + 1] = Start(v)
      BY <2>3, Table
    <3>2. /\ test_events[n + 1].action = "START_PARKING"
          /\ test_events[n + 1].vehicle = v
      BY <3>1 DEF Start
    <3>3. \A w \in 1 .. 12 : w # v => StartAt[w] # n + 1 /\ EndAt[w] # n + 1
      BY <3>1, Table DEF Start, End
    <3>4. /\ v \notin Before(n) /\ v \in Before(n + 1)
          /\ \A w \in 1 .. 12 : w # v => (w \in Before(n) <=> w \in Before(n + 1))
      <4>1. v \notin Before(n) /\ v \in Before(n + 1)
        <5>1. /\ StartAt[v] \in Int /\ EndAt[v] \in Int /\ n \in Int
              /\ StartAt[v] < EndAt[v]
          BY <2>2
        <5>2. ~(StartAt[v] <= n) /\ StartAt[v] <= n + 1 /\ n + 1 < EndAt[v]
          BY <2>3, <5>1
        <5> QED
          BY <2>b, <5>2
      <4>2. ASSUME NEW w \in 1 .. 12, w # v
            PROVE  w \in Before(n) <=> w \in Before(n + 1)
        <5>1. StartAt[w] \in Int /\ EndAt[w] \in Int /\ n \in Int
          BY <2>2
        <5>2. StartAt[w] <= n /\ n < EndAt[w] <=>
                StartAt[w] <= n + 1 /\ n + 1 < EndAt[w]
          BY <3>3, <4>2, <5>1
        <5> QED
          BY <2>b, <5>2
      <4> QED
        BY <4>1, <4>2
    <3>5. Before(n) \subseteq 1 .. 12 /\ Before(n + 1) \subseteq 1 .. 12
      BY DEF Before
    <3>6. Before(n + 1) = Before(n) \cup {v}
      BY <3>4, <3>5
    <3> QED
      BY <3>2, <3>4, <3>6
  <2>4. CASE n + 1 = EndAt[v]
    <3>1. test_events[n + 1] = End(v)
      BY <2>4, Table
    <3>2. /\ test_events[n + 1].action = "END_PARKING"
          /\ test_events[n + 1].vehicle = v
      BY <3>1 DEF End
    <3>3. \A w \in 1 .. 12 : w # v => StartAt[w] # n + 1 /\ EndAt[w] # n + 1
      BY <3>1, Table DEF Start, End
    <3>4. /\ v \in Before(n) /\ v \notin Before(n + 1)
          /\ \A w \in 1 .. 12 : w # v => (w \in Before(n) <=> w \in Before(n + 1))
      <4>1. v \in Before(n) /\ v \notin Before(n + 1)
        <5>1. /\ StartAt[v] \in Int /\ EndAt[v] \in Int /\ n \in Int
              /\ StartAt[v] < EndAt[v]
          BY <2>2
        <5>2. StartAt[v] <= n /\ n < EndAt[v] /\ ~(n + 1 < EndAt[v])
          BY <2>4, <5>1
        <5> QED
          BY <2>b, <5>2
      <4>2. ASSUME NEW w \in 1 .. 12, w # v
            PROVE  w \in Before(n) <=> w \in Before(n + 1)
        <5>1. StartAt[w] \in Int /\ EndAt[w] \in Int /\ n \in Int
          BY <2>2
        <5>2. StartAt[w] <= n /\ n < EndAt[w] <=>
                StartAt[w] <= n + 1 /\ n + 1 < EndAt[w]
          BY <3>3, <4>2, <5>1
        <5> QED
          BY <2>b, <5>2
      <4> QED
        BY <4>1, <4>2
    <3>5. Before(n) \subseteq 1 .. 12 /\ Before(n + 1) \subseteq 1 .. 12
      BY DEF Before
    <3>6. Before(n + 1) = Before(n) \ {v}
      BY <3>4, <3>5
    <3> QED
      BY <3>2, <3>4, <3>6
  <2> QED
    BY <2>1, <2>3, <2>4
<1> QED
  BY <1>1, <1>2

-----------------------------------------------------------------------------
(* The processes and the pipe, step by step.                               *)

\* Every step keeps counters, program counters and what is sent typed, and the
\* pipe within its capacity.
LEMMA ProcessesNext ==
  ASSUME ClientInv, [Next]_vars
  PROVE  Processes'
<1>0. /\ Processes /\ InHand /\ IdSpace \in Nat \ {0, 1}
      /\ PipeCapacity \in Nat \ {0} /\ TEST_EVENTS_COUNT = 24
  BY ClientAssumption, Table DEF ClientInv
<1>i. 1 \in Id /\ 0 \in 0 .. TEST_EVENTS_COUNT - 1 /\ <<>> \in OneOrNone
  BY <1>0 DEF Id, OneOrNone
<1> USE DEF Processes
<1>1. CASE UNCHANGED vars \/ ((Firmware \/ Bus) /\ UNCHANGED client)
  <2>1. UNCHANGED <<supervised, main, child, status, readers, writers,
                    current_event, request_id, pipe, request, message>>
    BY <1>1 DEF vars, client, ends, generator, sender
  <2> QED
    BY <1>0, <2>1
<1>2. CASE LoadConfiguration \/ CreatePipe \/ Fork
  <2>1. UNCHANGED <<supervised, current_event, request_id, pipe, request, message>>
    BY <1>2 DEF LoadConfiguration, CreatePipe, Fork, generator, sender
  <2> QED
    BY <1>0, <1>2, <2>1 DEF LoadConfiguration, CreatePipe, Fork, Exit, ends
<1>2a. CASE CloseWriteEnd \/ CloseReadEnd \/ InitLogger
  <2>1. UNCHANGED <<supervised, current_event, request_id, pipe, message>>
    BY <1>2a DEF CloseWriteEnd, CloseReadEnd, InitLogger, generator
  <2> QED
    BY <1>0, <1>i, <1>2a, <2>1 DEF CloseWriteEnd, CloseReadEnd, InitLogger,
                                   MainEnds, Exit, ends, sender
<1>3. CASE OpenDevice \/ BrokenPipe \/ StopChild \/ KillChild
  BY <1>0, <1>i, <1>3 DEF OpenDevice, BrokenPipe, StopChild, KillChild, ChildEnds,
                          ends, generator, sender
<1>4. CASE Generate
  <2> DEFINE r == [id |-> request_id, event |-> test_events[current_event + 1]]
  <2>1. r \in Request
    <3>1. current_event + 1 \in 1 .. TEST_EVENTS_COUNT /\ request_id \in Id
      BY <1>0
    <3>2. test_events[current_event + 1] \in
            {test_events[i] : i \in 1 .. TEST_EVENTS_COUNT}
      BY <3>1
    <3> QED
      BY <3>1, <3>2 DEF Request
  <2>2. message' = <<r>> /\ request_id' = (request_id + 1) % IdSpace
    BY <1>4 DEF Generate
  <2> HIDE DEF r
  <2>3. message' \in OneOrNone /\ request_id' \in Id
    BY <1>0, <2>1, <2>2 DEF OneOrNone, Id
  <2> QED
    BY <1>0, <1>4, <2>3 DEF Generate, ends, sender
<1>5. CASE ReadReturns
  BY <1>0, <1>i, <1>5 DEF ReadReturns, ends, sender
<1>6. CASE WriteMessage
  <2>1. message # <<>>
    BY <1>0, <1>6 DEF WriteMessage, InHand
  <2>2. PICK r \in Request : message = <<r>>
    BY <1>0, <2>1 DEF OneOrNone
  <2>3. pipe' = pipe \o <<r>> /\ Len(pipe) < PipeCapacity
    BY <1>6, <2>2 DEF WriteMessage
  <2>4. pipe' \in Seq(Request) /\ Len(pipe') = Len(pipe) + 1
    BY <1>0, <2>3, ConcatProperties
  <2>5. Len(pipe') <= PipeCapacity
    BY <1>0, <2>3, <2>4
  <2> QED
    BY <1>0, <1>i, <1>6, <2>4, <2>5 DEF WriteMessage, ends, sender
<1>7. CASE NextEvent
  BY <1>0, <1>7 DEF NextEvent, ends, sender
<1>8. CASE ReadRequest
  <2>1. CASE pipe # <<>>
    <3>1. request' = <<Head(pipe)>> /\ pipe' = Tail(pipe)
      BY <1>8, <2>1 DEF ReadRequest
    <3>2. /\ Head(pipe) \in Request /\ Tail(pipe) \in Seq(Request)
          /\ Len(Tail(pipe)) = Len(pipe) - 1
      BY <1>0, <2>1, HeadTailProperties
    <3>3. request' \in OneOrNone /\ pipe' \in Seq(Request)
          /\ Len(pipe') <= PipeCapacity
      BY <1>0, <3>1, <3>2 DEF OneOrNone
    <3> QED
      BY <1>0, <1>8, <2>1, <3>3 DEF ReadRequest, ends, generator
  <2>2. CASE pipe = <<>>
    BY <1>0, <1>i, <1>8, <2>2 DEF ReadRequest, MainEnds, Exit, generator
  <2> QED
    BY <2>1, <2>2
<1>9. CASE bbg_client_connect \/ SendRequest \/ ReceiveResponse \/ KillMain
  BY <1>0, <1>i, <1>9 DEF bbg_client_connect, SendRequest, ReceiveResponse,
                          KillMain, MainEnds, Exit, NextRequest, ends, generator,
                          sender
<1>10. CASE Restart
  BY <1>0, <1>i, <1>10 DEF Restart
<1> QED
  BY <1>1, <1>2, <1>2a, <1>3, <1>4, <1>5, <1>6, <1>7, <1>8, <1>9, <1>10
     DEF Next, Main, Child

\* Each process has a request in hand exactly where it should, after every step.
LEMMA InHandNext ==
  ASSUME ClientInv, [Next]_vars
  PROVE  InHand'
<1>0. Processes /\ InHand
  BY DEF ClientInv
<1> USE DEF InHand
<1>1. CASE UNCHANGED vars \/ ((Firmware \/ Bus) /\ UNCHANGED client)
  BY <1>0, <1>1 DEF vars, client, ends, generator, sender
<1>2. CASE LoadConfiguration \/ CreatePipe \/ Fork
  BY <1>0, <1>2 DEF LoadConfiguration, CreatePipe, Fork, Exit, ends, generator,
                    sender
<1>3. CASE CloseWriteEnd \/ CloseReadEnd \/ InitLogger
  BY <1>0, <1>3 DEF CloseWriteEnd, CloseReadEnd, InitLogger, MainEnds, Exit, ends,
                    generator, sender
<1>4. CASE OpenDevice \/ BrokenPipe \/ StopChild \/ KillChild
  BY <1>0, <1>4 DEF OpenDevice, BrokenPipe, StopChild, KillChild, ChildEnds, ends,
                    generator, sender
<1>5. CASE Generate \/ ReadReturns \/ NextEvent
  BY <1>0, <1>5 DEF Generate, ReadReturns, NextEvent, ends, sender
<1>6. CASE WriteMessage
  <2>1. status # "zero"
    BY <1>0, <1>6 DEF WriteMessage
  <2> QED
    BY <1>0, <1>6, <2>1 DEF WriteMessage, ends, sender
<1>7. CASE ReadRequest
  <2>1. CASE pipe # <<>>
    BY <1>0, <1>7, <2>1 DEF ReadRequest, ends, generator
  <2>2. CASE pipe = <<>>
    <3>1. /\ writers = {} /\ MainEnds("zero") /\ main = "read"
          /\ UNCHANGED <<pipe, child, message>>
      BY <1>7, <2>2 DEF ReadRequest, generator
    <3>2. child = "gone"
      BY <1>0, <3>1
    <3> QED
      BY <1>0, <2>2, <3>1, <3>2 DEF MainEnds, Exit
  <2> QED
    BY <2>1, <2>2
<1>8. CASE bbg_client_connect \/ SendRequest \/ ReceiveResponse \/ KillMain
  BY <1>0, <1>8 DEF bbg_client_connect, SendRequest, ReceiveResponse, KillMain,
                    MainEnds, Exit, NextRequest, ends, generator, sender
<1>9. CASE Restart
  BY <1>0, <1>9 DEF Restart
<1> QED
  BY <1>1, <1>2, <1>3, <1>4, <1>5, <1>6, <1>7, <1>8, <1>9
     DEF Next, Main, Child

\* Steps that leave the pipe alone: main gives its request up or not, and the
\* I2C process goes on as before or ends.
LEMMA PipeUntouched ==
  ASSUME Consecutive, pipe' = pipe, request' \in {request, <<>>},
         \/ child' \in {"stop", "gone"}
         \/ child \notin {"stop", "gone"} /\ UNCHANGED <<message, request_id>>
  PROVE  Consecutive'
BY DEF Consecutive, NextId

\* The ids on the way stay consecutive.
LEMMA ConsecutiveNext ==
  ASSUME ClientInv, [Next]_vars
  PROVE  Consecutive'
<1>0. Processes /\ InHand /\ Consecutive
  BY DEF ClientInv
<1>1. CASE UNCHANGED vars \/ ((Firmware \/ Bus) /\ UNCHANGED client)
  BY <1>0, <1>1, PipeUntouched DEF vars, client, ends, generator, sender
<1>2. CASE LoadConfiguration \/ CreatePipe \/ Fork
  BY <1>0, <1>2, PipeUntouched
     DEF LoadConfiguration, CreatePipe, Fork, Exit, InHand, generator, sender
<1>3. CASE CloseWriteEnd \/ CloseReadEnd \/ InitLogger
  BY <1>0, <1>3, PipeUntouched
     DEF CloseWriteEnd, CloseReadEnd, InitLogger, MainEnds, generator, sender
<1>4. CASE OpenDevice \/ BrokenPipe \/ StopChild \/ KillChild
  BY <1>0, <1>4, PipeUntouched
     DEF OpenDevice, BrokenPipe, StopChild, KillChild, ChildEnds, generator, sender
<1>5. CASE Generate
  <2>1. /\ message = <<>> /\ child = "generate" /\ child' = "read"
        /\ UNCHANGED <<pipe, request>> /\ request_id' = Succ(request_id)
    BY <1>0, <1>5 DEF Generate, InHand, Succ, sender
  <2>2. message' # <<>> /\ message'[1].id = request_id
    BY <1>5 DEF Generate
  <2> QED
    BY <1>0, <2>1, <2>2 DEF Consecutive, NextId
<1>6. CASE ReadReturns \/ NextEvent
  BY <1>0, <1>6, PipeUntouched DEF ReadReturns, NextEvent, sender
<1>7. CASE WriteMessage
  <2>1. /\ message # <<>> /\ child = "write" /\ child' = "sleep"
        /\ message' = <<>> /\ UNCHANGED <<request, request_id>>
    BY <1>0, <1>7 DEF WriteMessage, InHand, sender
  <2>2. PICK r \in Request : message = <<r>>
    BY <1>0, <2>1 DEF Processes, OneOrNone
  <2>3. pipe' = pipe \o <<r>> /\ NextId = r.id
    BY <1>7, <2>1, <2>2 DEF WriteMessage, NextId
  <2>4. /\ pipe \in Seq(Request) /\ <<r>> \in Seq(Request) /\ Len(<<r>>) = 1
        /\ Len(pipe) \in Nat
    BY <1>0 DEF Processes
  <2>5. /\ Len(pipe') = Len(pipe) + 1 /\ pipe'[Len(pipe) + 1] = r
        /\ \A i \in 1 .. Len(pipe) : pipe'[i] = pipe[i]
    BY <2>3, <2>4, ConcatProperties
  <2>6. pipe = <<>> <=> Len(pipe) = 0
    BY <2>4, EmptySeq
  <2>7. pipe' # <<>> /\ NextId' = Succ(pipe'[Len(pipe')].id)
    BY <1>0, <2>1, <2>2, <2>4, <2>5 DEF Consecutive, NextId
  <2>8. \A i \in 1 .. Len(pipe') - 1 : pipe'[i + 1].id = Succ(pipe'[i].id)
    BY <1>0, <2>1, <2>3, <2>4, <2>5, <2>6 DEF Consecutive
  <2>9. request # <<>> => pipe'[1].id = Succ(request[1].id)
    BY <1>0, <2>1, <2>3, <2>4, <2>5, <2>6 DEF Consecutive
  <2> QED
    BY <2>1, <2>7, <2>8, <2>9 DEF Consecutive
<1>8. CASE ReadRequest
  <2>1. CASE pipe # <<>>
    <3>1. /\ request' = <<Head(pipe)>> /\ pipe' = Tail(pipe)
          /\ UNCHANGED <<child, message, request_id>>
      BY <1>8, <2>1 DEF ReadRequest, generator
    <3>2. /\ pipe \in Seq(Request) /\ Len(pipe) \in Nat \ {0}
      BY <1>0, <2>1, EmptySeq DEF Processes
    <3>3. /\ request'[1] = pipe[1] /\ request' # <<>>
          /\ pipe' \in Seq(Request) /\ Len(pipe') = Len(pipe) - 1
          /\ \A i \in 1 .. Len(pipe') : pipe'[i] = pipe[i + 1]
      BY <2>1, <3>1, <3>2, HeadTailProperties
    <3>4. pipe' = <<>> <=> Len(pipe) = 1
      BY <3>2, <3>3, EmptySeq
    <3>5. \A i \in 1 .. Len(pipe') - 1 : pipe'[i + 1].id = Succ(pipe'[i].id)
      BY <1>0, <3>2, <3>3 DEF Consecutive
    <3>6. pipe' # <<>> => pipe'[1].id = Succ(request'[1].id)
      BY <1>0, <3>2, <3>3, <3>4 DEF Consecutive
    <3>7. pipe' # <<>> => pipe'[Len(pipe')] = pipe[Len(pipe)]
      BY <3>2, <3>3, <3>4
    <3> QED
      BY <1>0, <2>1, <3>1, <3>3, <3>4, <3>5, <3>6, <3>7 DEF Consecutive, NextId
  <2>2. CASE pipe = <<>>
    BY <1>0, <1>8, <2>2, PipeUntouched DEF ReadRequest, MainEnds, generator
  <2> QED
    BY <2>1, <2>2
<1>9. CASE bbg_client_connect \/ SendRequest \/ ReceiveResponse \/ KillMain
  BY <1>0, <1>9, PipeUntouched
     DEF bbg_client_connect, SendRequest, ReceiveResponse, KillMain, MainEnds,
         NextRequest, generator, sender
<1>10. CASE Restart
  BY <1>10 DEF Restart, Consecutive
<1> QED
  BY <1>1, <1>2, <1>3, <1>4, <1>5, <1>6, <1>7, <1>8, <1>9, <1>10
     DEF Next, Main, Child

\* The table is followed from its beginning, round and round.
LEMMA InTableNext ==
  ASSUME ClientInv, [Next]_vars
  PROVE  InTable'
<1>c. TEST_EVENTS_COUNT = 24
  BY Table
<1>0. /\ Processes /\ InHand /\ InTable /\ TEST_EVENTS_COUNT = 24
      /\ current_event \in 0 .. 23
  BY <1>c DEF ClientInv, Processes
<1>1. CASE UNCHANGED <<child, current_event, parked, message>>
  BY <1>0, <1>1 DEF InTable
<1>2. CASE child' = "gone"
  BY <1>2 DEF InTable
<1>3. CASE Fork \/ CloseReadEnd \/ OpenDevice
  BY <1>0, <1>2, <1>3, Alternates
     DEF Fork, CloseReadEnd, OpenDevice, ChildEnds, Exit, generator, InHand, InTable
<1>4. CASE Generate \/ ReadReturns
  BY <1>0, <1>4 DEF Generate, ReadReturns, InTable
<1>5. CASE WriteMessage
  <2> DEFINE e == test_events[current_event + 1]
  <2>1. /\ parked = Before(current_event) /\ message[1].event = e
        /\ child' = "sleep" /\ current_event' = current_event
    BY <1>0, <1>5 DEF WriteMessage, InTable
  <2>2. parked' = IF e.action = "START_PARKING" THEN parked \cup {e.vehicle}
                  ELSE parked \ {e.vehicle}
    BY <1>5, <2>1 DEF WriteMessage
  <2>3. parked' = Before(current_event + 1)
    BY <1>0, <2>1, <2>2, Alternates
  <2> QED
    BY <2>1, <2>3 DEF InTable
<1>6. CASE NextEvent
  <2>1. /\ parked' = Before(current_event + 1) /\ child' = "generate"
        /\ current_event' = (current_event + 1) % 24
    BY <1>0, <1>6 DEF NextEvent, InTable
  <2>2. CASE current_event = 23
    <3>1. current_event' = 0 /\ parked' = Before(24)
      BY <2>1, <2>2
    <3>2. Before(24) = Before(0)
      BY Alternates
    <3> QED
      BY <2>1, <3>1, <3>2 DEF InTable
  <2>3. CASE current_event # 23
    <3>1. current_event' = current_event + 1
      BY <1>0, <2>1, <2>3
    <3> QED
      BY <2>1, <3>1 DEF InTable
  <2> QED
    BY <2>2, <2>3
<1>7. CASE BrokenPipe \/ StopChild \/ KillChild
  BY <1>2, <1>7 DEF BrokenPipe, StopChild, KillChild, ChildEnds
<1>8. CASE Restart
  BY <1>8 DEF Restart, InTable
<1>9. CASE \/ LoadConfiguration \/ CreatePipe \/ CloseWriteEnd \/ InitLogger
           \/ ReadRequest \/ bbg_client_connect \/ SendRequest
           \/ ReceiveResponse \/ KillMain
  BY <1>1, <1>9 DEF LoadConfiguration, CreatePipe, CloseWriteEnd, InitLogger,
                    ReadRequest, bbg_client_connect, SendRequest,
                    ReceiveResponse, KillMain, generator
<1>10. CASE UNCHANGED vars \/ ((Firmware \/ Bus) /\ UNCHANGED client)
  BY <1>1, <1>10 DEF vars, client, generator
<1> QED
  BY <1>3, <1>4, <1>5, <1>6, <1>7, <1>8, <1>9, <1>10 DEF Next, Main, Child

-----------------------------------------------------------------------------
(* The system.                                                             *)

\* The simulator's invariant survives the steps of the client too.
LEMMA GpsNext ==
  ASSUME GpsInv, [Next]_vars
  PROVE  GpsInv'
<1>1. CASE UNCHANGED gps
  BY <1>1, GpsUnchanged
<1>2. CASE Firmware \/ Bus
  BY <1>2, FirmwareNext, BusNext
<1>3. CASE Generate
  BY <1>3, StartReadNext DEF Generate
<1>4. CASE ReadReturns
  BY <1>4, ReadReturnsNext
<1>5. CASE Main \/ KillMain \/ KillChild \/ Restart \/ UNCHANGED vars
  BY <1>1, <1>5
     DEF Main, LoadConfiguration, CreatePipe, Fork, CloseWriteEnd, InitLogger,
         ReadRequest, bbg_client_connect, SendRequest, ReceiveResponse, KillMain,
         KillChild, Restart, vars
<1>6. CASE \/ CloseReadEnd \/ OpenDevice \/ WriteMessage \/ BrokenPipe
           \/ NextEvent \/ StopChild
  BY <1>1, <1>6 DEF CloseReadEnd, OpenDevice, WriteMessage, BrokenPipe, NextEvent,
                    StopChild
<1> QED
  BY <1>2, <1>3, <1>4, <1>5, <1>6 DEF Next, Child

\* The I2C process comes to write only with a coordinate that it has just read.
LEMMA WholeNext ==
  ASSUME GpsInv, WholeCoordinate, [Next]_vars
  PROVE  WholeCoordinate'
<1>1. CASE child' # "write"
  BY <1>1 DEF WholeCoordinate
<1>2. CASE UNCHANGED <<child, coordinate>>
  BY <1>2 DEF WholeCoordinate
<1>3. CASE ReadReturns
  <2>1. CASE master = "ok"
    BY <1>3, <2>1, ReadReturnsNext DEF ReadReturns, WholeCoordinate
  <2>2. CASE master # "ok"
    BY <1>1, <1>3, <2>2 DEF ReadReturns
  <2> QED
    BY <2>1, <2>2
<1>4. CASE Fork
  BY <1>1, <1>2, <1>4 DEF Fork, generator
<1>5. CASE Main /\ ~Fork
  BY <1>2, <1>5
     DEF Main, LoadConfiguration, CreatePipe, CloseWriteEnd, InitLogger,
         ReadRequest, bbg_client_connect, SendRequest, ReceiveResponse, generator
<1>6. CASE Child /\ ~ReadReturns
  BY <1>1, <1>6
     DEF Child, CloseReadEnd, OpenDevice, Generate, WriteMessage, BrokenPipe,
         NextEvent, StopChild, ChildEnds
<1>7. CASE KillMain \/ KillChild \/ Restart
  BY <1>1, <1>2, <1>7 DEF KillMain, KillChild, Restart, ChildEnds, generator
<1>8. CASE UNCHANGED vars \/ ((Firmware \/ Bus) /\ UNCHANGED client)
  BY <1>2, <1>8 DEF vars, client, generator
<1> QED
  BY <1>3, <1>4, <1>5, <1>6, <1>7, <1>8 DEF Next

\* The invariant holds when both devices are switched on.
LEMMA InitInv ==
  ASSUME Init
  PROVE  IInv
<1>1. GpsInv
  <2>1. hi2c \in Handle /\ hi2c.State = "RESET"
    BY DEF Init, GpsInit, Handle, Interrupts
  <2>2. 0 \in DOMAIN gps_coordinates
    BY CoordinatesAssumption DEF gps_coordinates
  <2> QED
    BY <2>1, <2>2 DEF Init, GpsInit, GpsInv, GpsTyped, FlagsInOrder, Recoverable,
                      Received, Serving
<1>2. Processes /\ InHand
  <2>1. 1 \in Id /\ 0 \in 0 .. TEST_EVENTS_COUNT - 1 /\ <<>> \in OneOrNone
    BY ClientAssumption, Table DEF Id, OneOrNone
  <2>2. pipe \in Seq(Request) /\ Len(pipe) = 0 /\ Len(pipe) <= PipeCapacity
    BY ClientAssumption DEF Init
  <2> QED
    BY <2>1, <2>2 DEF Init, Processes, InHand
<1>3. Consecutive /\ InTable /\ WholeCoordinate
  BY DEF Init, Consecutive, InTable, WholeCoordinate
<1> QED
  BY <1>1, <1>2, <1>3 DEF IInv, ClientInv

\* Every step of the processes, of systemd, of the firmware and of the bus keeps
\* the invariant.
THEOREM Invariance == Spec => []IInv
<1>1. Init => IInv
  BY InitInv
<1>2. IInv /\ [Next]_vars => IInv'
  BY ProcessesNext, InHandNext, ConsecutiveNext, InTableNext, GpsNext, WholeNext
     DEF IInv, ClientInv
<1> QED
  BY <1>1, <1>2, PTL DEF Spec

\* The simulator is never deaf: whatever transfers were cut short, and in
\* whichever order STOP, NACK and bus errors were handled, the HAL is in a
\* state from which the next address is answered, and HAL_I2C_ListenCpltCallback
\* has not run into Error_Handler().
THEOREM Listens == Spec => []SimulatorListens
<1>1. IInv => SimulatorListens
  BY DEF IInv, GpsInv, Recoverable, Awake, SimulatorListens
<1> QED
  BY <1>1, Invariance, PTL

\* The latitude and the longitude that the I2C process puts into a request are
\* of one table entry, whenever the timer ticks.
THEOREM Whole == Spec => []WholeCoordinate
<1>1. IInv => WholeCoordinate
  BY DEF IInv
<1> QED
  BY <1>1, Invariance, PTL

\* generate_test_message starts only vehicles that are not parked and ends only
\* parked ones, across the wrap-around of current_event.
THEOREM Alternate == Spec => []EventsAlternate
<1>1. IInv => EventsAlternate
  <2>1. ASSUME ClientInv, child = "write"
        PROVE  /\ message[1].event = test_events[current_event + 1]
               /\ parked = Before(current_event) /\ current_event \in 0 .. 23
    BY <2>1, Table DEF ClientInv, InTable, Processes
  <2> QED
    BY <2>1, Alternates DEF IInv, EventsAlternate
<1> QED
  BY <1>1, Invariance, PTL

-----------------------------------------------------------------------------
(* What is on the way, as one sequence.                                    *)

Linked(s) == \A i \in 1 .. Len(s) - 1 : s[i + 1].id = Succ(s[i].id)

\* Two linked sequences, the second beginning where the first ends, make one.
LEMMA LinkedConcat ==
  ASSUME NEW s \in Seq(Request), NEW t \in Seq(Request), Linked(s), Linked(t),
         s # <<>> /\ t # <<>> => t[1].id = Succ(s[Len(s)].id)
  PROVE  /\ s \o t \in Seq(Request) /\ Linked(s \o t)
         /\ Len(s \o t) = Len(s) + Len(t)
         /\ t # <<>> => (s \o t)[Len(s \o t)] = t[Len(t)]
         /\ t = <<>> => s \o t = s
         /\ s = <<>> => s \o t = t
<1>1. /\ s \o t \in Seq(Request) /\ Len(s \o t) = Len(s) + Len(t)
      /\ \A i \in 1 .. Len(s) + Len(t) :
           (s \o t)[i] = IF i <= Len(s) THEN s[i] ELSE t[i - Len(s)]
  BY ConcatProperties
<1>2. /\ Len(s) \in Nat /\ Len(t) \in Nat
      /\ (s = <<>> <=> Len(s) = 0) /\ (t = <<>> <=> Len(t) = 0)
  BY EmptySeq
<1>3. ASSUME NEW i \in 1 .. Len(s \o t) - 1
      PROVE  (s \o t)[i + 1].id = Succ((s \o t)[i].id)
  <2>1. CASE i + 1 <= Len(s)
    BY <1>1, <1>2, <2>1 DEF Linked
  <2>2. CASE i = Len(s)
    <3>1. (s \o t)[i + 1] = t[1] /\ (s \o t)[i] = s[Len(s)]
      BY <1>1, <1>2, <2>2
    <3> QED
      BY <1>1, <1>2, <2>2, <3>1
  <2>3. CASE i > Len(s)
    <3>1. (s \o t)[i + 1] = t[(i - Len(s)) + 1] /\ (s \o t)[i] = t[i - Len(s)]
      BY <1>1, <1>2, <2>3
    <3>2. i - Len(s) \in 1 .. Len(t) - 1
      BY <1>1, <1>2, <2>3
    <3> QED
      BY <3>1, <3>2 DEF Linked
  <2> QED
    BY <1>2, <2>1, <2>2, <2>3
<1>4. t # <<>> => (s \o t)[Len(s \o t)] = t[Len(t)]
  BY <1>1, <1>2
<1>5. /\ t = <<>> => s \o t = s
      /\ s = <<>> => s \o t = t
  OBVIOUS
<1> QED
  BY <1>1, <1>3, <1>4, <1>5 DEF Linked

\* What is on the way is linked, and leads to the id that is given out next.
LEMMA OnTheWayLinked ==
  ASSUME ClientInv
  PROVE  /\ OnTheWay \in Seq(Request) /\ Linked(OnTheWay)
         /\ OnTheWay # <<>> /\ child \notin {"stop", "gone"} =>
              request_id = Succ(OnTheWay[Len(OnTheWay)].id)
<1>0. Processes /\ InHand /\ Consecutive
  BY DEF ClientInv
<1>1. /\ request \in Seq(Request) /\ (request # <<>> => Len(request) = 1)
      /\ message \in Seq(Request) /\ (message # <<>> => Len(message) = 1)
      /\ pipe \in Seq(Request)
  <2>e. <<>> \in Seq(Request)
    OBVIOUS
  <2>r. \A r \in Request : <<r>> \in Seq(Request) /\ Len(<<r>>) = 1
    OBVIOUS
  <2>1. \A s \in OneOrNone : s \in Seq(Request) /\ (s # <<>> => Len(s) = 1)
    BY <2>e, <2>r DEF OneOrNone
  <2> QED
    BY <1>0, <2>1 DEF Processes
<1>2. Linked(request) /\ Linked(pipe) /\ Linked(message)
  BY <1>0, <1>1, EmptySeq DEF Linked, Consecutive
<1> DEFINE rp == request \o pipe
<1>3. /\ rp \in Seq(Request) /\ Linked(rp)
      /\ pipe # <<>> => rp[Len(rp)] = pipe[Len(pipe)]
      /\ pipe = <<>> => rp = request
      /\ request = <<>> => rp = pipe
  BY <1>0, <1>1, <1>2, LinkedConcat DEF Consecutive
<1>4. OnTheWay = rp \o message
  BY DEF OnTheWay
<1> HIDE DEF rp
<1>5. child \notin {"stop", "gone"} /\ rp # <<>> => NextId = Succ(rp[Len(rp)].id)
  BY <1>0, <1>1, <1>3 DEF Consecutive
<1>6. message # <<>> => child \notin {"stop", "gone"} /\ NextId = message[1].id
  BY <1>0 DEF InHand, NextId
<1>7. /\ rp \o message \in Seq(Request) /\ Linked(rp \o message)
      /\ message # <<>> =>
           (rp \o message)[Len(rp \o message)] = message[Len(message)]
      /\ message = <<>> => rp \o message = rp
  BY <1>1, <1>2, <1>3, <1>5, <1>6, LinkedConcat
<1>8. CASE message # <<>>
  BY <1>0, <1>1, <1>4, <1>7, <1>8 DEF Consecutive
<1>9. CASE message = <<>>
  BY <1>4, <1>5, <1>7, <1>9 DEF NextId
<1> QED
  BY <1>4, <1>7, <1>8, <1>9

\* Between the two processes no request is lost, doubled or overtaken, whatever
\* the server does and however full the pipe is; and main ends with status 0
\* only when everything that the I2C process wrote was tried.
THEOREM InOrder == Spec => []PipeInOrder
<1>1. IInv => PipeInOrder
  <2> SUFFICES ASSUME ClientInv PROVE PipeInOrder
    BY DEF IInv
  <2>0. status = "zero" => pipe = <<>> /\ child = "gone"
    BY DEF ClientInv, InHand
  <2> DEFINE way == OnTheWay
             given == [i \in 1 .. Len(way) |-> way[i].id]
             next == IF child \in {"stop", "gone"} THEN <<>> ELSE <<request_id>>
             ids == given \o next
  <2>1. /\ way \in Seq(Request) /\ Linked(way) /\ Len(way) \in Nat
        /\ Len(way) # 0 /\ child \notin {"stop", "gone"} =>
             request_id = Succ(way[Len(way)].id)
    BY OnTheWayLinked, EmptySeq
  <2>2. request_id \in Id
    BY DEF ClientInv, Processes
  <2>n. /\ next \in Seq(Id)
        /\ child \in {"stop", "gone"} => Len(next) = 0
        /\ child \notin {"stop", "gone"} => Len(next) = 1 /\ next[1] = request_id
    BY <2>2
  <2>p. PipeInOrder <=>
          /\ \A i \in 1 .. Len(ids) - 1 : ids[i + 1] = Succ(ids[i])
          /\ status = "zero" => pipe = <<>> /\ child = "gone"
    BY DEF PipeInOrder, Succ
  <2> HIDE DEF way, next
  <2>3. \A i \in 1 .. Len(way) : way[i] \in Request
    BY <2>1, ElementOfSeq
  <2>4. given \in Seq(Id) /\ Len(given) = Len(way)
    BY <2>1, <2>3 DEF Request
  <2>5. \A i \in 1 .. Len(way) : given[i] = way[i].id
    OBVIOUS
  <2> HIDE DEF given
  <2>6. /\ Len(ids) = Len(way) + Len(next)
        /\ \A i \in 1 .. Len(way) + Len(next) :
             ids[i] = IF i <= Len(way) THEN given[i] ELSE next[i - Len(way)]
    <3> HIDE DEF ids
    <3>1. \A s, t \in Seq(Id) :
            /\ Len(s \o t) = Len(s) + Len(t)
            /\ \A i \in 1 .. Len(s) + Len(t) :
                 (s \o t)[i] = IF i <= Len(s) THEN s[i] ELSE t[i - Len(s)]
      BY ConcatProperties
    <3>2. ids = given \o next
      BY DEF ids
    <3>3. /\ Len(ids) = Len(given) + Len(next)
          /\ \A i \in 1 .. Len(given) + Len(next) :
               ids[i] = IF i <= Len(given) THEN given[i] ELSE next[i - Len(given)]
      BY <2>n, <2>4, <3>1, <3>2
    <3> QED
      BY <2>4, <3>3
  <2> HIDE DEF ids
  <2>7. ASSUME NEW i \in 1 .. Len(ids) - 1
        PROVE  ids[i + 1] = Succ(ids[i])
    <3>1. CASE i + 1 <= Len(way)
      <4>1. ids[i + 1] = way[i + 1].id /\ ids[i] = way[i].id
        BY <2>1, <2>n, <2>5, <2>6, <3>1
      <4> QED
        BY <2>1, <3>1, <4>1 DEF Linked
    <3>2. CASE i + 1 > Len(way)
      <4>1. i = Len(way) /\ child \notin {"stop", "gone"}
        BY <2>1, <2>n, <2>6, <3>2
      <4>2. ids[i + 1] = request_id /\ ids[i] = way[Len(way)].id
        BY <2>1, <2>n, <2>5, <2>6, <4>1
      <4> QED
        BY <2>1, <4>1, <4>2
    <3> QED
      BY <2>1, <3>1, <3>2
  <2> QED
    BY <2>0, <2>7, <2>p
<1> QED
  BY <1>1, Invariance, PTL

-----------------------------------------------------------------------------
(* Type correctness.                                                       *)

-----------------------------------------------------------------------------
(* The configuration.  Loops over data are recursive functions: that they   *)
(* have a value, and what is true of it, is shown by a counterexample with *)
(* as few turns as possible.                                               *)

\* A set of natural numbers that is not empty has a least element, Min.
LEMMA MinProperty ==
  ASSUME NEW S \in SUBSET Nat, S # {}
  PROVE  Min(S) \in S /\ \A n \in S : Min(S) <= n
<1>1. PICK m \in S : \A n \in S : ~(<<n, m>> \in OpToRel(<, Nat))
  BY NatLessThanWellFounded, WFMin
<1>2. \A n \in S : ~(n < m)
  BY <1>1 DEF OpToRel
<1>3. \A n \in S : m <= n
  BY <1>2
<1> QED
  BY <1>3 DEF Min

\* The bodies a loop of N turns over states in S may have, and the function
\* that gives the state after each turn.
Bodies(N, S) == [1 .. N -> [S -> S]]
Runs(N, S, start, body) ==
  {g \in [0 .. N -> S] :
     g[0] = start /\ \A n \in 1 .. N : g[n] = body[n][g[n - 1]]}

\* A loop has a result: there is such a function for every start and body.
LEMMA LoopExists ==
  ASSUME NEW N \in Nat, NEW S, NEW start \in S, NEW body \in Bodies(N, S)
  PROVE  Runs(N, S, start, body) # {}
<1> USE DEF Bodies, Runs
<1> DEFINE Good(m) == \E g \in [0 .. m -> S] :
                        /\ g[0] = start
                        /\ \A n \in 1 .. m : g[n] = body[n][g[n - 1]]
           Bad == {m \in 0 .. N : ~Good(m)}
<1> SUFFICES ASSUME ~Good(N)
             PROVE  FALSE
  BY Zenon
<1>1. Bad \in SUBSET Nat /\ N \in Bad
  OBVIOUS
<1>2. PICK m \in Bad : \A n \in Bad : m <= n
  <2> HIDE DEF Bad
  <2> QED
    BY <1>1, MinProperty
<1>3. Good(0)
  <2> DEFINE g == [n \in 0 .. 0 |-> start]
  <2>1. g \in [0 .. 0 -> S] /\ g[0] = start
    OBVIOUS
  <2>2. \A n \in 1 .. 0 : g[n] = body[n][g[n - 1]]
    OBVIOUS
  <2> HIDE DEF g
  <2> QED
    BY <2>1, <2>2
<1>4. m \in 0 .. N /\ m # 0 /\ ~Good(m)
  BY <1>2, <1>3
<1>5. Good(m - 1)
  <2>1. m - 1 \in 0 .. N /\ ~(m <= m - 1)
    BY <1>4
  <2> HIDE DEF Good
  <2> QED
    BY <1>2, <2>1
<1>6. PICK g \in [0 .. m - 1 -> S] :
        g[0] = start /\ \A n \in 1 .. m - 1 : g[n] = body[n][g[n - 1]]
  BY <1>5
<1> DEFINE h == [n \in 0 .. m |-> IF n = m THEN body[m][g[m - 1]] ELSE g[n]]
<1>7. body[m][g[m - 1]] \in S
  BY <1>4, <1>6
<1>8. h \in [0 .. m -> S] /\ h[0] = start
  BY <1>4, <1>6, <1>7
<1>9. \A n \in 1 .. m : h[n] = body[n][h[n - 1]]
  BY <1>4, <1>6
<1> HIDE DEF h
<1> QED
  BY <1>4, <1>8, <1>9

-----------------------------------------------------------------------------
(* The parser.                                                             *)

EntriesOf(file) == {EntryOf(file[i]) : i \in DOMAIN file}
Loading(file) == [status : {0, -1}, entries : Seq(EntriesOf(file))]

\* The pieces among the first n that are entries, and those with the key.
Written(file, n) == {i \in 1 .. n : IsEntry(file[i])}
Keyed(file, key, n) == {i \in Written(file, n) : EntryOf(file[i]).key = key}

\* What is true of the configuration after n pieces.
Loaded(file, key, n, config) ==
  /\ config \in Loading(file)
  /\ config.status = -1 =>
       Cardinality(Written(file, n)) > CONFIG_MAX_ENTRIES
  /\ config.status = 0 =>
       /\ Len(config.entries) = Cardinality(Written(file, n))
       /\ Len(config.entries) <= CONFIG_MAX_ENTRIES
       /\ \/ Keyed(file, key, n) = {} /\ WithKey(config, key) = {}
          \/ \E i \in Keyed(file, key, n), k \in WithKey(config, key) :
               /\ \A j \in Keyed(file, key, n) : i <= j
               /\ \A j \in WithKey(config, key) : k <= j
               /\ config.entries[k] = EntryOf(file[i])

\* An empty configuration has been loaded from no pieces.
LEMMA LoadStart ==
  ASSUME NEW file, NEW key
  PROVE  Loaded(file, key, 0, [status |-> 0, entries |-> <<>>])
<1> DEFINE c == [status |-> 0, entries |-> <<>>]
<1>1. c \in Loading(file) /\ Len(c.entries) = 0 /\ DOMAIN c.entries = {}
  BY EmptySeq DEF Loading
<1>2. Written(file, 0) = {} /\ Keyed(file, key, 0) = {}
  BY DEF Written, Keyed
<1>3. Cardinality(Written(file, 0)) = 0
  BY <1>2, FS_EmptySet
<1>4. WithKey(c, key) = {}
  BY <1>1 DEF WithKey
<1>5. c.status = 0
  OBVIOUS
<1> HIDE DEF c
<1>6. Loaded(file, key, 0, c)
  BY <1>1, <1>2, <1>3, <1>4, <1>5, ConfigAssumption DEF Loaded
<1> QED
  BY <1>6 DEF c

\* The n-th piece is an entry or it is not.
LEMMA WrittenNext ==
  ASSUME NEW file, NEW key, NEW n \in Nat \ {0}
  PROVE  /\ Cardinality(Written(file, n - 1)) \in Nat
         /\ IsEntry(file[n]) =>
              /\ Cardinality(Written(file, n)) =
                   Cardinality(Written(file, n - 1)) + 1
              /\ EntryOf(file[n]).key = key =>
                   Keyed(file, key, n) = Keyed(file, key, n - 1) \cup {n}
              /\ EntryOf(file[n]).key # key =>
                   Keyed(file, key, n) = Keyed(file, key, n - 1)
         /\ ~IsEntry(file[n]) =>
              /\ Written(file, n) = Written(file, n - 1)
              /\ Keyed(file, key, n) = Keyed(file, key, n - 1)
<1>1. 1 .. n = (1 .. n - 1) \cup {n} /\ n \notin 1 .. n - 1
  OBVIOUS
<1>2. IsFiniteSet(1 .. n - 1)
  BY FS_Interval
<1>3. IsFiniteSet(Written(file, n - 1))
  BY <1>2, FS_Subset DEF Written
<1>4. n \notin Written(file, n - 1)
  BY <1>1 DEF Written
<1>5. Written(file, n) =
        IF IsEntry(file[n]) THEN Written(file, n - 1) \cup {n}
        ELSE Written(file, n - 1)
  BY <1>1 DEF Written
<1>6. Cardinality(Written(file, n - 1)) \in Nat
  BY <1>3, FS_CardinalityType
<1>7. IsEntry(file[n]) => Cardinality(Written(file, n)) =
                            Cardinality(Written(file, n - 1)) + 1
  BY <1>3, <1>4, <1>5, FS_AddElement
<1>8. IsEntry(file[n]) =>
        /\ EntryOf(file[n]).key = key =>
             Keyed(file, key, n) = Keyed(file, key, n - 1) \cup {n}
        /\ EntryOf(file[n]).key # key =>
             Keyed(file, key, n) = Keyed(file, key, n - 1)
  BY <1>5, Zenon DEF Keyed
<1> QED
  BY <1>5, <1>6, <1>7, <1>8 DEF Keyed

\* One turn of the loop: the first entry with the key stays the first one.
LEMMA LoadNext ==
  ASSUME NEW file \in Seq(Piece), NEW key, NEW n \in 1 .. Len(file),
         NEW c, Loaded(file, key, n - 1, c)
  PROVE  Loaded(file, key, n, LoadPiece(c, file[n]))
<1> DEFINE e == EntryOf(file[n])
           w == Cardinality(Written(file, n - 1))
           d == [c EXCEPT !.entries = Append(@, e)]
<1>0. n \in Nat \ {0} /\ DOMAIN file = 1 .. Len(file)
  OBVIOUS
<1>1. /\ w \in Nat
      /\ IsEntry(file[n]) =>
           /\ Cardinality(Written(file, n)) = w + 1
           /\ e.key = key =>
                Keyed(file, key, n) = Keyed(file, key, n - 1) \cup {n}
           /\ e.key # key => Keyed(file, key, n) = Keyed(file, key, n - 1)
      /\ ~IsEntry(file[n]) =>
           /\ Written(file, n) = Written(file, n - 1)
           /\ Keyed(file, key, n) = Keyed(file, key, n - 1)
  <2>1. /\ w \in Nat
        /\ IsEntry(file[n]) => Cardinality(Written(file, n)) = w + 1
    BY <1>0, WrittenNext
  <2>2. ~IsEntry(file[n]) => /\ Written(file, n) = Written(file, n - 1)
                             /\ Keyed(file, key, n) = Keyed(file, key, n - 1)
    BY <1>0, WrittenNext
  <2>3. IsEntry(file[n]) /\ e.key = key =>
          Keyed(file, key, n) = Keyed(file, key, n - 1) \cup {n}
    BY <1>0, WrittenNext
  <2>4. IsEntry(file[n]) /\ e.key # key =>
          Keyed(file, key, n) = Keyed(file, key, n - 1)
    BY <1>0, WrittenNext
  <2> QED
    BY <2>1, <2>2, <2>3, <2>4
<1>2. c \in Loading(file)
  BY DEF Loaded
<1>3. c.status \in {0, -1} /\ c.entries \in Seq(EntriesOf(file))
  BY <1>2 DEF Loading
<1>4. e \in EntriesOf(file)
  BY <1>0 DEF EntriesOf
<1> HIDE DEF e, w
<1>5. CASE ~IsEntry(file[n])
  BY <1>1, <1>5, Zenon DEF LoadPiece, Loaded
<1>6. CASE c.status # 0 /\ IsEntry(file[n])
  <2>1. LoadPiece(c, file[n]) = c /\ c.status = -1
    BY <1>3, <1>6 DEF LoadPiece
  <2>2. w > CONFIG_MAX_ENTRIES
    BY <2>1 DEF Loaded, w
  <2>3. Cardinality(Written(file, n)) > CONFIG_MAX_ENTRIES
    BY <1>1, <1>6, <2>2, ConfigAssumption
  <2> QED
    BY <1>2, <2>1, <2>3 DEF Loaded
<1>7. CASE /\ c.status = 0 /\ IsEntry(file[n])
           /\ Len(c.entries) >= CONFIG_MAX_ENTRIES
  <2> DEFINE f == [c EXCEPT !.status = -1]
  <2>1. LoadPiece(c, file[n]) = f
    BY <1>7 DEF LoadPiece
  <2>2. f \in Loading(file) /\ f.status = -1
    BY <1>2 DEF Loading
  <2>3. Len(c.entries) = w
    BY <1>7 DEF Loaded, w
  <2>4. Cardinality(Written(file, n)) > CONFIG_MAX_ENTRIES
    BY <1>1, <1>7, <2>3, ConfigAssumption
  <2> HIDE DEF f
  <2> QED
    BY <2>1, <2>2, <2>4 DEF Loaded
<1>8. CASE /\ c.status = 0 /\ IsEntry(file[n])
           /\ ~(Len(c.entries) >= CONFIG_MAX_ENTRIES)
  <2> DEFINE l == Len(c.entries) + 1
  <2>1. LoadPiece(c, file[n]) = d
    BY <1>8 DEF LoadPiece, e
  <2>2. /\ d \in Loading(file) /\ d.status = 0 /\ d.status # -1
        /\ d.entries = Append(c.entries, e)
    <3> DEFINE a == Append(c.entries, e)
    <3>1. a \in Seq(EntriesOf(file))
      BY <1>3, <1>4, AppendProperties
    <3> HIDE DEF a
    <3>2. d = [c EXCEPT !.entries = a]
      BY DEF a
    <3>3. d.status = 0 /\ d.entries = a /\ d \in Loading(file)
      BY <1>2, <1>8, <3>1, <3>2 DEF Loading
    <3> QED
      BY <3>3 DEF a
  <2>3. /\ Len(c.entries) \in Nat /\ Len(d.entries) = l
        /\ \A k \in 1 .. Len(c.entries) : d.entries[k] = c.entries[k]
        /\ d.entries[l] = e
        /\ DOMAIN d.entries = 1 .. l /\ DOMAIN c.entries = 1 .. Len(c.entries)
    BY <1>3, <1>4, <2>2, AppendProperties
  <2>4. Len(c.entries) = w
    BY <1>8 DEF Loaded, w
  <2>5. /\ Len(d.entries) = Cardinality(Written(file, n))
        /\ Len(d.entries) <= CONFIG_MAX_ENTRIES
    BY <1>1, <1>8, <2>3, <2>4, ConfigAssumption
  <2> HIDE DEF d
  <2>6. /\ e.key = key => WithKey(d, key) = WithKey(c, key) \cup {l}
        /\ e.key # key => WithKey(d, key) = WithKey(c, key)
    <3>1. \A k : k \in 1 .. l <=> (k \in 1 .. Len(c.entries) \/ k = l)
      BY <2>3
    <3> QED
      BY <2>3, <3>1, Zenon DEF WithKey
  <2>7. /\ \A k \in WithKey(c, key) : /\ k \in Nat /\ k < l
                                      /\ d.entries[k] = c.entries[k]
        /\ \A i \in Keyed(file, key, n - 1) : i \in Nat /\ i < n
    BY <2>3 DEF WithKey, Keyed, Written
  <2> DEFINE K == Keyed(file, key, n)
             F == WithKey(d, key)
             First == \E i \in K, k \in F :
                        /\ \A j \in K : i <= j
                        /\ \A j \in F : k <= j
                        /\ d.entries[k] = EntryOf(file[i])
  <2>8. CASE Keyed(file, key, n - 1) = {} /\ WithKey(c, key) = {}
    <3>1. CASE e.key = key
      <4>1. K = {n} /\ F = {l}
        BY <1>1, <1>8, <2>6, <2>8, <3>1
      <4>2. First
        BY <2>3, <4>1 DEF e
      <4> QED
        BY <2>1, <2>2, <2>5, <4>2, Zenon DEF Loaded
    <3>2. CASE e.key # key
      <4>1. K = {} /\ F = {}
        BY <1>1, <1>8, <2>6, <2>8, <3>2
      <4> QED
        BY <2>1, <2>2, <2>5, <4>1 DEF Loaded
    <3> QED
      BY <3>1, <3>2
  <2>9. ASSUME NEW i \in Keyed(file, key, n - 1), NEW k \in WithKey(c, key),
               \A j \in Keyed(file, key, n - 1) : i <= j,
               \A j \in WithKey(c, key) : k <= j,
               c.entries[k] = EntryOf(file[i])
        PROVE  Loaded(file, key, n, d)
    <3>1. i \in K /\ \A j \in K : i <= j
      BY <1>1, <1>8, <2>7, <2>9
    <3>2. k \in F /\ \A j \in F : k <= j
      BY <2>3, <2>6, <2>7, <2>9
    <3>3. d.entries[k] = EntryOf(file[i])
      BY <2>7, <2>9
    <3>4. First
      BY <3>1, <3>2, <3>3
    <3> QED
      BY <2>2, <2>5, <3>4, Zenon DEF Loaded
  <2>10. \/ Keyed(file, key, n - 1) = {} /\ WithKey(c, key) = {}
         \/ \E i \in Keyed(file, key, n - 1), k \in WithKey(c, key) :
              /\ \A j \in Keyed(file, key, n - 1) : i <= j
              /\ \A j \in WithKey(c, key) : k <= j
              /\ c.entries[k] = EntryOf(file[i])
    BY <1>8 DEF Loaded
  <2> QED
    BY <2>1, <2>8, <2>9, <2>10
<1> QED
  BY <1>5, <1>6, <1>7, <1>8

\* The loop as a function on its own.
After(file) ==
  CHOOSE after : after = [n \in 0 .. Len(file) |->
                            IF n = 0 THEN [status |-> 0, entries |-> <<>>]
                            ELSE LoadPiece(after[n - 1], file[n])]

\* It does what its definition says: such a function exists.
LEMMA AfterProperty ==
  ASSUME NEW file \in Seq(Piece)
  PROVE  /\ config_load(file) = After(file)[Len(file)]
         /\ After(file)[0] = [status |-> 0, entries |-> <<>>]
         /\ \A n \in 1 .. Len(file) :
              After(file)[n] = LoadPiece(After(file)[n - 1], file[n])
<1> DEFINE N == Len(file)
           S == Loading(file)
           start == [status |-> 0, entries |-> <<>>]
           body == [n \in 1 .. N |-> [c \in S |-> LoadPiece(c, file[n])]]
<1>1. N \in Nat /\ DOMAIN file = 1 .. N
  OBVIOUS
<1>2. start \in S
  BY EmptySeq DEF Loading
<1>3. \A n \in 1 .. N, c \in S : LoadPiece(c, file[n]) \in S
  <2> SUFFICES ASSUME NEW n \in 1 .. N, NEW c \in S
               PROVE  LoadPiece(c, file[n]) \in S
    OBVIOUS
  <2>1. c.entries \in Seq(EntriesOf(file)) /\ EntryOf(file[n]) \in EntriesOf(file)
    BY DEF Loading, EntriesOf
  <2>2. Append(c.entries, EntryOf(file[n])) \in Seq(EntriesOf(file))
    BY <2>1, AppendProperties
  <2> QED
    BY <2>2 DEF Loading, LoadPiece
<1>4. body \in Bodies(N, S)
  BY <1>3 DEF Bodies
<1> HIDE DEF N, S, start, body
<1>5. PICK g \in [0 .. N -> S] :
        g[0] = start /\ \A n \in 1 .. N : g[n] = body[n][g[n - 1]]
  <2>1. Runs(N, S, start, body) # {}
    BY <1>1, <1>2, <1>4, LoopExists, Zenon
  <2> QED
    BY <2>1, Zenon DEF Runs
<1>6. \A n \in 1 .. N : g[n] = LoadPiece(g[n - 1], file[n])
  <2>1. \A n \in 1 .. N : n - 1 \in 0 .. N
    BY <1>1
  <2> QED
    BY <1>1, <1>5, <2>1 DEF body
<1>7. g = [n \in 0 .. Len(file) |-> IF n = 0 THEN start
                                  ELSE LoadPiece(g[n - 1], file[n])]
  <2>1. \A n \in 0 .. N : n # 0 => n \in 1 .. N
    BY <1>1
  <2> QED
    BY <1>5, <1>6, <2>1 DEF N
<1>8. After(file) = [n \in 0 .. Len(file) |->
                       IF n = 0 THEN start
                       ELSE LoadPiece(After(file)[n - 1], file[n])]
  BY <1>7 DEF After, start
<1>9. config_load(file) = After(file)[Len(file)]
  BY DEF config_load, After
<1>10. 0 \in 0 .. Len(file) /\ \A n \in 1 .. Len(file) : n \in 0 .. Len(file) /\ n # 0
  BY <1>1 DEF N
<1> QED
  BY <1>8, <1>9, <1>10 DEF start

\* What config_load returns for any file.
LEMMA LoadResult ==
  ASSUME NEW file \in Seq(Piece), NEW key
  PROVE  Loaded(file, key, Len(file), config_load(file))
<1> DEFINE A == After(file)
           Bad == {n \in 0 .. Len(file) : ~Loaded(file, key, n, A[n])}
<1>1. Len(file) \in Nat
  OBVIOUS
<1>2. SUFFICES ASSUME Bad # {}
               PROVE  FALSE
  BY <1>1, AfterProperty
<1>3. Bad \in SUBSET Nat
  OBVIOUS
<1>4. PICK n \in Bad : \A m \in Bad : n <= m
  <2> HIDE DEF Bad
  <2> QED
    BY <1>2, <1>3, MinProperty
<1>5. n # 0
  BY <1>4, AfterProperty, LoadStart
<1>6. n \in 1 .. Len(file) /\ n - 1 \in 0 .. Len(file) /\ ~(n <= n - 1)
  BY <1>1, <1>4, <1>5
<1>7. Loaded(file, key, n - 1, A[n - 1])
  BY <1>4, <1>6
<1>8. Loaded(file, key, n, LoadPiece(A[n - 1], file[n]))
  BY <1>6, <1>7, LoadNext
<1>9. A[n] = LoadPiece(A[n - 1], file[n])
  BY <1>6, AfterProperty
<1> QED
  BY <1>4, <1>8, <1>9

-----------------------------------------------------------------------------
(* Strings and numbers.                                                    *)

\* The arrays of an entry hold what strncpy() leaves of a word: a prefix of
\* it, and no other text.
LEMMA CutStored ==
  ASSUME NEW word \in Seq(STRING), NEW size \in Nat \ {0}, NEW Characters
  PROVE  /\ \E n \in 0 .. Len(word) :
              /\ Cut(word, size) = SubSeq(word, 1, n)
              /\ Stored(SubSeq(word, 1, n), word, size)
         /\ \A text \in Seq(Characters) :
              Stored(text, word, size) <=> Cut(word, size) = text
<1> DEFINE S == {Len(word), size - 1}
           n == Min(S)
           cut == SubSeq(word, 1, n)
<1>1. S \in SUBSET Nat /\ S # {} /\ Len(word) \in S /\ size - 1 \in S
  OBVIOUS
<1>2. n \in S /\ n <= Len(word) /\ n <= size - 1
  <2> HIDE DEF S
  <2> QED
    BY <1>1, MinProperty
<1>3. n \in 0 .. Len(word)
  BY <1>1, <1>2
<1>4. Cut(word, size) = cut
  BY DEF Cut
<1>5. \/ n = Len(word) /\ Len(word) < size
      \/ n = size - 1 /\ Len(word) >= size
  BY <1>2
<1> HIDE DEF n, S
<1>6. \A i \in 1 .. n : word[i] \in STRING
  BY <1>3
<1>7. cut \in Seq(STRING) /\ Len(cut) = n /\ \A i \in 1 .. n : cut[i] = word[i]
  BY <1>3, <1>6, SubSeqProperties
<1> HIDE DEF cut
<1>8. Stored(cut, word, size)
  BY <1>3, <1>5, <1>7 DEF Stored
<1>9. ASSUME NEW text \in Seq(Characters), Stored(text, word, size)
      PROVE  cut = text
  <2>1. Len(text) = n
    BY <1>3, <1>5, <1>9 DEF Stored
  <2>2. \A i \in 1 .. n : text[i] = word[i]
    BY <1>9, <2>1 DEF Stored
  <2>3. \A i \in 1 .. Len(cut) : cut[i] = text[i]
    BY <1>7, <2>2
  <2> QED
    BY <1>7, <2>1, <2>3
<1> QED
  BY <1>3, <1>4, <1>8, <1>9 DEF cut

\* (int) keeps the low 16 bits, whatever the width of int.
LEMMA LowBits ==
  ASSUME NEW value \in Int
  PROVE  /\ ToInt(value) \in Int
         /\ ToInt(value) % (UINT16_MAX + 1) = value % (UINT16_MAX + 1)
<1> DEFINE M == INT_MAX + 1
           a == value + M
           q == a \div (2 * M)
           k == M \div 65536
<1>1. M \in Nat /\ M > 0 /\ 2 * M \in Nat /\ 2 * M > 0 /\ a \in Int
  BY ConfigAssumption
<1>2. M % 65536 = 0
  BY WidthAssumption, SMTT(60) DEF UINT16_MAX
<1>3. ToInt(value) = (a % (2 * M)) - M
  BY ConfigAssumption DEF ToInt
<1>4. q \in Int /\ a % (2 * M) = a - (2 * M) * q
  <2> DEFINE b == 2 * M
  <2>1. b \in Nat /\ b > 0
    BY <1>1
  <2> HIDE DEF M, a, b
  <2>2. a \div b \in Int /\ a % b = a - b * (a \div b)
    BY <1>1, <2>1
  <2> QED
    BY <2>2 DEF b
<1>5. k \in Int /\ M = 65536 * k
  BY <1>1, <1>2
<1> HIDE DEF M, q, k
<1>6. ToInt(value) = value - (2 * M) * q
  BY <1>1, <1>3, <1>4
<1>7. (2 * M) * q = 65536 * (2 * (k * q)) /\ k * q \in Int
  BY <1>4, <1>5
<1> DEFINE y == k * q
<1>8. y \in Int /\ ToInt(value) = value - 65536 * (2 * y)
  BY <1>6, <1>7
<1> HIDE DEF y
<1>9. ToInt(value) \in Int /\ ToInt(value) % 65536 = value % 65536
  BY <1>8
<1> QED
  BY <1>9, SMTT(60) DEF UINT16_MAX

\* What config_find_entry finds is the entry of a line, so its value is a word
\* that strtol() has an answer for.
LEMMA EntryAnswered ==
  ASSUME NEW file \in ConfigFiles \cup SampleFiles, NEW i \in DOMAIN file
  PROVE  strtol[Cut(file[i].value, CONFIG_MAX_VALUE_LENGTH)] \in StrtolResult
BY StrtolAssumption DEF EntryOf

\* config_get_int returns a number, whatever the file says.
LEMMA IntType ==
  ASSUME NEW file \in ConfigFiles \cup SampleFiles, NEW key,
         NEW default \in Int
  PROVE  config_get_int(config_load(file), key, default) \in Int
<1> DEFINE c == config_load(file)
           i == config_find_entry(c, key)
<1>0. file \in Seq(Piece)
  BY FileAssumption
<1>1. c \in Loading(file)
  BY <1>0, LoadResult DEF Loaded
<1>2. c.entries \in Seq(EntriesOf(file))
  BY <1>1 DEF Loading
<1> HIDE DEF c
<1>3. CASE WithKey(c, key) = {}
  BY <1>3 DEF config_get_int, config_find_entry, c
<1>4. CASE WithKey(c, key) # {}
  <2>1. WithKey(c, key) \in SUBSET (DOMAIN c.entries)
    BY DEF WithKey
  <2>2. DOMAIN c.entries = 1 .. Len(c.entries) /\ Len(c.entries) \in Nat
    BY <1>2
  <2>3. WithKey(c, key) \in SUBSET Nat
    BY <2>1, <2>2
  <2>4. i = Min(WithKey(c, key)) /\ i \in 1 .. Len(c.entries)
    BY <1>4, <2>1, <2>2, <2>3, MinProperty DEF config_find_entry
  <2> HIDE DEF i
  <2>5. c.entries[i] \in EntriesOf(file)
    BY <1>2, <2>4, ElementOfSeq
  <2>6. PICK j \in DOMAIN file : c.entries[i] = EntryOf(file[j])
    BY <2>5 DEF EntriesOf
  <2>7. strtol[c.entries[i].value] \in StrtolResult
    BY <2>6, EntryAnswered DEF EntryOf
  <2>8. ToInt(strtol[c.entries[i].value].value) \in Int
    BY <2>7, LowBits DEF StrtolResult
  <2> QED
    BY <2>8 DEF config_get_int, c, i
<1> QED
  BY <1>3, <1>4

-----------------------------------------------------------------------------
(* The port, and the remaining theorems.                                   *)

\* The largest port is a number.
LEMMA PortBound == UINT16_MAX \in Nat
BY SMTT(60) DEF UINT16_MAX

\* The default port is one.
LEMMA PortDefault ==
  DefaultPort \in Nat /\ DefaultPort % (UINT16_MAX + 1) = DefaultPort
BY SMTT(60) DEF UINT16_MAX, DefaultPort

PortFits == bbg_config \in 0 .. UINT16_MAX

\* server_port is cut to 16 bits wherever it comes from.
LEMMA PortNext ==
  ASSUME PortFits, [Next]_vars
  PROVE  PortFits'
<1> USE DEF PortFits
<1>0. UINT16_MAX \in Nat
  BY PortBound
<1>1. CASE bbg_config' = bbg_config
  BY <1>1
<1>2. CASE LoadConfiguration
  <2>1. CASE UNCHANGED bbg_config
    BY <2>1
  <2>2. ASSUME NEW file \in ConfigFiles,
               bbg_config' = load_bbg_client_configuration(config_load(file))
        PROVE  PortFits'
    <3> DEFINE n == config_get_int(config_load(file), ServerPort, DefaultPort)
    <3>1. n \in Int /\ bbg_config' = n % (UINT16_MAX + 1)
      BY <2>2, IntType, PortDefault DEF load_bbg_client_configuration
    <3> HIDE DEF n
    <3> QED
      BY <1>0, <3>1
  <2> QED
    BY <1>2, <2>1, <2>2, Zenon DEF LoadConfiguration
<1>3. CASE Restart
  BY <1>0, <1>3 DEF Restart
<1>4. CASE Main /\ ~LoadConfiguration
  BY <1>1, <1>4 DEF Main, CreatePipe, Fork, CloseWriteEnd, InitLogger,
                    ReadRequest, bbg_client_connect, SendRequest, ReceiveResponse
<1>5. CASE Child \/ KillMain \/ KillChild
  BY <1>1, <1>5 DEF Child, CloseReadEnd, OpenDevice, Generate, ReadReturns,
                    WriteMessage, BrokenPipe, NextEvent, StopChild, KillMain,
                    KillChild
<1>6. CASE UNCHANGED vars \/ ((Firmware \/ Bus) /\ UNCHANGED client)
  BY <1>1, <1>6 DEF vars, client
<1> QED
  BY <1>2, <1>3, <1>4, <1>5, <1>6 DEF Next

\* Type correctness: the pipe stays within its capacity, indices and ids within
\* their ranges, and each process holds a request exactly where it should.
THEOREM TypeCorrect == Spec => []TypeOK
<1>1. Init => PortFits
  <2>1. UINT16_MAX \in Nat
    BY PortBound
  <2> QED
    BY <2>1 DEF Init, PortFits
<1>2. PortFits /\ [Next]_vars => PortFits'
  BY PortNext
<1>3. IInv /\ PortFits => TypeOK
  <2>1. ASSUME GpsTyped PROVE GpsTypeOK
    <3>1. Len(got) <= 2 /\ Len(txdr) <= 1
      <4>1. Len(<<>>) = 0 /\ Len(<<Half>>) = 1 /\ Len(<<Half, Half>>) = 2
        OBVIOUS
      <4>2. /\ got = <<>> \/ got = <<Half>> \/ got = <<Half, Half>>
            /\ txdr = <<>> \/ txdr = <<Half>>
        BY <2>1, Zenon DEF GpsTyped
      <4>3. Len(got) \in {0, 1, 2} /\ Len(txdr) \in {0, 1}
        BY <4>1, <4>2, Zenon
      <4>4. (\A n \in {0, 1, 2} : n <= 2) /\ (\A n \in {0, 1} : n <= 1)
        OBVIOUS
      <4> QED
        BY <4>3, <4>4, Zenon
    <3> QED
      BY <2>1, <3>1 DEF GpsTyped, GpsTypeOK, Handle, Packed
  <2> QED
    BY <2>1 DEF IInv, GpsInv, ClientInv, Processes, InHand, TypeOK, Id, PortFits
<1> QED
  BY <1>1, <1>2, <1>3, Invariance, PTL DEF Spec

\* config_load refuses exactly the files with too many entries; otherwise the
\* port is the number in the first server_port entry, as much of it as its
\* array holds and modulo 2^16, and the default when there is no such entry or
\* strtol() reports an error or a rest.  For every file, every size of the entry
\* table and of its strings, every width of int and long, and every strtol().
THEOREM Configured == Spec => []ConfigurationAsWritten
<1>1. ASSUME NEW file \in SampleFiles
      PROVE  AsWritten(file)
  <2> DEFINE c == config_load(file)
             n == Len(file)
             W == {i \in DOMAIN file : IsEntry(file[i])}
             K == {i \in W :
                     Cut(file[i].key, CONFIG_MAX_KEY_LENGTH) = ServerPort}
             F == WithKey(c, ServerPort)
             word == file[Min(K)].value
             text == Cut(word, CONFIG_MAX_VALUE_LENGTH)
             number == strtol[text]
             port == load_bbg_client_configuration(c)
             ports == {i \in W : Stored(ServerPort, file[i].key,
                                       CONFIG_MAX_KEY_LENGTH)}
  <2>1. file \in Seq(Piece) /\ DOMAIN file = 1 .. n /\ n \in Nat
    BY FileAssumption
  <2>2. Loaded(file, ServerPort, n, c)
    BY <2>1, LoadResult
  <2>3. W = Written(file, n) /\ K = Keyed(file, ServerPort, n)
    BY <2>1 DEF Written, Keyed, EntryOf
  <2>4. Cardinality(W) \in Nat
    <3>1. IsFiniteSet(1 .. n)
      BY <2>1, FS_Interval
    <3> QED
      BY <2>1, <3>1, FS_Subset, FS_CardinalityType
  <2>5. c.status \in {0, -1} /\ c.entries \in Seq(EntriesOf(file))
    BY <2>2 DEF Loaded, Loading
  <2>6. K \in SUBSET Nat /\ F \in SUBSET Nat
    BY <2>1, <2>5 DEF WithKey
  <2>7. ASSUME c.status = 0
        PROVE  /\ K = {} => port = DefaultPort
               /\ K # {} => port = IF number.errno \/ number.rest THEN DefaultPort
                                  ELSE number.value % (UINT16_MAX + 1)
    <3>0. DefaultPort % (UINT16_MAX + 1) = DefaultPort
      BY PortDefault
    <3> HIDE DEF c, n, W, K, F
    <3>1. \/ K = {} /\ F = {}
          \/ \E i \in K, k \in F : /\ \A j \in K : i <= j
                                   /\ \A j \in F : k <= j
                                   /\ c.entries[k] = EntryOf(file[i])
      BY <2>2, <2>3, <2>7, Zenon DEF Loaded, F
    <3>2. CASE K = {} /\ F = {}
      <4>1. config_find_entry(c, ServerPort) = 0
        BY <3>2 DEF config_find_entry, F
      <4>2. config_get_int(c, ServerPort, DefaultPort) = DefaultPort
        BY <4>1 DEF config_get_int
      <4> QED
        BY <3>0, <3>2, <4>2 DEF load_bbg_client_configuration
    <3>3. CASE K # {}
      <4>0. PICK i \in K, k \in F : /\ \A j \in K : i <= j
                                    /\ \A j \in F : k <= j
                                    /\ c.entries[k] = EntryOf(file[i])
        BY <3>1, <3>3, Zenon
      <4>1. Min(K) = i /\ Min(F) = k
        <5>1. /\ Min(K) \in K /\ Min(K) <= i /\ i <= Min(K)
              /\ Min(F) \in F /\ Min(F) <= k /\ k <= Min(F)
          BY <2>6, <4>0, MinProperty
        <5>2. Min(K) \in Nat /\ i \in Nat /\ Min(F) \in Nat /\ k \in Nat
          BY <2>6, <5>1
        <5> QED
          BY <5>1, <5>2
      <4>2. k # 0
        BY <2>5 DEF WithKey, F
      <4>3. config_find_entry(c, ServerPort) = k
        BY <4>1 DEF config_find_entry, F
      <4>4. c.entries[k].value = text
        BY <4>0, <4>1 DEF EntryOf
      <4>5. number \in StrtolResult
        <5>1. i \in DOMAIN file
          BY <4>0 DEF K, W
        <5> QED
          BY <4>1, <5>1, EntryAnswered
      <4>6. ToInt(number.value) % (UINT16_MAX + 1) =
              number.value % (UINT16_MAX + 1)
        BY <4>5, LowBits DEF StrtolResult
      <4> HIDE DEF number
      <4>7. config_get_int(c, ServerPort, DefaultPort) =
              IF number.errno \/ number.rest THEN DefaultPort ELSE ToInt(number.value)
        BY <4>2, <4>3, <4>4 DEF config_get_int, number
      <4> QED
        BY <3>0, <3>3, <4>6, <4>7 DEF load_bbg_client_configuration
    <3> QED
      BY <3>1, <3>2, <3>3
  <2>8. ports = K
    <3>1. ServerPort \in Seq({"s", "e", "r", "v", "_", "p", "o", "t"})
      BY DEF ServerPort
    <3>2. \A i \in W : file[i].key \in Seq(STRING)
      <4>1. \A i \in W : file[i] \in Piece
        BY <2>1
      <4> QED
        BY <4>1 DEF Piece
    <3> QED
      BY <3>1, <3>2, CutStored, ConfigAssumption
  <2>9. K # {} => \E l \in 0 .. Len(word) :
                    /\ text = SubSeq(word, 1, l)
                    /\ Stored(SubSeq(word, 1, l), word, CONFIG_MAX_VALUE_LENGTH)
    <3>1. SUFFICES ASSUME K # {}
                   PROVE  word \in Seq(STRING)
      BY CutStored, ConfigAssumption
    <3>2. Min(K) \in K
      <4> HIDE DEF K
      <4> QED
        BY <2>6, <3>1, MinProperty
    <3>3. file[Min(K)] \in Piece
      BY <2>1, <3>2
    <3> QED
      BY <3>3 DEF Piece
  <2>10. CASE Cardinality(W) > CONFIG_MAX_ENTRIES
    <3>1. c.status = -1
      <4> HIDE DEF c, n, W, K
      <4>1. c.status # 0
        BY <2>2, <2>3, <2>4, <2>10, ConfigAssumption DEF Loaded
      <4> QED
        BY <2>5, <4>1
    <3> QED
      BY <2>10, <3>1, Zenon DEF AsWritten
  <2>11. CASE ~(Cardinality(W) > CONFIG_MAX_ENTRIES)
    <3>1. c.status = 0
      BY <2>2, <2>3, <2>5, <2>11 DEF Loaded
    <3>2. CASE K = {}
      <4>1. port = DefaultPort /\ ports = {}
        <5> HIDE DEF c, K, ports, port, number
        <5> QED
          BY <2>7, <2>8, <3>1, <3>2
      <4> QED
        BY <2>11, <3>1, <4>1, Zenon DEF AsWritten
    <3>3. CASE K # {}
      <4>1. PICK l \in 0 .. Len(word) :
              /\ text = SubSeq(word, 1, l)
              /\ Stored(SubSeq(word, 1, l), word, CONFIG_MAX_VALUE_LENGTH)
        BY <2>9, <3>3, Zenon
      <4>2. number = strtol[SubSeq(word, 1, l)]
        BY <4>1, Zenon
      <4>3. port = IF number.errno \/ number.rest THEN DefaultPort
                   ELSE number.value % (UINT16_MAX + 1)
        BY <2>7, <3>1, <3>3, Zenon
      <4>4. PortOf(word, port)
        <5> HIDE DEF number, port, word
        <5> QED
          BY <4>1, <4>2, <4>3 DEF PortOf
      <4>5. ports # {} /\ PortOf(file[Min(ports)].value, port)
        BY <2>8, <3>3, <4>4, Zenon
      <4> QED
        BY <2>11, <3>1, <4>5, Zenon DEF AsWritten
    <3> QED
      BY <3>2, <3>3
  <2> QED
    BY <2>10, <2>11
<1>2. ConfigurationAsWritten
  BY <1>1, Zenon DEF ConfigurationAsWritten, AllAsWritten
<1> QED
  BY <1>2, PTL

=============================================================================
