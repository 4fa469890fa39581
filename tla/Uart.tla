-------------------------------- MODULE Uart --------------------------------
(***************************************************************************)
(* The serial console: uart.c.  uart_setbrg derives the divisors from      *)
(* g_brg, which is CONFIG_BAUDRATE and never changes (the environment      *)
(* variable baudrate has no effect), and uart_putc fills the transmitter.  *)
(***************************************************************************)
EXTENDS Integers, Sequences

CONSTANTS Bauds,            \* values of CONFIG_BAUDRATE
          UartRoom          \* bound: places of the transmit FIFO (16 in the chip)

ASSUME RoomAssumption == UartRoom \in Nat \ {0, 1}

\* The rates uart_setbrg reaches: below, the divisor does not fit its two
\* registers; between, sixteen samples for a bit are too coarse for some;
\* above, there are too few clocks for a bit.
InReach(brg) == brg \in Nat /\ ((brg >= 25 /\ brg <= 65000) \/ (brg >= 115200 /\ brg <= 1040000))

ASSUME RatesReached == \A brg \in Bauds : InReach(brg)

VARIABLES
  g_brg,
  ureg,        \* HIGHSPEED, DLL and DLH, SAMPLE_COUNT, SAMPLE_POINT; FIFO on
  thr,         \* characters in the transmitter
  sent, said,  \* what went out on the line, and what was written to the console
  utext,       \* what uart_puts has yet to write
  u_pc

uartVars == <<g_brg, ureg, thr, sent, said, utext, u_pc>>

UART_SRC_CLK == 26000000
-----------------------------------------------------------------------------
\* Both branches round the quotient to the nearest.
Rounded(clk, d) == (clk \div d) + (IF clk % d >= d \div 2 THEN 1 ELSE 0)

\* Faulty variant of LowSpeed: the mode stays as the preloader had it.
LowSpeedKept(r, speed) == [r EXCEPT !.dl = Rounded(UART_SRC_CLK, 16 * speed) % 65536]

\* 115200 and below: sixteen samples for a bit.
LowSpeed(r, speed) ==
  [r EXCEPT !.highspeed = 0, !.dl = Rounded(UART_SRC_CLK, 16 * speed) % 65536]

\* Above: SAMPLE_COUNT + 1 clocks for a bit, after a divisor of 8 bits.
HighSpeed(r, speed) ==
  LET data  == (UART_SRC_CLK \div speed) % 65536
      hsdiv == (data \div 256) + 1
      count == (Rounded(UART_SRC_CLK, speed * hsdiv) % 65536) - 1
  IN [r EXCEPT !.highspeed = 3, !.dl = hsdiv, !.count = count, !.point = (count - 1) \div 2]

uart_setbrg(r) == IF g_brg <= 115200 THEN LowSpeed(r, g_brg) ELSE HighSpeed(r, g_brg)

\* Faulty variant of FifoOn: the FIFO stays as the preloader had it.
FifoKept(r) == r

FifoOn(r) == [r EXCEPT !.fifo = TRUE]

\* What the preloader has left: its own rate, with the FIFO on or off.
UartInit ==
  /\ g_brg \in Bauds
  /\ ureg \in [highspeed : {0, 3}, dl : {1, 14}, count : {0, 27}, point : {13}, fifo : BOOLEAN]
  /\ thr = <<>> /\ sent = <<>> /\ said = <<>>
  /\ utext \in {<<"c", "nl">>, <<"nl", "nl">>, <<"nl", "c", "nl">>}
  /\ u_pc = "start"

uart_init_early ==
  /\ u_pc = "start"
  /\ ureg' = uart_setbrg(FifoOn(ureg))
  /\ u_pc' = "putc"
  /\ UNCHANGED <<g_brg, thr, sent, said, utext>>

\* The transmitter: without the FIFO it holds one character.  A character
\* written to a full one takes the place of the last.
Places == IF ureg.fifo THEN UartRoom ELSE 1
Held(q, c) == IF Len(q) < Places THEN Append(q, c) ELSE [q EXCEPT ![Len(q)] = c]

\* Faulty variant of Empty: the line status is not waited for.
EmptyAlways == TRUE

Empty == thr = <<>>        \* UART_LSR_THRE

\* One wait, then one or two characters.
uart_putc ==
  /\ u_pc = "putc" /\ utext # <<>> /\ Empty
  /\ LET c == Head(utext) IN
     /\ thr' = IF c = "nl" THEN Held(Held(thr, "cr"), "nl") ELSE Held(thr, c)
     /\ said' = said \o (IF c = "nl" THEN <<"cr", "nl">> ELSE <<c>>)
  /\ utext' = Tail(utext)
  /\ UNCHANGED <<g_brg, ureg, sent, u_pc>>

\* The line takes a character out of the transmitter.
ShiftOut ==
  /\ thr # <<>>
  /\ sent' = Append(sent, Head(thr)) /\ thr' = Tail(thr)
  /\ UNCHANGED <<g_brg, ureg, said, utext, u_pc>>

UartNext == uart_init_early \/ uart_putc \/ ShiftOut

UartSpec == UartInit /\ [][UartNext]_uartVars /\ WF_uartVars(UartNext)
-----------------------------------------------------------------------------
\* The rate the registers give, as the clocks of a bit.
BitClocks == IF ureg.highspeed = 3 THEN ureg.dl * (ureg.count + 1) ELSE 16 * ureg.dl

Off(a, b) == IF a > b THEN a - b ELSE b - a

\* Whatever rate the preloader has left, the console runs within 2% of
\* CONFIG_BAUDRATE, which a receiver can still follow to the stop bit.
RateClose ==
  u_pc = "putc" => 50 * Off(BitClocks * g_brg, UART_SRC_CLK) <= UART_SRC_CLK

\* uart_putc waits once and may write two characters: nothing is lost on the
\* way to the line, in any interleaving with the transmitter.
NothingLost == u_pc = "putc" => sent \o thr = said
=============================================================================
