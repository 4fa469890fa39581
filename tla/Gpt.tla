--------------------------------- MODULE Gpt --------------------------------
(***************************************************************************)
(* mt_gpt.c: the free running counter GPT4, the busy waits of udelay and   *)
(* gpt_busy_wait_ms, and the millisecond clock behind get_timer.           *)
(***************************************************************************)
EXTENDS Integers, FiniteSetsExt

CONSTANTS GptSpan,         \* bound: how many ticks go by
          Count,           \* the values of the counter, 2^32
          UsTick,          \* GPT4_1US_TICK, 13
          MsTick,          \* GPT4_1MS_TICK, 13000
          Pause            \* bound: ticks between two looks at the counter

\* A few us and two ms fit into the counter, and between two looks at it the ms
\* made of it wrap once at most.
ASSUME GptSizes ==
  /\ Count \in Nat /\ UsTick \in Nat \ {0} /\ MsTick \in Nat \ {0} /\ Pause \in Nat
  /\ 3 * UsTick < Count /\ 2 * MsTick < Count /\ MsTick + 2 * Pause + 3 <= Count

GPT4_MAX_TICK_CNT   == Count - 1
GPT4_MAX_US_TIMEOUT == GPT4_MAX_TICK_CNT \div UsTick
GPT4_MAX_MS_TIMEOUT == GPT4_MAX_TICK_CNT \div MsTick

VARIABLES gpt_now,         \* the ticks that have gone by
          gpt_wait,        \* a busy wait: start_tick, timeout_tick, and the true start
          gpt_clock        \* timestamp, lastinc; the ticks when it was reset
gptVars == <<gpt_now, gpt_wait, gpt_clock>>

Counter(n) == n % Count

\* Faulty variant of Median: the last reading counts.
LastOf(c1, c2, c3) == c3

\* gpt4_get_current_tick
Median(c1, c2, c3) ==
  IF c2 < c1 THEN (IF c1 < c3 THEN c1 ELSE Max({c2, c3}))
  ELSE IF c2 < c3 THEN c2 ELSE Max({c1, c3})

\* Three readings from tick n to tick m, of which one can be wrong.
Readings(n, m) ==
  LET a == Counter(n)  b == Counter(m)
      wrong == IF a <= b THEN {0, Count \div 2, Count - 1} ELSE {}
  IN {Median(a, a, b), Median(a, b, b)}
       \cup {Median(w, a, b) : w \in wrong} \cup {Median(a, w, b) : w \in wrong}
       \cup {Median(a, b, w) : w \in wrong}

\* Faulty variant of Elapsed: the counter is not taken to wrap.
ElapsedSigned(start, cur) == IF start <= cur THEN cur - start ELSE start - cur

\* gpt4_timeout_tick
Elapsed(start, cur) ==
  IF start <= cur THEN cur - start ELSE (GPT4_MAX_TICK_CNT - start) + cur

gpt4_time2tick_us(us) == IF GPT4_MAX_US_TIMEOUT <= us THEN GPT4_MAX_TICK_CNT ELSE us * UsTick

\* The limit is in ms, not in ticks; the ticks of the last ms before it wrap.
gpt4_time2tick_ms(ms) ==
  IF GPT4_MAX_MS_TIMEOUT <= ms THEN GPT4_MAX_MS_TIMEOUT ELSE Counter(ms * MsTick + (ms + 1) \div 2)

\* Faulty variant of gpt4_tick2time_ms: the sum in a wider word, which does not wrap.
RoundedUp(tick) == (tick + MsTick - 1) \div MsTick

\* Rounded up; the sum wraps just before the counter does.
gpt4_tick2time_ms(tick) == Counter(tick + MsTick - 1) \div MsTick

Later(n) == {m \in n .. n + Pause : m <= GptSpan}

StartGptWait(unit, t) ==
  /\ gpt_wait.pc = "idle"
  /\ \E m \in Later(gpt_now) \cap {gpt_now, gpt_now + 1} : \E r \in Readings(gpt_now, m) :
       /\ gpt_now' = m
       /\ gpt_wait' = [pc |-> "wait", unit |-> unit, t |-> t, start |-> r, since |-> gpt_now,
                       ticks |-> IF unit = "us" THEN gpt4_time2tick_us(t) ELSE gpt4_time2tick_ms(t)]
  /\ UNCHANGED gpt_clock

PollGpt ==
  /\ gpt_wait.pc = "wait"
  /\ \E n \in Later(gpt_now) \ {gpt_now} : \E m \in Later(n) \cap {n, n + 1} : \E r \in Readings(n, m) :
       /\ gpt_now' = m
       /\ gpt_wait' = IF gpt_wait.ticks <= Elapsed(gpt_wait.start, r)
                      THEN [gpt_wait EXCEPT !.pc = "done"] ELSE gpt_wait
  /\ UNCHANGED gpt_clock

\* Faulty variant of Advance: nothing is added for the wrap.
AdvanceNone(now, last) == IF now >= last THEN now - last ELSE now

\* get_timer_masked: MAX_REG_MS for the wrap.
Advance(now, last) == IF now >= last THEN now - last ELSE GPT4_MAX_MS_TIMEOUT - last + now

get_timer_masked ==
  /\ gpt_wait.pc = "clock"
  /\ \E n \in Later(gpt_now) : \E m \in Later(n) \cap {n, n + 1} : \E r \in Readings(n, m) :
       LET now == gpt4_tick2time_ms(r) IN
       /\ gpt_now' = m
       /\ gpt_clock' = [gpt_clock EXCEPT !.timestamp = @ + Advance(now, gpt_clock.lastinc), !.lastinc = now]
  /\ UNCHANGED gpt_wait

\* mtk_timer_init clears the counter; reset_timer comes at any time later.
GptInit ==
  /\ gpt_now \in 0 .. Count - 1
  /\ \E pc \in {"idle", "clock"} :
       gpt_wait = [pc |-> pc, unit |-> "us", t |-> 0, start |-> 0, since |-> 0, ticks |-> 0]
  /\ gpt_clock = [timestamp |-> 0, lastinc |-> gpt4_tick2time_ms(Counter(gpt_now)), reset |-> gpt_now]

GptNext ==
  \/ \E t \in {0, 1, 5, GPT4_MAX_US_TIMEOUT - 3, GPT4_MAX_US_TIMEOUT} : StartGptWait("us", t)
  \/ \E t \in {1, GPT4_MAX_MS_TIMEOUT - 2, GPT4_MAX_MS_TIMEOUT} : StartGptWait("ms", t)
  \/ PollGpt \/ get_timer_masked
-----------------------------------------------------------------------------
\* The waits that are long enough: those below the limit, which turns ms into
\* far too few ticks, and of those of ms the ones whose ticks do not wrap.
Waitable ==
  IF gpt_wait.unit = "us" THEN gpt_wait.t < GPT4_MAX_US_TIMEOUT
  ELSE /\ gpt_wait.t < GPT4_MAX_MS_TIMEOUT
       /\ gpt_wait.t * MsTick + (gpt_wait.t + 1) \div 2 < Count

\* A busy wait is never shorter than asked for: not over the wrap of the counter,
\* and not with a wrong reading in each look.
WaitNotEarly ==
  gpt_wait.pc = "done" /\ Waitable =>
    gpt_now - gpt_wait.since >= gpt_wait.t * (IF gpt_wait.unit = "us" THEN UsTick ELSE MsTick)

\* And it ends at the first look behind its end, if there is one before the
\* counter is around once more.
WaitInTime ==
  gpt_wait.pc = "wait" /\ gpt_wait.ticks + Pause + 2 < Count =>
    gpt_now - gpt_wait.since <= gpt_wait.ticks + 2

\* get_timer is right to a ms and one more for each wrap, as long as it
\* is looked at now and then; and it does not go back.
ClockRight ==
  gpt_wait.pc = "clock" =>
    LET true == (gpt_now - gpt_clock.reset) \div MsTick  wraps == gpt_now \div Count
    IN gpt_clock.timestamp \in true - wraps - 1 .. true + 1

ClockForward == [][gpt_clock'.timestamp >= gpt_clock.timestamp]_gptVars
=============================================================================
