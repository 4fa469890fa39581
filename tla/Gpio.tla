-------------------------------- MODULE Gpio --------------------------------
(***************************************************************************)
(* mt_gpio.c: the pins, sixteen to a register for direction, pull and      *)
(* output (written by registers that set and clear bits), five to a        *)
(* register for the mode (read, changed and written back), the pull select *)
(* of the key pad pins in a register of its own, with the sense reversed,  *)
(* and mt_gpio_self_test.                                                  *)
(***************************************************************************)
EXTENDS Integers

CONSTANT GpioCalls            \* bound: how many calls are made

MAX_GPIO_PIN == 143
Magic == 2048                 \* 0x80000000, in names of pins from the pin table
GPIO_MODE_MAX == 8

Pins == {0, 4, 5, 16, 33, 34, 57, 85}     \* bound: the pins used, of every sort

VARIABLES gpio,               \* the registers
          gpio_told,          \* what was called, with what, and what it returned
          gpio_test,          \* the self test: the pin, the section, the variable old
          gpio_before,        \* the registers when it began
          gpio_calls
gpioVars == <<gpio, gpio_told, gpio_test, gpio_before, gpio_calls>>

InputOnly    == 57 .. 58 \cup 75 .. 78 \cup 138 .. 141
NoPullEnable == 33 .. 38 \cup 85 .. 90 \cup 121 .. 137

\* kpad_pupd_spec: register and bit.
kpad_pupd_spec == [p \in 33 .. 38 |-> [reg |-> (p - 33) \div 3, bit |-> 2 + 4 * ((p - 33) % 3)]]

mt_gpio_pin_decrypt(cipher) == cipher % Magic

BitOf(reg, pin) == IF pin % 16 \in reg[pin \div 16] THEN 1 ELSE 0

With(reg, pin, v) ==
  [reg EXCEPT ![pin \div 16] = IF v = 1 THEN @ \cup {pin % 16} ELSE @ \ {pin % 16}]

\* Each returns the new registers; a call that is refused returns the old ones.
GpioRefused == "refused"
GpioDone(g) == [res |-> "ok", regs |-> g]
No(g)   == [res |-> GpioRefused, regs |-> g]

set_dir(g, pin, dir) ==
  IF pin >= MAX_GPIO_PIN \/ dir > 1 \/ (dir = 1 /\ pin \in InputOnly) THEN No(g)
  ELSE GpioDone([g EXCEPT !.dir = With(@, pin, dir)])

get_dir(g, pin) == BitOf(g.dir, pin)

set_pull_enable(g, pin, enable) ==
  IF pin >= MAX_GPIO_PIN \/ enable > 1 \/ pin \in NoPullEnable THEN No(g)
  ELSE GpioDone([g EXCEPT !.pullen = With(@, pin, enable)])

get_pull_enable(g, pin) == IF pin \in NoPullEnable THEN -1 ELSE BitOf(g.pullen, pin)

\* Faulty variant of KpadBit: as for other pins.
KpadBitPlain(select) == select = 1

\* NOTE DEFINITION REVERSE
KpadBit(select) == select = 0

set_pull_select(g, pin, select) ==
  IF pin >= MAX_GPIO_PIN \/ select > 1 THEN No(g)
  ELSE IF pin \in DOMAIN kpad_pupd_spec
  THEN LET k == kpad_pupd_spec[pin]
       IN GpioDone([g EXCEPT !.kpad[k.reg] = IF KpadBit(select) THEN @ \cup {k.bit} ELSE @ \ {k.bit}])
  ELSE IF select = 1 /\ pin \in InputOnly THEN No(g)
  ELSE GpioDone([g EXCEPT !.pullsel = With(@, pin, select)])

get_pull_select(g, pin) ==
  IF pin \in DOMAIN kpad_pupd_spec
  THEN LET k == kpad_pupd_spec[pin] IN IF k.bit \in g.kpad[k.reg] THEN 0 ELSE 1
  ELSE BitOf(g.pullsel, pin)

set_out(g, pin, output) ==
  IF pin >= MAX_GPIO_PIN \/ output > 1 THEN No(g) ELSE GpioDone([g EXCEPT !.out = With(@, pin, output)])

get_out(g, pin) == BitOf(g.out, pin)

\* In steps of three bits.
Shift(pin) == <<1, 8, 64, 512, 4096>>[(pin % 5) + 1]

get_mode(g, pin) == (g.mode[pin \div 5] \div Shift(pin)) % GPIO_MODE_MAX

\* Faulty variant of Masked: the old mode stays in the field.
MaskedNot(word, pin) == word - (word % Shift(pin))

\* reg &= ~(mask << ...)
Masked(word, pin) == word - ((word \div Shift(pin)) % GPIO_MODE_MAX) * Shift(pin)

set_mode(g, pin, mode) ==
  IF pin >= MAX_GPIO_PIN \/ mode >= GPIO_MODE_MAX THEN No(g)
  ELSE GpioDone([g EXCEPT !.mode[pin \div 5] = Masked(@, pin) + mode * Shift(pin)])

Attrs == {"dir", "pullen", "pullsel", "out", "mode"}

\* The functions without _chip.
Set(g, a, cipher, v) ==
  LET pin == mt_gpio_pin_decrypt(cipher)
  IN CASE a = "dir"     -> set_dir(g, pin, v)
       [] a = "pullen"  -> set_pull_enable(g, pin, v)
       [] a = "pullsel" -> set_pull_select(g, pin, v)
       [] a = "out"     -> set_out(g, pin, v)
       [] a = "mode"    -> set_mode(g, pin, v)

GetPin(g, a, pin) ==
  CASE a = "dir" -> get_dir(g, pin) [] a = "pullen" -> get_pull_enable(g, pin)
    [] a = "pullsel" -> get_pull_select(g, pin) [] a = "out" -> get_out(g, pin)
    [] a = "mode" -> get_mode(g, pin)

\* Faulty variant of ReadPin: the register of the other attributes for the mode, too.
ReadPinSame(g, a, pin) ==
  CASE a = "mode" -> (g.mode[pin \div 16] \div Shift(pin)) % GPIO_MODE_MAX
    [] OTHER -> BitOf(g[a], pin)

\* mt_gpio_read_pin with method 0: from the registers.
ReadPin(g, a, pin) ==
  CASE a = "mode" -> get_mode(g, pin)
    [] OTHER -> BitOf(g[a], pin)

CallGpio(a, cipher, v) ==
  /\ gpio_test.at = "none" /\ gpio_calls < GpioCalls
  /\ gpio' = Set(gpio, a, cipher, v).regs
  /\ gpio_told' = [a |-> a, pin |-> mt_gpio_pin_decrypt(cipher), v |-> v,
                   res |-> Set(gpio, a, cipher, v).res]
  /\ gpio_calls' = gpio_calls + 1 /\ gpio_test' = [gpio_test EXCEPT !.pin = 0]
  /\ UNCHANGED gpio_before
-----------------------------------------------------------------------------
(* mt_gpio_self_test, section by section.                                  *)

StartTest ==
  /\ gpio_test.at = "none" /\ gpio_before' = gpio
  /\ gpio_calls = 0 /\ gpio_test.pin = 0       \* bound: one test, before the calls
  /\ gpio_test' = [at |-> "dir", pin |-> 0, old |-> 0]
  /\ UNCHANGED <<gpio, gpio_told, gpio_calls>>

Stop == gpio_test' = [gpio_test EXCEPT !.at = "none"] /\ UNCHANGED gpio

\* A section tries the values in turn and sets back what it takes for the old
\* one; a pin that refuses ends the whole test.
Section(set(_, _, _), tried, old, next) ==
  LET p == gpio_test.pin IN
  /\ IF set(gpio, p, 0).res = GpioRefused \/ set(gpio, p, 1).res = GpioRefused THEN Stop
     ELSE /\ gpio' = set(set(gpio, p, tried).regs, p, old).regs
          /\ gpio_test' = [gpio_test EXCEPT !.at = next, !.old = old]
  /\ UNCHANGED <<gpio_told, gpio_before, gpio_calls>>

\* Output and input, with the output at 0 for a while.
TestDir == gpio_test.at = "dir" /\ Section(set_dir, 0, get_dir(gpio, gpio_test.pin), "pullen")

\* The variable old is still the direction.
TestPullEnable == gpio_test.at = "pullen" /\ Section(set_pull_enable, 1, gpio_test.old, "pullsel")

\* Faulty variant of OldSelect: as for the pull enable.
OldSelectKept == gpio_test.old

OldSelect == get_pull_select(gpio, gpio_test.pin)

TestPullSelect == gpio_test.at = "pullsel" /\ Section(set_pull_select, 1, OldSelect, "mode")

TestMode ==
  /\ gpio_test.at = "mode"
  /\ LET p == gpio_test.pin
     IN /\ gpio' = set_mode(set_mode(gpio, p, GPIO_MODE_MAX - 1).regs, p, get_mode(gpio, p)).regs
        /\ gpio_test' = IF p + 1 < MAX_GPIO_PIN THEN [at |-> "dir", pin |-> p + 1, old |-> 0]
                        ELSE [gpio_test EXCEPT !.at = "none"]
  /\ UNCHANGED <<gpio_told, gpio_before, gpio_calls>>

\* What the preloader has left, with the bits and the modes of many pins alike.
FoundPins(bits, pulls, m) ==
  [dir |-> [i \in 0 .. 8 |-> bits], pullen |-> [i \in 0 .. 8 |-> pulls],
   pullsel |-> [i \in 0 .. 8 |-> pulls], out |-> [i \in 0 .. 8 |-> bits],
   kpad |-> [i \in 0 .. 1 |-> bits], mode |-> [i \in 0 .. 28 |-> m]]

GpioInit ==
  /\ \E bits \in {{}, {0, 1, 4, 6, 9, 10}}, pulls \in {{}, 0 .. 15}, m \in {0, 8^5 - 1, 3 * 8^2 + 8} :
       gpio = FoundPins(bits, pulls, m)
  /\ gpio_told = [a |-> "out", pin |-> 0, v |-> 0, res |-> "none"]
  /\ gpio_test = [at |-> "none", pin |-> 0, old |-> 0] /\ gpio_before = gpio /\ gpio_calls = 0

GpioNext ==
  \/ \E a \in Attrs, pin \in Pins \cup {MAX_GPIO_PIN}, magic \in {0, Magic} :
       \E v \in IF a = "mode" THEN {0, 5, 8} ELSE 0 .. 2 : CallGpio(a, pin + magic, v)
  \/ StartTest \/ TestDir \/ TestPullEnable \/ TestPullSelect \/ TestMode
-----------------------------------------------------------------------------
\* A call changes what it names and nothing else of any pin: what is set is
\* read back, the other attributes and the other pins in the same registers
\* read as before, and a call that is refused changes nothing.
OnlyWhatIsSet ==
  [][gpio_calls' # gpio_calls =>
       \A pin \in Pins, a \in Attrs :
         GetPin(gpio', a, pin) =
           IF gpio_told'.res = "ok" /\ gpio_told'.pin = pin /\ gpio_told'.a = a
           THEN gpio_told'.v ELSE GetPin(gpio, a, pin)]_gpioVars

\* The two methods of mt_gpio_read_pin see the same, but for pins without a
\* bit in the common registers: the first reads those bits all the same.
MethodsAgree ==
  \A pin \in Pins, a \in Attrs :
    \/ a = "pullen" /\ pin \in NoPullEnable
    \/ a = "pullsel" /\ pin \in DOMAIN kpad_pupd_spec
    \/ ReadPin(gpio, a, pin) = GetPin(gpio, a, pin)

\* The self test leaves every pin as it was, wherever it stops - except for
\* the pull enable, which it sets to what the direction was (mt_gpio.c:1132).
TestRestores ==
  gpio_test.at = "none" /\ gpio_test.pin # 0 =>
    \A pin \in 0 .. gpio_test.pin : \A a \in Attrs \ {"pullen"} :
      GetPin(gpio_before, a, pin) = GetPin(gpio, a, pin)
=============================================================================
