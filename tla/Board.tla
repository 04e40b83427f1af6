-------------------------------- MODULE Board --------------------------------
(***************************************************************************)
(* The program jyd-test on the board: its loop copies the switches to LEDs *)
(* and seven-segment digits through the GPIO registers of the abstract     *)
(* machine (ioe.c, gpio.c), a load or a store at a time, and the bridge    *)
(* (brige.sv) selects the device by the address.  The switches move when   *)
(* they like.                                                              *)
(***************************************************************************)
EXTENDS Integers

CONSTANT Positions      \* words the switches may show

VARIABLES at, digit,    \* the load or store main is at, and its digit
          data,         \* sw.data
          sw, led, dig  \* the devices
boardVars == <<at, digit, data, sw, led, dig>>

GPIO_SW_ADDR == 61440
GPIO_SEG_ADDR == 61472
GPIO_LED_ADDR == 61504

---------------------------------------------------------------------------
(* The bridge: one bit per device. *)
AccessMem(addr) == addr \div 4096 # 15
AccessDig(addr) == addr \in GPIO_SEG_ADDR..(GPIO_SEG_ADDR + 28)
AccessLed(addr) == addr = GPIO_LED_ADDR
AccessSwLow(addr) == addr = GPIO_SW_ADDR     \* mutant
AccessSw(addr) == addr \in {GPIO_SW_ADDR, GPIO_SW_ADDR + 4}
X == -1                 \* 'hX, what a read of no single device returns
RdataToCpu(addr) ==
  IF AccessSw(addr) /\ ~AccessMem(addr) /\ ~AccessDig(addr) /\ ~AccessLed(addr)
  THEN sw[(addr - GPIO_SW_ADDR) \div 4] ELSE X

(* A store reaches every device selected; a digit keeps five bits. *)
Store(addr, wdata) ==
  /\ led' = IF AccessLed(addr) THEN wdata ELSE led
  /\ dig' = IF AccessDig(addr)
            THEN [dig EXCEPT ![(addr - GPIO_SEG_ADDR) \div 4] = wdata % 32] ELSE dig

---------------------------------------------------------------------------
(* A register is a handler of lut.  No entry, no handler: ioe_init, which
   would put fail there, is never called, and the program would jump to 0. *)
lut == {"GPIO_CONFIG", "GPIO_SW", "GPIO_KEY", "GPIO_SEG", "GPIO_LED"}
ioe_read(reg) == reg \in lut
ioe_write(reg) == reg \in lut
gpio_config == [present |-> TRUE]

(* main of jyd-test: the switches word by word, LED, then digit by digit
   (gpio.c); data[0] of AM_GPIO_SEG is a byte, the others are zero. *)
Goto(place, k) == at' = place /\ digit' = k
Rest == UNCHANGED <<data, sw, led, dig>>
Start == at = "_start" /\ Goto("main", 0) /\ Rest
Config == /\ at = "main" /\ ioe_read("GPIO_CONFIG")
          /\ IF gpio_config.present THEN Goto("sw", 0) ELSE Goto("halt", 0)
          /\ Rest
GpioSw == /\ at = "sw" /\ ioe_read("GPIO_SW")
          /\ data' = [data EXCEPT ![digit] = RdataToCpu(GPIO_SW_ADDR + 4 * digit)]
          /\ IF digit = 0 THEN Goto("sw", 1) ELSE Goto("led", 0)
          /\ UNCHANGED <<sw, led, dig>>
GpioLed == /\ at = "led" /\ ioe_write("GPIO_LED")
           /\ Store(GPIO_LED_ADDR, data[0])
           /\ Goto("seg", 0)
           /\ UNCHANGED <<data, sw>>
GpioSeg == /\ at = "seg" /\ ioe_write("GPIO_SEG")
           /\ Store(GPIO_SEG_ADDR + 4 * digit, IF digit = 0 THEN data[1] % 256 ELSE 0)
           /\ IF digit < 7 THEN Goto("seg", digit + 1) ELSE Goto("sw", 0)
           /\ UNCHANGED <<data, sw>>
Program == Start \/ Config \/ GpioSw \/ GpioLed \/ GpioSeg

Flip == /\ sw' \in [0..1 -> Positions]
        /\ UNCHANGED <<at, digit, data, led, dig>>

BoardInit == /\ at = "_start" /\ digit = 0 /\ data = [i \in 0..1 |-> X]
             /\ sw \in [0..1 -> Positions] /\ led = X /\ dig = [i \in 0..7 |-> X]
BoardNext == Program \/ Flip

---------------------------------------------------------------------------
(* Once the switches rest, LEDs and digits show them and go on to: the low
   byte of the second word in the first digit, in the five bits it has, and
   nothing in the others (jyd-test.c, gpio.c, brige.sv). *)
Shows == /\ led = sw[0]
         /\ dig = [i \in 0..7 |-> IF i = 0 THEN (sw[1] % 256) % 32 ELSE 0]
Settles == <>[][FALSE]_sw => <>[]Shows
=============================================================================
