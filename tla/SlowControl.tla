----------------------------- MODULE SlowControl ----------------------------
(***************************************************************************)
(* Two processes on the slow control of one board: pacman_cmdserver, which *)
(* does what its clients ask in one call after another, and pacman_menu,   *)
(* which a user runs beside it.  Nothing but the kernel's I2C driver is    *)
(* between them: one transaction, one register access is atomic.  In the   *)
(* sessions of hwcheck that program takes the place of the menu, and no    *)
(* server runs.                                                            *)
(***************************************************************************)
EXTENDS HwCheck, FiniteSets

CONSTANTS
  Sessions,  \* calls that may occur together: the devices are independent, and a
             \* behaviour is about one of them
  MaxFaults, \* bound: I2C transactions and accesses to pins that fail
  MaxCount   \* where a counter saturates (C_COUNT_MAX)

ASSUME MaxFaultsAssumption == MaxFaults \in Nat
ASSUME MaxCountAssumption == MaxCount \in Nat

VARIABLES
  session,    \* the calls of this behaviour
  dac,        \* what each channel of the two DACs is set to
  adc,        \* each power monitor: its pointer, last sample and output
  mux,        \* each switch of the two multiplexers
  enables,    \* the enable register
  dst,        \* the destination registers of pokes C and D
  active,     \* the destinations in effect
  config,     \* the configuration request: idle, asked, copied
  counter,    \* the counters of the inputs, and of the outputs of all tiles
  running,    \* whether they count
  counting,   \* the channel of their commands, and the register of the chosen count
  pins,       \* the pins of the processor
  exported,   \* the pins a program can drive
  regs,       \* the other registers of the firmware
  open,       \* whether a process has the I2C device open
  expert,     \* i2c_expert
  mode,       \* the setting each toggle function is at
  call,       \* the call a process is in
  todo,       \* the accesses it still has to make
  okay,       \* no access of this call has failed
  tmp,        \* what the server last read from the enable register
  faults,     \* transactions that failed
  touched,    \* history: the other process was in a call during this one
  moved,      \* history: the other one moved the pointer since this one did
  changed     \* history: a supply was set since this one's measurement began

deviceVars == <<dac, adc, mux>>
atcVars == <<dst, active, config, counter, running, counting>>
boardVars == <<pins, exported, regs>>
processVars == <<call, todo, okay, tmp, mode, expert>>
historyVars == <<touched, moved, changed>>
vars == <<session, deviceVars, enables, atcVars, boardVars, open, processVars, faults, historyVars>>

Process == {"server", "menu"}
Other(p) == IF p = "server" THEN "menu" ELSE "server"
Idle == [name |-> "none", addr |-> 0, val |-> 0]

\* What a power monitor measures: the supplies of its two tiles; the board's
\* own rails do not change.
Levels(dev) ==
  [reg \in VOLT_BASE..VOLT_BASE + 3 |->
     IF MonTile(dev, reg) < NumTiles
       THEN dac[MonDac(reg)][48 + MonTile(dev, reg)] ELSE 0]

\* Whether this is a session of hwcheck.
Bare == \E c \in session : c.name \in HwItems

\* hwcheck does without Linux, and its main returns if its own set-up of the bus
\* fails (init_iic).  A program that cannot open the bus goes on without it.
init_iic == open["menu"]
Running(p) == Bare => p = "menu" /\ init_iic

\* The main of a program, and what it does before it takes calls: the menu drives
\* pins and the server writes registers, so only sessions with those tell.
Main == [name |-> "main", addr |-> 0, val |-> 0]
ServerStart ==
  IF {"send_poke_c", "set_pacman_id"} \cap {c.name : c \in session} = {} THEN <<>> ELSE pacman_init
Start ==
  CASE Bare -> init_gpiops
    [] "blink_leds" \in {c.name : c \in session} -> init_led
    [] OTHER -> <<>>

SettingsOf(name) == IF name \in HwItems THEN HwSettings(name) ELSE Settings(name)

\* The counters, by the commands that read them.
COUNT_C == \h72
COUNT_D == \h73
Counters == {\h70, \h71, COUNT_C, COUNT_D, \h50, \h60}
CounterOf(cmd) == IF cmd \div 16 = 7 THEN cmd ELSE (cmd \div 16) * 16

Init ==
  /\ session \in Sessions
  /\ \E l \in Level : dac = [d \in DAC |-> [r \in DacReg |-> l]]
  /\ LET nothing == [r \in VOLT_BASE..VOLT_BASE + 3 |-> 0]
     IN adc = [a \in ADC |-> [ptr |-> 0, sample |-> nothing, out |-> nothing]]
  /\ mux = [d \in MUX |-> [r \in MuxReg |-> IF r \in {MUX_A, MUX_B} THEN 16 ELSE 0]]
  /\ enables = {}
  /\ dst = [p \in {POKE_C, POKE_D} |-> 0]
  /\ active = dst /\ config = "idle"
  /\ counter = [c \in Counters |-> 0] /\ running = TRUE
  /\ counting = [state |-> "idle", cmd |-> 0, next |-> 0, out |-> 0]
  \* The start-up script of the board, where it is installed, exports the pins.
  /\ \E script \in IF Start # <<>> THEN BOOLEAN ELSE {TRUE} :
       /\ exported = IF script \/ Bare THEN PINS ELSE {}
       /\ pins = [n \in PINS |-> IF script /\ n = ADC_SLEEP_PIN THEN 1 ELSE 0]
  /\ regs = [a \in {LEDS, SCRATCH_A, SCRATCH_B, ADC_CONFIG, PACMAN_ID} |-> <<0, 0>>]
  /\ open \in [Process -> BOOLEAN]
  /\ expert = [r \in 1..4 |-> 0]
  /\ mode = [c \in {c \in session : SettingsOf(c.name) > 1} |-> 0]
  /\ call = [p \in Process |-> IF Bare /\ p = "server" THEN Idle ELSE Main]
  /\ todo = [p \in Process |-> IF p = "menu" THEN Start ELSE ServerStart]
  /\ okay = [p \in Process |-> TRUE]
  /\ tmp = {}
  /\ faults = 0
  /\ touched = [p \in Process |-> ~Bare]
  /\ moved = [p \in Process |-> FALSE] /\ changed = moved

-----------------------------------------------------------------------------
(***************************************************************************)
(* Calls.                                                                  *)
(***************************************************************************)
ServerProgram(c) ==
  CASE c.name = "read" -> pacman_vspace_read(c.addr, expert)
    [] c.name = "write" -> pacman_vspace_write(c.addr, c.val, expert)
    [] OTHER -> dispatch_command(c)

\* Whose call it is: the menu's functions have no arguments.
ByMenu(c) == c.addr = 0 /\ c.name \in MenuItems \cup HwItems

\* The ATC unit has nothing under way.
AtcIdle == config = "idle" /\ counting.state = "idle"

\* Between two calls of a process a message or a key stroke is waited for, longer
\* than its own last request takes.
Begin(p, c) ==
  /\ ~AtcIdle => call[Other(p)] # Idle
  /\ Running(p) /\ call[p] = Idle /\ c \in session /\ ByMenu(c) = (p = "menu")
  /\ call' = [call EXCEPT ![p] = c]
  /\ LET next == IF c \in DOMAIN mode THEN (mode[c] + 1) % SettingsOf(c.name) ELSE 0
     IN /\ mode' = IF c \in DOMAIN mode THEN [mode EXCEPT ![c] = next] ELSE mode
        /\ todo' = [todo EXCEPT ![p] =
             CASE p = "server" -> ServerProgram(c)
               [] Bare -> HwProgram(c.name, next)
               [] OTHER -> MenuProgram(c.name, next)]
  /\ okay' = [okay EXCEPT ![p] = TRUE]
  /\ touched' = [touched EXCEPT ![p] = call[Other(p)] # Idle,
                                ![Other(p)] = @ \/ call[Other(p)] # Idle]
  /\ UNCHANGED <<session, deviceVars, enables, atcVars, boardVars, open, tmp, expert, faults, moved, changed>>

Return(p) ==
  /\ call[p] # Idle /\ todo[p] = <<>>
  /\ call' = [call EXCEPT ![p] = Idle]
  /\ okay' = [okay EXCEPT ![p] = TRUE] /\ touched' = [touched EXCEPT ![p] = FALSE]
  /\ UNCHANGED <<session, deviceVars, enables, atcVars, boardVars, open, todo, tmp,
                 mode, expert, faults, moved, changed>>

-----------------------------------------------------------------------------
(***************************************************************************)
(* Accesses.                                                               *)
(***************************************************************************)
Bus == {"write", "point", "point to read", "read"}

\* Whether the other process is between pointing a monitor and reading it, and
\* whether it is measuring at all.
AboutToRead(p, dev) == todo[p] # <<>> /\ Head(todo[p]).op = "read" /\ Head(todo[p]).dev = dev
Measuring(p) == todo[p] # <<>> /\ Head(todo[p]).op \in Bus /\ Head(todo[p]).dev \in ADC

Notice(p, m) ==
  /\ moved' = [moved EXCEPT
       ![p] = FALSE,
       ![Other(p)] = @ \/ (m.op # "read" /\ AboutToRead(Other(p), m.dev))]
  /\ changed' = [changed EXCEPT
       ![p] = @ /\ m.dev \in ADC /\ m.op \notin {"write", "read"},
       ![Other(p)] = @ \/ (m.dev \in DAC /\ Measuring(Other(p)))]

\* What a read from where a monitor points to returns.
Reading(dev) ==
  LET a == adc[dev] IN
  IF a.ptr \in AdcReg THEN a.out[VOLT_BASE + ((a.ptr - VOLT_BASE) % 4)] ELSE 0

\* The channels in the shadow registers of a switch, told from a channel's number.
Connections(m, reg) == \h10000 + 256 * m[ShadowOf(reg) + 1] + m[ShadowOf(reg)]

Present(dev) == dev \in DAC \cup ADC \cup MUX

\* One I2C transaction that the device takes.  A byte of zero to a monitor is
\* its refresh.
Transfer(p, m) ==
  /\ CASE m.op = "write" /\ m.dev \in DAC /\ m.reg \in DacReg ->
            dac' = [dac EXCEPT ![m.dev][m.reg] = m.val] /\ UNCHANGED <<adc, mux>>
       [] m.op = "write" /\ m.dev \in MUX /\ m.reg \in MuxReg ->
            /\ mux' = [mux EXCEPT ![m.dev][m.reg] =
                         IF m.reg \in {MUX_A, MUX_B} /\ m.val = COPY_SHADOW
                           THEN Connections(mux[m.dev], m.reg) ELSE m.val]
            /\ UNCHANGED <<adc, dac>>
       [] m.dev \in ADC /\ m.op # "read" ->
            /\ adc' = [adc EXCEPT ![m.dev] =
                         IF m.op # "write" /\ m.reg = 0
                           THEN [ptr |-> 0, sample |-> Levels(m.dev), out |-> @.sample]
                           ELSE [@ EXCEPT !.ptr = m.reg]]
            /\ UNCHANGED <<dac, mux>>
       [] OTHER -> UNCHANGED deviceVars

BusStep(p) ==
  /\ todo[p] # <<>> /\ Head(todo[p]).op \in Bus /\ open[p]
  /\ Present(Head(todo[p]).dev)
  /\ Transfer(p, Head(todo[p])) /\ Notice(p, Head(todo[p]))
  /\ todo' = [todo EXCEPT ![p] = Tail(@)]
  /\ UNCHANGED <<session, enables, atcVars, boardVars, open, call, okay, tmp,
                 mode, expert, faults, touched>>

\* The transaction fails, no device answers, or the bus was never opened; a read is not tried
\* when its register could not be set.
BusFails(p) ==
  /\ todo[p] # <<>> /\ Head(todo[p]).op \in Bus
  /\ LET answers == open[p] /\ Present(Head(todo[p]).dev)
     IN IF answers THEN faults < MaxFaults /\ faults' = faults + 1
        ELSE faults' = faults
  /\ todo' = [todo EXCEPT ![p] = IF Head(@).op = "point to read"
                                   THEN Tail(Tail(@)) ELSE Tail(@)]
  /\ okay' = [okay EXCEPT ![p] = FALSE]
  /\ UNCHANGED <<session, deviceVars, enables, atcVars, boardVars, open, call, tmp,
                 mode, expert, historyVars>>

EnablesStep(p) ==
  /\ todo[p] # <<>> /\ Head(todo[p]).op \in {"load", "set", "clear", "store"}
  /\ LET m == Head(todo[p]) IN
     /\ tmp' = IF m.op = "load" THEN enables ELSE tmp
     /\ enables' = CASE m.op = "load" -> enables
                     [] m.op = "set" -> tmp \cup m.val
                     [] m.op = "clear" -> tmp \ m.val
                     [] m.op = "store" -> m.val
  /\ todo' = [todo EXCEPT ![p] = Tail(@)]
  /\ UNCHANGED <<session, deviceVars, atcVars, boardVars, open, call, okay,
                 mode, expert, faults, historyVars>>

\* A poke is counted, and so is its pulse on the outputs it goes to, unless it
\* meets the last one.
Counts(poke) ==
  LET Up(c) == IF running /\ c < MaxCount THEN c + 1 ELSE c
      types == active[poke] % 4
  IN \E alone \in BOOLEAN :
       counter' = [counter EXCEPT
         ![IF poke = POKE_C THEN COUNT_C ELSE COUNT_D] = Up(@),
         ![\h50] = IF alone /\ types \in {1, 3} THEN Up(@) ELSE @,
         ![\h60] = IF alone /\ types \in {2, 3} THEN Up(@) ELSE @]

\* A request while one is under way is dropped, but a command then replaces the
\* one under way; a pause of 10 us, or polling, outlasts what is under way.
AtcStep(p) ==
  /\ todo[p] # <<>>
  /\ Head(todo[p]).op \in {"destination", "request", "poke", "wait", "count", "read count"}
  /\ LET m == Head(todo[p]) IN
     /\ m.op = "wait" => AtcIdle
     /\ dst' = IF m.op = "destination" THEN [dst EXCEPT ![m.reg] = m.val] ELSE dst
     /\ config' = IF m.op = "request" /\ config = "idle" THEN "asked" ELSE config
     /\ IF m.op = "poke" THEN Counts(m.reg) ELSE UNCHANGED counter
     /\ counting' =
          IF m.op = "count"
            THEN [counting EXCEPT !.cmd = m.val, !.state = IF @ = "idle" THEN "asked" ELSE @]
            ELSE counting
  /\ todo' = [todo EXCEPT ![p] = Tail(@)]
  /\ UNCHANGED <<session, deviceVars, enables, active, running, boardVars, open, call,
                 okay, tmp, mode, expert, faults, historyVars>>

\* The firmware copies the registers, and is ready for the next request later.
AtcConfigures ==
  /\ \/ config = "asked" /\ config' = "copied" /\ active' = dst
     \/ config = "copied" /\ config' = "idle" /\ active' = active
  /\ UNCHANGED <<counter, running, counting>>

\* It takes a command: clear, start, stop, or the choice of a count, which
\* reaches the register when the channel is idle again.
AtcCounts ==
  /\ \/ /\ counting.state = "asked"
        /\ LET code == counting.cmd \div 16 IN
           /\ counter' = IF code = 1 THEN [c \in Counters |-> 0] ELSE counter
           /\ running' = (code = 2 \/ (running /\ code # 3))
           /\ counting' = [counting EXCEPT !.state = "taken",
                !.next = IF code \in {5, 6, 7} THEN counter[CounterOf(counting.cmd)] ELSE @]
     \/ /\ counting.state = "taken"
        /\ counting' = [counting EXCEPT !.state = "idle", !.out = counting.next]
        /\ UNCHANGED <<counter, running>>
  /\ UNCHANGED <<active, config>>

AtcCopies ==
  /\ AtcConfigures \/ AtcCounts
  /\ UNCHANGED <<session, deviceVars, enables, dst, boardVars, open, processVars, faults, historyVars>>

-----------------------------------------------------------------------------
(***************************************************************************)
(* Pins and the other registers.                                           *)
(***************************************************************************)
\* The registers of the data paths and the polarity are not followed here, and
\* nothing takes the addresses of hwcheck's firmware.
RegisterStep(p) ==
  /\ todo[p] # <<>> /\ Head(todo[p]).op = "register"
  /\ LET m == Head(todo[p]) IN
     regs' = IF m.reg \in DOMAIN regs THEN [regs EXCEPT ![m.reg] = m.val] ELSE regs
  /\ todo' = [todo EXCEPT ![p] = Tail(@)]
  /\ UNCHANGED <<session, deviceVars, enables, atcVars, pins, exported, open, call, okay, tmp,
                 mode, expert, faults, historyVars>>

\* A pin is driven through a file that exists once it is exported.
PinStep(p) ==
  /\ todo[p] # <<>> /\ Head(todo[p]).op \in {"configure", "pin"}
  /\ LET m == Head(todo[p]) IN
     /\ exported' = IF m.op = "configure" THEN exported \cup {m.dev} ELSE exported
     /\ pins' = IF m.dev \in exported' THEN [pins EXCEPT ![m.dev] = m.val] ELSE pins
     /\ okay' = [okay EXCEPT ![p] = @ /\ m.dev \in exported']
  /\ todo' = [todo EXCEPT ![p] = Tail(@)]
  /\ UNCHANGED <<session, deviceVars, enables, atcVars, regs, open, call, tmp,
                 mode, expert, faults, historyVars>>

\* The files of the pins fail under Linux; the export may have gone through.
PinFails(p) ==
  /\ todo[p] # <<>> /\ Head(todo[p]).op \in {"configure", "pin"}
  /\ ~Bare /\ faults < MaxFaults /\ faults' = faults + 1
  /\ \/ exported' = exported
     \/ Head(todo[p]).op = "configure" /\ exported' = exported \cup {Head(todo[p]).dev}
  /\ okay' = [okay EXCEPT ![p] = FALSE]
  /\ todo' = [todo EXCEPT ![p] = Tail(@)]
  /\ UNCHANGED <<session, deviceVars, enables, atcVars, regs, pins, open, call, tmp,
                 mode, expert, historyVars>>

\* A write to the server's own registers.
LocalStep(p) ==
  /\ todo[p] # <<>> /\ Head(todo[p]).op = "expert"
  /\ LET m == Head(todo[p]) IN
     expert' = IF m.reg \in DOMAIN expert
                 THEN [expert EXCEPT ![m.reg] = m.val] ELSE expert
  /\ todo' = [todo EXCEPT ![p] = Tail(@)]
  /\ UNCHANGED <<session, deviceVars, enables, atcVars, boardVars, open, call, okay, tmp, mode, faults, historyVars>>

Step(p) == BusStep(p) \/ BusFails(p) \/ EnablesStep(p) \/ AtcStep(p)
             \/ RegisterStep(p) \/ PinStep(p) \/ PinFails(p) \/ LocalStep(p)

\* hwcheck has returned.
Ended == ~Running("menu") /\ ~Running("server") /\ call["menu"] = Idle /\ UNCHANGED vars

Next ==
  \/ AtcCopies \/ Ended
  \/ \E p \in Process : Step(p) \/ Return(p) \/ \E c \in session : Begin(p, c)

Spec == Init /\ [][Next]_vars

-----------------------------------------------------------------------------
(***************************************************************************)
(* Properties.                                                             *)
(***************************************************************************)
Measures(p) ==
  /\ todo[p] # <<>> /\ Head(todo[p]).op = "read" /\ Head(todo[p]).dev \in ADC
  /\ todo'[p] = Tail(todo[p]) /\ okay'[p]

\* However the two processes' refreshes fall, a measurement whose accesses all
\* succeeded is of the tile and supply it was asked for and of the present, not
\* of an earlier sample, unless the other process moved the pointer between the
\* last two accesses or set a supply meanwhile (i2c_mon_*, iic_vsense_dn,
\* iic_isense_dn and iic_mon_*).  A direct read takes what is there.
MeasuresWhatItSays ==
  [][\A p \in Process :
       LET m == Head(todo[p]) IN
       Measures(p) /\ ~moved[p] /\ ~changed[p] /\ call[p].addr # \h24120 =>
         Reading(m.dev) = Levels(m.dev)[VOLT_BASE + ((m.reg - VOLT_BASE) % 4)]]_vars

\* The switches a call sets.
SwitchesOf(c) ==
  CASE c.name \in {"toggle_mux", "hw toggle_mux"} -> {MUX_A, MUX_B}
    [] c.name = "write" /\ c.addr = \h24070 -> {MUX_A}
    [] c.name = "write" /\ c.addr = \h24080 -> {MUX_B}
    [] OTHER -> {}

\* When a call that sets a switch has succeeded, and none of the other process
\* overlapped it, the switch joins both poles of one tile: the positive and the
\* negative multiplexer are set alike (i2c_set_muxa, iic_set_muxa), through their
\* shadow registers as well (hwcheck's toggle_mux).
PolesAgree ==
  [][\A p \in Process :
       call[p] # Idle /\ call'[p] = Idle /\ okay[p] /\ ~touched[p] =>
         \A x \in SwitchesOf(call[p]) : mux[MUX_P][x] = mux[MUX_N][x]]_vars

\* The bit that a command is about.
BitOf(c) == IF c.name \in {"enable_tile", "disable_tile"} THEN c.val - 1 ELSE TilePower

\* A command to enable or disable a tile or the tile power changes that bit and
\* no other, unless the menu was at the register at the same time
\* (handle_enable_tile and the other three).
OtherTilesKept ==
  [][todo["server"] # todo'["server"] /\ ~touched["server"] =>
       \A b \in 0..20 : (b \in enables) # (b \in enables') =>
                          b = BitOf(call["server"])]_vars

InFullReset ==
  call["server"].name = "send_full_reset" /\ get_unsigned(call["server"]) /\ ~touched["server"]

\* The pulse of a full reset is the long one, and afterwards poke C stands for
\* the internal reset again, although the request before it, alone of those
\* in the code, does not poll (handle_send_full_reset).
FullResetIsLong ==
  [][InFullReset =>
       /\ todo["server"] # todo'["server"] /\ Head(todo["server"]).op = "poke"
            => active[POKE_C] = FULL_RESET
       /\ call'["server"] = Idle => active[POKE_C] = INTERNAL_RESET]_vars

Powered(tile) == \E d \in DAC : dac[d][48 + tile] > 0

\* While IV curves are recorded, and no access fails and no client interferes,
\* no two tiles are powered, and none at the end.
RampPowersOneTile ==
  /\ call["menu"].name = "record_iv_curves" /\ okay["menu"] /\ ~touched["menu"]
  /\ Len(todo["menu"]) <= NumTiles * Len(IvCurve(0))
  => /\ Cardinality({t \in 0..NumTiles - 1 : Powered(t)}) <= 1
     /\ todo["menu"] = <<>> => \A t \in 0..NumTiles - 1 : ~Powered(t)

\* The count that the menu prints is the count of the channel it asked for,
\* unless the server was in a call meanwhile: the poll between the request and
\* the read outlasts the command (read_atc_counts, wait_atc_busy).
CountIsOfItsChannel ==
  [][LET m == Head(todo["menu"]) IN
     /\ todo["menu"] # <<>> /\ m.op = "read count" /\ todo'["menu"] = Tail(todo["menu"])
     /\ ~touched["menu"]
     => counting.out = counter[CounterOf(m.reg)]]_vars
=============================================================================
