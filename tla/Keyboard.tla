------------------------------ MODULE Keyboard ------------------------------
(***************************************************************************)
(* The keyboard: src/keyboard/classic.c and src/keyboard/keyboard.c.       *)
(*                                                                         *)
(* The interrupt handler turns a scan code into a character and pushes it  *)
(* into the ring buffer of the current process, the one that was loaded    *)
(* last.  A program polls with system call 2, which pops from the buffer   *)
(* of the process of the running task.  The two processes need not be the  *)
(* same: the clock makes any task the running one.                         *)
(*                                                                         *)
(* A zero in the buffer is an empty slot, and a push does not look at what *)
(* the slot it writes to holds.                                            *)
(***************************************************************************)
EXTENDS Integers, Sequences

CONSTANTS MaxLoads,  \* how many processes are loaded
          BufferSize, \* BENOS_KEYBOARD_BUFFER_SIZE
          ScanSet,   \* keyboard_scan_set_one, a function on 0..(n - 1)
          AfterSet,  \* the bytes that may follow keyboard_scan_set_one
          CapsLock,  \* CLASSIC_KEYBOARD_CAPSLOCK
          MaxKeys    \* bound of the model: characters pushed to a process

ASSUME KeyboardAssumption == /\ MaxLoads \in Nat \ {0}
                             /\ BufferSize \in Nat \ {0}
                             /\ MaxKeys \in Nat
                             /\ AfterSet \subseteq 0..255
                             /\ \A c \in DOMAIN ScanSet : ScanSet[c] \in 0..255

Processes == 1..MaxLoads
Indexes   == 0..(BufferSize - 1)

(* The scan codes of presses: the check on the size of the set lets the    *)
(* code one beyond its end through; a greater one gives no character.      *)
Presses == DOMAIN ScanSet \cup {c + 1 : c \in DOMAIN ScanSet}

VARIABLES buffer,       \* process->keyboard.buffer
          head, tail,   \* process->keyboard.head, .tail
          caps,         \* classic_keyboard.caps_lock_state
          curr_process, \* the process the keyboard types into
          running,      \* task_current()->process
          alive,        \* the processes that have not ended
          got,          \* what system call 2 returned last to a process
          overrun       \* the processes that had a key overwritten

vars == <<buffer, head, tail, caps, curr_process, running, alive, got, overrun>>

-----------------------------------------------------------------------------

(* kernel_main has loaded the first process. *)
Init == /\ buffer = [p \in Processes |-> [i \in Indexes |-> 0]]
        /\ head = [p \in Processes |-> 0]
        /\ tail = [p \in Processes |-> 0]
        /\ caps = FALSE
        /\ curr_process = 1
        /\ running = 1
        /\ alive = {1}
        /\ got = [p \in Processes |-> 0]
        /\ overrun = {}

-----------------------------------------------------------------------------
(* The interrupt handler. *)

Upper(c) == 65 <= c /\ c <= 90

(* A variant without the test that the character is a letter. *)
LowerEverything(scancode, on) ==
  {IF on THEN c ELSE c + 32 :
     c \in IF scancode \in DOMAIN ScanSet THEN {ScanSet[scancode]} ELSE AfterSet}

(* The characters that a scan code may give, with the caps lock as it is. *)
classic_keyboad_scancode_to_char(scancode, on) ==
  {IF ~on /\ Upper(c) THEN c + 32 ELSE c :
     c \in IF scancode \in DOMAIN ScanSet THEN {ScanSet[scancode]} ELSE AfterSet}

keyboard_get_tail_index(p) == tail[p] % BufferSize

(* A variant that drops the key when its slot is taken but counts it. *)
PushSkipsTakenSlot(c) ==
  LET p == curr_process
      i == keyboard_get_tail_index(p)
  IN  /\ buffer' = [buffer EXCEPT ![p][i] = IF @ = 0 THEN c ELSE @]
      /\ tail' = [tail EXCEPT ![p] = @ + 1]
      /\ overrun' = overrun

keyboard_push(c) ==
  LET p == curr_process
      i == keyboard_get_tail_index(p)
  IN  /\ buffer' = [buffer EXCEPT ![p][i] = c]
      /\ tail' = [tail EXCEPT ![p] = @ + 1]
      /\ overrun' = IF buffer[p][i] # 0 THEN overrun \cup {p} ELSE overrun

(* A key press.  The state of the caps lock is changed before it is used. *)
classic_keyboard_handle_interrupt(scancode) ==
  /\ caps' = IF scancode = CapsLock THEN ~caps ELSE caps
  /\ \E c \in classic_keyboad_scancode_to_char(scancode, caps') :
       IF c = 0
       THEN UNCHANGED <<buffer, tail, overrun>>
       ELSE tail[curr_process] < MaxKeys /\ keyboard_push(c)
  /\ UNCHANGED <<head, curr_process, running, alive, got>>

(* The release of a key: the handler returns early. *)
KeyReleased == UNCHANGED vars

-----------------------------------------------------------------------------
(* System call 2. *)

(* A variant that pops from the process the keyboard types into. *)
PopFromCurrent ==
  LET p == curr_process
      i == head[p] % BufferSize
      c == buffer[p][i]
  IN  /\ got' = [got EXCEPT ![running] = c]
      /\ IF c = 0
         THEN UNCHANGED <<buffer, head>>
         ELSE /\ buffer' = [buffer EXCEPT ![p][i] = 0]
              /\ head' = [head EXCEPT ![p] = @ + 1]

keyboard_pop ==
  LET p == running
      i == head[p] % BufferSize
      c == buffer[p][i]
  IN  /\ got' = [got EXCEPT ![p] = c]
      /\ IF c = 0
         THEN UNCHANGED <<buffer, head>>
         ELSE /\ buffer' = [buffer EXCEPT ![p][i] = 0]
              /\ head' = [head EXCEPT ![p] = @ + 1]

isr80h_command2_getkey ==
  /\ keyboard_pop
  /\ UNCHANGED <<tail, caps, curr_process, running, alive, overrun>>

-----------------------------------------------------------------------------
(* What the rest of the kernel does to the processes (module Scheduler).    *)

(* The clock runs another task. *)
Reschedule(p) == /\ p \in alive
                 /\ running' = p
                 /\ UNCHANGED <<buffer, head, tail, caps, curr_process, alive,
                                got, overrun>>

(* A new process, whose memory is zeroed, gets the keyboard and runs. *)
LoadSwitch == LET p == curr_process + 1
              IN  /\ p \in Processes
                  /\ curr_process' = p
                  /\ running' = p
                  /\ alive' = alive \cup {p}
                  /\ UNCHANGED <<buffer, head, tail, caps, got, overrun>>

(* The exit of the current process is a panic, and ends everything. *)
Exit(p) == /\ running # curr_process
           /\ p \in alive \ {running}
           /\ alive' = alive \ {running}
           /\ running' = p
           /\ UNCHANGED <<buffer, head, tail, caps, curr_process, got, overrun>>

Next == \/ \E scancode \in Presses : classic_keyboard_handle_interrupt(scancode)
        \/ KeyReleased
        \/ isr80h_command2_getkey
        \/ \E p \in Processes : Reschedule(p) \/ Exit(p)
        \/ LoadSwitch

Spec == Init /\ [][Next]_vars

-----------------------------------------------------------------------------
(* Properties. *)

(* The bytes of the table and behind it, and the lower case of its letters. *)
Characters == LET bytes == AfterSet \cup {ScanSet[c] : c \in DOMAIN ScanSet}
              IN  {0} \cup bytes \cup {c + 32 : c \in {d \in bytes : Upper(d)}}

TypeOK == /\ buffer \in [Processes -> [Indexes -> Characters]]
          /\ head \in [Processes -> Nat]
          /\ tail \in [Processes -> Nat]
          /\ caps \in BOOLEAN
          /\ curr_process \in Processes
          /\ running \in Processes
          /\ alive \subseteq Processes
          /\ got \in [Processes -> Characters]
          /\ overrun \subseteq Processes

Waiting(p) == tail[p] - head[p]

(***************************************************************************)
(* Until a key was overwritten, the keys that wait are exactly those       *)
(* between head and tail, and every other slot is empty (keyboard_push,    *)
(* keyboard_pop).                                                          *)
(***************************************************************************)
BufferSound ==
  \A p \in Processes \ overrun :
    /\ Waiting(p) \in 0..BufferSize
    /\ \A i \in Indexes :
         buffer[p][i] # 0 <=>
           \E k \in 0..(Waiting(p) - 1) : i = (head[p] + k) % BufferSize

(***************************************************************************)
(* Keys reach the program they were typed for, oldest first, none lost and *)
(* none twice, as long as no more keys wait than the buffer has room for.  *)
(* The queue is read off the buffer.                                       *)
(***************************************************************************)
KeysOf(p) == IF p \in overrun
             THEN <<>>
             ELSE [k \in 1..Waiting(p) |->
                     buffer[p][(head[p] + k - 1) % BufferSize]]

Queue == INSTANCE KeyQueue WITH
           Keys  <- Characters \ {0},
           NoKey <- 0,
           Room  <- BufferSize,
           queue <- [p \in Processes |-> KeysOf(p)],
           full  <- overrun

ImplementsKeyQueue == Queue!Spec

=============================================================================
