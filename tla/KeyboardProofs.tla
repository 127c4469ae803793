--------------------------- MODULE KeyboardProofs ---------------------------
(***************************************************************************)
(* Theorems about the keyboard (module Keyboard), for every size of the    *)
(* ring buffer, every number of processes and every scan code set.         *)
(*                                                                         *)
(* head and tail only grow, and a slot is a remainder: what the proofs     *)
(* need of arithmetic is that numbers less than a buffer apart have        *)
(* different remainders.                                                   *)
(***************************************************************************)
EXTENDS Keyboard, SequenceTheorems, TLAPS

-----------------------------------------------------------------------------
(* Arithmetic of the slots. *)

(* The slot of a position is an index of the buffer (keyboard_get_tail_    *)
(* index, and the same expression for head in keyboard_pop).               *)
LEMMA SlotIsIndex ==
  ASSUME NEW a \in Nat
  PROVE  /\ a % BufferSize \in Indexes
         /\ a \div BufferSize \in Int
         /\ a = BufferSize * (a \div BufferSize) + (a % BufferSize)
BY KeyboardAssumption DEF Indexes

(* No multiple of the size of the buffer lies strictly between 0 and it. *)
LEMMA NoMultipleBetween ==
  ASSUME NEW d \in Int, 0 < BufferSize * d, BufferSize * d < BufferSize
  PROVE  FALSE
<1>1. CASE d <= 0
  BY <1>1, KeyboardAssumption
<1>2. CASE d >= 1
  BY <1>2, KeyboardAssumption
<1> QED
  BY <1>1, <1>2

(* Different positions less than a buffer apart have different slots: the  *)
(* ring buffer of keyboard_push and keyboard_pop wraps around soundly.     *)
LEMMA SlotsDiffer ==
  ASSUME NEW a \in Nat, NEW b \in Nat, a < b, b < a + BufferSize
  PROVE  a % BufferSize # b % BufferSize
<1> SUFFICES ASSUME a % BufferSize = b % BufferSize
             PROVE  FALSE
  OBVIOUS
<1> DEFINE x == a \div BufferSize
           y == b \div BufferSize
<1>1. /\ x \in Int /\ y \in Int
      /\ a = BufferSize * x + (a % BufferSize)
      /\ b = BufferSize * y + (a % BufferSize)
      /\ a % BufferSize \in Int
  BY SlotIsIndex, KeyboardAssumption DEF Indexes
<1> HIDE DEF x, y
<1>2. BufferSize * (y - x) = b - a
  BY <1>1, KeyboardAssumption
<1>3. 0 < BufferSize * (y - x) /\ BufferSize * (y - x) < BufferSize
  BY <1>2, KeyboardAssumption
<1> QED
  BY <1>1, <1>3, NoMultipleBetween

(* A position one buffer further on has the same slot. *)
LEMMA FullTurn ==
  ASSUME NEW a \in Nat
  PROVE  (a + BufferSize) % BufferSize = a % BufferSize
<1> DEFINE b == a + BufferSize
           x == a \div BufferSize
           y == b \div BufferSize
           r == a % BufferSize
           s == b % BufferSize
<1>1. b \in Nat
  BY KeyboardAssumption
<1>2. /\ x \in Int /\ y \in Int /\ r \in Indexes /\ s \in Indexes
      /\ a = BufferSize * x + r
      /\ b = BufferSize * y + s
  BY <1>1, SlotIsIndex, Zenon
<1>3. b = a + BufferSize
  OBVIOUS
<1> SUFFICES s = r
  OBVIOUS
<1> HIDE DEF b, x, y, r, s
<1>4. BufferSize * (y - x - 1) = r - s
  BY <1>2, <1>3, KeyboardAssumption DEF Indexes
<1>5. BufferSize * (x + 1 - y) = s - r
  BY <1>2, <1>3, KeyboardAssumption DEF Indexes
<1>6. CASE r > s
  <2>1. 0 < BufferSize * (y - x - 1) /\ BufferSize * (y - x - 1) < BufferSize
    BY <1>2, <1>4, <1>6, KeyboardAssumption DEF Indexes
  <2> QED
    BY <1>2, <2>1, NoMultipleBetween
<1>7. CASE s > r
  <2>1. 0 < BufferSize * (x + 1 - y) /\ BufferSize * (x + 1 - y) < BufferSize
    BY <1>2, <1>5, <1>7, KeyboardAssumption DEF Indexes
  <2> QED
    BY <1>2, <2>1, NoMultipleBetween
<1> QED
  BY <1>2, <1>6, <1>7, KeyboardAssumption DEF Indexes

-----------------------------------------------------------------------------
(* What the two operations on the buffer find. *)

(* Where keyboard_push writes there is a key only when the buffer is full. *)
LEMMA TailSlotTaken ==
  ASSUME TypeOK, BufferSound, NEW p \in Processes \ overrun
  PROVE  buffer[p][tail[p] % BufferSize] # 0 <=> Waiting(p) = BufferSize
<1>1. head[p] \in Nat /\ tail[p] \in Nat /\ Waiting(p) \in 0..BufferSize
  BY DEF TypeOK, BufferSound
<1>2. /\ tail[p] % BufferSize \in Indexes
      /\ tail[p] = head[p] + Waiting(p)
  BY <1>1, SlotIsIndex DEF Waiting
<1>3. buffer[p][tail[p] % BufferSize] # 0 <=>
        \E k \in 0..(Waiting(p) - 1) :
          tail[p] % BufferSize = (head[p] + k) % BufferSize
  BY <1>2 DEF BufferSound
<1>4. CASE Waiting(p) = BufferSize
  <2>1. tail[p] % BufferSize = head[p] % BufferSize
    BY <1>1, <1>2, <1>4, FullTurn
  <2> QED
    BY <1>1, <1>3, <1>4, <2>1, KeyboardAssumption
<1>5. CASE Waiting(p) < BufferSize
  <2>1. \A k \in 0..(Waiting(p) - 1) :
          tail[p] % BufferSize # (head[p] + k) % BufferSize
    BY <1>1, <1>2, <1>5, SlotsDiffer, KeyboardAssumption
  <2> QED
    BY <1>1, <1>3, <1>5, <2>1
<1> QED
  BY <1>1, <1>4, <1>5, KeyboardAssumption

(* Where keyboard_pop reads there is a key exactly when one waits. *)
LEMMA HeadSlotTaken ==
  ASSUME TypeOK, BufferSound, NEW p \in Processes \ overrun
  PROVE  buffer[p][head[p] % BufferSize] # 0 <=> Waiting(p) > 0
<1>1. head[p] \in Nat /\ tail[p] \in Nat /\ Waiting(p) \in 0..BufferSize
  BY DEF TypeOK, BufferSound
<1>2. head[p] % BufferSize \in Indexes
  BY <1>1, SlotIsIndex
<1>3. buffer[p][head[p] % BufferSize] # 0 <=>
        \E k \in 0..(Waiting(p) - 1) :
          head[p] % BufferSize = (head[p] + k) % BufferSize
  BY <1>2 DEF BufferSound
<1>4. CASE Waiting(p) > 0
  BY <1>1, <1>3, <1>4
<1>5. CASE Waiting(p) = 0
  BY <1>3, <1>5
<1> QED
  BY <1>1, <1>4, <1>5, KeyboardAssumption

(* What a press gives is a character, whatever the caps lock. *)
LEMMA GivenCharacters ==
  ASSUME NEW scancode, NEW on \in BOOLEAN,
         NEW c \in classic_keyboad_scancode_to_char(scancode, on)
  PROVE  c \in Characters
BY KeyboardAssumption DEF classic_keyboad_scancode_to_char, Characters, Upper

-----------------------------------------------------------------------------
(* The steps keep the buffers sound. *)

KeyboardInv == TypeOK /\ BufferSound

(* A process whose buffer a step leaves alone is as it was. *)
LEMMA UntouchedBuffer ==
  ASSUME BufferSound, NEW p \in Processes \ overrun,
         buffer'[p] = buffer[p], head'[p] = head[p], tail'[p] = tail[p]
  PROVE  /\ Waiting(p)' \in 0..BufferSize
         /\ \A i \in Indexes :
              buffer'[p][i] # 0 <=>
                \E k \in 0..(Waiting(p)' - 1) : i = (head'[p] + k) % BufferSize
<1>1. Waiting(p)' = Waiting(p)
  BY DEF Waiting
<1> QED
  BY <1>1 DEF BufferSound

(* keyboard_push of a key that finds room: one more key waits, in the slot *)
(* behind the others.                                                      *)
LEMMA PushEffect ==
  ASSUME KeyboardInv,
         NEW c \in Characters \ {0}, keyboard_push(c), head' = head,
         NEW p \in Processes, p = curr_process, p \notin overrun'
  PROVE  /\ overrun' = overrun
         /\ Waiting(p) \in 0..(BufferSize - 1)
         /\ Waiting(p)' = Waiting(p) + 1
         /\ tail[p] = head[p] + Waiting(p)
         /\ \A i \in Indexes : buffer'[p][i] =
              IF i = (head[p] + Waiting(p)) % BufferSize
              THEN c ELSE buffer[p][i]
<1> DEFINE j == tail[p] % BufferSize
<1>1. /\ p \in Processes /\ head[p] \in Nat /\ tail[p] \in Nat
      /\ tail \in [Processes -> Nat]
      /\ buffer \in [Processes -> [Indexes -> Characters]]
  BY DEF KeyboardInv, TypeOK
<1>2. buffer[p][j] = 0 /\ overrun' = overrun /\ p \notin overrun
  BY DEF keyboard_push, keyboard_get_tail_index
<1>3. Waiting(p) \in 0..BufferSize
  BY <1>1, <1>2 DEF KeyboardInv, BufferSound
<1>4. Waiting(p) # BufferSize
  BY <1>1, <1>2, TailSlotTaken DEF KeyboardInv
<1>5. tail[p] = head[p] + Waiting(p)
  BY <1>1 DEF Waiting
<1>6. tail'[p] = tail[p] + 1
  BY <1>1 DEF keyboard_push
<1>7. buffer'[p] = [buffer[p] EXCEPT ![j] = c]
  BY <1>1 DEF keyboard_push, keyboard_get_tail_index
<1>8. \A i \in Indexes : buffer'[p][i] = IF i = j THEN c ELSE buffer[p][i]
  BY <1>1, <1>7
<1>9. Waiting(p)' = Waiting(p) + 1
  BY <1>1, <1>6 DEF Waiting
<1>10. Waiting(p) \in 0..(BufferSize - 1)
  BY <1>3, <1>4, KeyboardAssumption
<1> QED
  BY <1>2, <1>5, <1>8, <1>9, <1>10

(* keyboard_pop of a process whose keys are all there: it is given the key *)
(* at head, if one waits, and that slot is emptied.                        *)
LEMMA PopEffect ==
  ASSUME KeyboardInv, keyboard_pop, tail' = tail,
         NEW p \in Processes \ overrun, p = running
  PROVE  /\ got' = [got EXCEPT ![p] = buffer[p][head[p] % BufferSize]]
         /\ Waiting(p) \in 0..BufferSize
         /\ Waiting(p) = 0 => /\ buffer[p][head[p] % BufferSize] = 0
                              /\ UNCHANGED <<buffer, head>>
         /\ Waiting(p) > 0 =>
              /\ buffer[p][head[p] % BufferSize] # 0
              /\ head'[p] = head[p] + 1
              /\ Waiting(p)' = Waiting(p) - 1
              /\ \A i \in Indexes : buffer'[p][i] =
                   IF i = head[p] % BufferSize THEN 0 ELSE buffer[p][i]
<1> DEFINE j == head[p] % BufferSize
<1>1. /\ p \in Processes /\ head[p] \in Nat /\ tail[p] \in Nat
      /\ head \in [Processes -> Nat]
      /\ buffer \in [Processes -> [Indexes -> Characters]]
  BY DEF KeyboardInv, TypeOK
<1>2. Waiting(p) \in 0..BufferSize
  BY <1>1 DEF KeyboardInv, BufferSound
<1>3. buffer[p][j] # 0 <=> Waiting(p) > 0
  BY <1>1, HeadSlotTaken DEF KeyboardInv
<1>4. got' = [got EXCEPT ![p] = buffer[p][j]]
  BY DEF keyboard_pop
<1>5. CASE Waiting(p) = 0
  BY <1>2, <1>3, <1>4, <1>5 DEF keyboard_pop
<1>6. CASE Waiting(p) > 0
  <2>1. /\ buffer' = [buffer EXCEPT ![p][j] = 0]
        /\ head' = [head EXCEPT ![p] = @ + 1]
    BY <1>3, <1>6 DEF keyboard_pop
  <2>2. head'[p] = head[p] + 1
    BY <1>1, <2>1
  <2>3. \A i \in Indexes : buffer'[p][i] = IF i = j THEN 0 ELSE buffer[p][i]
    BY <1>1, <2>1
  <2>4. Waiting(p)' = Waiting(p) - 1
    <3>1. Waiting(p)' = tail[p] - (head[p] + 1)
      BY <2>2 DEF Waiting
    <3>2. \A x, y \in Nat : x - (y + 1) = (x - y) - 1
      OBVIOUS
    <3> QED
      BY <1>1, <3>1, <3>2, Zenon DEF Waiting
  <2> QED
    BY <1>2, <1>3, <1>4, <1>6, <2>2, <2>3, <2>4
<1> QED
  BY <1>2, <1>5, <1>6, KeyboardAssumption

(* A key is put into the ring of one process; the others stay as they are. *)
LEMMA PushPreserves ==
  ASSUME KeyboardInv, NEW c \in Characters \ {0}, keyboard_push(c),
         UNCHANGED <<head, curr_process, running, alive, got>>,
         caps' \in BOOLEAN
  PROVE  KeyboardInv'
<1>1. TypeOK'
  <2>1. /\ tail[curr_process] % BufferSize \in Indexes
        /\ curr_process \in Processes
    BY SlotIsIndex DEF KeyboardInv, TypeOK
  <2>2. /\ buffer' \in [Processes -> [Indexes -> Characters]]
        /\ tail' \in [Processes -> Nat]
    BY <2>1 DEF keyboard_push, keyboard_get_tail_index, KeyboardInv, TypeOK
  <2>3. overrun' \subseteq Processes
    BY <2>1 DEF keyboard_push, KeyboardInv, TypeOK
  <2> QED
    BY <2>2, <2>3 DEF KeyboardInv, TypeOK
<1>2. ASSUME NEW p \in Processes \ overrun'
      PROVE  /\ Waiting(p)' \in 0..BufferSize
             /\ \A i \in Indexes :
                  buffer'[p][i] # 0 <=>
                    \E k \in 0..(Waiting(p)' - 1) :
                      i = (head'[p] + k) % BufferSize
  <2>1. p \notin overrun
    BY <1>2 DEF keyboard_push
  <2>2. CASE p # curr_process
    <3>1. buffer'[p] = buffer[p] /\ head'[p] = head[p] /\ tail'[p] = tail[p]
      BY <2>2 DEF keyboard_push, KeyboardInv, TypeOK
    <3> QED
      BY <2>1, <3>1, UntouchedBuffer DEF KeyboardInv
  <2>3. CASE p = curr_process
    <3>1. /\ Waiting(p) \in 0..(BufferSize - 1)
          /\ Waiting(p)' = Waiting(p) + 1
          /\ \A i \in Indexes : buffer'[p][i] =
               IF i = (head[p] + Waiting(p)) % BufferSize
               THEN c ELSE buffer[p][i]
      BY <1>2, <2>3, PushEffect
    <3>2. \A i \in Indexes : buffer[p][i] # 0 <=>
            \E k \in 0..(Waiting(p) - 1) : i = (head[p] + k) % BufferSize
      BY <2>1 DEF KeyboardInv, BufferSound
    <3>3. \A k : k \in 0..Waiting(p) <=>
                 k \in 0..(Waiting(p) - 1) \/ k = Waiting(p)
      BY <3>1, KeyboardAssumption
    <3>4. Waiting(p)' - 1 = Waiting(p) /\ Waiting(p)' \in 0..BufferSize
      BY <3>1, KeyboardAssumption
    <3>5. c # 0 /\ head'[p] = head[p]
      OBVIOUS
    <3>6. ASSUME NEW i \in Indexes
          PROVE  buffer'[p][i] # 0 <=>
                   \E k \in 0..Waiting(p) : i = (head[p] + k) % BufferSize
      BY <3>1, <3>2, <3>3, <3>5, Zenon
    <3> QED
      BY <3>4, <3>5, <3>6
  <2> QED
    BY <2>2, <2>3
<1> QED
  BY <1>1, <1>2 DEF KeyboardInv, BufferSound

(* A key is taken out of the ring of the process that asks.                *)
LEMMA PopPreserves ==
  ASSUME KeyboardInv, isr80h_command2_getkey
  PROVE  KeyboardInv'
<1>1. /\ keyboard_pop
      /\ UNCHANGED <<tail, caps, curr_process, running, alive, overrun>>
  BY DEF isr80h_command2_getkey
<1>2. TypeOK'
  <2>1. /\ head[running] % BufferSize \in Indexes
        /\ running \in Processes
    BY SlotIsIndex DEF KeyboardInv, TypeOK
  <2>2. 0 \in Characters
    BY DEF Characters
  <2>3. buffer[running][head[running] % BufferSize] \in Characters
    BY <2>1 DEF KeyboardInv, TypeOK
  <2>4. /\ buffer' \in [Processes -> [Indexes -> Characters]]
        /\ head' \in [Processes -> Nat]
    <3>1. CASE UNCHANGED <<buffer, head>>
      BY <3>1 DEF KeyboardInv, TypeOK
    <3>2. CASE ~UNCHANGED <<buffer, head>>
      <4>1. /\ buffer' = [buffer EXCEPT
                            ![running][head[running] % BufferSize] = 0]
            /\ head' = [head EXCEPT ![running] = @ + 1]
        BY <1>1, <3>2, Zenon DEF keyboard_pop
      <4> QED
        BY <2>1, <2>2, <4>1 DEF KeyboardInv, TypeOK
    <3> QED
      BY <3>1, <3>2
  <2>5. got' \in [Processes -> Characters]
    BY <1>1, <2>1, <2>3 DEF keyboard_pop, KeyboardInv, TypeOK
  <2> QED
    BY <1>1, <2>4, <2>5 DEF KeyboardInv, TypeOK
<1>3. ASSUME NEW p \in Processes \ overrun'
      PROVE  /\ Waiting(p)' \in 0..BufferSize
             /\ \A i \in Indexes :
                  buffer'[p][i] # 0 <=>
                    \E k \in 0..(Waiting(p)' - 1) :
                      i = (head'[p] + k) % BufferSize
  <2>1. p \notin overrun /\ tail' = tail
    BY <1>1, <1>3
  <2>2. CASE p # running \/ UNCHANGED <<buffer, head>>
    <3>1. buffer'[p] = buffer[p] /\ head'[p] = head[p] /\ tail'[p] = tail[p]
      BY <1>1, <2>1, <2>2 DEF keyboard_pop, KeyboardInv, TypeOK
    <3> QED
      BY <2>1, <3>1, UntouchedBuffer DEF KeyboardInv
  <2>3. CASE p = running /\ ~UNCHANGED <<buffer, head>>
    <3>1. /\ Waiting(p) \in 1..BufferSize
          /\ head'[p] = head[p] + 1
          /\ Waiting(p)' = Waiting(p) - 1
          /\ \A i \in Indexes : buffer'[p][i] =
               IF i = head[p] % BufferSize THEN 0 ELSE buffer[p][i]
      BY <1>1, <2>1, <2>3, PopEffect, KeyboardAssumption
    <3>2. head[p] \in Nat
      BY DEF KeyboardInv, TypeOK
    <3>3. \A i \in Indexes : buffer[p][i] # 0 <=>
            \E k \in 0..(Waiting(p) - 1) : i = (head[p] + k) % BufferSize
      BY <2>1 DEF KeyboardInv, BufferSound
    <3>4. \A k \in 0..(Waiting(p) - 2) :
            head[p] % BufferSize # (head[p] + 1 + k) % BufferSize
      BY <3>1, <3>2, SlotsDiffer, KeyboardAssumption, SMTT(60)
    <3>5. ASSUME NEW i \in Indexes
          PROVE  buffer'[p][i] # 0 <=>
                   \E k \in 0..(Waiting(p) - 2) :
                     i = (head[p] + 1 + k) % BufferSize
      <4>1. CASE i = head[p] % BufferSize
        BY <3>1, <3>4, <4>1
      <4>2. CASE i # head[p] % BufferSize
        <5>1. ASSUME NEW k \in 0..(Waiting(p) - 1),
                     i = (head[p] + k) % BufferSize
              PROVE  \E l \in 0..(Waiting(p) - 2) :
                       i = (head[p] + 1 + l) % BufferSize
          <6>1. k # 0
            BY <3>2, <4>2, <5>1
          <6>2. /\ k - 1 \in 0..(Waiting(p) - 2)
                /\ head[p] + 1 + (k - 1) = head[p] + k
            BY <3>1, <3>2, <6>1, KeyboardAssumption
          <6> QED
            BY <5>1, <6>2
        <5>2. ASSUME NEW l \in 0..(Waiting(p) - 2),
                     i = (head[p] + 1 + l) % BufferSize
              PROVE  \E k \in 0..(Waiting(p) - 1) :
                       i = (head[p] + k) % BufferSize
          <6>1. /\ l + 1 \in 0..(Waiting(p) - 1)
                /\ head[p] + 1 + l = head[p] + (l + 1)
            BY <3>1, <3>2, KeyboardAssumption
          <6> QED
            BY <5>2, <6>1
        <5> QED
          BY <3>1, <3>3, <4>2, <5>1, <5>2
      <4> QED
        BY <4>1, <4>2
    <3>6. /\ Waiting(p)' - 1 = Waiting(p) - 2
          /\ Waiting(p)' \in 0..BufferSize
      BY <3>1, KeyboardAssumption
    <3> QED
      BY <3>1, <3>5, <3>6
  <2> QED
    BY <2>2, <2>3
<1> QED
  BY <1>2, <1>3 DEF KeyboardInv, BufferSound

(* An interrupt pushes a key, changes the caps lock, or does nothing.      *)
LEMMA PressPreserves ==
  ASSUME KeyboardInv, NEW scancode, classic_keyboard_handle_interrupt(scancode)
  PROVE  KeyboardInv'
<1>1. caps' \in BOOLEAN
  BY DEF classic_keyboard_handle_interrupt, KeyboardInv, TypeOK
<1>2. UNCHANGED <<head, curr_process, running, alive, got>>
  BY DEF classic_keyboard_handle_interrupt
<1>3. PICK c \in classic_keyboad_scancode_to_char(scancode, caps') :
        IF c = 0
        THEN UNCHANGED <<buffer, tail, overrun>>
        ELSE tail[curr_process] < MaxKeys /\ keyboard_push(c)
  BY DEF classic_keyboard_handle_interrupt
<1>4. CASE c = 0
  <2>1. UNCHANGED <<buffer, tail, overrun>>
    BY <1>3, <1>4
  <2> QED
    BY <1>1, <1>2, <2>1 DEF KeyboardInv, TypeOK, BufferSound, Waiting
<1>5. CASE c # 0
  <2>1. c \in Characters \ {0}
    BY <1>1, <1>5, GivenCharacters
  <2> QED
    BY <1>1, <1>2, <1>3, <1>5, <2>1, PushPreserves
<1> QED
  BY <1>4, <1>5

(* The steps of the rest of the kernel leave the buffers alone. *)
LEMMA OthersPreserve ==
  ASSUME KeyboardInv,
         \/ UNCHANGED vars
         \/ LoadSwitch
         \/ \E p \in Processes : Reschedule(p) \/ Exit(p)
  PROVE  KeyboardInv' /\ UNCHANGED <<buffer, head, tail, got, overrun>>
<1>1. UNCHANGED <<buffer, head, tail, caps, got, overrun>>
  BY DEF vars, LoadSwitch, Reschedule, Exit
<1>2. curr_process' \in Processes /\ running' \in Processes
  BY DEF vars, LoadSwitch, Reschedule, Exit, KeyboardInv, TypeOK
<1>3. alive' \subseteq Processes
  BY DEF vars, LoadSwitch, Reschedule, Exit, KeyboardInv, TypeOK
<1> QED
  BY <1>1, <1>2, <1>3 DEF KeyboardInv, TypeOK, BufferSound, Waiting

(* Every ring is empty at boot.                                            *)
LEMMA KeyboardInit ==
  ASSUME Init
  PROVE  KeyboardInv
<1>1. 0 \in Characters /\ 1 \in Processes
  BY KeyboardAssumption DEF Characters, Processes
<1>2. TypeOK
  BY <1>1 DEF Init, TypeOK
<1>3. \A p \in Processes : Waiting(p) = 0
  BY DEF Init, Waiting
<1>4. \A p \in Processes : \A i \in Indexes : buffer[p][i] = 0
  BY DEF Init
<1>5. 0..(0 - 1) = {} /\ 0 \in 0..BufferSize
  BY KeyboardAssumption
<1> QED
  BY <1>2, <1>3, <1>4, <1>5 DEF KeyboardInv, BufferSound

(***************************************************************************)
(* In every reachable state the types are right and the ring buffers are   *)
(* sound: classic.c and keyboard.c keep this by every press, every read    *)
(* and every switch of process.  The conjunction is inductive as it is.    *)
(***************************************************************************)
THEOREM KeyboardInvariant == Spec => []KeyboardInv
<1>1. Init => KeyboardInv
  BY KeyboardInit
<1>2. KeyboardInv /\ [Next]_vars => KeyboardInv'
  <2> SUFFICES ASSUME KeyboardInv, [Next]_vars
               PROVE  KeyboardInv'
    OBVIOUS
  <2>1. CASE UNCHANGED vars
    BY <2>1, OthersPreserve
  <2>2. ASSUME NEW scancode \in Presses,
               classic_keyboard_handle_interrupt(scancode)
        PROVE  KeyboardInv'
    BY <2>2, PressPreserves
  <2>3. CASE KeyReleased
    BY <2>3, OthersPreserve DEF KeyReleased
  <2>4. CASE isr80h_command2_getkey
    BY <2>4, PopPreserves
  <2>5. CASE \E p \in Processes : Reschedule(p) \/ Exit(p)
    BY <2>5, OthersPreserve
  <2>6. CASE LoadSwitch
    BY <2>6, OthersPreserve
  <2> QED
    BY <2>1, <2>2, <2>3, <2>4, <2>5, <2>6 DEF Next
<1> QED
  BY <1>1, <1>2, PTL DEF Spec

(* The ring buffer of every process, its indices, the caps lock and what   *)
(* system call 2 returned have their types (keyboard.c, classic.c).        *)
THEOREM KeyboardTypeCorrect == Spec => []TypeOK
BY KeyboardInvariant, PTL DEF KeyboardInv

(* Until a key was overwritten, the keys that wait are those between head  *)
(* and tail and every other slot is empty (keyboard_push, keyboard_pop).   *)
THEOREM KeyboardBufferSound == Spec => []BufferSound
BY KeyboardInvariant, PTL DEF KeyboardInv

-----------------------------------------------------------------------------
(* The ring buffers implement the queues of module KeyQueue. *)

(* A sequence is the function of its elements. *)
LEMMA SeqIsFunction ==
  ASSUME NEW S, NEW s \in Seq(S)
  PROVE  s = [k \in DOMAIN s |-> s[k]]
BY LenProperties

(* The keys of a process whose buffer a step leaves alone. *)
LEMMA UntouchedKeys ==
  ASSUME NEW p \in Processes,
         buffer'[p] = buffer[p], head'[p] = head[p], tail'[p] = tail[p],
         p \in overrun' <=> p \in overrun
  PROVE  KeysOf(p)' = KeysOf(p)
BY DEF KeysOf, Waiting

(* What leaves the rings alone is a stutter of the queues.                 *)
LEMMA BuffersUnchanged ==
  ASSUME UNCHANGED <<buffer, head, tail, got, overrun>>
  PROVE  UNCHANGED Queue!vars
<1>1. \A p \in Processes : KeysOf(p)' = KeysOf(p)
  BY UntouchedKeys
<1> QED
  BY <1>1 DEF Queue!vars

(* What the queue of a process is made of. *)
LEMMA KeysAreQueue ==
  ASSUME KeyboardInv, NEW p \in Processes
  PROVE  /\ p \in overrun => KeysOf(p) = <<>>
         /\ p \notin overrun =>
              /\ KeysOf(p) \in Seq(Characters)
              /\ Len(KeysOf(p)) = Waiting(p)
              /\ DOMAIN KeysOf(p) = 1..Waiting(p)
              /\ \A k \in 1..Waiting(p) :
                   KeysOf(p)[k] = buffer[p][(head[p] + k - 1) % BufferSize]
<1>1. CASE p \in overrun
  BY <1>1 DEF KeysOf
<1>2. CASE p \notin overrun
  <2>1. head[p] \in Nat /\ Waiting(p) \in Nat
    BY <1>2, KeyboardAssumption DEF KeyboardInv, TypeOK, BufferSound
  <2>2. \A k \in 1..Waiting(p) :
          buffer[p][(head[p] + k - 1) % BufferSize] \in Characters
    <3>1. \A k \in 1..Waiting(p) :
            (head[p] + k - 1) % BufferSize \in Indexes
      BY <2>1, SlotIsIndex
    <3> QED
      BY <3>1 DEF KeyboardInv, TypeOK
  <2>3. KeysOf(p) = [k \in 1..Waiting(p) |->
                       buffer[p][(head[p] + k - 1) % BufferSize]]
    BY <1>2 DEF KeysOf
  <2> QED
    BY <1>2, <2>1, <2>2, <2>3
<1> QED
  BY <1>1, <1>2

(* keyboard_push appends to the queue of the current process, or overruns  *)
(* it, or makes no difference any more.                                    *)
LEMMA PushIsQueueStep ==
  ASSUME KeyboardInv, KeyboardInv',
         NEW c \in Characters \ {0}, keyboard_push(c),
         UNCHANGED <<head, got, curr_process>>
  PROVE  [Queue!Next]_(Queue!vars)
<1>1. PICK p \in Processes : p = curr_process
  BY DEF KeyboardInv, TypeOK
<1>2. ASSUME NEW q \in Processes, q # p
      PROVE  KeysOf(q)' = KeysOf(q)
  <2>1. /\ buffer'[q] = buffer[q] /\ tail'[q] = tail[q]
        /\ q \in overrun' <=> q \in overrun
    BY <1>1, <1>2 DEF keyboard_push, KeyboardInv, TypeOK
  <2> QED
    BY <2>1, UntouchedKeys
<1>3. overrun' = overrun \/ overrun' = overrun \cup {p}
  BY <1>1 DEF keyboard_push
<1>4. CASE p \in overrun
  <2>1. overrun' = overrun
    BY <1>3, <1>4
  <2>2. KeysOf(p)' = KeysOf(p)
    BY <1>4, <2>1 DEF KeysOf
  <2> QED
    BY <1>2, <2>1, <2>2 DEF Queue!vars
<1>5. CASE p \notin overrun /\ p \in overrun'
  <2>1. overrun' = overrun \cup {p}
    BY <1>3, <1>5
  <2>2. buffer[p][tail[p] % BufferSize] # 0
    BY <1>1, <1>5 DEF keyboard_push, keyboard_get_tail_index
  <2>3. Waiting(p) = BufferSize
    BY <1>5, <2>2, TailSlotTaken DEF KeyboardInv
  <2>4. Len(KeysOf(p)) = BufferSize
    BY <1>5, <2>3, KeysAreQueue
  <2>5. KeysOf(p)' = <<>>
    BY <1>5 DEF KeysOf
  <2>6. Queue!TypeTooMany(p)
    BY <1>2, <1>5, <2>1, <2>4, <2>5 DEF Queue!TypeTooMany
  <2> QED
    BY <2>6 DEF Queue!Next
<1>6. CASE p \notin overrun'
  <2>1. p \notin overrun /\ overrun' = overrun
    BY <1>3, <1>6
  <2>2. /\ Waiting(p) \in 0..(BufferSize - 1)
        /\ Waiting(p)' = Waiting(p) + 1
        /\ \A i \in Indexes : buffer'[p][i] =
             IF i = (head[p] + Waiting(p)) % BufferSize
             THEN c ELSE buffer[p][i]
    BY <1>1, <1>6, PushEffect
  <2>3. /\ KeysOf(p) \in Seq(Characters)
        /\ Len(KeysOf(p)) = Waiting(p)
        /\ \A k \in 1..Waiting(p) :
             KeysOf(p)[k] = buffer[p][(head[p] + k - 1) % BufferSize]
    BY <2>1, KeysAreQueue
  <2>4. KeysOf(p)' = [k \in 1..Waiting(p)' |->
                        buffer'[p][(head[p] + k - 1) % BufferSize]]
    BY <1>6 DEF KeysOf
  <2>5. head[p] \in Nat
    BY DEF KeyboardInv, TypeOK
  <2>6. ASSUME NEW k \in 1..Waiting(p)'
        PROVE  buffer'[p][(head[p] + k - 1) % BufferSize]
                 = Append(KeysOf(p), c)[k]
    <3>1. (head[p] + k - 1) % BufferSize \in Indexes
      BY <2>2, <2>5, SlotIsIndex
    <3>2. CASE k = Waiting(p) + 1
      <4>1. head[p] + k - 1 = head[p] + Waiting(p)
        BY <2>2, <2>5, <3>2
      <4>2. Append(KeysOf(p), c)[k] = c
        BY <2>3, <3>2
      <4> QED
        BY <2>2, <3>1, <4>1, <4>2
    <3>3. CASE k \in 1..Waiting(p)
      <4>1. (head[p] + k - 1) % BufferSize
              # (head[p] + Waiting(p)) % BufferSize
        <5>1. /\ head[p] + k - 1 \in Nat /\ head[p] + Waiting(p) \in Nat
              /\ head[p] + k - 1 < head[p] + Waiting(p)
              /\ head[p] + Waiting(p) < head[p] + k - 1 + BufferSize
          BY <2>2, <2>5, <3>3, KeyboardAssumption
        <5> QED
          BY <5>1, SlotsDiffer
      <4>2. Append(KeysOf(p), c)[k] = KeysOf(p)[k]
        BY <2>3, <3>3
      <4> QED
        BY <2>2, <2>3, <3>1, <3>3, <4>1, <4>2
    <3>4. k \in 1..Waiting(p) \/ k = Waiting(p) + 1
      BY <2>2, <2>6
    <3> QED
      BY <3>2, <3>3, <3>4
  <2>7. KeysOf(p)' = Append(KeysOf(p), c)
    <3>1. /\ Append(KeysOf(p), c) \in Seq(Characters)
          /\ DOMAIN Append(KeysOf(p), c) = 1..Waiting(p)'
      BY <2>2, <2>3
    <3> QED
      BY <2>4, <2>6, <3>1, SeqIsFunction
  <2>8. Len(KeysOf(p)) < BufferSize
    BY <2>2, <2>3, KeyboardAssumption
  <2>9. Queue!Type(p, c)
    BY <1>2, <2>1, <2>7, <2>8 DEF Queue!Type
  <2> QED
    BY <2>9 DEF Queue!Next
<1> QED
  BY <1>4, <1>5, <1>6

(* keyboard_pop takes the oldest key of the queue of the running process.  *)
LEMMA PopIsQueueStep ==
  ASSUME KeyboardInv, KeyboardInv', isr80h_command2_getkey
  PROVE  [Queue!Next]_(Queue!vars)
<1>1. /\ keyboard_pop
      /\ UNCHANGED <<tail, running, overrun>>
  BY DEF isr80h_command2_getkey
<1>2. PICK p \in Processes : p = running
  BY DEF KeyboardInv, TypeOK
<1>3. ASSUME NEW q \in Processes, q # p
      PROVE  KeysOf(q)' = KeysOf(q)
  <2>1. buffer'[q] = buffer[q] /\ head'[q] = head[q] /\ tail'[q] = tail[q]
    BY <1>1, <1>2, <1>3 DEF keyboard_pop, KeyboardInv, TypeOK
  <2> QED
    BY <1>1, <2>1, UntouchedKeys
<1>4. CASE p \in overrun
  <2>1. KeysOf(p)' = KeysOf(p)
    BY <1>1, <1>4 DEF KeysOf
  <2>2. head[p] % BufferSize \in Indexes
    BY SlotIsIndex DEF KeyboardInv, TypeOK
  <2>3. buffer[p][head[p] % BufferSize] \in (Characters \ {0}) \cup {0}
    BY <2>2 DEF KeyboardInv, TypeOK
  <2>4. got' = [got EXCEPT ![p] = buffer[p][head[p] % BufferSize]]
    BY <1>1, <1>2 DEF keyboard_pop
  <2>5. Queue!ReadAfterTooMany(p)
    BY <1>1, <1>3, <1>4, <2>1, <2>3, <2>4 DEF Queue!ReadAfterTooMany
  <2> QED
    BY <2>5 DEF Queue!Next
<1>5. CASE p \notin overrun
  <2>1. /\ got' = [got EXCEPT ![p] = buffer[p][head[p] % BufferSize]]
        /\ Waiting(p) \in 0..BufferSize
        /\ Waiting(p) = 0 => /\ buffer[p][head[p] % BufferSize] = 0
                             /\ UNCHANGED <<buffer, head>>
        /\ Waiting(p) > 0 =>
             /\ buffer[p][head[p] % BufferSize] # 0
             /\ head'[p] = head[p] + 1
             /\ Waiting(p)' = Waiting(p) - 1
             /\ \A i \in Indexes : buffer'[p][i] =
                  IF i = head[p] % BufferSize THEN 0 ELSE buffer[p][i]
    BY <1>1, <1>2, <1>5, PopEffect
  <2>2. /\ KeysOf(p) \in Seq(Characters)
        /\ Len(KeysOf(p)) = Waiting(p)
        /\ DOMAIN KeysOf(p) = 1..Waiting(p)
        /\ \A k \in 1..Waiting(p) :
             KeysOf(p)[k] = buffer[p][(head[p] + k - 1) % BufferSize]
    BY <1>5, KeysAreQueue
  <2>3. CASE Waiting(p) = 0
    <3>1. KeysOf(p)' = KeysOf(p)
      BY <1>1, <2>1, <2>3, UntouchedKeys
    <3>2. KeysOf(p) = <<>>
      BY <2>2, <2>3
    <3>3. Queue!ReadNothing(p)
      BY <1>1, <1>3, <1>5, <2>1, <2>3, <3>1, <3>2 DEF Queue!ReadNothing
    <3> QED
      BY <3>3 DEF Queue!Next
  <2>4. CASE Waiting(p) > 0
    <3>1. head[p] \in Nat
      BY DEF KeyboardInv, TypeOK
    <3>2. KeysOf(p) # <<>>
      BY <2>2, <2>4
    <3>3. Head(KeysOf(p)) = buffer[p][head[p] % BufferSize]
      <4>1. head[p] + 1 - 1 = head[p] /\ 1 \in 1..Waiting(p)
        BY <2>1, <2>4, <3>1
      <4>2. Head(KeysOf(p)) = KeysOf(p)[1]
        BY <2>2, <3>2
      <4> QED
        BY <2>2, <4>1, <4>2
    <3>4. KeysOf(p)' = [k \in 1..(Waiting(p) - 1) |->
                          buffer'[p][(head[p] + 1 + k - 1) % BufferSize]]
      BY <1>1, <1>5, <2>1, <2>4 DEF KeysOf
    <3>5. ASSUME NEW k \in 1..(Waiting(p) - 1)
          PROVE  buffer'[p][(head[p] + 1 + k - 1) % BufferSize]
                   = Tail(KeysOf(p))[k]
      <4>1. /\ head[p] + 1 + k - 1 = head[p] + k
            /\ head[p] + (k + 1) - 1 = head[p] + k
            /\ k + 1 \in 1..Waiting(p)
        BY <2>1, <3>1
      <4>2. (head[p] + k) % BufferSize \in Indexes
        BY <3>1, SlotIsIndex
      <4>3. (head[p] + k) % BufferSize # head[p] % BufferSize
        <5>1. /\ head[p] + k \in Nat
              /\ head[p] < head[p] + k
              /\ head[p] + k < head[p] + BufferSize
          BY <2>1, <3>1, KeyboardAssumption
        <5> QED
          BY <3>1, <5>1, SlotsDiffer
      <4>4. Tail(KeysOf(p))[k] = KeysOf(p)[k + 1]
        BY <2>1, <2>2, <3>2
      <4> QED
        BY <2>1, <2>2, <2>4, <4>1, <4>2, <4>3, <4>4
    <3>6. KeysOf(p)' = Tail(KeysOf(p))
      <4>1. /\ Tail(KeysOf(p)) \in Seq(Characters)
            /\ DOMAIN Tail(KeysOf(p)) = 1..(Waiting(p) - 1)
        BY <2>1, <2>2, <3>2
      <4> QED
        BY <3>4, <3>5, <4>1, SeqIsFunction
    <3>7. Queue!Read(p)
      BY <1>1, <1>3, <1>5, <2>1, <3>2, <3>3, <3>6 DEF Queue!Read
    <3> QED
      BY <3>7 DEF Queue!Next
  <2> QED
    BY <2>1, <2>3, <2>4, KeyboardAssumption
<1> QED
  BY <1>4, <1>5

(* An interrupt puts at most one key at the end of one queue.              *)
LEMMA PressIsQueueStep ==
  ASSUME KeyboardInv, KeyboardInv',
         NEW scancode, classic_keyboard_handle_interrupt(scancode)
  PROVE  [Queue!Next]_(Queue!vars)
<1>1. caps' \in BOOLEAN
  BY DEF classic_keyboard_handle_interrupt, KeyboardInv, TypeOK
<1>2. UNCHANGED <<head, curr_process, got>>
  BY DEF classic_keyboard_handle_interrupt
<1>3. PICK c \in classic_keyboad_scancode_to_char(scancode, caps') :
        IF c = 0
        THEN UNCHANGED <<buffer, tail, overrun>>
        ELSE tail[curr_process] < MaxKeys /\ keyboard_push(c)
  BY DEF classic_keyboard_handle_interrupt
<1>4. CASE c = 0
  <2>1. UNCHANGED <<buffer, head, tail, got, overrun>>
    BY <1>2, <1>3, <1>4
  <2> QED
    BY <2>1, BuffersUnchanged
<1>5. CASE c # 0
  <2>1. c \in Characters \ {0}
    BY <1>1, <1>5, GivenCharacters
  <2> QED
    BY <1>2, <1>3, <1>5, <2>1, PushIsQueueStep
<1> QED
  BY <1>4, <1>5

(***************************************************************************)
(* The ring buffers of keyboard.c implement the queues of module KeyQueue: *)
(* a program is given the keys that were typed for it, oldest first, none  *)
(* lost and none twice, until more keys wait than its buffer has room for. *)
(***************************************************************************)
THEOREM KeyboardImplementsKeyQueue == Spec => ImplementsKeyQueue
<1>1. Init => Queue!Init
  <2> SUFFICES ASSUME Init
               PROVE  Queue!Init
    OBVIOUS
  <2>1. KeyboardInv /\ overrun = {}
    BY KeyboardInit DEF Init
  <2>2. ASSUME NEW p \in Processes
        PROVE  KeysOf(p) = <<>>
    <3>1. Waiting(p) = 0
      BY DEF Init, Waiting
    <3>2. KeysOf(p) \in Seq(Characters) /\ Len(KeysOf(p)) = 0
      BY <2>1, <3>1, KeysAreQueue
    <3> QED
      BY <3>2, EmptySeq
  <2> QED
    BY <2>1, <2>2 DEF Init, Queue!Init
<1>2. KeyboardInv /\ KeyboardInv' /\ [Next]_vars => [Queue!Next]_(Queue!vars)
  <2> SUFFICES ASSUME KeyboardInv, KeyboardInv', [Next]_vars
               PROVE  [Queue!Next]_(Queue!vars)
    OBVIOUS
  <2>1. CASE \/ UNCHANGED vars
             \/ LoadSwitch
             \/ \E p \in Processes : Reschedule(p) \/ Exit(p)
    BY <2>1, OthersPreserve, BuffersUnchanged
  <2>2. ASSUME NEW scancode \in Presses,
               classic_keyboard_handle_interrupt(scancode)
        PROVE  [Queue!Next]_(Queue!vars)
    BY <2>2, PressIsQueueStep
  <2>3. CASE KeyReleased
    BY <2>3, OthersPreserve, BuffersUnchanged DEF KeyReleased
  <2>4. CASE isr80h_command2_getkey
    BY <2>4, PopIsQueueStep
  <2> QED
    BY <2>1, <2>2, <2>3, <2>4 DEF Next
<1> QED
  BY <1>1, <1>2, KeyboardInvariant, PTL DEF Spec, ImplementsKeyQueue, Queue!Spec

=============================================================================
