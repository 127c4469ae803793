------------------------------- MODULE Shell -------------------------------
(***************************************************************************)
(* The shell and the part of the user library it lives on                  *)
(* (programs/shell/src/shell.c, programs/stdlib/src/benos.c and string.c): *)
(* a line is read key by key, echoed on the terminal, split into words and *)
(* handed to system call 7. Other processes print in between.              *)
(*                                                                         *)
(* What is private to the shell and done between two system calls is one   *)
(* step: nobody sees it half done. A call of benos_malloc may fail, when   *)
(* the memory is full or the allocation slots of the process are used up.  *)
(***************************************************************************)
EXTENDS Terminal

CONSTANTS
  NUL,       \* '\0'
  Enter,     \* the key 13
  Letters,   \* the other keys, but for Space and Backspace
  BUFFER,    \* sizeof(buf) in main and benos_system_run, 1024
  ARG,       \* sizeof(arg) in struct command_arg, 512
  BENOS_MAX_PROGRAM_ALLOCATIONS,
  Banner, Prompt,  \* what main prints
  Strings,         \* what other processes print
  MaxKeys,         \* how many keys are typed
  MaxLines,        \* how many lines are read
  MaxOthers        \* how often other processes print

ASSUME ShellAssumption == /\ BUFFER \in Nat \ {0, 1}
                          /\ ARG \in Nat \ {0}
                          /\ Space \notin Letters
                          /\ NUL \notin Characters

Keys == Letters \cup {Space, Backspace, Enter}

(* A null pointer, where a pointer into an array is an index. *)
NULL == -1

VARIABLES
  pc,
  out, i,   \* the buffer of main and the loop variable of readline
  scommand, \* the array of benos_parse_command, stale between two calls
  sp,       \* the static variable of strtok: an index of scommand
  args,     \* the list of struct command_arg, as the words in it
  slots,    \* allocations of the process: the arguments are never freed
  cut,      \* history: benos_malloc failed while this line was parsed
  stale,    \*          and while the line before it was
  keys,     \*          the keys of this line
  start,    \*          the cell the cursor was at when it began
  alone,    \*          nobody else printed since
  typed, lines, others \* how often each happened

shell == <<pc, out, i, scommand, sp, args, slots>>
history == <<cut, stale, keys, start, alone, typed, lines, others>>
vars == <<terminal, shell, history>>

-----------------------------------------------------------------------------
(* string.c, on arrays that are functions on 0..n. *)

(* The string at index k of an array. *)
StringAt(a, k) ==
  LET end == Min({j \in DOMAIN a : j >= k /\ a[j] = NUL})
  IN  [j \in 1..(end - k) |-> a[k + j - 1]]

Clip(text, count) == SubSeq(text, 1, Min({Len(text), count - 1}))

strncpy(dest, text, count) ==
  LET n == Len(Clip(text, count))
  IN  [j \in DOMAIN dest |-> CASE j < n -> text[j + 1]
                               [] j = n -> NUL
                               [] OTHER -> dest[j]]

(* The word at index at of s was found, and the next one is looked for     *)
(* behind it.                                                              *)
Found(s, at) ==
  LET end == Min({j \in DOMAIN s : j > at /\ s[j] \in {Space, NUL}})
  IN  IF s[end] = NUL
      THEN [token |-> at, sp |-> end, s |-> s]
      ELSE [token |-> at, sp |-> end + 1, s |-> [s EXCEPT ![end] = NUL]]

(* Variant: the position stays behind when the words are used up. *)
StrtokStays(s, str) ==
  LET from == IF sp = NULL THEN str ELSE sp
      at   == Min({j \in DOMAIN s : j >= from /\ s[j] # Space})
  IN  IF s[at] = NUL THEN [token |-> NULL, sp |-> at, s |-> s]
                     ELSE Found(s, at)

(***************************************************************************)
(* strtok(str, " "): it begins at str only when no earlier call left a     *)
(* position behind.                                                        *)
(***************************************************************************)
strtok(s, str) ==
  LET from == IF sp = NULL THEN str ELSE sp
      at   == Min({j \in DOMAIN s : j >= from /\ s[j] # Space})
  IN  IF s[at] = NUL THEN [token |-> NULL, sp |-> NULL, s |-> s]
                     ELSE Found(s, at)

-----------------------------------------------------------------------------

Init == /\ ter_init
        /\ pc = "boot"
        /\ out = [j \in 0..(BUFFER - 1) |-> NUL]
        /\ scommand = [j \in 0..BUFFER |-> NUL]
        /\ i = 0
        /\ sp = NULL
        /\ args = <<>>
        /\ slots = 0
        /\ cut = FALSE /\ stale = FALSE
        /\ keys = <<>> /\ start = 0 /\ alone = TRUE
        /\ typed = 0 /\ lines = 0 /\ others = 0

main == /\ pc = "boot"
        /\ print(Banner)
        /\ pc' = "prompt"
        /\ UNCHANGED <<out, i, scommand, sp, args, slots, history>>

(* print("benos> "), and readline starts. *)
benos_prompt == /\ pc = "prompt"
                /\ lines < MaxLines
                /\ print(Prompt)
                /\ pc' = "read"
                /\ i' = 0
                /\ keys' = <<>>
                /\ start' = ter_row' * VGA_WIDTH + ter_column'
                /\ alone' = TRUE
                /\ lines' = lines + 1
                /\ UNCHANGED <<out, scommand, sp, args, slots, cut, stale,
                               typed, others>>

-----------------------------------------------------------------------------
(* benos_terminal_readline(out, BUFFER, true) *)

(* benos_getkeyblock returned key. *)
Typed(key) == /\ pc = "read"
              /\ i < BUFFER - 1
              /\ typed < MaxKeys
              /\ typed' = typed + 1
              /\ UNCHANGED <<scommand, sp, args, slots, cut, stale, start,
                             alone, lines, others>>

(* Variants: i -= 1 for a backspace; one on an empty line steps back, too.  *)
EraseOneLess == /\ Typed(Backspace)
                /\ i >= 1
                /\ putchar(Backspace)
                /\ out' = [out EXCEPT ![i - 1] = NUL]
                /\ i' = i
                /\ keys' = Append(keys, Backspace)
                /\ UNCHANGED pc

EraseAnywhere == /\ Typed(Backspace)
                 /\ putchar(Backspace)
                 /\ out' = [out EXCEPT ![i - 1] = NUL]
                 /\ i' = i - 1
                 /\ keys' = Append(keys, Backspace)
                 /\ UNCHANGED pc

ReadBackspace == /\ Typed(Backspace)
                 /\ i >= 1
                 /\ putchar(Backspace)
                 /\ out' = [out EXCEPT ![i - 1] = NUL]
                 /\ i' = i - 1
                 /\ keys' = Append(keys, Backspace)
                 /\ UNCHANGED pc

(* A backspace on an empty line is echoed and kept like any other key. *)
ReadKey(key) == /\ key # Enter
                /\ key = Backspace => i = 0
                /\ Typed(key)
                /\ putchar(key)
                /\ out' = [out EXCEPT ![i] = key]
                /\ i' = i + 1
                /\ keys' = Append(keys, key)
                /\ UNCHANGED pc

ReadEnter == /\ Typed(Enter)
             /\ out' = [out EXCEPT ![i] = NUL]
             /\ pc' = "line"
             /\ UNCHANGED <<terminal, i, keys>>

(* A full line ends without Enter. *)
ReadFull == /\ pc = "read"
            /\ i = BUFFER - 1
            /\ out' = [out EXCEPT ![i] = NUL]
            /\ pc' = "line"
            /\ UNCHANGED <<terminal, i, scommand, sp, args, slots, history>>

-----------------------------------------------------------------------------
(* benos_system_run(out) *)

(* print("\n"), and the copies of the command up to the first strtok. *)
benos_system_run == /\ pc = "line"
                    /\ print(<<Newline>>)
                    /\ scommand' = strncpy(scommand,
                                           Clip(StringAt(out, 0), BUFFER),
                                           BUFFER + 1)
                    /\ args' = <<>>
                    /\ stale' = cut
                    /\ cut' = FALSE
                    /\ pc' = "parse"
                    /\ UNCHANGED <<out, i, sp, slots, keys, start, alone,
                                   typed, lines, others>>

(* The next call of strtok in benos_parse_command, the first with the      *)
(* array and the others with NULL.                                         *)
Token == strtok(scommand, IF args = <<>> THEN 0 ELSE NULL)

ParseWord == /\ pc = "parse"
             /\ Token.token # NULL
             /\ slots < BENOS_MAX_PROGRAM_ALLOCATIONS
             /\ slots' = slots + 1
             /\ sp' = Token.sp
             /\ scommand' = Token.s
             /\ args' = Append(args, Clip(StringAt(Token.s, Token.token), ARG))
             /\ UNCHANGED <<terminal, pc, out, i, history>>

(* benos_malloc failed: the rest of the line is left where it is. *)
ParseCut == /\ pc = "parse"
            /\ Token.token # NULL
            /\ sp' = Token.sp
            /\ scommand' = Token.s
            /\ cut' = TRUE
            /\ pc' = "system"
            /\ UNCHANGED <<terminal, out, i, args, slots, stale, keys,
                           start, alone, typed, lines, others>>

ParseEnd == /\ pc = "parse"
            /\ Token.token = NULL
            /\ sp' = Token.sp
            /\ scommand' = Token.s
            /\ pc' = "system"
            /\ UNCHANGED <<terminal, out, i, args, slots, history>>

(***************************************************************************)
(* System call 7 with the words, if there is one, and print("\n"). What    *)
(* the call does is the subject of other modules; it returns to the shell  *)
(* whether the program is started or not.                                  *)
(***************************************************************************)
benos_system == /\ pc = "system"
                /\ print(<<Newline>>)
                /\ pc' = "prompt"
                /\ UNCHANGED <<out, i, scommand, sp, args, slots, history>>

(* Another process, the one the shell started among them, prints. *)
OthersPrint == /\ others < MaxOthers
               /\ others' = others + 1
               /\ alone' = FALSE
               /\ \E s \in Strings : print(s)
               /\ UNCHANGED <<shell, cut, stale, keys, start, typed, lines>>

Next == \/ main
        \/ benos_prompt
        \/ ReadBackspace
        \/ \E key \in Keys : ReadKey(key)
        \/ ReadEnter
        \/ ReadFull
        \/ benos_system_run
        \/ ParseWord
        \/ ParseCut
        \/ ParseEnd
        \/ benos_system
        \/ OthersPrint

Spec == Init /\ [][Next]_vars

-----------------------------------------------------------------------------
(* Properties *)

(* The shell stays inside its arrays and its allocation slots. *)
TypeOK == /\ TerminalTypeOK
          /\ out \in [0..(BUFFER - 1) -> Characters \cup {NUL}]
          /\ scommand \in [0..BUFFER -> Characters \cup {NUL}]
          /\ i \in 0..(BUFFER - 1)
          /\ sp \in {NULL} \cup (0..BUFFER)
          /\ slots \in 0..BENOS_MAX_PROGRAM_ALLOCATIONS
          /\ \A n \in DOMAIN args : Len(args[n]) \in 1..(ARG - 1)
          /\ pc \in {"boot", "prompt", "read", "line", "parse", "system"}

(* The line the keys ought to give. *)
Edit(text, key) == IF key = Backspace
                   THEN SubSeq(text, 1, Len(text) - 1)
                   ELSE Append(text, key)

Edited == FoldLeft(Edit, <<>>, keys)

(* A backspace came when there was nothing to erase. *)
ErasedNothing == \E n \in DOMAIN keys :
                   /\ keys[n] = Backspace
                   /\ FoldLeft(Edit, <<>>, SubSeq(keys, 1, n - 1)) = <<>>

Line == StringAt(out, 0)

(***************************************************************************)
(* The line the shell runs is the line as it was edited, and is what the   *)
(* user sees behind the prompt with the cursor after it - unless a         *)
(* backspace was typed on an empty line, which erases the prompt and       *)
(* becomes a character of the line (benos_terminal_readline), or, for the  *)
(* screen, somebody else printed or the terminal itself lost track.        *)
(***************************************************************************)
LineIsWhatIsSeen ==
  pc = "line" /\ ~ErasedNothing =>
    /\ Line = Edited
    /\ ordinary /\ alone =>
         /\ ter_row * VGA_WIDTH + ter_column = start + Len(Line)
         /\ \A n \in DOMAIN Line : video_memory[start + n - 1] = Line[n]

(* The words of a text: each Space begins another one, maybe an empty one. *)
AddKey(words, key) ==
  IF key = Space THEN Append(words, <<>>)
                 ELSE [words EXCEPT ![Len(words)] = Append(@, key)]

Words(text) == SelectSeq(FoldLeft(AddKey, << <<>> >>, text),
                         LAMBDA word : word # <<>>)

(***************************************************************************)
(* System call 7 is given the words of the line, each as long as an        *)
(* argument can be; when benos_malloc fails, the words before that one and *)
(* no others, so that a shortened command may be run. Only the line after  *)
(* such a failure is read from the wrong place, the one strtok was left    *)
(* at, and the line after that is read correctly again                     *)
(* (benos_parse_command, strtok, benos_system_run).                        *)
(***************************************************************************)
WordsReachTheSystem ==
  pc = "system" /\ ~stale =>
    LET words == Words(Line)
        given == IF cut THEN Len(args) ELSE Len(words)
    IN  /\ Len(args) = given
        /\ cut => given < Len(words)
        /\ \A n \in 1..given : args[n] = Clip(words[n], ARG)

=============================================================================
