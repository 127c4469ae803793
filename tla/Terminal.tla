------------------------------ MODULE Terminal ------------------------------
(***************************************************************************)
(* The text terminal: ter_* and print of src/kernel.c.                     *)
(*                                                                         *)
(* A cursor of two uint16_t moves over the cells of the video memory.      *)
(* Characters come from the kernel's own messages and from the programs,   *)
(* one at a time (system call 3) or as strings (system call 1), and either *)
(* call is one step: the kernel runs with interrupts disabled.             *)
(***************************************************************************)
EXTENDS Integers, SequencesExt

CONSTANTS VGA_WIDTH, VGA_HEIGHT, \* columns and rows of the screen
          Characters,            \* the characters printed
          Newline, Backspace,    \* '\n' and 0x08, when among them
          Space

ASSUME TerminalAssumption == /\ VGA_WIDTH \in Nat \ {0}
                             /\ VGA_HEIGHT \in Nat \ {0}
                             /\ Space \notin {Newline, Backspace}

Cells == 0..(VGA_WIDTH * VGA_HEIGHT - 1)

(* uint16_t *)
U16(n) == n % 65536

VARIABLES ter_row, ter_column,
          video_memory, \* the cells of the screen
          astray,       \* something was written outside the screen
          page,         \* what the screen ought to show, for the properties
          ordinary      \* nothing out of the ordinary was printed

terminal == <<ter_row, ter_column, video_memory, astray, page, ordinary>>

Terminal == [ter_row |-> ter_row, ter_column |-> ter_column,
             video_memory |-> video_memory, astray |-> astray]

-----------------------------------------------------------------------------
(* The operators take a terminal and return what becomes of it. *)

ter_putchar(t, x, y, c) ==
  LET i == y * VGA_WIDTH + x
  IN  IF i \in Cells
      THEN [t EXCEPT !.video_memory[i] = c]
      ELSE [t EXCEPT !.astray = TRUE]

(* A variant that leaves the cursor behind the last column. *)
NextLineLate(t) == IF t.ter_column > VGA_WIDTH
                   THEN [t EXCEPT !.ter_column = 0, !.ter_row = U16(@ + 1)]
                   ELSE t

(* The end of ter_writechar: a full line continues on the next one. *)
next_line(t) == IF t.ter_column >= VGA_WIDTH
                THEN [t EXCEPT !.ter_column = 0, !.ter_row = U16(@ + 1)]
                ELSE t

write_plain(t, c) ==
  LET put == ter_putchar(t, t.ter_column, t.ter_row, c)
  IN  next_line([put EXCEPT !.ter_column = U16(@ + 1)])

(***************************************************************************)
(* The blank is written like any other character: in the last column it    *)
(* moves the cursor to the next line, and column 0 minus 1 is 65535.       *)
(***************************************************************************)
terminal_backspace(t) ==
  LET up    == IF t.ter_column = 0
               THEN [t EXCEPT !.ter_column = VGA_WIDTH, !.ter_row = U16(@ - 1)]
               ELSE t
      blank == write_plain([up EXCEPT !.ter_column = U16(@ - 1)], Space)
  IN  IF t.ter_row = 0 /\ t.ter_column = 0
      THEN t
      ELSE [blank EXCEPT !.ter_column = U16(@ - 1)]

ter_writechar(t, c) ==
  CASE c = Newline   -> [t EXCEPT !.ter_column = 0, !.ter_row = U16(@ + 1)]
    [] c = Backspace -> terminal_backspace(t)
    [] OTHER         -> write_plain(t, c)

-----------------------------------------------------------------------------
(***************************************************************************)
(* The screen as one long line of cells with a cursor: what the terminal   *)
(* ought to be.                                                            *)
(***************************************************************************)
BlankPage == [at |-> 0, cells |-> [i \in Cells |-> Space]]

Shown(p, c) ==
  CASE c = Newline   -> [p EXCEPT !.at = (@ \div VGA_WIDTH + 1) * VGA_WIDTH]
    [] c = Backspace -> IF p.at = 0
                        THEN p
                        ELSE [at    |-> p.at - 1,
                              cells |-> [p.cells EXCEPT ![p.at - 1] = Space]]
    [] OTHER         -> [at    |-> p.at + 1,
                         cells |-> [p.cells EXCEPT ![p.at] = c]]

(* Out of the ordinary: a backspace at the start of a line, a line too many. *)
Harmless(p, c) ==
  /\ c = Backspace => (p.at % VGA_WIDTH # 0 \/ p.at = 0)
  /\ Shown(p, c).at \in Cells

(* The page after the first n characters of s. *)
PageAfter(s, n) == FoldLeft(Shown, page, SubSeq(s, 1, n))

AllHarmless(s) == \A n \in 1..Len(s) : Harmless(PageAfter(s, n - 1), s[n])

-----------------------------------------------------------------------------

ter_init == /\ ter_row = 0
            /\ ter_column = 0
            /\ video_memory = [i \in Cells |-> Space]
            /\ astray = FALSE
            /\ page = BlankPage
            /\ ordinary = TRUE

(* A string, from the kernel or by system call 1. *)
print(s) ==
  \E t \in {FoldLeft(ter_writechar, Terminal, s)} :
    /\ ter_row' = t.ter_row
    /\ ter_column' = t.ter_column
    /\ video_memory' = t.video_memory
    /\ astray' = t.astray
    /\ ordinary' = (ordinary /\ AllHarmless(s))
    /\ page' = IF ordinary' THEN PageAfter(s, Len(s)) ELSE BlankPage

(* A character, by system call 3. *)
putchar(c) == print(<<c>>)

-----------------------------------------------------------------------------
(* Properties *)

TerminalTypeOK == /\ ter_row \in 0..65535
                  /\ ter_column \in 0..65535
                  /\ video_memory \in [Cells -> Characters \cup {Space}]
                  /\ astray \in BOOLEAN
                  /\ ordinary \in BOOLEAN

(***************************************************************************)
(* What is printed is what is shown, through line ends and backspaces, and *)
(* the cursor is where the next character belongs, as long as no backspace *)
(* comes at the start of a line and the screen is not full                 *)
(* (ter_writechar, terminal_backspace).                                    *)
(***************************************************************************)
ShowsWhatWasPrinted ==
  ordinary => /\ ~astray
              /\ video_memory = page.cells
              /\ ter_row * VGA_WIDTH + ter_column = page.at

=============================================================================
