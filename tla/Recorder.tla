------------------------------ MODULE Recorder ------------------------------
(***************************************************************************)
(* CommandReconstructor (recorder.py) between an attacker's keyboard and a *)
(* shell, with the relay (_pump of proxy.py and peer_gateway.py) that      *)
(* feeds it.                                                               *)
(*                                                                         *)
(* The recorder sees keystrokes going in and terminal output coming back.  *)
(* A byte is a token: a letter, a key, a control character; a prompt that  *)
(* PROMPT_RE matches is one cell, its title and colour sequences included, *)
(* unless a read ends inside one of them.  The shell and its line editor   *)
(* are not part of the repository: they are modelled as the tests' byte    *)
(* scripts have them, and `doubt` collects what a session does that the    *)
(* reconstruction is known not to survive.                                 *)
(***************************************************************************)
EXTENDS Integers, Sequences, SequencesExt, FiniteSetsExt

CONSTANTS
    MaxCommandLen,  \* MAX_COMMAND_LEN
    MaxKeys,        \* bound: keys pressed in a session
    MaxDoubtful     \* bound: keys pressed in one that has become doubtful

ASSUME RecorderAssumption == {MaxCommandLen, MaxKeys, MaxDoubtful} \subseteq Nat

VARIABLES
    rec,        \* the CommandReconstructor
    emitting,   \* commands feed_output returned, not emitted yet
    recorded,   \* commands emitted
    ended,      \* _pump has returned and flush has been emitted
    keys,       \* keystrokes the shell has not read
    screen,     \* output of the shell the relay has not read
    shell,      \* the shell and its line editor
    submitted,  \* history: the lines and secrets the shell took
    pressed,    \* bound: keys pressed
    entered,    \* history: how often Enter was pressed
    doubt       \* history: why the reconstruction may be wrong

relay == <<rec, emitting, recorded, ended>>
remote == <<screen, shell, submitted>>
vars == <<rec, emitting, recorded, ended, keys, screen, shell, submitted,
          pressed, entered, doubt>>

Space == " "
Letter == "l"
Completion == "c"
Editing == {Letter, Space, "erase", "word", "line", "tab", "up"}
Keys == Editing \cup {"enter", "intr"}
Text == {Letter, Space, Completion, "[", "A"}
Cells == Text \cup {"prompt", "other prompt", "ask", "out", "^C", "leak"}
Doubts == {"ahead", "guess", "tail", "blank", "left", "torn"}

-----------------------------------------------------------------------------
(* Lines.                                                                  *)

Strip(s) ==
    LET ink == {i \in DOMAIN s : s[i] # Space}
    IN IF ink = {} THEN <<>> ELSE SubSeq(s, Min(ink), Max(ink))

(* _delete_word: trailing spaces, then everything after the last space.    *)
DeleteWord(s) ==
    LET ink == {i \in DOMAIN s : s[i] # Space}
        word == IF ink = {} THEN 0 ELSE Max(ink)
        spaces == {i \in 1..word : s[i] = Space}
    IN SubSeq(s, 1, IF spaces = {} THEN 0 ELSE Max(spaces))

WithoutLast(s) == SubSeq(s, 1, Len(s) - 1)

NothingPending == <<"none">>

-----------------------------------------------------------------------------
(* From the attacker: feed_input.                                          *)

NewRecorder == [typed |-> <<>>, pending |-> NothingPending, unreliable |-> FALSE,
                escaping |-> FALSE, escape |-> <<>>, line |-> <<>>, col |-> 0]

(* The arrow keys make the typed bytes unreliable.                         *)
EndEscape(r) ==
    [r EXCEPT !.unreliable = @ \/ (Head(r.escape) = "[" /\ Last(r.escape) \in {"A", "B"}),
              !.escaping = FALSE, !.escape = <<>>]

Submit(r) == [r EXCEPT !.pending = Strip(r.typed), !.typed = <<>>]

(* A sequence ends on a byte of the range @..~, in which the "[" that      *)
(* introduces it lies.                                                     *)
FeedByte(r, b) ==
    CASE r.escaping /\ b \in Text \ {Space} ->
           EndEscape([r EXCEPT !.escape = Append(@, b)])
      [] r.escaping /\ b \notin Text \ {Space} -> [r EXCEPT !.escape = Append(@, b)]
      [] ~r.escaping /\ b = "esc" -> [r EXCEPT !.escaping = TRUE, !.escape = <<>>]
      [] ~r.escaping /\ b = "enter" -> Submit(r)
      [] ~r.escaping /\ b = "erase" -> [r EXCEPT !.typed = WithoutLast(@)]
      [] ~r.escaping /\ b = "intr" -> [r EXCEPT !.typed = <<>>, !.pending = NothingPending]
      [] ~r.escaping /\ b = "line" -> [r EXCEPT !.typed = <<>>]
      [] ~r.escaping /\ b = "word" -> [r EXCEPT !.typed = DeleteWord(@)]
      [] ~r.escaping /\ b = "tab" -> [r EXCEPT !.unreliable = TRUE]
      [] ~r.escaping /\ b \in Text -> [r EXCEPT !.typed = Append(@, b)]

BytesOf(key) == IF key = "up" THEN <<"esc", "[", "A">> ELSE <<key>>

FeedInput(r, bytes) == FoldLeft(FeedByte, r, bytes)

-----------------------------------------------------------------------------
(* From the shell: feed_output.                                            *)

(* Mutant: a paste of any length is a command.                             *)
ReportedAnyLength(command) == IF command = <<>> THEN <<>> ELSE <<command>>

Reported(command) ==
    IF command = <<>> \/ Len(command) > MaxCommandLen THEN <<>> ELSE <<command>>

(* _resolve: the echo if a prompt can be taken off the line, or what was   *)
(* typed.                                                                  *)
CommandOf(r) ==
    LET parsed == r.line # <<>> /\ r.line[1] = "prompt"
        echoed == IF parsed THEN Strip(Tail(r.line)) ELSE <<>>
    IN CASE r.pending = NothingPending -> <<>>
         [] r.pending # NothingPending /\ echoed # <<>> -> Reported(echoed)
         [] r.pending # NothingPending /\ echoed = <<>> -> Reported(r.pending)

(* Mutant: a resolved command stays pending, and output lines report it.   *)
NextLineKeepsPending(r) == [r EXCEPT !.line = <<>>, !.col = 0]

NextLine(r) ==
    [r EXCEPT !.line = <<>>, !.col = 0, !.pending = NothingPending,
              !.unreliable = IF r.pending = NothingPending THEN @ ELSE FALSE]

Write(r, cell) ==
    [r EXCEPT !.line = IF r.col < Len(@) THEN [@ EXCEPT ![r.col + 1] = cell]
                                         ELSE Append(@, cell),
              !.col = @ + 1]

(* Mutant: a carriage return clears the line.                              *)
ReturnClears(r) == [r EXCEPT !.col = 0, !.line = <<>>]

Return(r) == [r EXCEPT !.col = 0]

Backspace(r) == [r EXCEPT !.col = Max({0, @ - 1})]

(* strip_ansi drops every escape sequence that is whole in its read: an    *)
(* erased tail stays.                                                      *)
FeedCell(fed, cell) ==
    LET r == fed.rec IN
    CASE cell = "lf" -> [rec |-> NextLine(r), commands |-> fed.commands \o CommandOf(r)]
      [] cell = "cr" -> [fed EXCEPT !.rec = Return(r)]
      [] cell = "bs" -> [fed EXCEPT !.rec = Backspace(r)]
      [] cell = "el" -> fed
      [] cell \in Cells -> [fed EXCEPT !.rec = Write(r, cell)]

FeedOutput(r, chunk) == FoldLeft(FeedCell, [rec |-> r, commands |-> <<>>], chunk)

Flushed(r) == IF r.pending = NothingPending THEN <<>> ELSE Reported(r.pending)

-----------------------------------------------------------------------------
(* The relay.                                                              *)

(* A prompt stands on the attacker's screen and waits for a line.          *)
Ready ==
    /\ ~ended
    /\ shell.mode \in {"prompt", "secret"}
    /\ emitting = <<>>
    /\ \A i \in DOMAIN keys : keys[i] \notin {"enter", "intr"}
    /\ \A i \in DOMAIN screen : screen[i] \notin {"prompt", "other prompt", "ask"}

(* A key that is pressed before its turn; a running command may be         *)
(* interrupted once its own line has been echoed.                          *)
TooSoon(key) == ~Ready /\ ~(key = "intr" /\ rec.pending = NothingPending)

(* attacker_to_shell: record, then pass on.                                *)
Press(key) ==
    /\ ~ended
    /\ pressed < (IF doubt = {} THEN MaxKeys ELSE MaxDoubtful)
    /\ rec' = FeedInput(rec, BytesOf(key))
    /\ keys' = Append(keys, key)
    /\ pressed' = pressed + 1
    /\ entered' = entered + (IF key = "enter" THEN 1 ELSE 0)
    /\ doubt' = doubt \cup (IF TooSoon(key) THEN {"ahead"} ELSE {})
    /\ UNCHANGED <<emitting, recorded, ended, remote>>

(* Where a read may end, outside an escape sequence.  Before a line feed   *)
(* nothing but the line changes, which no keystroke reads: a read that     *)
(* ends there is left out.                                                 *)
ChunkEnds == {n \in DOMAIN screen : n = Len(screen) \/ screen[n] = "lf"}

(* A chunk is recorded, and `rest` is left to read.                        *)
Record(chunk, rest) ==
    /\ ~ended /\ emitting = <<>>
    /\ LET fed == FeedOutput(rec, chunk) IN
         /\ rec' = fed.rec
         /\ emitting' = fed.commands
    /\ screen' = rest
    /\ UNCHANGED <<recorded, ended, keys, shell, submitted, pressed, entered>>

(* shell_to_attacker: a chunk is read; its commands are emitted one by one *)
(* before it is passed on and the next is read.                            *)
ReadOutput(n) ==
    /\ Record(SubSeq(screen, 1, n), SubSeq(screen, n + 1, Len(screen)))
    /\ UNCHANGED doubt

(* The cells that hold escape sequences, in front of their text or behind  *)
(* it, and what each half of a cell that is cut inside one amounts to:     *)
(* strip_ansi knows neither half, and what it leaves of them is text,      *)
(* which is here all behind the cut.                                       *)
Halves(cell) ==
    IF cell \in {"prompt", "other prompt"}
    THEN {[head |-> <<>>, tail |-> <<"leak", cell>>], [head |-> <<cell>>, tail |-> <<"leak">>]}
    ELSE IF cell = "el" THEN {[head |-> <<>>, tail |-> <<"leak">>]}
    ELSE {}

(* A read that ends inside an escape sequence.                             *)
ReadTorn(n) ==
    \E half \in Halves(screen[n]) :
        /\ Record(SubSeq(screen, 1, n - 1) \o half.head,
                  half.tail \o SubSeq(screen, n + 1, Len(screen)))
        /\ doubt' = doubt \cup {"torn"}

EmitCommand ==
    /\ ~ended /\ emitting # <<>>
    /\ recorded' = Append(recorded, Head(emitting))
    /\ emitting' = Tail(emitting)
    /\ UNCHANGED <<rec, ended, keys, remote, pressed, entered, doubt>>

(* _pump returns on the first side that ends, or on the wall clock: the    *)
(* other tasks are cancelled, an emit that has not begun among them.       *)
Teardown ==
    /\ ended' = TRUE
    /\ recorded' = recorded \o Flushed(rec)
    /\ rec' = [rec EXCEPT !.pending = NothingPending]
    /\ emitting' = <<>>
    /\ UNCHANGED <<keys, remote, pressed, entered>>

AttackerLeaves ==
    /\ ~ended
    /\ doubt' = doubt \cup (IF Ready THEN {} ELSE {"left"})
    /\ Teardown

(* The shell's output ends after everything it wrote has been read.        *)
ShellExits ==
    /\ ~ended
    /\ shell.mode = "running" /\ screen = <<>> /\ emitting = <<>>
    /\ UNCHANGED doubt
    /\ Teardown

-----------------------------------------------------------------------------
(* The shell.                                                              *)

NewShell == [mode |-> "prompt", buffer |-> <<>>, prompt |-> "prompt", parsed |-> TRUE,
             recalled |-> FALSE, last |-> <<>>]

Replicate(n, cell) == [i \in 1..n |-> cell]

(* What the line editor sends to turn one line into another; what is left  *)
(* of the longer one is overwritten with blanks, or erased by a sequence.  *)
Redraw(old, new, clearing) ==
    LET kept == Max({n \in 0..Min({Len(old), Len(new)}) : SubSeq(old, 1, n) = SubSeq(new, 1, n)})
        over == Len(old) - Len(new)
    IN Replicate(Len(old) - kept, "bs") \o SubSeq(new, kept + 1, Len(new))
       \o (IF over <= 0 THEN <<>>
           ELSE IF clearing = "blanks" THEN Replicate(over, Space) \o Replicate(over, "bs")
           ELSE <<"el">>)

Edited(key, s) ==
    CASE key \in {Letter, Space} -> Append(s.buffer, key)
      [] key = "erase" -> WithoutLast(s.buffer)
      [] key = "word" -> DeleteWord(s.buffer)
      [] key = "line" -> <<>>
      [] key = "tab" -> IF s.mode = "prompt" THEN Append(s.buffer, Completion) ELSE s.buffer
      [] key = "up" -> IF s.mode = "prompt" /\ s.last # <<>> THEN s.last ELSE s.buffer

(* Echo is only understood behind a prompt that is parsed.                 *)
Guessed(key) == key \in {"tab", "up"} /\ ~(shell.mode = "prompt" /\ shell.parsed)

ShellEdits ==
    /\ keys # <<>> /\ Head(keys) \in Editing
    /\ shell.mode \in {"prompt", "secret"}
    /\ LET key == Head(keys)
           line == Edited(key, shell)
       IN \E clearing \in {"blanks", "sequence"} :
            /\ shell' = [shell EXCEPT !.buffer = line, !.recalled = @ \/ key = "up"]
            /\ screen' = IF shell.mode = "secret" THEN screen
                         ELSE screen \o Redraw(shell.buffer, line, clearing)
            /\ doubt' = doubt
                 \cup (IF Guessed(key) THEN {"guess"} ELSE {})
                 \cup (IF clearing = "sequence" /\ Len(line) < Len(shell.buffer) /\ shell.mode = "prompt"
                       THEN {"tail"} ELSE {})
    /\ keys' = Tail(keys)
    /\ UNCHANGED <<relay, submitted, pressed, entered>>

ShellTakesLine ==
    /\ keys # <<>> /\ Head(keys) = "enter"
    /\ shell.mode \in {"prompt", "secret"}
    /\ LET line == Strip(shell.buffer) IN
         /\ submitted' = submitted \o Reported(line)
         /\ shell' = [shell EXCEPT !.mode = "running", !.buffer = <<>>, !.recalled = FALSE,
                        !.last = IF shell.mode = "prompt" /\ line # <<>> THEN line ELSE @]
         /\ doubt' = doubt \cup (IF line = <<>> /\ shell.recalled THEN {"blank"} ELSE {})
    /\ screen' = screen \o <<"cr", "lf">>
    /\ keys' = Tail(keys)
    /\ UNCHANGED <<relay, pressed, entered>>

PromptAfter(output, prompt) ==
    /\ shell' = [shell EXCEPT !.mode = "prompt", !.buffer = <<>>, !.recalled = FALSE,
                   !.prompt = prompt,
                   !.parsed = prompt = "prompt" /\ output \in {<<>>, <<"bs">>} \cup {<<"out", "cr", "lf">>, <<"^C", "cr", "lf">>}]
    /\ screen' = screen \o output \o <<prompt>>

(* Ctrl-C abandons the line, or the command, and all that was typed ahead. *)
ShellInterrupted ==
    /\ \E i \in DOMAIN keys :
         /\ keys[i] = "intr"
         /\ shell.mode = "running" \/ i = 1
         /\ keys' = SubSeq(keys, i + 1, Len(keys))
    /\ PromptAfter(<<"^C", "cr", "lf">>, shell.prompt)
    /\ UNCHANGED <<relay, submitted, pressed, entered, doubt>>

(* A command prints, may leave the cursor inside a line, and may have      *)
(* changed PS1.                                                            *)
CommandFinishes ==
    /\ shell.mode = "running"
    /\ \E output \in {<<>>, <<"out", "cr", "lf">>, <<"out">>, <<"bs">>},
          prompt \in {shell.prompt, "other prompt"} : PromptAfter(output, prompt)
    /\ UNCHANGED <<relay, keys, submitted, pressed, entered, doubt>>

(* sudo: a question, and an answer that is not echoed.                     *)
CommandAsks ==
    /\ shell.mode = "running"
    /\ shell' = [shell EXCEPT !.mode = "secret"]
    /\ screen' = Append(screen, "ask")
    /\ UNCHANGED <<relay, keys, submitted, pressed, entered, doubt>>

-----------------------------------------------------------------------------
Init ==
    /\ rec = NewRecorder
    /\ emitting = <<>> /\ recorded = <<>> /\ ended = FALSE
    /\ keys = <<>> /\ screen = <<"prompt">>
    /\ shell = NewShell
    /\ submitted = <<>>
    /\ pressed = 0 /\ entered = 0
    /\ doubt = {}

Next ==
    \/ \E key \in Keys : Press(key)
    \/ \E n \in ChunkEnds : ReadOutput(n)
    \/ \E n \in DOMAIN screen : ReadTorn(n)
    \/ EmitCommand
    \/ AttackerLeaves
    \/ ShellExits
    \/ ~ended /\ ShellEdits
    \/ ~ended /\ ShellTakesLine
    \/ ~ended /\ ShellInterrupted
    \/ ~ended /\ CommandFinishes
    \/ ~ended /\ CommandAsks

Spec == Init /\ [][Next]_vars

-----------------------------------------------------------------------------
(* The recorder's state has its types: the column never leaves the line,   *)
(* and neither blanks nor a paste bomb are ever a command.                 *)
RecorderTypeOK ==
    /\ rec.typed \in Seq(Text) /\ rec.line \in Seq(Cells)
    /\ rec.col \in 0..Len(rec.line)
    /\ rec.pending \in Seq(Text) \cup {NothingPending}
    /\ {rec.unreliable, rec.escaping, ended} \subseteq BOOLEAN
    /\ \A c \in ToSet(recorded \o emitting) : c \in Seq(Cells) /\ Len(c) \in 1..MaxCommandLen
    /\ doubt \subseteq Doubts

(* What is on record is what the shell took, in its order: line editing,   *)
(* completion, recall, unechoed answers, other prompts and interrupts      *)
(* included, as long as none of the known doubts arises.  Nothing is       *)
(* missing whenever a prompt waits, nor after the session.                 *)
RecordIsFaithful ==
    doubt = {} =>
        /\ IsPrefix(recorded, submitted)
        /\ Ready \/ ended => recorded = submitted

(* Every command on record answers a press of Enter of its own: whatever   *)
(* is typed ahead, erased or left, the output of a command adds nothing to *)
(* the record and no command is on it twice.                               *)
OneRecordPerEnter ==
    Len(recorded \o emitting) + (IF rec.pending = NothingPending THEN 0 ELSE 1) <= entered
=============================================================================
